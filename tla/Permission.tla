----------------------------- MODULE Permission -----------------------------
(***************************************************************************)
(* The pure rules of permissions (permission/domain/permission.rs): four   *)
(* profiles, what a permission lets a call reach and decides about it, the *)
(* scopes of the shared area, and the two ways a layer is put on top of a  *)
(* permission: the ceiling of a root and the narrowing of a child.         *)
(*                                                                         *)
(* Paths of the shared area are abstract: Under(p, q) says that p is q or  *)
(* lies below it; the whole area is a path above all others.               *)
(* Decisions are ordered as in the code: 0 deny, 1 ask, 2 allow.           *)
(***************************************************************************)
EXTENDS Naturals

CONSTANTS
  Paths,         \* of the shared area
  Under(_, _),   \* a path is another one or below it
  Tools,     \* names of tools
  Keep       \* an optional field of a layer that is not given

Deny == 0
Ask == 1
Allow == 2
Decision == {Deny, Ask, Allow}
Reach == {"private", "shared-read", "shared-write", "module-read", "module-write",
          "host-read", "network"}
Effects == {"read", "write", "exec", "none"}
CallScopes == {"none", "sandbox", "external"}

\* The fields of `Decisions`, one per kind of call.
Slots == {"read", "write", "exec_sandbox", "exec_external"}

-----------------------------------------------------------------------------
\* The profiles, from narrow to wide, by their rank.
View == 0
Workspace == 1
External == 2
AllReach == 3
Profiles == View..AllReach

Inside == {"private", "shared-read", "shared-write", "module-read", "module-write"}

SpecReach(profile) ==
  CASE profile = View -> {"private", "shared-read", "module-read"}
    [] profile = Workspace -> Inside
    [] OTHER -> Reach

SpecDecisions(profile) ==
  [k \in Slots |->
     CASE k = "read" -> Allow
       [] k \in {"write", "exec_sandbox"} -> IF profile = View THEN Deny ELSE Allow
       [] OTHER -> CASE profile = AllReach -> Allow
                     [] profile = External -> Ask
                     [] OTHER -> Deny]

\* What a tool reaches if its declaration does not say.
DefaultReach(effect) ==
  CASE effect = "read" -> {"private", "shared-read", "module-read"}
    [] effect = "none" -> {}
    [] OTHER -> {"private"}

\* What a call asks for by its scope.
ScopeReach(scope) ==
  CASE scope = "sandbox" -> {"private"}
    [] scope = "external" -> {"private", "shared-read", "module-read", "host-read", "network"}
    [] OTHER -> {}

-----------------------------------------------------------------------------
\* Scopes of the shared area.  No entries is not the same as no access.
All == [kind |-> "all", paths |-> {}]
Nothing == [kind |-> "none", paths |-> {}]
Only(ps) == [kind |-> "paths", paths |-> ps]
ScopeModes == {All, Nothing} \cup {Only(ps) : ps \in SUBSET Paths}

Hit(entries, p) == \E e \in entries : Under(p, e)
Allows(s, p) == s.kind = "all" \/ (s.kind = "paths" /\ Hit(s.paths, p))

Overlaps(p, q) == Under(p, q) \/ Under(q, p)
NarrowerWide(p, q) == IF Under(p, q) THEN q ELSE p  \* mutant: the wider of the two
Narrower(p, q) == IF Under(p, q) THEN p ELSE q
Common(ps, qs) == {Narrower(w[1], w[2]) : w \in {v \in ps \X qs : Overlaps(v[1], v[2])}}

Intersect(s, t) ==
  CASE "none" \in {s.kind, t.kind} -> Nothing
    [] s.kind = "all" -> t
    [] t.kind = "all" -> s
    [] OTHER -> IF Common(s.paths, t.paths) = {} THEN Nothing
                ELSE Only(Common(s.paths, t.paths))

IsSubsetOf(s, t) ==
  \/ t.kind = "all"
  \/ s.kind = "none"
  \/ /\ s.kind = "paths" /\ t.kind = "paths"
     /\ \A p \in s.paths : Hit(t.paths, p)

-----------------------------------------------------------------------------
Permissions ==
  [profile : Profiles, reach : SUBSET Reach, decisions : [Slots -> Decision],
   read : ScopeModes, write : ScopeModes, deny : SUBSET Paths,
   tools : [Tools -> Decision \cup {Keep}]]

Layers ==
  [profile : Profiles \cup {Keep}, reach : (SUBSET Reach) \cup {Keep},
   read : ScopeModes \cup {Keep}, write : ScopeModes \cup {Keep}, deny : SUBSET Paths,
   decisions : [Slots -> Decision \cup {Keep}], tools : [Tools -> Decision \cup {Keep}]]

EmptyLayer ==
  [profile |-> Keep, reach |-> Keep, read |-> Keep, write |-> Keep, deny |-> {},
   decisions |-> [k \in Slots |-> Keep], tools |-> [t \in Tools |-> Keep]]

\* The whole shared area is given in the defaults.
Defaults(profile) ==
  [profile |-> profile, reach |-> SpecReach(profile), decisions |-> SpecDecisions(profile),
   read |-> All, write |-> All, deny |-> {}, tools |-> [t \in Tools |-> Keep]]

Or(given, otherwise) == IF given = Keep THEN otherwise ELSE given
Stricter(d, e) == IF d <= e THEN d ELSE e

ReadOk(p, path) == ~Hit(p.deny, path) /\ Allows(p.read, path)
WriteOk(p, path) == ~Hit(p.deny, path) /\ Allows(p.write, path)

\* Which of the decisions a call falls under.
Slot(effect, scope) ==
  CASE effect \in {"read", "write"} -> effect
    [] scope = "external" -> "exec_external"
    [] OTHER -> "exec_sandbox"

\* What was decided about the tool comes first; what a tool declares as its default
\* has no say.
DecisionFor(p, tool, effect, scope) ==
  IF p.tools[tool] # Keep THEN p.tools[tool]
  ELSE IF effect = "none" THEN Allow
  ELSE p.decisions[Slot(effect, scope)]

\* Whether a tool is on the face of an agent at all.
Offers(p, tool, effect, max, scoped) ==
  \/ effect = "none"
  \/ /\ p.reach \cap max # {}
     /\ \E scope \in (IF scoped THEN {"sandbox", "external"} ELSE {"none"}) :
           DecisionFor(p, tool, effect, scope) # Deny

\* What a call may reach; a request is refused or granted as a whole.
Grants(p, max, asked) == asked = Keep \/ asked \subseteq p.reach \cap max
Granted(p, max, asked) == p.reach \cap max \cap (IF asked = Keep THEN Reach ELSE asked)

\* How a call is judged before it runs: a tool without an effect is never asked
\* about; the scope of a call is the request of a tool that has scopes.
Verdict(p, tool, effect, max, scope) ==
  LET asked == IF scope = "none" THEN Keep ELSE ScopeReach(scope)
  IN IF effect = "none" THEN "allow"
     ELSE IF ~Grants(p, max, asked) THEN "wrong"
     ELSE CASE DecisionFor(p, tool, effect, scope) = Deny -> "deny"
            [] DecisionFor(p, tool, effect, scope) = Ask -> "ask"
            [] OTHER -> "allow"

-----------------------------------------------------------------------------
\* The ceiling of a root: any profile, within it a smaller reach, and the rest as given.
RootReach(p, l) == IF l.profile = Keep THEN p.reach ELSE SpecReach(l.profile)
RootDecisions(p, l) == IF l.profile = Keep THEN p.decisions ELSE SpecDecisions(l.profile)

AcceptsRoot(p, l) == l.reach # Keep => l.reach \subseteq RootReach(p, l)

AppliedRoot(p, l) ==
  [profile |-> Or(l.profile, p.profile),
   reach |-> Or(l.reach, RootReach(p, l)),
   decisions |-> [k \in Slots |-> Or(l.decisions[k], RootDecisions(p, l)[k])],
   read |-> Or(l.read, p.read),
   write |-> Or(l.write, p.write),
   deny |-> p.deny \cup l.deny,
   tools |-> [t \in Tools |-> Or(l.tools[t], p.tools[t])]]

\* The narrowing of a child: nothing wider than the parent.
ChildReach(p, l) == IF l.profile = Keep THEN p.reach ELSE p.reach \cap SpecReach(l.profile)
ChildDecisionsLoose(p, l) ==  \* mutant: a profile of the child replaces the decisions
  [k \in Slots |-> IF l.profile = Keep THEN p.decisions[k] ELSE SpecDecisions(l.profile)[k]]
ChildDecisions(p, l) ==
  [k \in Slots |-> IF l.profile = Keep THEN p.decisions[k]
                   ELSE Stricter(p.decisions[k], SpecDecisions(l.profile)[k])]

AcceptsNarrowing(p, l) ==
  /\ \A t \in Tools : l.tools[t] = Keep
  /\ l.profile # Keep => l.profile <= p.profile
  /\ l.reach # Keep => l.reach \subseteq ChildReach(p, l)
  /\ l.read # Keep => IsSubsetOf(l.read, p.read)
  /\ l.write # Keep => IsSubsetOf(l.write, p.write)
  /\ \A k \in Slots : l.decisions[k] # Keep => l.decisions[k] <= ChildDecisions(p, l)[k]

NarrowedTo(scope, given) == IF given = Keep THEN scope ELSE Intersect(scope, given)

AppliedNarrowing(p, l) ==
  [profile |-> Or(l.profile, p.profile),
   reach |-> Or(l.reach, ChildReach(p, l)),
   decisions |-> [k \in Slots |-> Or(l.decisions[k], ChildDecisions(p, l)[k])],
   read |-> NarrowedTo(p.read, l.read),
   write |-> NarrowedTo(p.write, l.write),
   deny |-> p.deny \cup l.deny,
   tools |-> p.tools]

-----------------------------------------------------------------------------
\* c lets through nothing that p does not: no call, no reach, no path.
NoWider(c, p) ==
  /\ c.profile <= p.profile
  /\ c.reach \subseteq p.reach
  /\ \A tool \in Tools, effect \in Effects, scope \in CallScopes :
        DecisionFor(c, tool, effect, scope) <= DecisionFor(p, tool, effect, scope)
  /\ \A path \in Paths : (ReadOk(c, path) => ReadOk(p, path)) /\ (WriteOk(c, path) => WriteOk(p, path))
=============================================================================
