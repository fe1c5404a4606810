------------------------- MODULE SessionPermissions -------------------------
(***************************************************************************)
(* The permissions of a tree of sessions (conductor: service/env.rs,       *)
(* service/work.rs, service/turn.rs).  A meta holds one layer; what a      *)
(* session may do is worked out along its parents, and copied into the     *)
(* session when it is built from disk.  A switch of the profile and an     *)
(* edit change a meta and drop sessions from memory, so that the next      *)
(* access builds them anew; a session that generates is with its thread    *)
(* and not in the table.  An edit reads in one command and saves in        *)
(* another, with a guest booted in between.                                *)
(***************************************************************************)
EXTENDS Permission, Sequences

CONSTANTS
  Seats,       \* sessions of the agents of the work
  Proxied,     \* the work was opened by a proxy
  Given,       \* layers a user gives
  Quick,       \* sessions whose profile the user switches
  Switches,    \* the profiles they are switched to
  Overlapped   \* commands come between the two of an edit

VARIABLES
  layer,       \* meta.sandbox of each session
  at,          \* "out", "in" (the table) or "running" (with a thread)
  built,       \* the metas a session in memory was built from (kept at the first while out)
  edit         \* an edit between its commands: [s, saves]

vars == <<layer, at, built, edit>>

Work == "work"
Root == IF Proxied THEN "proxy" ELSE Work
Sessions == Seats \cup {Work, Root}
Parent(s) == IF s \in Seats THEN Work ELSE "proxy"
SubtreeAlone(s) == {s}  \* mutant: the children stay in memory
Subtree(s) == CASE s \in Seats -> {s} [] s = Work -> Seats \cup {Work} [] OTHER -> Sessions

NoEdit == [s |-> "nobody", saves |-> {}]

-----------------------------------------------------------------------------
\* permissions_for: the defaults, the ceiling of the root, every narrowing below it.
Chain(s) == IF s = Root THEN <<s>>
            ELSE IF s = Work \/ ~Proxied THEN <<Root, s>>
            ELSE <<Root, Work, s>>

\* The permission after the first i of a chain, and whether all of them were accepted.
Along(metas, chain) ==
  LET upto[i \in 1..Len(chain)] ==
        LET l == metas[chain[i]]
            base == IF i = 1 THEN Defaults(Workspace) ELSE upto[i - 1].perm
            good == IF i = 1 THEN AcceptsRoot(base, l)
                    ELSE upto[i - 1].good /\ AcceptsNarrowing(base, l)
        IN [good |-> good,
            perm |-> IF ~good THEN base
                     ELSE IF i = 1 THEN AppliedRoot(base, l) ELSE AppliedNarrowing(base, l)]
  IN upto[Len(chain)]

PermissionsFor(s) == Along(layer, Chain(s))

\* Whose permission is in the sandboxes of a session: its own, or that of its seats.
Holders(s) == IF s = Work /\ Seats # {} THEN Seats ELSE {s}

Current(s) == [h \in Holders(s) |-> Along(layer, Chain(h))]
Held(s) == [h \in Holders(s) |-> Along(built[s], Chain(h))]

-----------------------------------------------------------------------------
TypeOK ==
  /\ DOMAIN layer = Sessions
  /\ at \in [Sessions -> {"out", "in", "running"}]
  /\ edit.s \in Sessions \cup {"nobody"}

Plain == [s \in Sessions |-> EmptyLayer]

Init ==
  /\ layer = Plain
  /\ at = [s \in Sessions |-> "out"]
  /\ built = [s \in Sessions |-> Plain]
  /\ edit = NoEdit

Alone == Overlapped \/ edit = NoEdit

Leave(ss) ==
  /\ at' = [s \in Sessions |-> IF s \in ss THEN "out" ELSE at[s]]
  /\ built' = [s \in Sessions |-> IF s \in ss THEN Plain ELSE built[s]]

\* A session is built from disk, if its permissions can be worked out.
Open(s) ==
  /\ Alone
  /\ at[s] = "out"
  /\ \A h \in Holders(s) : PermissionsFor(h).good
  /\ at' = [at EXCEPT ![s] = "in"]
  /\ built' = [built EXCEPT ![s] = layer]
  /\ UNCHANGED <<layer, edit>>

Generate(s) ==
  /\ Alone
  /\ at[s] = "in"
  /\ at' = [at EXCEPT ![s] = "running"]
  /\ UNCHANGED <<layer, built, edit>>

\* The thread hands the session back, or has lost it.
Finish(s) ==
  /\ Alone
  /\ at[s] = "running"
  /\ \/ at' = [at EXCEPT ![s] = "in"] /\ UNCHANGED built
     \/ Leave({s})
  /\ UNCHANGED <<layer, edit>>

\* What is in the table is dropped; what a thread has is not there.
Drop(ss) == Leave({s \in ss : at[s] = "in"})

Idle(ss) == \A s \in ss : at[s] # "running"

\* Whether a layer may be given to a session: a root's on top of what holds now.
Accepted(s, l) ==
  IF s = Root THEN PermissionsFor(s).good /\ AcceptsRoot(PermissionsFor(s).perm, l)
  ELSE PermissionsFor(Parent(s)).good /\ AcceptsNarrowing(PermissionsFor(Parent(s)).perm, l)

\* The profile is switched: reach, decisions and tools of the layer are forgotten.
Switched(l, profile) ==
  [l EXCEPT !.profile = profile, !.reach = Keep,
            !.decisions = [k \in Slots |-> Keep], !.tools = [t \in Tools |-> Keep]]

SwitchProfile(s, profile) ==
  /\ Alone
  /\ s \in Quick
  /\ Idle(Sessions)
  /\ LET l == Switched(layer[s], profile)
     IN /\ Accepted(s, l)
        /\ layer' = [layer EXCEPT ![s] = l]
  /\ Drop(Subtree(s))
  /\ UNCHANGED edit

\* An edit, with a layer or without one: all metas that it will save are read here.
\* A seat's edit is written to the work's roster too, the work's to all its seats.
Saved(s) == IF s = Work THEN Subtree(s) ELSE {s, Work}

PrepareEdit(s, l) ==
  /\ edit = NoEdit
  /\ s # "proxy"
  /\ Idle(IF l = Keep THEN Subtree(s) ELSE Sessions)
  /\ l # Keep => Accepted(s, l)
  /\ edit' = [s |-> s, saves |-> [x \in Saved(s) |-> IF x = s /\ l # Keep THEN l ELSE layer[x]]]
  /\ UNCHANGED <<layer, at, built>>

CommitEdit ==
  /\ edit # NoEdit
  /\ layer' = [s \in Sessions |-> IF s \in DOMAIN edit.saves THEN edit.saves[s] ELSE layer[s]]
  /\ Drop(DOMAIN edit.saves)
  /\ edit' = NoEdit

\* The guest of an edit does not boot: nothing has been saved.
EditFails ==
  /\ edit # NoEdit
  /\ edit' = NoEdit
  /\ UNCHANGED <<layer, at, built>>

Restart ==
  /\ Leave(Sessions)
  /\ edit' = NoEdit
  /\ UNCHANGED layer

Next ==
  \/ \E s \in Sessions : Open(s) \/ Generate(s) \/ Finish(s)
  \/ \E s \in Sessions, profile \in Switches : SwitchProfile(s, profile)
  \/ \E s \in Sessions, l \in Given \cup {Keep} : PrepareEdit(s, l)
  \/ CommitEdit \/ EditFails \/ Restart

Spec == Init /\ [][Next]_vars

-----------------------------------------------------------------------------
\* No session may do what its parent may not, nor what its own layer leaves out, whatever
\* was given to either and in whatever order: a narrowing outlives the changes above it.
Within(scope, given) ==
  given # Keep => \A path \in Paths : Allows(scope, path) => Allows(given, path)

ChildrenAreNarrower ==
  \A s \in Sessions \ {Root} :
    LET own == PermissionsFor(s)
    IN own.good => /\ NoWider(own.perm, PermissionsFor(Parent(s)).perm)
                   /\ Within(own.perm.read, layer[s].read)
                   /\ Within(own.perm.write, layer[s].write)

\* A session in memory, in the table or with a thread, works with what the metas say now.
HeldIsCurrent == \A s \in Sessions : at[s] # "out" => Held(s) = Current(s)

\* Every session can be built: none is left with a layer that its parents refuse.
AllCanBeBuilt == \A s \in Sessions : PermissionsFor(s).good
=============================================================================
