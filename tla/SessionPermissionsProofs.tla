---------------------- MODULE SessionPermissionsProofs ----------------------
(***************************************************************************)
(* Theorems about the permissions of a tree of sessions, for any seats,    *)
(* paths, tools and layers: a session in memory works with what the metas  *)
(* say now, and none may do what its parent may not.                       *)
(***************************************************************************)
EXTENDS SessionPermissions, TLAPS

(* What the theorems need of the constants: below is transitive, a user    *)
(* gives layers and profiles, the names of the work's own sessions are not *)
(* those of its seats, nothing comes between the two commands of an edit,  *)
(* and it is not the profile of a seat that is switched.                   *)
Sensible ==
  /\ \A p, q, r \in Paths : Under(p, q) /\ Under(q, r) => Under(p, r)
  /\ Given \subseteq Layers /\ Switches \subseteq Profiles
  /\ Seats \cap {"work", "proxy", "nobody"} = {}
  /\ Overlapped = FALSE
  /\ Quick \cap Seats = {}

-----------------------------------------------------------------------------
(* The fields of a permission and of a layer.                              *)

(* A permission in its fields.                                             *)
LEMMA PermissionFields ==
  ASSUME NEW p \in Permissions
  PROVE  /\ p.profile \in Profiles /\ p.reach \in SUBSET Reach
         /\ p.decisions \in [Slots -> Decision]
         /\ p.read \in ScopeModes /\ p.write \in ScopeModes
         /\ p.deny \in SUBSET Paths /\ p.tools \in [Tools -> Decision \cup {Keep}]
  BY DEF Permissions

(* A layer in its fields.                                                  *)
LEMMA LayerFields ==
  ASSUME NEW l \in Layers
  PROVE  /\ l.profile \in Profiles \cup {Keep} /\ l.reach \in (SUBSET Reach) \cup {Keep}
         /\ l.decisions \in [Slots -> Decision \cup {Keep}]
         /\ l.read \in ScopeModes \cup {Keep} /\ l.write \in ScopeModes \cup {Keep}
         /\ l.deny \in SUBSET Paths /\ l.tools \in [Tools -> Decision \cup {Keep}]
  BY DEF Layers

(* A profile stands for a reach and for decisions.                         *)
LEMMA ProfileParts ==
  ASSUME NEW profile
  PROVE  SpecReach(profile) \in SUBSET Reach /\ SpecDecisions(profile) \in [Slots -> Decision]
<1>1. SpecReach(profile) \in SUBSET Reach  BY DEF SpecReach, Reach, Inside
<1>2. ASSUME NEW k \in Slots
      PROVE  (CASE k = "read" -> Allow
                [] k \in {"write", "exec_sandbox"} -> IF profile = View THEN Deny ELSE Allow
                [] OTHER -> CASE profile = AllReach -> Allow
                              [] profile = External -> Ask
                              [] OTHER -> Deny) \in Decision
  BY DEF Slots, Decision, Allow, Ask, Deny, AllReach, External
<1> QED BY <1>1, <1>2 DEF SpecDecisions

(* A scope is one of three.                                                *)
LEMMA ScopeFields ==
  ASSUME NEW s \in ScopeModes
  PROVE  /\ s.kind \in {"all", "none", "paths"} /\ s.paths \in SUBSET Paths
         /\ s.kind = "all" <=> s = All
         /\ s.kind = "none" <=> s = Nothing
         /\ s.kind = "paths" <=> s = Only(s.paths)
  BY DEF ScopeModes, All, Nothing, Only

(* The narrower of two scopes, by their kinds.                             *)
LEMMA IntersectCases ==
  ASSUME NEW s \in ScopeModes, NEW t \in ScopeModes
  PROVE  /\ s = Nothing \/ t = Nothing => Intersect(s, t) = Nothing
         /\ s = All => Intersect(s, t) = t
         /\ t = All => Intersect(s, t) = s
         /\ s.kind = "paths" /\ t.kind = "paths" =>
              Intersect(s, t) = IF Common(s.paths, t.paths) = {} THEN Nothing
                                ELSE Only(Common(s.paths, t.paths))
<1>1. CASE s = Nothing \/ t = Nothing
  BY <1>1, ScopeFields DEF Intersect, Nothing, All
<1>2. CASE s = All /\ t # Nothing
  BY <1>2, ScopeFields DEF Intersect, Nothing, All
<1>3. CASE t = All /\ s # Nothing /\ s # All
  BY <1>3, ScopeFields DEF Intersect, Nothing, All
<1>4. CASE s.kind = "paths" /\ t.kind = "paths"
  BY <1>4 DEF Intersect, Nothing, All
<1> QED BY <1>1, <1>2, <1>3, <1>4, ScopeFields

(* It is a scope.                                                          *)
LEMMA IntersectType ==
  ASSUME NEW s \in ScopeModes, NEW t \in ScopeModes
  PROVE  Intersect(s, t) \in ScopeModes
<1>1. Common(s.paths, t.paths) \in SUBSET Paths  BY ScopeFields DEF Common, Narrower
<1>2. Nothing \in ScopeModes /\ Only(Common(s.paths, t.paths)) \in ScopeModes
  BY <1>1 DEF ScopeModes
<1> QED BY <1>2, IntersectCases, ScopeFields

(* It lets through only what both let through.                             *)
LEMMA IntersectNarrows ==
  ASSUME NEW s \in ScopeModes, NEW t \in ScopeModes, NEW path \in Paths, Sensible,
         Allows(Intersect(s, t), path)
  PROVE  Allows(s, path) /\ Allows(t, path)
<1>1. Allows(All, path) /\ ~Allows(Nothing, path)  BY DEF Allows, All, Nothing
<1>2. CASE s = Nothing \/ t = Nothing  BY <1>1, <1>2, IntersectCases
<1>3. CASE s = All  BY <1>1, <1>3, IntersectCases
<1>4. CASE t = All  BY <1>1, <1>4, IntersectCases
<1>5. CASE s.kind = "paths" /\ t.kind = "paths"
  <2>1. Intersect(s, t) = Only(Common(s.paths, t.paths))
    BY <1>1, <1>5, IntersectCases
  <2>2. PICK e \in Common(s.paths, t.paths) : Under(path, e)
    BY <2>1 DEF Allows, Only, Hit
  <2>3. PICK w \in s.paths \X t.paths : Overlaps(w[1], w[2]) /\ e = Narrower(w[1], w[2])
    BY <2>2 DEF Common
  <2>4. w[1] \in s.paths /\ w[2] \in t.paths  BY <2>3
  <2>5. w[1] \in Paths /\ w[2] \in Paths  BY <2>4, ScopeFields
  <2>6. Under(path, w[1]) /\ Under(path, w[2])
    BY <2>2, <2>3, <2>5 DEF Sensible, Overlaps, Narrower
  <2> QED BY <2>4, <2>6, <1>5 DEF Allows, Hit
<1> QED BY <1>2, <1>3, <1>4, <1>5, ScopeFields

-----------------------------------------------------------------------------
(* The ceiling of a root, and the narrowing of a child.                    *)

(* What is given in a field, or else what was there.                       *)
LEMMA OrType ==
  ASSUME NEW S, NEW given \in S \cup {Keep}, NEW otherwise \in S
  PROVE  Or(given, otherwise) \in S
  BY DEF Or

(* The defaults are a permission.                                          *)
LEMMA DefaultsType == ASSUME NEW profile \in Profiles PROVE Defaults(profile) \in Permissions
<1>1. [t \in Tools |-> Keep] \in [Tools -> Decision \cup {Keep}]  OBVIOUS
<1>2. All \in ScopeModes  BY DEF All, ScopeModes
<1> QED BY <1>1, <1>2, ProfileParts DEF Defaults, Permissions

(* What a root is given on top of a permission is a permission.            *)
LEMMA RootType ==
  ASSUME NEW p \in Permissions, NEW l \in Layers
  PROVE  AppliedRoot(p, l) \in Permissions
<1>1. Or(l.profile, p.profile) \in Profiles  BY PermissionFields, LayerFields, OrType
<1>2. RootReach(p, l) \in SUBSET Reach  BY PermissionFields, ProfileParts DEF RootReach
<1>3. Or(l.reach, RootReach(p, l)) \in SUBSET Reach  BY <1>2, LayerFields, OrType
<1>4. RootDecisions(p, l) \in [Slots -> Decision]  BY PermissionFields, ProfileParts DEF RootDecisions
<1>5. \A k \in Slots : Or(l.decisions[k], RootDecisions(p, l)[k]) \in Decision
  BY <1>4, LayerFields DEF Or
<1>6. Or(l.read, p.read) \in ScopeModes /\ Or(l.write, p.write) \in ScopeModes
  BY PermissionFields, LayerFields, OrType
<1>7. \A t \in Tools : Or(l.tools[t], p.tools[t]) \in Decision \cup {Keep}
  BY PermissionFields, LayerFields DEF Or
<1>8. p.deny \cup l.deny \in SUBSET Paths  BY PermissionFields, LayerFields
<1> QED BY <1>1, <1>3, <1>5, <1>6, <1>7, <1>8 DEF AppliedRoot, Permissions

(* What a child may decide is no wider than its parent's.                  *)
LEMMA ChildDecided ==
  ASSUME NEW p \in Permissions, NEW l \in Layers
  PROVE  /\ ChildDecisions(p, l) \in [Slots -> Decision]
         /\ \A k \in Slots : ChildDecisions(p, l)[k] <= p.decisions[k]
<1> SUFFICES ASSUME NEW k \in Slots
             PROVE  /\ (IF l.profile = Keep THEN p.decisions[k]
                        ELSE Stricter(p.decisions[k], SpecDecisions(l.profile)[k])) \in Decision
                    /\ (IF l.profile = Keep THEN p.decisions[k]
                        ELSE Stricter(p.decisions[k], SpecDecisions(l.profile)[k])) <= p.decisions[k]
  BY DEF ChildDecisions
<1>1. p.decisions[k] \in Decision /\ SpecDecisions(l.profile)[k] \in Decision
  BY PermissionFields, ProfileParts
<1> QED BY <1>1 DEF Stricter, Decision, Deny, Ask, Allow

(* A narrowed permission is one.                                           *)
LEMMA NarrowingType ==
  ASSUME NEW p \in Permissions, NEW l \in Layers
  PROVE  AppliedNarrowing(p, l) \in Permissions
<1>1. Or(l.profile, p.profile) \in Profiles  BY PermissionFields, LayerFields, OrType
<1>2. ChildReach(p, l) \in SUBSET Reach  BY PermissionFields, ProfileParts DEF ChildReach
<1>3. Or(l.reach, ChildReach(p, l)) \in SUBSET Reach  BY <1>2, LayerFields, OrType
<1>5. \A k \in Slots : Or(l.decisions[k], ChildDecisions(p, l)[k]) \in Decision
  BY ChildDecided, LayerFields DEF Or
<1>6. NarrowedTo(p.read, l.read) \in ScopeModes /\ NarrowedTo(p.write, l.write) \in ScopeModes
  BY PermissionFields, LayerFields, IntersectType DEF NarrowedTo
<1>7. p.deny \cup l.deny \in SUBSET Paths /\ p.tools \in [Tools -> Decision \cup {Keep}]
  BY PermissionFields, LayerFields
<1> QED BY <1>1, <1>3, <1>5, <1>6, <1>7 DEF AppliedNarrowing, Permissions

(* A scope that a child's layer narrows lets through what both let through. *)
LEMMA NarrowedScope ==
  ASSUME NEW s \in ScopeModes, NEW given \in ScopeModes \cup {Keep}, NEW path \in Paths, Sensible,
         Allows(NarrowedTo(s, given), path)
  PROVE  Allows(s, path) /\ (given # Keep => Allows(given, path))
  BY IntersectNarrows DEF NarrowedTo

(* An accepted layer makes nothing wider, and what it leaves out is out.   *)
LEMMA NarrowingNarrows ==
  ASSUME NEW p \in Permissions, NEW l \in Layers, AcceptsNarrowing(p, l), Sensible
  PROVE  /\ NoWider(AppliedNarrowing(p, l), p)
         /\ Within(AppliedNarrowing(p, l).read, l.read)
         /\ Within(AppliedNarrowing(p, l).write, l.write)
<1> DEFINE c == AppliedNarrowing(p, l)
<1>0. /\ c.profile = Or(l.profile, p.profile) /\ c.reach = Or(l.reach, ChildReach(p, l))
      /\ c.decisions = [k \in Slots |-> Or(l.decisions[k], ChildDecisions(p, l)[k])]
      /\ c.read = NarrowedTo(p.read, l.read) /\ c.write = NarrowedTo(p.write, l.write)
      /\ c.deny = p.deny \cup l.deny /\ c.tools = p.tools
  BY DEF AppliedNarrowing
<1> HIDE DEF c
<1>1. c.profile <= p.profile
  BY <1>0, PermissionFields DEF Or, AcceptsNarrowing, Profiles, View, AllReach
<1>2. c.reach \subseteq p.reach
  BY <1>0 DEF Or, AcceptsNarrowing, ChildReach
<1>3. ASSUME NEW k \in Slots PROVE c.decisions[k] <= p.decisions[k] /\ c.decisions[k] \in Decision
  <2>1. ChildDecisions(p, l)[k] <= p.decisions[k] /\ ChildDecisions(p, l)[k] \in Decision
    BY ChildDecided
  <2>2. p.decisions[k] \in Decision  BY PermissionFields
  <2>3. l.decisions[k] # Keep => l.decisions[k] \in Decision /\ l.decisions[k] <= ChildDecisions(p, l)[k]
    BY LayerFields DEF AcceptsNarrowing
  <2>4. c.decisions[k] = Or(l.decisions[k], ChildDecisions(p, l)[k])  BY <1>0
  <2> QED BY <2>1, <2>2, <2>3, <2>4 DEF Or, Decision, Deny, Ask, Allow
<1>4. ASSUME NEW tool \in Tools, NEW effect \in Effects, NEW scope \in CallScopes
      PROVE  DecisionFor(c, tool, effect, scope) <= DecisionFor(p, tool, effect, scope)
  <2>1. effect # "none" => Slot(effect, scope) \in Slots
    BY DEF Slot, Slots, Effects, CallScopes
  <2>2. p.tools[tool] # Keep => p.tools[tool] \in Decision  BY PermissionFields
  <2>3. CASE p.tools[tool] # Keep
    BY <1>0, <2>2, <2>3 DEF DecisionFor, Decision, Deny, Ask, Allow
  <2>4. CASE p.tools[tool] = Keep /\ effect = "none"
    BY <1>0, <2>4 DEF DecisionFor, Allow
  <2>5. CASE p.tools[tool] = Keep /\ effect # "none"
    BY <1>0, <1>3, <2>1, <2>5 DEF DecisionFor
  <2> QED BY <2>3, <2>4, <2>5
<1>5. ASSUME NEW path \in Paths
      PROVE  /\ Allows(c.read, path) => Allows(p.read, path) /\ (l.read # Keep => Allows(l.read, path))
             /\ Allows(c.write, path) => Allows(p.write, path) /\ (l.write # Keep => Allows(l.write, path))
  BY <1>0, PermissionFields, LayerFields, NarrowedScope
<1>6. ASSUME NEW path \in Paths PROVE ~Hit(c.deny, path) => ~Hit(p.deny, path)
  BY <1>0 DEF Hit
<1>7. NoWider(c, p)  BY <1>1, <1>2, <1>4, <1>5, <1>6 DEF NoWider, ReadOk, WriteOk
<1>8. Within(c.read, l.read) /\ Within(c.write, l.write)  BY <1>5 DEF Within
<1> QED BY <1>7, <1>8 DEF c

-----------------------------------------------------------------------------
(* Along a chain: the root, then each below the one before.                *)
Began(l) ==
  LET good == AcceptsRoot(Defaults(Workspace), l)
  IN [good |-> good,
      perm |-> IF ~good THEN Defaults(Workspace) ELSE AppliedRoot(Defaults(Workspace), l)]
Went(before, l) ==
  LET good == before.good /\ AcceptsNarrowing(before.perm, l)
  IN [good |-> good, perm |-> IF ~good THEN before.perm ELSE AppliedNarrowing(before.perm, l)]

(* What Along works out, as the function it chooses.                       *)
Body(m, chain, f) ==
  [i \in 1..Len(chain) |->
    LET l == m[chain[i]]
        base == IF i = 1 THEN Defaults(Workspace) ELSE f[i - 1].perm
        good == IF i = 1 THEN AcceptsRoot(base, l)
                ELSE f[i - 1].good /\ AcceptsNarrowing(base, l)
    IN [good |-> good,
        perm |-> IF ~good THEN base
                 ELSE IF i = 1 THEN AppliedRoot(base, l) ELSE AppliedNarrowing(base, l)]]

(* At the first it is what the root begins with, at every other it goes on *)
(* from the one before.                                                    *)
LEMMA BodyParts ==
  ASSUME NEW m, NEW chain, Len(chain) \in Nat, NEW f
  PROVE  /\ Len(chain) >= 1 => Body(m, chain, f)[1] = Began(m[chain[1]])
         /\ Len(chain) >= 2 => Body(m, chain, f)[2] = Went(f[1], m[chain[2]])
         /\ Len(chain) >= 3 => Body(m, chain, f)[3] = Went(f[2], m[chain[3]])
<1>1. Len(chain) >= 1 => Body(m, chain, f)[1] = Began(m[chain[1]])
  BY DEF Body, Began
<1>2. ASSUME NEW i \in 2..Len(chain) PROVE Body(m, chain, f)[i] = Went(f[i - 1], m[chain[i]])
  <2>1. i \in 1..Len(chain) /\ i # 1  OBVIOUS
  <2> QED BY <2>1 DEF Body, Went
<1> QED BY <1>1, <1>2, 2 - 1 = 1, 3 - 1 = 2

(* Whatever function there is of that form is what Along follows.          *)
LEMMA AlongFollows ==
  ASSUME NEW m, NEW chain, NEW g, g = Body(m, chain, g)
  PROVE  \E f : f = Body(m, chain, f) /\ Along(m, chain) = f[Len(chain)]
<1> DEFINE F == CHOOSE f : f = Body(m, chain, f)
<1>1. Along(m, chain) = F[Len(chain)]  BY DEF Along, Body
<1>2. F = Body(m, chain, F)  OBVIOUS
<1> HIDE DEF F
<1> QED BY <1>1, <1>2

(* The chain of a root is what it begins with.                             *)
LEMMA AlongOne == ASSUME NEW m, NEW a PROVE Along(m, <<a>>) = Began(m[a])
<1> DEFINE c == <<a>>
           g == [i \in 1..1 |-> Began(m[a])]
<1>1. Len(c) \in Nat /\ Len(c) >= 1 /\ Len(c) = 1 /\ c[1] = a  OBVIOUS
<1> HIDE DEF c
<1>2. ASSUME NEW f PROVE Body(m, c, f)[1] = Began(m[a])  BY <1>1, BodyParts, Zenon
<1>3. Body(m, c, g) = [i \in 1..1 |-> Body(m, c, g)[i]]  BY <1>1 DEF Body
<1>4. g = Body(m, c, g)  BY <1>2, <1>3
<1> HIDE DEF g
<1>5. PICK f : f = Body(m, c, f) /\ Along(m, c) = f[1]  BY <1>1, <1>4, AlongFollows
<1>6. Along(m, c) = Began(m[a])  BY <1>2, <1>5
<1> QED BY <1>6 DEF c

(* The second goes on from the first,                                      *)
LEMMA AlongTwo ==
  ASSUME NEW m, NEW a, NEW b PROVE Along(m, <<a, b>>) = Went(Began(m[a]), m[b])
<1> DEFINE c == <<a, b>>
           g == [i \in 1..2 |-> IF i = 1 THEN Began(m[a]) ELSE Went(Began(m[a]), m[b])]
<1>1. Len(c) \in Nat /\ Len(c) >= 1 /\ Len(c) >= 2 /\ Len(c) = 2 /\ c[1] = a /\ c[2] = b  OBVIOUS
<1>0. g[1] = Began(m[a]) /\ g[2] = Went(Began(m[a]), m[b]) /\ g = [i \in 1..2 |-> g[i]]  OBVIOUS
<1> HIDE DEF c, g
<1>2. ASSUME NEW f PROVE Body(m, c, f)[1] = Began(m[a]) /\ Body(m, c, f)[2] = Went(f[1], m[b])
  BY <1>1, BodyParts, Zenon
<1>3. Body(m, c, g) = [i \in 1..2 |-> Body(m, c, g)[i]]  BY <1>1 DEF Body
<1>4. g = Body(m, c, g)
  <2>1. \A i \in 1..2 : Body(m, c, g)[i] = g[i]  BY <1>0, <1>2
  <2> QED BY <1>0, <1>3, <2>1
<1>5. PICK f : f = Body(m, c, f) /\ Along(m, c) = f[2]  BY <1>1, <1>4, AlongFollows
<1>6. Along(m, c) = Went(Began(m[a]), m[b])  BY <1>2, <1>5
<1> QED BY <1>6 DEF c

(* and the third from the second.                                          *)
LEMMA AlongThree ==
  ASSUME NEW m, NEW a, NEW b, NEW d
  PROVE  Along(m, <<a, b, d>>) = Went(Went(Began(m[a]), m[b]), m[d])
<1> DEFINE c == <<a, b, d>>
           g == [i \in 1..3 |-> IF i = 1 THEN Began(m[a])
                                ELSE IF i = 2 THEN Went(Began(m[a]), m[b])
                                ELSE Went(Went(Began(m[a]), m[b]), m[d])]
<1>1. /\ Len(c) \in Nat /\ Len(c) >= 1 /\ Len(c) >= 2 /\ Len(c) >= 3
      /\ Len(c) = 3 /\ c[1] = a /\ c[2] = b /\ c[3] = d  OBVIOUS
<1>0. /\ g[1] = Began(m[a]) /\ g[2] = Went(Began(m[a]), m[b])
      /\ g[3] = Went(Went(Began(m[a]), m[b]), m[d]) /\ g = [i \in 1..3 |-> g[i]]
  OBVIOUS
<1> HIDE DEF c, g
<1>2. ASSUME NEW f
      PROVE  /\ Body(m, c, f)[1] = Began(m[a]) /\ Body(m, c, f)[2] = Went(f[1], m[b])
             /\ Body(m, c, f)[3] = Went(f[2], m[d])
  BY <1>1, BodyParts, Zenon
<1>3. Body(m, c, g) = [i \in 1..3 |-> Body(m, c, g)[i]]  BY <1>1 DEF Body
<1>4. g = Body(m, c, g)
  <2>1. \A i \in 1..3 : Body(m, c, g)[i] = g[i]  BY <1>0, <1>2
  <2> QED BY <1>0, <1>3, <2>1
<1>5. PICK f : f = Body(m, c, f) /\ Along(m, c) = f[3]  BY <1>1, <1>4, AlongFollows
<1>6. Along(m, c) = Went(Went(Began(m[a]), m[b]), m[d])  BY <1>2, <1>5
<1> QED BY <1>6 DEF c

-----------------------------------------------------------------------------
(* The tree.                                                               *)

(* A session and those above it.                                           *)
Above(s) == {s, Root} \cup (IF s \in Seats THEN {Work} ELSE {})

(* The sessions are the seats, the work and the root.                      *)
LEMMA Tree ==
  ASSUME Sensible
  PROVE  /\ Root \in Sessions /\ Work \in Sessions /\ Seats \subseteq Sessions
         /\ Root \notin Seats /\ Work \notin Seats /\ "nobody" \notin Sessions
         /\ \A s \in Sessions \ {Root} : Parent(s) \in Sessions
         /\ \A s \in Sessions : Above(s) \subseteq Sessions
  BY DEF Sensible, Sessions, Root, Work, Parent, Above

(* What a session may do follows from what its parent may and its layer.   *)
LEMMA AlongParent ==
  ASSUME Sensible, NEW m, NEW s \in Sessions
  PROVE  Along(m, Chain(s)) = IF s = Root THEN Began(m[s])
                              ELSE Went(Along(m, Chain(Parent(s))), m[s])
<1>1. CASE s = Root  BY <1>1, AlongOne DEF Chain
<1>2. CASE s # Root /\ (s = Work \/ ~Proxied)
  <2>1. Parent(s) = Root
    BY <1>2, Tree DEF Parent, Root, Sessions
  <2>2. Along(m, Chain(s)) = Went(Began(m[Root]), m[s])  BY <1>2, AlongTwo DEF Chain
  <2>3. Along(m, Chain(Root)) = Began(m[Root])  BY AlongOne DEF Chain
  <2> QED BY <1>2, <2>1, <2>2, <2>3
<1>3. CASE s # Root /\ s # Work /\ Proxied
  <2>1. Parent(s) = Work /\ Work # Root
    BY <1>3, Tree DEF Parent, Root, Sessions, Work
  <2>2. Along(m, Chain(s)) = Went(Went(Began(m[Root]), m[Work]), m[s])
    BY <1>3, AlongThree DEF Chain
  <2>3. Along(m, Chain(Work)) = Went(Began(m[Root]), m[Work])
    BY <2>1, AlongTwo DEF Chain
  <2> QED BY <1>3, <2>1, <2>2, <2>3
<1> QED BY <1>1, <1>2, <1>3

(* Only the layers of a session and of those above it count.               *)
LEMMA AlongAgrees ==
  ASSUME Sensible, NEW s \in Sessions, NEW m, NEW n, \A x \in Above(s) : m[x] = n[x]
  PROVE  Along(m, Chain(s)) = Along(n, Chain(s))
<1>1. m[s] = n[s] /\ m[Root] = n[Root] /\ (s \in Seats => m[Work] = n[Work])
  BY DEF Above
<1>2. Along(m, Chain(Root)) = Along(n, Chain(Root))  BY <1>1, AlongParent, Tree
<1>3. CASE s = Root  BY <1>2, <1>3
<1>4. CASE s # Root /\ Parent(s) = Root  BY <1>1, <1>2, <1>4, AlongParent
<1>5. CASE s # Root /\ Parent(s) # Root
  <2>1. s \in Seats /\ Parent(s) = Work /\ Parent(Work) = Root /\ Work # Root
    BY <1>5, Tree DEF Parent, Root, Sessions, Work
  <2>2. Along(m, Chain(Work)) = Along(n, Chain(Work))
    BY <1>1, <1>2, <2>1, AlongParent, Tree
  <2> QED BY <1>1, <1>5, <2>1, <2>2, AlongParent
<1> QED BY <1>3, <1>4, <1>5

(* What it comes to is a permission.                                       *)
LEMMA AlongType ==
  ASSUME Sensible, NEW m \in [Sessions -> Layers], NEW s \in Sessions
  PROVE  Along(m, Chain(s)).perm \in Permissions
<1>1. Defaults(Workspace) \in Permissions
  BY DefaultsType DEF Profiles, Workspace, View, AllReach
<1>2. ASSUME NEW l \in Layers PROVE Began(l).perm \in Permissions
  BY <1>1, RootType DEF Began
<1>3. ASSUME NEW before, before.perm \in Permissions, NEW l \in Layers
      PROVE  Went(before, l).perm \in Permissions
  BY <1>3, NarrowingType DEF Went
<1>4. Along(m, Chain(Root)).perm \in Permissions  BY <1>2, AlongParent, Tree
<1>5. CASE s = Root  BY <1>4, <1>5
<1>6. CASE s # Root /\ Parent(s) = Root  BY <1>3, <1>4, <1>6, AlongParent
<1>7. CASE s # Root /\ Parent(s) # Root
  <2>1. s \in Seats /\ Parent(s) = Work /\ Parent(Work) = Root /\ Work # Root
    BY <1>7, Tree DEF Parent, Root, Sessions, Work
  <2>2. Along(m, Chain(Work)).perm \in Permissions
    BY <1>3, <1>4, <2>1, AlongParent, Tree
  <2> QED BY <1>3, <1>7, <2>1, <2>2, AlongParent
<1> QED BY <1>5, <1>6, <1>7

(* None may do what its parent may not, nor what its own layer leaves out. *)
LEMMA ChildrenNarrow ==
  ASSUME Sensible, layer \in [Sessions -> Layers]
  PROVE  ChildrenAreNarrower
<1> SUFFICES ASSUME NEW s \in Sessions \ {Root}, PermissionsFor(s).good
             PROVE  /\ NoWider(PermissionsFor(s).perm, PermissionsFor(Parent(s)).perm)
                    /\ Within(PermissionsFor(s).perm.read, layer[s].read)
                    /\ Within(PermissionsFor(s).perm.write, layer[s].write)
  BY DEF ChildrenAreNarrower
<1> DEFINE before == PermissionsFor(Parent(s))
<1>1. Parent(s) \in Sessions /\ layer[s] \in Layers  BY Tree
<1>2. before.perm \in Permissions  BY <1>1, AlongType DEF PermissionsFor
<1>3. PermissionsFor(s) = Went(before, layer[s])
  BY AlongParent DEF PermissionsFor
<1> HIDE DEF before
<1>4. Went(before, layer[s]).good = (before.good /\ AcceptsNarrowing(before.perm, layer[s]))
  BY DEF Went
<1>5. before.good /\ AcceptsNarrowing(before.perm, layer[s])  BY <1>3, <1>4, Zenon
<1>6. Went(before, layer[s]).perm = AppliedNarrowing(before.perm, layer[s])
  BY <1>5 DEF Went
<1>7. PermissionsFor(s).perm = AppliedNarrowing(before.perm, layer[s])  BY <1>3, <1>6
<1> QED BY <1>1, <1>2, <1>5, <1>7, NarrowingNarrows DEF before

-----------------------------------------------------------------------------
(* A session in memory works with what the metas say.                      *)
RightsShape ==
  /\ layer \in [Sessions -> Layers]
  /\ at \in [Sessions -> {"out", "in", "running"}]
  /\ built \in [Sessions -> [Sessions -> Layers]]

(* Between its commands an edit holds what the metas say, but for the one  *)
(* layer that is given, and that only while no thread is out.              *)
InEdit ==
  edit # NoEdit =>
    /\ edit.s \in Sessions /\ edit.s # "proxy" /\ DOMAIN edit.saves = Saved(edit.s)
    /\ \A x \in Saved(edit.s) :
         edit.saves[x] \in Layers /\ (x # edit.s => edit.saves[x] = layer[x])
    /\ edit.saves[edit.s] = layer[edit.s] \/ Idle(Sessions)

(* What a session in memory was built from is what counts for it now.      *)
Agrees(s, m) == \A h \in Holders(s) : \A x \in Above(h) : m[x] = layer[x]
Agreeing == \A s \in Sessions : at[s] # "out" => Agrees(s, built[s])

RightsInv == RightsShape /\ InEdit /\ Agreeing

(* The sandboxes of a session are those of sessions.                       *)
LEMMA HoldersAre == Sensible => \A s \in Sessions : Holders(s) \subseteq Sessions
  BY Tree DEF Holders

(* So it is with the permissions the metas give now.                       *)
LEMMA RightsMean == Sensible /\ RightsInv => HeldIsCurrent /\ ChildrenAreNarrower
<1> SUFFICES ASSUME Sensible, RightsInv PROVE HeldIsCurrent  BY ChildrenNarrow DEF RightsInv, RightsShape
<1> SUFFICES ASSUME NEW s \in Sessions, at[s] # "out",  NEW h \in Holders(s)
             PROVE  Along(built[s], Chain(h)) = Along(layer, Chain(h))
  BY DEF HeldIsCurrent, Held, Current
<1>1. h \in Sessions  BY HoldersAre
<1>2. \A x \in Above(h) : built[s][x] = layer[x]  BY DEF RightsInv, Agreeing, Agrees
<1> QED BY <1>1, <1>2, AlongAgrees

(* A layer that says nothing is one.                                       *)
LEMMA PlainType == EmptyLayer \in Layers /\ Plain \in [Sessions -> Layers]
<1>1. [k \in Slots |-> Keep] \in [Slots -> Decision \cup {Keep}]  OBVIOUS
<1>2. [t \in Tools |-> Keep] \in [Tools -> Decision \cup {Keep}]  OBVIOUS
<1>3. EmptyLayer \in Layers  BY <1>1, <1>2 DEF EmptyLayer, Layers
<1> QED BY <1>3 DEF Plain

(* At first nobody is in memory and no edit is under way.                  *)
LEMMA RightsStart == Init => RightsInv
  BY PlainType DEF Init, RightsInv, RightsShape, InEdit, Agreeing

(* What is left in memory while some leave it must still agree.            *)
LEMMA LeaveKeeps ==
  ASSUME RightsInv, NEW ss, Leave(ss), layer' \in [Sessions -> Layers],
         \A s \in Sessions \ ss : at[s] # "out" =>
           \A h \in Holders(s) : \A x \in Above(h) : layer'[x] = layer[x]
  PROVE  RightsShape' /\ Agreeing'
<1>1. /\ at' = [s \in Sessions |-> IF s \in ss THEN "out" ELSE at[s]]
      /\ built' = [s \in Sessions |-> IF s \in ss THEN Plain ELSE built[s]]
  BY DEF Leave
<1>2. RightsShape'  BY <1>1, PlainType DEF RightsInv, RightsShape
<1>3. ASSUME NEW s \in Sessions, at'[s] # "out", NEW h \in Holders(s), NEW x \in Above(h)
      PROVE  built'[s][x] = layer'[x]
  <2>1. s \notin ss /\ at[s] # "out" /\ built'[s] = built[s]  BY <1>1, <1>3
  <2>2. built[s][x] = layer[x]  BY <2>1, <1>3 DEF RightsInv, Agreeing, Agrees
  <2> QED BY <2>1, <2>2
<1> QED BY <1>2, <1>3 DEF Agreeing, Agrees

(* A session is built from the metas.                                      *)
LEMMA OpenKeeps == ASSUME Sensible, RightsInv, NEW s \in Sessions, Open(s) PROVE RightsInv'
<1>1. edit = NoEdit /\ UNCHANGED <<layer, edit>>  BY DEF Open, Alone, Sensible
<1>2. at' = [at EXCEPT ![s] = "in"] /\ built' = [built EXCEPT ![s] = layer]  BY DEF Open
<1>3. RightsShape'  BY <1>1, <1>2 DEF RightsInv, RightsShape
<1>4. InEdit'  BY <1>1 DEF InEdit
<1>5. ASSUME NEW t \in Sessions, at'[t] # "out", NEW h \in Holders(t), NEW x \in Above(h)
      PROVE  built'[t][x] = layer'[x]
  <2>1. CASE t = s
    <3>1. built'[t] = layer  BY <1>2, <2>1 DEF RightsInv, RightsShape
    <3> QED BY <1>1, <3>1
  <2>2. CASE t # s
    <3>1. at[t] # "out" /\ built'[t] = built[t]  BY <1>2, <1>5, <2>2 DEF RightsInv, RightsShape
    <3> QED BY <1>1, <1>5, <3>1 DEF RightsInv, Agreeing, Agrees
  <2> QED BY <2>1, <2>2
<1> QED BY <1>3, <1>4, <1>5 DEF RightsInv, Agreeing, Agrees

(* A thread takes a session and hands it back as it was, or loses it.      *)
LEMMA ThreadKeeps ==
  ASSUME Sensible, RightsInv, NEW s \in Sessions, Generate(s) \/ Finish(s) PROVE RightsInv'
<1>1. edit = NoEdit /\ UNCHANGED <<layer, edit>> /\ at[s] # "out"
  BY DEF Generate, Finish, Alone, Sensible
<1>2. InEdit'  BY <1>1 DEF InEdit
<1>3. CASE \E place \in {"in", "running"} : at' = [at EXCEPT ![s] = place] /\ built' = built
  <2>1. RightsShape'  BY <1>1, <1>3 DEF RightsInv, RightsShape
  <2>2. \A t \in Sessions : at'[t] # "out" => at[t] # "out"
    BY <1>1, <1>3 DEF RightsInv, RightsShape
  <2> QED BY <1>1, <1>2, <1>3, <2>1, <2>2 DEF RightsInv, Agreeing, Agrees
<1>4. CASE Leave({s})
  <2>1. RightsShape' /\ Agreeing'
    BY <1>1, <1>4, LeaveKeeps DEF RightsInv, RightsShape
  <2> QED BY <1>2, <2>1 DEF RightsInv
<1> QED BY <1>3, <1>4 DEF Generate, Finish

(* A switch of the work or of the root drops everybody it concerns.        *)
LEMMA SwitchKeeps ==
  ASSUME Sensible, RightsInv, NEW s \in Sessions, NEW profile \in Switches,
         SwitchProfile(s, profile)
  PROVE  RightsInv'
<1>1. edit = NoEdit /\ UNCHANGED edit  BY DEF SwitchProfile, Alone, Sensible
<1>2. InEdit'  BY <1>1 DEF InEdit
<1>3. s \notin Seats /\ s \in {Work, Root}  BY DEF SwitchProfile, Sensible, Sessions
<1> DEFINE l == Switched(layer[s], profile)
<1>4. layer' = [layer EXCEPT ![s] = l]  BY DEF SwitchProfile
<1>5. l \in Layers
  <2>1. layer[s] \in Layers /\ profile \in Profiles  BY DEF RightsInv, RightsShape, Sensible
  <2>2. [k \in Slots |-> Keep] \in [Slots -> Decision \cup {Keep}]  OBVIOUS
  <2>3. [t \in Tools |-> Keep] \in [Tools -> Decision \cup {Keep}]  OBVIOUS
  <2>4. ASSUME NEW k \in Layers, NEW p \in Profiles, NEW d, NEW t,
               d \in [Slots -> Decision \cup {Keep}], t \in [Tools -> Decision \cup {Keep}]
        PROVE  [k EXCEPT !.profile = p, !.reach = Keep, !.decisions = d, !.tools = t] \in Layers
    BY <2>4 DEF Layers
  <2> QED BY <2>1, <2>2, <2>3, <2>4 DEF Switched
<1> HIDE DEF l
<1>6. layer' \in [Sessions -> Layers]  BY <1>4, <1>5 DEF RightsInv, RightsShape
<1> DEFINE ss == {t \in Subtree(s) : at[t] = "in"}
<1>7. Leave(ss)  BY DEF SwitchProfile, Drop
<1>8. ASSUME NEW t \in Sessions \ ss, at[t] # "out", NEW h \in Holders(t), NEW x \in Above(h)
      PROVE  layer'[x] = layer[x]
  <2>1. at[t] = "in"
    BY <1>8 DEF SwitchProfile, Idle, RightsInv, RightsShape
  <2>2. t \notin Subtree(s)  BY <2>1
  <2>3. s = Work /\ s # Root /\ t = Root
    BY <1>3, <2>2, Tree DEF Subtree, Sessions, Root
  <2>4. Holders(t) = {Root} /\ Above(Root) = {Root}
    BY <2>3, Tree DEF Holders, Above
  <2>5. x # s  BY <1>8, <2>3, <2>4
  <2>6. x \in Sessions  BY <1>8, <2>4, Tree
  <2> QED BY <1>4, <2>5, <2>6 DEF RightsInv, RightsShape
<1> HIDE DEF ss
<1>9. RightsShape' /\ Agreeing'  BY <1>6, <1>7, <1>8, LeaveKeeps
<1> QED BY <1>2, <1>9 DEF RightsInv

(* An edit reads the metas it will save.                                   *)
LEMMA PrepareKeeps ==
  ASSUME Sensible, RightsInv, NEW s \in Sessions, NEW l \in Given \cup {Keep}, PrepareEdit(s, l)
  PROVE  RightsInv'
<1>1. UNCHANGED <<layer, at, built>>  BY DEF PrepareEdit
<1>2. RightsShape' /\ Agreeing'  BY <1>1 DEF RightsInv, RightsShape, Agreeing, Agrees
<1>3. Saved(s) \subseteq Sessions /\ s \in Saved(s)  BY Tree DEF Saved, Subtree
<1>4. edit' = [s |-> s, saves |-> [x \in Saved(s) |-> IF x = s /\ l # Keep THEN l ELSE layer[x]]]
      /\ s # "proxy" /\ (l # Keep => Idle(Sessions))
  BY DEF PrepareEdit
<1>5. l # Keep => l \in Layers  BY DEF Sensible
<1>6. edit'.s = s /\ DOMAIN edit'.saves = Saved(s)
  BY <1>4
<1>7. ASSUME NEW x \in Saved(s)
      PROVE  edit'.saves[x] = IF x = s /\ l # Keep THEN l ELSE layer[x]
  BY <1>4
<1>8. \A x \in Saved(s) : edit'.saves[x] \in Layers /\ (x # s => edit'.saves[x] = layer[x])
  BY <1>3, <1>5, <1>7 DEF RightsInv, RightsShape
<1>9. edit'.saves[s] = layer[s] \/ Idle(Sessions)'
  BY <1>1, <1>3, <1>4, <1>7 DEF Idle
<1>10. InEdit'  BY <1>1, <1>4, <1>6, <1>8, <1>9 DEF InEdit
<1> QED BY <1>2, <1>10 DEF RightsInv

(* An edit saves them, and drops the sessions it concerns.                 *)
LEMMA CommitKeeps == ASSUME Sensible, RightsInv, CommitEdit PROVE RightsInv'
<1>1. /\ edit # NoEdit /\ edit' = NoEdit /\ Drop(DOMAIN edit.saves)
      /\ layer' = [s \in Sessions |-> IF s \in DOMAIN edit.saves THEN edit.saves[s] ELSE layer[s]]
  BY DEF CommitEdit
<1>2. /\ edit.s \in Sessions /\ edit.s # "proxy" /\ DOMAIN edit.saves = Saved(edit.s)
      /\ \A x \in Saved(edit.s) :
           edit.saves[x] \in Layers /\ (x # edit.s => edit.saves[x] = layer[x])
      /\ edit.saves[edit.s] = layer[edit.s] \/ Idle(Sessions)
  BY <1>1 DEF RightsInv, InEdit
<1>3. InEdit'  BY <1>1 DEF InEdit
<1>4. layer' \in [Sessions -> Layers]  BY <1>1, <1>2 DEF RightsInv, RightsShape
<1>5. \A x \in Sessions : x # edit.s => layer'[x] = layer[x]  BY <1>1, <1>2
<1> DEFINE ss == {t \in DOMAIN edit.saves : at[t] = "in"}
<1>6. Leave(ss)  BY <1>1 DEF Drop
<1>7. ASSUME NEW t \in Sessions \ ss, at[t] # "out", NEW h \in Holders(t), NEW x \in Above(h)
      PROVE  layer'[x] = layer[x]
  <2>1. h \in Sessions /\ x \in Sessions  BY HoldersAre, Tree
  <2>2. CASE edit.saves[edit.s] = layer[edit.s]  BY <1>1, <1>2, <1>5, <2>1, <2>2
  <2>3. CASE Idle(Sessions)
    <3>1. at[t] = "in"  BY <1>7, <2>3 DEF Idle, RightsInv, RightsShape
    <3>2. t \notin Saved(edit.s)  BY <1>2, <3>1
    <3>3. t # Work  BY <3>2, <1>2, Tree DEF Saved, Subtree
    <3>4. Holders(t) = {t} /\ h = t  BY <3>3 DEF Holders
    <3>5. CASE edit.s = Work
      <4>1. t \notin Seats /\ t = Root
        BY <1>2, <3>2, <3>5, <3>3, Tree DEF Saved, Subtree, Sessions
      <4>2. x # edit.s  BY <3>3, <3>4, <3>5, <4>1, Tree DEF Above
      <4> QED BY <1>5, <2>1, <4>2
    <3>6. CASE edit.s # Work
      <4>1. edit.s \in Seats  BY <1>2, <3>6 DEF Sessions, Root
      <4>2. t # edit.s  BY <3>2, <3>6 DEF Saved
      <4>3. x # edit.s  BY <3>4, <4>1, <4>2, Tree DEF Above
      <4> QED BY <1>5, <2>1, <4>3
    <3> QED BY <3>5, <3>6
  <2> QED BY <1>2, <2>2, <2>3
<1> HIDE DEF ss
<1>8. RightsShape' /\ Agreeing'  BY <1>4, <1>6, <1>7, LeaveKeeps
<1> QED BY <1>3, <1>8 DEF RightsInv

(* A failed edit changes nothing; after a restart nobody is in memory.     *)
LEMMA EndsKeep == ASSUME Sensible, RightsInv, EditFails \/ Restart PROVE RightsInv'
<1>1. edit' = NoEdit /\ layer' = layer  BY DEF EditFails, Restart
<1>2. InEdit'  BY <1>1 DEF InEdit
<1>3. CASE EditFails
  <2>1. UNCHANGED <<layer, at, built>>  BY <1>3 DEF EditFails
  <2> QED BY <1>2, <2>1 DEF RightsInv, RightsShape, Agreeing, Agrees
<1>4. CASE Restart
  <2>1. Leave(Sessions)  BY <1>4 DEF Restart
  <2>2. RightsShape' /\ Agreeing'  BY <1>1, <2>1, LeaveKeeps DEF RightsInv, RightsShape
  <2> QED BY <1>2, <2>2 DEF RightsInv
<1> QED BY <1>3, <1>4

(* Every step keeps it.                                                    *)
LEMMA StepRights == Sensible /\ RightsInv /\ [Next]_vars => RightsInv'
<1> SUFFICES ASSUME Sensible, RightsInv, [Next]_vars PROVE RightsInv'  OBVIOUS
<1>1. CASE UNCHANGED vars
  BY <1>1 DEF vars, RightsInv, RightsShape, InEdit, Idle, Agreeing, Agrees
<1>2. ASSUME NEW s \in Sessions, Open(s) \/ Generate(s) \/ Finish(s) PROVE RightsInv'
  BY <1>2, OpenKeeps, ThreadKeeps
<1>3. ASSUME NEW s \in Sessions, NEW profile \in Switches, SwitchProfile(s, profile)
      PROVE  RightsInv'
  BY <1>3, SwitchKeeps
<1>4. ASSUME NEW s \in Sessions, NEW l \in Given \cup {Keep}, PrepareEdit(s, l) PROVE RightsInv'
  BY <1>4, PrepareKeeps
<1> QED BY <1>1, <1>2, <1>3, <1>4, CommitKeeps, EndsKeep DEF Next

(* A session in memory works with what the metas say now, and no session   *)
(* may do what its parent may not (permissions_for, env.rs).               *)
THEOREM RightsAlwaysHold == ASSUME Sensible PROVE Spec => [](HeldIsCurrent /\ ChildrenAreNarrower)
<1>1. RightsInv /\ [Next]_vars => RightsInv'  BY StepRights
<1>2. RightsInv => HeldIsCurrent /\ ChildrenAreNarrower  BY RightsMean
<1> QED BY <1>1, <1>2, RightsStart, PTL DEF Spec
=============================================================================
