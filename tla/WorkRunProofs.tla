--------------------------- MODULE WorkRunProofs ---------------------------
(***************************************************************************)
(* Theorems about WorkRun for every set of agents, every chain with its    *)
(* stages and every bound.                                                 *)
(***************************************************************************)
EXTENDS WorkRun, FiniteSetTheorems, WellFoundedInduction, TLAPS

(* Sets of numbers have a least and, if bounded, a greatest member.        *)
LEMMA LeastExists ==
  ASSUME NEW S, S \subseteq Nat, S # {}
  PROVE  \E m \in S : \A x \in S : ~(<<x, m>> \in OpToRel(<, Nat))
  BY WFMin, NatLessThanWellFounded, Zenon

LEMMA MinExists ==
  ASSUME NEW S \in SUBSET Nat, S # {}
  PROVE  Min(S) \in S /\ \A x \in S : Min(S) <= x
<1>1. PICK m \in S : \A x \in S : ~(<<x, m>> \in OpToRel(<, Nat))
  BY LeastExists
<1>2. \A x \in S : ~(x < m)  BY <1>1, Zenon DEF OpToRel
<1>3. \A x \in S : x \in Nat /\ m \in Nat  OBVIOUS
<1>4. \A x \in S : m <= x  BY <1>2, <1>3
<1> QED BY <1>4 DEF Min

USE BoundsAreNumbers

-----------------------------------------------------------------------------
(* The shapes of the records.                                              *)

Kinds == {"none", "wake", "continue", "answer"}
Phases == {"none", "resume", "drop", "dispose", "judge", "pump", "put"}

CallType == [by : Kinds, card : SUBSET Nodes, say : BOOLEAN,
             registered : BOOLEAN, cancel : BOOLEAN]
HolderType == [by : Kinds, phase : Phases, card : SUBSET Nodes, left : 0..2,
               cancel : BOOLEAN]

(* What is known of the chain in every state.                              *)
LEMMA ChainShape ==
  ASSUME scenario \in Scenarios
  PROVE  /\ \E n \in Nat : Nodes = 1..n /\ Stage \in [1..n -> 1..n]
         /\ Nodes \subseteq Nat /\ DOMAIN Stage = Nodes
         /\ \A i \in Nodes : chain[i].assignee \in Agents
         /\ \A i, j \in Nodes : chain[j].id \in chain[i].deps => Stage[j] < Stage[i]
  BY ScenariosAreSound, StagesFollowDependencies
     DEF chain, Stage, Nodes, Positions, Consistent

(* A new call goes to a free slot, the others stay.                        *)
LEMMA SpawnedShape ==
  ASSUME calls \in [Slots -> CallType], NEW by \in Kinds, NEW card \in SUBSET Nodes,
         NEW say \in BOOLEAN
  PROVE  Spawned(by, card, say) \in [Slots -> CallType]
<1>1. [NoCall EXCEPT !.by = by, !.card = card, !.say = say] \in CallType
  BY DEF NoCall, CallType
<1> QED BY <1>1 DEF Spawned

(* Where the parts of TypeOK come from when the scenario stays.            *)
LEMMA TypeNext ==
  ASSUME TypeOK, scenario' = scenario,
         work' \in {"talked", "planned", "approved", "done"},
         status' \in [Nodes -> {"pending", "running", "done"}],
         verdict' \in [Nodes -> {"none", "pass", "fail"}],
         door' \in Seq(SUBSET Nodes),
         frozen' \in BOOLEAN, stopping' \in {"no", "void", "cancel"},
         calls' \in [Slots -> CallType], holder' \in HolderType,
         todo' \in [Agents -> 0..MaxThreads], out' \in [Agents -> BOOLEAN],
         inputs' \in 0..MaxInputs
  PROVE  TypeOK'
  BY DEF TypeOK, Nodes, chain, CallType, HolderType, Kinds, Phases

(* The same read in the other direction.                                   *)
LEMMA TypeNow ==
  ASSUME TypeOK
  PROVE  /\ scenario \in Scenarios
         /\ work \in {"talked", "planned", "approved", "done"}
         /\ status \in [Nodes -> {"pending", "running", "done"}]
         /\ verdict \in [Nodes -> {"none", "pass", "fail"}]
         /\ door \in Seq(SUBSET Nodes)
         /\ frozen \in BOOLEAN /\ stopping \in {"no", "void", "cancel"}
         /\ calls \in [Slots -> CallType] /\ holder \in HolderType
         /\ todo \in [Agents -> 0..MaxThreads] /\ out \in [Agents -> BOOLEAN]
         /\ inputs \in 0..MaxInputs
  BY DEF TypeOK, CallType, HolderType, Kinds, Phases

(* What may start: at most one node of an agent.                           *)
LEMMA FreshShape ==
  ASSUME TypeOK
  PROVE  /\ Fresh \subseteq Nodes
         /\ \A a \in Agents : FreshOf(a) = {} \/ \E i \in Nodes : FreshOf(a) = {i}
<1> USE TypeNow, ChainShape
<1>1. \A i \in Fresh : i \in Nodes /\ status[i] = "pending"
  BY DEF Fresh, StageReady, StageNodes
<1>2. ASSUME NEW i \in Fresh, NEW j \in Fresh, chain[i].assignee = chain[j].assignee
      PROVE  i <= j
  BY <1>1, <1>2 DEF Fresh
<1>3. ASSUME NEW a \in Agents, NEW i \in FreshOf(a), NEW j \in FreshOf(a)
      PROVE  i = j
  <2>1. i \in Fresh /\ j \in Fresh /\ chain[i].assignee = chain[j].assignee
    BY <1>3 DEF FreshOf
  <2>2. i <= j /\ j <= i  BY <1>2, <2>1
  <2> QED BY <1>1, <2>1, <2>2
<1>4. \A a \in Agents : FreshOf(a) \subseteq Fresh  BY DEF FreshOf
<1>5. ASSUME NEW a \in Agents, FreshOf(a) # {}
      PROVE  \E i \in Nodes : FreshOf(a) = {i}
  <2> HIDE TypeNow, ChainShape
  <2>1. PICK i : i \in FreshOf(a)  BY <1>5
  <2>2. FreshOf(a) = {i}  BY <1>3, <2>1
  <2> QED BY <1>1, <1>4, <2>1, <2>2
<1> QED BY <1>1, <1>5

(* Marking what may start keeps the shapes of status and todo.             *)
LEMMA PutShape ==
  ASSUME TypeOK, Put
  PROVE  /\ status' \in [Nodes -> {"pending", "running", "done"}]
         /\ todo' \in [Agents -> 0..MaxThreads]
<1> USE TypeNow
<1>1. \A a \in Agents : FreshOf(a) = {} => Cardinality(FreshOf(a)) = 0
  BY FS_EmptySet
<1>2. \A a \in Agents : FreshOf(a) # {} => Cardinality(FreshOf(a)) = 1
  BY FreshShape, FS_Singleton
<1>3. ASSUME NEW a \in Agents
      PROVE  todo[a] + Cardinality(FreshOf(a)) \in 0..MaxThreads
  <2>1. todo[a] \in 0..MaxThreads  BY <1>3
  <2>2. CASE FreshOf(a) = {}
    <3>1. Cardinality(FreshOf(a)) = 0  BY <1>1, <2>2
    <3> QED BY <2>1, <3>1
  <2>3. CASE FreshOf(a) # {}
    <3>1. todo[a] < MaxThreads  BY <2>3 DEF Put
    <3>2. Cardinality(FreshOf(a)) = 1  BY <1>2, <2>3
    <3> HIDE TypeNow
    <3> QED BY <2>1, <3>1, <3>2
  <2> QED BY <2>2, <2>3
<1> QED BY <1>3 DEF Put

(* Sending nodes back keeps the shapes.                                    *)
LEMMA ResetShape ==
  ASSUME TypeOK, NEW nodes, ResetNodes(nodes)
  PROVE  /\ status' \in [Nodes -> {"pending", "running", "done"}]
         /\ verdict' \in [Nodes -> {"none", "pass", "fail"}]
  BY TypeNow DEF ResetNodes

LEMMA HolderShape ==
  ASSUME TypeOK
  PROVE  /\ \A n \in 0..2 : Pumping(n) \in HolderType
         /\ AfterPump \in HolderType /\ NoHolder \in HolderType
         /\ \A card \in SUBSET Nodes, ph \in Phases :
              [holder EXCEPT !.phase = ph, !.card = card] \in HolderType
<1> USE TypeNow
<1>1. \A n \in 0..2 : Pumping(n) \in HolderType
  BY DEF Pumping, HolderType, Phases
<1>2. AfterPump \in HolderType
  <2>1. 1 \in 0..2 /\ 0 \in 0..2 /\ "put" \in Phases  BY DEF Phases
  <2>2. [holder EXCEPT !.phase = "put", !.left = 0] \in HolderType
    BY <2>1 DEF HolderType
  <2> QED BY <1>1, <2>1, <2>2 DEF AfterPump
<1>3. NoHolder \in HolderType
  BY DEF NoHolder, HolderType, Kinds, Phases
<1>4. \A card \in SUBSET Nodes, ph \in Phases :
        [holder EXCEPT !.phase = ph, !.card = card] \in HolderType
  BY DEF HolderType
<1> QED BY <1>1, <1>2, <1>3, <1>4

LEMMA TypeInit ==
  ASSUME Init
  PROVE  TypeOK
<1>1. scenario \in Scenarios  BY DEF Init
<1>2. NoCall \in CallType  BY DEF NoCall, CallType, Kinds
<1>3. calls \in [Slots -> CallType]  BY <1>2 DEF Init
<1>4. holder \in HolderType  BY DEF Init, HolderType, Kinds, Phases
<1>5. door \in Seq(SUBSET Nodes) /\ todo \in [Agents -> 0..MaxThreads]
  BY DEF Init
<1>6. /\ status \in [Nodes -> {"pending", "running", "done"}]
      /\ verdict \in [Nodes -> {"none", "pass", "fail"}]
      /\ out \in [Agents -> BOOLEAN] /\ inputs \in 0..MaxInputs
  BY DEF Init
<1>7. frozen \in BOOLEAN /\ stopping \in {"no", "void", "cancel"}
      /\ work \in {"talked", "planned", "approved", "done"}
  BY DEF Init
<1> QED BY <1>1, <1>3, <1>4, <1>5, <1>6, <1>7 DEF TypeOK, CallType, HolderType, Kinds, Phases

(* One step of the thread that holds the main session.                     *)
LEMMA TypeStep ==
  ASSUME TypeOK, Step
  PROVE  TypeOK'
<1> USE TypeNow, HolderShape
<1> SUFFICES /\ work' \in {"talked", "planned", "approved", "done"}
             /\ status' \in [Nodes -> {"pending", "running", "done"}]
             /\ verdict' \in [Nodes -> {"none", "pass", "fail"}]
             /\ door' \in Seq(SUBSET Nodes) /\ holder' \in HolderType
  BY TypeNext DEF Step
<1>1. holder.card \in SUBSET Nodes  BY DEF HolderType
<1>2. StageNodes(Stage, Current) \subseteq Nodes  BY ChainShape DEF StageNodes
<1> HIDE TypeNow, HolderShape
<1>a. /\ \A n \in 0..2 : Pumping(n) \in HolderType
      /\ AfterPump \in HolderType
  BY HolderShape
<1>b. /\ work \in {"talked", "planned", "approved", "done"}
      /\ status \in [Nodes -> {"pending", "running", "done"}]
      /\ verdict \in [Nodes -> {"none", "pass", "fail"}]
      /\ door \in Seq(SUBSET Nodes)
  BY TypeNow
<1>c. Pumping(1) \in HolderType /\ Pumping(2) \in HolderType  BY <1>a
<1>d. <<>> \in Seq(SUBSET Nodes) /\ (door # <<>> => Tail(door) \in Seq(SUBSET Nodes))
  BY <1>b
<1>e. door # <<>> => Head(door) \in SUBSET Nodes  BY <1>b
<1>3. CASE Resume
  <2>1. UNCHANGED <<work, status, verdict, door>>  BY <1>3 DEF Resume, progress
  <2>2. "drop" \in Phases  BY DEF Phases
  <2>3. holder' \in HolderType
    BY <1>3, <1>c, <1>e, <2>2, HolderShape DEF Resume
  <2> QED BY <1>b, <2>1, <2>3
<1>4. CASE DropAndReset
  <2>1. /\ work' = work /\ holder' = Pumping(2) /\ ResetNodes(holder.card)
        /\ door' \in {<<>>, Tail(door)} /\ (door = <<>> => door' = <<>>)
    BY <1>4 DEF DropAndReset
  <2>2. door' \in Seq(SUBSET Nodes)  BY <1>d, <2>1
  <2> QED BY <1>b, <1>c, <2>1, <2>2, ResetShape
<1>5. ASSUME Carried
      PROVE  /\ work' \in {"talked", "planned", "approved", "done"}
             /\ status' \in [Nodes -> {"pending", "running", "done"}]
             /\ verdict' \in [Nodes -> {"none", "pass", "fail"}]
             /\ door' \in Seq(SUBSET Nodes) /\ holder' \in HolderType
  <2>1. /\ holder' = [holder EXCEPT !.phase = "resume", !.card = {}]
        /\ door' = door /\ "resume" \in Phases /\ {} \in SUBSET Nodes
    BY <1>5 DEF Carried, Phases
  <2>2. holder' \in HolderType  BY <2>1, HolderShape
  <2>3. CASE holder.card = {}
    BY <1>b, <1>5, <2>1, <2>2, <2>3 DEF Carried, progress
  <2>4. CASE holder.card # {}
    BY <1>b, <1>5, <2>1, <2>2, <2>4, ResetShape DEF Carried
  <2> QED BY <2>3, <2>4
<1>6. CASE Dispose  BY <1>5, <1>6 DEF Dispose
<1>7. CASE Judge
  <2>1. CASE Carried  BY <1>5, <2>1
  <2>2. CASE ~Carried
    <3>1. door' = Append(door, holder.card) /\ holder' = Pumping(1)
          /\ UNCHANGED <<work, status, verdict>>
      BY <1>7, <2>2 DEF Judge, progress
    <3>2. door' \in Seq(SUBSET Nodes)  BY <1>1, <1>b, <3>1
    <3> QED BY <1>b, <1>c, <3>1, <3>2
  <2> QED BY <2>1, <2>2
<1>8. CASE PumpReturns  BY <1>a, <1>b, <1>8 DEF PumpReturns, progress
<1>9. CASE PumpPlans
  <2>1. <<{}>> \in Seq(SUBSET Nodes)  OBVIOUS
  <2> QED BY <1>a, <1>b, <1>9, <2>1 DEF PumpPlans, progress
<1>10. CASE PumpReviews
  <2>1. PICK bad \in SUBSET StageNodes(Stage, Current) :
          /\ verdict' = [i \in Nodes |->
                           IF i \notin StageNodes(Stage, Current) THEN verdict[i]
                           ELSE IF i \in bad THEN "fail" ELSE "pass"]
          /\ door' = IF bad = {} THEN door ELSE <<bad>>
          /\ holder' = IF bad = {} THEN holder ELSE AfterPump
    BY <1>10 DEF PumpReviews
  <2>2. <<bad>> \in Seq(SUBSET Nodes)  BY <1>2
  <2>3. door' \in Seq(SUBSET Nodes) /\ holder' \in HolderType
    BY <1>a, <1>b, <2>1, <2>2, TypeNow
  <2>4. verdict' \in [Nodes -> {"none", "pass", "fail"}]  BY <1>b, <2>1
  <2> QED BY <1>b, <1>10, <2>3, <2>4 DEF PumpReviews
<1>11. CASE PumpDelivers
  <2>1. PICK bad \in SUBSET Nodes :
          /\ work' = IF bad = {} THEN "done" ELSE work
          /\ door' = IF bad = {} THEN door ELSE <<bad>>
    BY <1>11 DEF PumpDelivers
  <2>2. <<bad>> \in Seq(SUBSET Nodes)  OBVIOUS
  <2> QED BY <1>a, <1>b, <1>11, <2>1, <2>2 DEF PumpDelivers, progress
<1>12. CASE PumpFails  BY <1>a, <1>b, <1>12 DEF PumpFails, progress
<1> QED BY <1>3, <1>4, <1>6, <1>7, <1>8, <1>9, <1>10, <1>11, <1>12 DEF Step

(* The steps of calls, children and the user.                              *)
LEMMA TypeCall ==
  ASSUME TypeOK, NEW s \in Slots, Call(s)
  PROVE  TypeOK'
<1> USE TypeNow, HolderShape
<1>1. NoCall \in CallType  BY DEF NoCall, CallType, Kinds
<1>2. CASE Register(s)
  <2>1. calls' \in [Slots -> CallType]  BY <1>2 DEF Register, CallType
  <2> QED BY <1>2, <2>1, TypeNext DEF Register, progress
<1>3. CASE Take(s)
  <2>1. calls' \in [Slots -> CallType]  BY <1>1, <1>3 DEF Take
  <2>2. calls[s] \in CallType  OBVIOUS
  <2>3. PICK ph \in Phases :
          holder' = [by |-> calls[s].by, card |-> calls[s].card, left |-> 0,
                     cancel |-> calls[s].cancel, phase |-> ph]
    BY <1>3 DEF Take, Phases
  <2> HIDE TypeNow, HolderShape
  <2>4. holder' \in HolderType  BY <2>2, <2>3 DEF CallType, HolderType
  <2> QED BY <1>3, <2>1, <2>4, TypeNow, TypeNext DEF Take, progress
<1>4. CASE Refused(s)
  <2>1. calls' \in [Slots -> CallType]  BY <1>1, <1>4 DEF Refused
  <2> QED BY <1>4, <2>1, TypeNext DEF Refused, progress
<1> QED BY <1>2, <1>3, <1>4 DEF Call

LEMMA TypeChild ==
  ASSUME TypeOK, NEW a \in Agents, Child(a) \/ CrashChild(a)
  PROVE  TypeOK'
<1> USE TypeNow, HolderShape
<1>1. CASE StartNode(a)
  <2>1. todo[a] \in 0..MaxThreads /\ todo[a] > 0  BY <1>1 DEF StartNode
  <2>2. todo[a] - 1 \in 0..MaxThreads
    <3> HIDE TypeNow, HolderShape
    <3> QED BY <2>1
  <2>3. todo' = [todo EXCEPT ![a] = todo[a] - 1]  BY <1>1 DEF StartNode
  <2>4. todo' \in [Agents -> 0..MaxThreads]  BY <2>2, <2>3
  <2>5. out' \in [Agents -> BOOLEAN]  BY <1>1 DEF StartNode
  <2> QED BY <1>1, <2>4, <2>5, TypeNext DEF StartNode, progress
<1>2. CASE EndChild(a)
  <2>1. calls' \in [Slots -> CallType]
    BY <1>2, SpawnedShape DEF EndChild, Woken, Kinds
  <2>2. status' \in [Nodes -> {"pending", "running", "done"}]
    BY <1>2 DEF EndChild
  <2> QED BY <1>2, <2>1, <2>2, TypeNext DEF EndChild
<1>3. CASE CrashChild(a)
  BY <1>3, TypeNext DEF CrashChild, progress
<1> QED BY <1>1, <1>2, <1>3 DEF Child

LEMMA TypeUser ==
  ASSUME TypeOK, User
  PROVE  TypeOK'
<1>a. /\ door \in Seq(SUBSET Nodes) /\ inputs \in 0..MaxInputs
      /\ frozen \in BOOLEAN /\ stopping \in {"no", "void", "cancel"}
  BY TypeNow
<1>b. /\ calls \in [Slots -> CallType] /\ holder \in HolderType
      /\ out \in [Agents -> BOOLEAN]
  BY TypeNow
<1>1. ASSUME inputs < MaxInputs PROVE inputs + 1 \in 0..MaxInputs
  BY <1>1, <1>a
<1>2. CASE Answer
  <2>1. Head(door) \in SUBSET Nodes /\ Tail(door) \in Seq(SUBSET Nodes)
    <3>1. door # <<>>  BY <1>2 DEF Answer
    <3> QED BY <1>a, <3>1
  <2>2. "answer" \in Kinds  BY DEF Kinds
  <2>3. calls' \in [Slots -> CallType]
    <3>1. PICK say \in BOOLEAN : calls' = Spawned("answer", Head(door), say)
      BY <1>2 DEF Answer
    <3> QED BY <1>b, <2>1, <2>2, <3>1, SpawnedShape
  <2> QED BY <1>2, <2>1, <2>3, TypeNow, TypeNext DEF Answer, progress
<1>3. CASE \E a \in Agents : Say(a)
  BY <1>1, <1>3, TypeNow, TypeNext DEF Say, progress
<1>4. CASE Continue
  <2>1. calls' \in [Slots -> CallType]
    BY <1>4, <1>b, SpawnedShape DEF Continue, Kinds
  <2> QED BY <1>1, <1>4, <2>1, TypeNow, TypeNext DEF Continue, progress
<1>5. ASSUME Cancels PROVE calls' \in [Slots -> CallType] /\ holder' \in HolderType
  <2>1. calls' \in [Slots -> CallType]  BY <1>5, <1>b DEF Cancels, CallType
  <2>2. holder' \in HolderType  BY <1>5, <1>b DEF Cancels, HolderType
  <2> QED BY <2>1, <2>2
<1>6. CASE Stop
  <2>1. frozen' \in BOOLEAN /\ stopping' \in {"no", "void", "cancel"}
    BY <1>a, <1>6 DEF Stop
  <2>2. door' \in Seq(SUBSET Nodes)
    <3>1. door' = door \/ door' = <<>>  BY <1>6 DEF Stop
    <3>2. <<>> \in Seq(SUBSET Nodes)  OBVIOUS
    <3> QED BY <1>a, <3>1, <3>2
  <2>3. inputs' \in 0..MaxInputs  BY <1>1, <1>a, <1>6 DEF Stop
  <2>4. calls' \in [Slots -> CallType] /\ holder' \in HolderType
    BY <1>5, <1>b, <1>6 DEF Stop
  <2> QED BY <1>6, <2>1, <2>2, <2>3, <2>4, TypeNow, TypeNext DEF Stop, progress
<1> QED BY <1>2, <1>3, <1>4, <1>6 DEF User

LEMMA TypeInductive ==
  ASSUME TypeOK, [Next]_vars
  PROVE  TypeOK'
<1>1. CASE Put
  <2>1. door' \in Seq(SUBSET Nodes)  BY <1>1, TypeNow DEF Put
  <2>2. holder' \in HolderType  BY <1>1, HolderShape DEF Put
  <2> QED BY <1>1, <2>1, <2>2, TypeNow, PutShape, TypeNext DEF Put
<1>2. CASE UNCHANGED vars
  BY <1>2 DEF vars, progress, TypeOK, Nodes, chain
<1> QED BY <1>1, <1>2, TypeStep, TypeCall, TypeChild, TypeUser DEF Next

(* Every reachable state has the shape the code stores.                    *)
THEOREM TypeCorrect == Spec => []TypeOK
<1>1. Init => TypeOK  BY TypeInit
<1>2. TypeOK /\ [Next]_vars => TypeOK'  BY TypeInductive
<1> QED BY <1>1, <1>2, PTL DEF Spec

-----------------------------------------------------------------------------
(* What was sent back has lost its verdict.                                *)

LEMMA VerdictNow ==
  ASSUME TypeOK, VerdictIsCurrent, [Next]_vars
  PROVE  VerdictIsCurrent'
<1> USE TypeNow
<1>1. ASSUME NEW nodes, ResetNodes(nodes), scenario' = scenario
      PROVE  VerdictIsCurrent'
  BY <1>1 DEF ResetNodes, VerdictIsCurrent, Nodes, chain
<1>2. ASSUME UNCHANGED <<scenario, status, verdict>>
      PROVE  VerdictIsCurrent'
  BY <1>2 DEF VerdictIsCurrent, Nodes, chain
<1>3. CASE Step
  <2>1. scenario' = scenario  BY <1>3 DEF Step
  <2>2. ASSUME Carried PROVE VerdictIsCurrent'
    BY <1>1, <1>2, <2>1, <2>2 DEF Carried, progress
  <2>3. CASE DropAndReset  BY <1>1, <2>1, <2>3 DEF DropAndReset
  <2>4. CASE Dispose \/ Judge
    BY <1>2, <2>1, <2>2, <2>4 DEF Dispose, Judge, progress
  <2>5. CASE Resume \/ PumpReturns \/ PumpPlans \/ PumpDelivers \/ PumpFails
    BY <1>2, <2>1, <2>5
       DEF Resume, PumpReturns, PumpPlans, PumpDelivers, PumpFails, progress
  <2>6. CASE PumpReviews
    <3>1. \A i \in StageNodes(Stage, Current) : status[i] = "done"
      BY <2>6 DEF PumpReviews, Waiting, StageSettled
    <3>2. PICK bad : verdict' = [i \in Nodes |->
                       IF i \notin StageNodes(Stage, Current) THEN verdict[i]
                       ELSE IF i \in bad THEN "fail" ELSE "pass"]
      BY <2>6 DEF PumpReviews
    <3>3. status' = status  BY <2>6 DEF PumpReviews
    <3> QED BY <2>1, <3>1, <3>2, <3>3 DEF VerdictIsCurrent, Nodes, chain
  <2> QED BY <1>3, <2>3, <2>4, <2>5, <2>6 DEF Step
<1>4. CASE Put
  <2>1. \A i \in Fresh : verdict[i] = "none"
    BY ChainShape DEF Fresh, StageReady, StageNodes, VerdictIsCurrent
  <2>2. scenario' = scenario /\ verdict' = verdict
        /\ status' = [i \in Nodes |-> IF i \in Fresh THEN "running" ELSE status[i]]
    BY <1>4 DEF Put
  <2> QED BY <2>1, <2>2 DEF VerdictIsCurrent, Nodes, chain
<1>5. ASSUME NEW a \in Agents, EndChild(a) PROVE VerdictIsCurrent'
  BY <1>5 DEF EndChild, VerdictIsCurrent, Nodes, chain, RunningOf
<1>6. ASSUME NEW a \in Agents, StartNode(a) \/ CrashChild(a) PROVE VerdictIsCurrent'
  BY <1>2, <1>6 DEF StartNode, CrashChild, progress
<1>7. ASSUME NEW s \in Slots, Call(s) PROVE VerdictIsCurrent'
  BY <1>2, <1>7 DEF Call, Register, Take, Refused, progress
<1>8. CASE User
  BY <1>2, <1>8 DEF User, Answer, Say, Continue, Stop, progress
<1>9. CASE UNCHANGED vars  BY <1>2, <1>9 DEF vars, progress
<1> QED BY <1>3, <1>4, <1>5, <1>6, <1>7, <1>8, <1>9 DEF Next, Child

(* A node that was sent back has lost the verdict on its former result, in *)
(* every order of answers, wakes and late calls.                           *)
THEOREM VerdictAlwaysCurrent == Spec => []VerdictIsCurrent
<1>1. Init => VerdictIsCurrent  BY DEF Init, VerdictIsCurrent
<1>2. TypeOK /\ VerdictIsCurrent /\ [Next]_vars => VerdictIsCurrent'
  BY VerdictNow
<1> QED BY <1>1, <1>2, TypeCorrect, PTL DEF Spec

-----------------------------------------------------------------------------
(* Each agent works on one node.                                           *)

Unmixed ==
  \A i, j \in Nodes :
    chain[i].assignee = chain[j].assignee /\ status[i] = "running"
      /\ status[j] = "running" => i = j

LEMMA UnmixedNow ==
  ASSUME TypeOK, Unmixed, [Next]_vars
  PROVE  Unmixed'
<1> USE TypeNow
<1>1. ASSUME scenario' = scenario,
             \A i \in Nodes : status'[i] = "running" => status[i] = "running"
      PROVE  Unmixed'
  BY <1>1 DEF Unmixed, Nodes, chain
<1>2. CASE Step
  <2>1. \A nodes : ResetNodes(nodes) =>
           \A i \in Nodes : status'[i] = "running" => status[i] = "running"
    BY DEF ResetNodes
  <2>2. CASE Carried \/ DropAndReset
    BY <1>1, <1>2, <2>1, <2>2 DEF Carried, DropAndReset, Step, progress
  <2>3. CASE status' = status  BY <1>1, <1>2, <2>3 DEF Step
  <2> QED BY <1>2, <2>2, <2>3
          DEF Step, Resume, Dispose, Judge, PumpReturns, PumpPlans, PumpReviews,
              PumpDelivers, PumpFails, progress
<1>3. CASE Put
  <2>1. ASSUME NEW i \in Fresh, NEW j \in Nodes, chain[i].assignee = chain[j].assignee
        PROVE  status[j] # "running"
    BY <2>1 DEF Fresh
  <2>2. ASSUME NEW i \in Fresh, NEW j \in Fresh, chain[i].assignee = chain[j].assignee
        PROVE  i = j
    <3>1. i \in Nodes /\ j \in Nodes  BY FreshShape
    <3>2. i <= j /\ j <= i  BY <2>2, <3>1 DEF Fresh
    <3> QED BY <3>1, <3>2, ChainShape
  <2>3. scenario' = scenario
        /\ status' = [i \in Nodes |-> IF i \in Fresh THEN "running" ELSE status[i]]
    BY <1>3 DEF Put
  <2> QED BY <2>1, <2>2, <2>3 DEF Unmixed, Nodes, chain
<1>4. ASSUME NEW a \in Agents, Child(a) \/ CrashChild(a) PROVE Unmixed'
  BY <1>1, <1>4 DEF Child, StartNode, EndChild, CrashChild, progress
<1>5. ASSUME NEW s \in Slots, Call(s) PROVE Unmixed'
  BY <1>1, <1>5 DEF Call, Register, Take, Refused, progress
<1>6. CASE User
  BY <1>1, <1>6 DEF User, Answer, Say, Continue, Stop, progress
<1>7. CASE UNCHANGED vars  BY <1>1, <1>7 DEF vars, progress
<1> QED BY <1>2, <1>3, <1>4, <1>5, <1>6, <1>7 DEF Next

(* No session of an agent ever has two nodes running, so its end tells     *)
(* which node is done.                                                     *)
THEOREM OneNodeAlways == Spec => []OneNodePerAgent
<1>1. Init => Unmixed  BY DEF Init, Unmixed
<1>2. TypeOK /\ Unmixed /\ [Next]_vars => Unmixed'  BY UnmixedNow
<1>3. ASSUME Unmixed, NEW a \in Agents PROVE Cardinality(RunningOf(a)) <= 1
  <2>1. CASE RunningOf(a) = {}  BY <2>1, FS_EmptySet
  <2>2. CASE RunningOf(a) # {}
    <3>1. PICK i : i \in RunningOf(a)  BY <2>2
    <3>2. RunningOf(a) = {i}  BY <1>3, <3>1 DEF RunningOf, Unmixed
    <3> QED BY <3>2, FS_Singleton
  <2> QED BY <2>1, <2>2
<1>4. Unmixed => OneNodePerAgent  BY <1>3 DEF OneNodePerAgent
<1> QED BY <1>1, <1>2, <1>4, TypeCorrect, PTL DEF Spec

-----------------------------------------------------------------------------
(* Stop.                                                                   *)

(* The thread that holds the main session learns of a stop that is through.*)
THEOREM StopAlwaysReaches == Spec => []StopReachesMain
<1>1. Init => StopReachesMain  BY DEF Init, StopReachesMain
<1>2. ASSUME TypeOK, StopReachesMain, [Next]_vars PROVE StopReachesMain'
  <2> USE <1>2, TypeNow
  <2>1. CASE Step
    BY <2>1 DEF Step, StopReachesMain, Resume, DropAndReset, Dispose, Judge,
      Carried, PumpReturns, PumpPlans, PumpReviews, PumpDelivers, PumpFails,
      Pumps, AfterPump, Pumping, HolderType
  <2>2. CASE Put  BY <2>2 DEF Put, NoHolder, StopReachesMain
  <2>3. ASSUME NEW a \in Agents, Child(a) \/ CrashChild(a) PROVE StopReachesMain'
    BY <2>3 DEF Child, StartNode, EndChild, CrashChild, StopReachesMain
  <2>4. ASSUME NEW s \in Slots, Call(s) PROVE StopReachesMain'
    BY <2>4 DEF Call, Register, Take, Refused, Available, StopReachesMain
  <2>5. CASE Answer \/ (\E a \in Agents : Say(a)) \/ Continue
    BY <2>5 DEF Answer, Say, Continue, StopReachesMain
  <2>6. CASE Stop
    BY <2>6 DEF Stop, Cancels, StopReachesMain, HolderType
  <2>7. CASE UNCHANGED vars  BY <2>7 DEF vars, StopReachesMain
  <2> QED BY <2>1, <2>2, <2>3, <2>4, <2>5, <2>6, <2>7 DEF Next, User
<1> QED BY <1>1, <1>2, TypeCorrect, PTL DEF Spec

(* A work that lies stopped in the table has an empty queue of cards.      *)
THEOREM StoppedAlwaysSilent == Spec => []StoppedAsksNothing
<1>1. Init => StoppedAsksNothing  BY DEF Init, StoppedAsksNothing
<1>2. ASSUME TypeOK, StoppedAsksNothing, [Next]_vars PROVE StoppedAsksNothing'
  <2> USE <1>2, TypeNow
  <2>1. CASE Step
    <3>1. holder'.phase # "none"
      BY <2>1 DEF Step, Resume, DropAndReset, Dispose, Judge, Carried,
        PumpReturns, PumpPlans, PumpReviews, PumpDelivers, PumpFails, Pumps,
        AfterPump, Pumping, HolderType
    <3> QED BY <3>1 DEF StoppedAsksNothing
  <2>2. CASE Put  BY <2>2 DEF Put, StoppedAsksNothing
  <2>3. ASSUME NEW a \in Agents, Child(a) \/ CrashChild(a) PROVE StoppedAsksNothing'
    BY <2>3 DEF Child, StartNode, EndChild, CrashChild, StoppedAsksNothing
  <2>4. ASSUME NEW s \in Slots, Call(s) PROVE StoppedAsksNothing'
    BY <2>4 DEF Call, Register, Take, Refused, Available, StoppedAsksNothing
  <2>5. CASE Answer \/ (\E a \in Agents : Say(a)) \/ Continue
    BY <2>5 DEF Answer, Say, Continue, StoppedAsksNothing
  <2>6. CASE Stop
    BY <2>6 DEF Stop, Cancels, StoppedAsksNothing, HolderType
  <2>7. CASE UNCHANGED vars  BY <2>7 DEF vars, StoppedAsksNothing
  <2> QED BY <2>1, <2>2, <2>3, <2>4, <2>5, <2>6, <2>7 DEF Next, User
<1> QED BY <1>1, <1>2, TypeCorrect, PTL DEF Spec

-----------------------------------------------------------------------------
(* Dispatch.                                                               *)

LEMMA MaxExists ==
  ASSUME NEW n \in Nat, NEW S \in SUBSET (0..n), S # {}
  PROVE  Max(S) \in S /\ \A x \in S : Max(S) >= x
<1> DEFINE T == {n - x : x \in S}
<1>1. T \in SUBSET Nat /\ T # {}
  <2>1. \A x \in S : n - x \in Nat  OBVIOUS
  <2> QED BY <2>1
<1>2. Min(T) \in T /\ \A y \in T : Min(T) <= y
  <2> HIDE DEF T
  <2> QED BY <1>1, MinExists
<1>3. PICK m \in S : Min(T) = n - m  BY <1>2
<1>4. ASSUME NEW x \in S PROVE m >= x
  <2>1. n - m <= n - x  BY <1>2, <1>3
  <2>2. x \in Nat /\ m \in Nat  OBVIOUS
  <2> QED BY <2>1, <2>2
<1> QED BY <1>4 DEF Max

(* The first open stage is open, and every stage below it has passed.      *)
LEMMA CurrentIsFirst ==
  ASSUME TypeOK, ~Passed, NEW j \in Nodes, Stage[j] < Current
  PROVE  status[j] = "done" /\ verdict[j] = "pass"
<1> DEFINE Open == OpenStages(Stage, status, verdict)
<1> DEFINE Used == {Stage[i] : i \in DOMAIN Stage} \cup {0}
<1>1. PICK n \in Nat : Nodes = 1..n /\ Stage \in [1..n -> 1..n]
  BY TypeNow, ChainShape
<1>2. Used \in SUBSET (0..n) /\ Used # {} /\ Stage[j] \in Used /\ Stage[j] \in 1..n
  BY <1>1
<1>3. Max(Used) \in 0..n /\ Stage[j] <= Max(Used)
  <2>1. Max(Used) \in Used /\ Max(Used) >= Stage[j]
    <3> HIDE DEF Used
    <3> QED BY <1>2, MaxExists
  <2> QED BY <1>2, <2>1
<1>4. Open \in SUBSET Nat /\ Open # {}
  <2>1. Open = {s \in 1..Max(Used) : ~StagePassed(Stage, status, verdict, s)}
    BY DEF OpenStages
  <2>2. Open # {}  BY DEF Passed, AllPassed
  <2>3. 1..Max(Used) \subseteq Nat
    <3> HIDE DEF Used
    <3> QED BY <1>3
  <2> QED
    <3> HIDE DEF Used, Open
    <3> QED BY <2>1, <2>2, <2>3
<1>5. \A s \in Open : Current <= s
  <2> HIDE DEF Open
  <2>1. Current = Min(Open)  BY DEF Current, CurrentStage, Open
  <2> QED BY <1>4, <2>1, MinExists
<1>6. Current \in Nat
  <2> HIDE DEF Open
  <2>1. Current = Min(Open)  BY DEF Current, CurrentStage, Open
  <2> QED BY <1>4, <2>1, MinExists
<1>7. Stage[j] \notin Open
  <2> HIDE DEF Open
  <2> QED BY <1>2, <1>5, <1>6
<1>8. StagePassed(Stage, status, verdict, Stage[j])
  <2>1. Stage[j] \in 1..Max(Used)  BY <1>2, <1>3
  <2> QED BY <1>7, <2>1 DEF OpenStages
<1> QED BY <1>1, <1>8 DEF StagePassed, StageNodes

LEMMA FreshIsNext ==
  ASSUME TypeOK, NEW i \in Fresh, NEW j \in Nodes, chain[j].id \in chain[i].deps
  PROVE  status[j] = "done" /\ verdict[j] = "pass"
<1>1. i \in Nodes /\ Stage[i] = IF Passed THEN 1 ELSE Current
  BY TypeNow, ChainShape DEF Fresh, StageReady, StageNodes
<1>2. Stage[j] < Stage[i]  BY <1>1, TypeNow, ChainShape
<1>3. Stage[j] \in Nat /\ Stage[j] >= 1  BY TypeNow, ChainShape
<1>4. CASE Passed  BY <1>1, <1>2, <1>3, <1>4
<1>5. CASE ~Passed  BY <1>1, <1>2, <1>5, CurrentIsFirst
<1> QED BY <1>4, <1>5

(* A node starts only after the user accepted the plan and with every node *)
(* it depends on done and accepted, on every chain with sound stages.      *)
THEOREM DispatchAlwaysInOrder == Spec => DispatchInOrder
<1>1. ASSUME TypeOK, [Next]_vars PROVE [StartsInOrder]_vars
  <2> USE <1>1, TypeNow
  <2>1. ASSUME \A i \in Nodes : status'[i] = "running" => status[i] = "running"
        PROVE  StartsInOrder
    BY <2>1 DEF StartsInOrder
  <2>2. CASE Step
    <3>1. CASE Carried \/ DropAndReset
      BY <2>1, <3>1 DEF Carried, DropAndReset, ResetNodes, progress
    <3>2. CASE status' = status  BY <2>1, <3>2
    <3> QED BY <2>2, <3>1, <3>2
            DEF Step, Resume, Dispose, Judge, PumpReturns, PumpPlans, PumpReviews,
                PumpDelivers, PumpFails, progress
  <2>3. CASE Put
    <3>1. \A i \in Nodes : status'[i] = "running" => i \in Fresh \/ status[i] = "running"
      BY <2>3 DEF Put
    <3>2. \A i \in Fresh : work \in {"approved", "done"}  BY DEF Fresh
    <3> QED BY <3>1, <3>2, FreshIsNext DEF StartsInOrder
  <2>4. ASSUME NEW a \in Agents, Child(a) \/ CrashChild(a) PROVE StartsInOrder
    BY <2>1, <2>4 DEF Child, StartNode, EndChild, CrashChild, progress
  <2>5. ASSUME NEW s \in Slots, Call(s) PROVE StartsInOrder
    BY <2>1, <2>5 DEF Call, Register, Take, Refused, progress
  <2>6. CASE User
    BY <2>1, <2>6 DEF User, Answer, Say, Continue, Stop, progress
  <2> QED BY <2>2, <2>3, <2>4, <2>5, <2>6 DEF Next
<1> QED BY <1>1, TypeCorrect, PTL DEF Spec, DispatchInOrder
=============================================================================
