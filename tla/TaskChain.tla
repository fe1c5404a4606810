----------------------------- MODULE TaskChain -----------------------------
(***************************************************************************)
(* The task chain of a collaboration: which stage a node belongs to, which *)
(* chains are refused before work starts, the names the core gives to the  *)
(* nodes, and what the scheduler may dispatch                              *)
(* (src/capabilities/taskchain/domain/chain.rs).                           *)
(*                                                                         *)
(* A chain is a sequence of nodes [id, assignee, deps]; deps is the set of *)
(* ids the node waits for.  Titles and objectives are left out.  The       *)
(* progress of a node is kept apart, as functions on its position: status  *)
(* (pending, running, done) and verdict (none, pass, fail).                *)
(***************************************************************************)
EXTENDS Lists

Positions(chain) == DOMAIN chain

(***************************************************************************)
(* The first node with this id: both loops look an id up by position.      *)
(***************************************************************************)
Carriers(chain, id) == {i \in Positions(chain) : chain[i].id = id}
Holder(chain, id) == Min(Carriers(chain, id))
Known(chain, id) == Carriers(chain, id) # {}

(***************************************************************************)
(* Both loops sweep over the nodes in order until a sweep changes nothing; *)
(* every sweep but the last settles a node, so as many sweeps as there are *)
(* nodes reach the same end.                                               *)
(***************************************************************************)
InOrder(chain) == [i \in Positions(chain) |-> i]

Unset == 0

(***************************************************************************)
(* A defect: a visit that counts a dependency without a stage yet as 0.    *)
(***************************************************************************)
StageVisitEager(chain, stage, i) ==
  IF stage[i] = Unset /\ \A d \in chain[i].deps : Known(chain, d)
  THEN [stage EXCEPT ![i] =
          1 + Max({stage[Holder(chain, d)] : d \in chain[i].deps} \cup {0})]
  ELSE stage

(***************************************************************************)
(* One visit of the stage loop: a node whose dependencies all have a stage *)
(* gets the one after the highest of theirs.  A dangling dependency keeps  *)
(* it unset.                                                               *)
(***************************************************************************)
StageVisit(chain, stage, i) ==
  LET below == {stage[Holder(chain, d)] : d \in {e \in chain[i].deps : Known(chain, e)}}
      ready == /\ \A d \in chain[i].deps : Known(chain, d)
               /\ Unset \notin below
  IN  IF stage[i] = Unset /\ ready
      THEN [stage EXCEPT ![i] = 1 + Max(below \cup {0})]
      ELSE stage

StageSweep(chain, stage) ==
  FoldLeft(LAMBDA s, i : StageVisit(chain, s, i), stage, InOrder(chain))

Placed(chain) ==
  FoldLeft(LAMBDA s, i : StageSweep(chain, s), [i \in Positions(chain) |-> Unset],
           InOrder(chain))

(***************************************************************************)
(* stages(): nodes the loop could not place get stage 1.                   *)
(***************************************************************************)
Stages(chain) ==
  LET placed == Placed(chain)
  IN  [i \in Positions(chain) |-> IF placed[i] = Unset THEN 1 ELSE placed[i]]

(***************************************************************************)
(* The ids that the cycle check of problems() can take off one by one.     *)
(***************************************************************************)
TakeOff(chain, taken, i) ==
  IF chain[i].deps \subseteq taken THEN taken \cup {chain[i].id} ELSE taken

TakeOffSweep(chain, taken) ==
  FoldLeft(LAMBDA t, i : TakeOff(chain, t, i), taken, InOrder(chain))

Resolved(chain) == FoldLeft(LAMBDA t, i : TakeOffSweep(chain, t), {}, InOrder(chain))

(***************************************************************************)
(* A defect: the check without its last loop.                              *)
(***************************************************************************)
ConsistentNoCycles(chain, roster) ==
  /\ chain # <<>>
  /\ \A i, j \in Positions(chain) : chain[i].id = chain[j].id => i = j
  /\ \A i \in Positions(chain) :
       chain[i].assignee \in roster /\ \A d \in chain[i].deps : Known(chain, d)

(***************************************************************************)
(* problems() is empty.                                                    *)
(***************************************************************************)
Consistent(chain, roster) ==
  /\ chain # <<>>
  /\ \A i, j \in Positions(chain) : chain[i].id = chain[j].id => i = j
  /\ \A i \in Positions(chain) :
       /\ chain[i].assignee \in roster
       /\ \A d \in chain[i].deps : Known(chain, d)
       /\ chain[i].id \in Resolved(chain)

(***************************************************************************)
(* A defect: names whose counter starts again whenever the stage changes.  *)
(***************************************************************************)
StageNameRestarting(chain, i) ==
  LET s == Stages(chain)
  IN  <<s[i], Cardinality({j \in 1..i : \A m \in j..i : s[m] = s[i]})>>

(***************************************************************************)
(* renumber_by_stage(): node k of stage s is called <<s, k>>, counted in   *)
(* the order of the chain; dependencies are mapped along, those without a  *)
(* holder are dropped.                                                     *)
(***************************************************************************)
StageName(chain, i) ==
  LET s == Stages(chain)
  IN  <<s[i], Cardinality({j \in 1..i : s[j] = s[i]})>>

(***************************************************************************)
(* A defect: the new chain keeps one node for each stage.                  *)
(***************************************************************************)
RenumberedShort(chain) ==
  [k \in {Stages(chain)[i] : i \in Positions(chain)} |->
     [chain[k] EXCEPT !.id = StageName(chain, k), !.deps = {}]]

Renumbered(chain) ==
  [i \in Positions(chain) |->
     [chain[i] EXCEPT
        !.id = StageName(chain, i),
        !.deps = {StageName(chain, Holder(chain, d)) :
                    d \in {e \in chain[i].deps : Known(chain, e)}}]]

(***************************************************************************)
(* The scheduler, over the stages of a chain and the progress of its       *)
(* nodes.                                                                  *)
(***************************************************************************)
StageNodes(stage, s) == {i \in DOMAIN stage : stage[i] = s}

(***************************************************************************)
(* A defect: a stage passes when its nodes are done, whatever the review.  *)
(***************************************************************************)
StagePassedUnreviewed(stage, status, verdict, s) ==
  /\ StageNodes(stage, s) # {}
  /\ \A i \in StageNodes(stage, s) : status[i] = "done"

StagePassed(stage, status, verdict, s) ==
  /\ StageNodes(stage, s) # {}
  /\ \A i \in StageNodes(stage, s) : status[i] = "done" /\ verdict[i] = "pass"

OpenStages(stage, status, verdict) ==
  {s \in 1..Max({stage[i] : i \in DOMAIN stage} \cup {0}) :
     ~StagePassed(stage, status, verdict, s)}

AllPassed(stage, status, verdict) == OpenStages(stage, status, verdict) = {}
CurrentStage(stage, status, verdict) == Min(OpenStages(stage, status, verdict))

StageSettled(stage, status, s) ==
  /\ StageNodes(stage, s) # {}
  /\ \A i \in StageNodes(stage, s) : status[i] = "done"

StageReady(stage, status, s) ==
  {i \in StageNodes(stage, s) : status[i] = "pending"}
=============================================================================
