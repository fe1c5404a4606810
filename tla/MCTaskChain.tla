---------------------------- MODULE MCTaskChain ----------------------------
(***************************************************************************)
(* Every small task chain a planner could hand over, put through the door  *)
(* of pump.rs (check, then renumber), and compared with definitions from   *)
(* graph theory.                                                           *)
(***************************************************************************)
EXTENDS TaskChain

CONSTANTS
  Ids,       \* the ids a planner writes
  Members,   \* the names it may assign nodes to
  Roster,    \* the members that are present
  MaxNodes   \* length of the longest chain

VARIABLES
  draft,     \* the chain as the planner gave it
  chain      \* the chain of the collaboration, <<>> while it has none

vars == <<draft, chain>>

Node == [id : Ids, assignee : Members, deps : SUBSET Ids]
Drafts == UNION {[1..n -> Node] : n \in 0..MaxNodes}

Init ==
  /\ draft \in Drafts
  /\ chain = <<>>

(***************************************************************************)
(* pump_with: an inconsistent chain is reported and not kept.              *)
(***************************************************************************)
Arrange ==
  /\ chain = <<>>
  /\ Consistent(draft, Roster)
  /\ chain' = Renumbered(draft)
  /\ UNCHANGED draft

Next == Arrange
Spec == Init /\ [][Next]_vars

-----------------------------------------------------------------------------
TypeOK ==
  /\ Len(draft) <= MaxNodes /\ \A i \in DOMAIN draft : draft[i] \in Node
  /\ chain = <<>> \/ DOMAIN chain = DOMAIN draft

(***************************************************************************)
(* Dependencies as edges between positions, and the walks along them that  *)
(* end in a node: the reference the loops are compared with.               *)
(***************************************************************************)
DependsOn(c, i, j) == c[j].id \in c[i].deps

Walks(c, i) ==
  {w \in UNION {[1..k -> Positions(c)] : k \in 1..Len(c)} :
     /\ w[Len(w)] = i
     /\ \A k \in 2..Len(w) : DependsOn(c, w[k], w[k - 1])}

Acyclic(c) ==
  \E rank \in [Positions(c) -> Positions(c)] :
    \A i, j \in Positions(c) : DependsOn(c, i, j) => rank[j] < rank[i]

(***************************************************************************)
(* The check lets a chain through exactly when its nodes have different    *)
(* names, only present members work, nothing dangles and the nodes can be  *)
(* ordered: "a cycle must be refused, no node is dropped silently"         *)
(* (docs/collab/task-chain.md).                                            *)
(***************************************************************************)
DoorIsExact ==
  Consistent(draft, Roster) <=>
    /\ Len(draft) > 0
    /\ Cardinality({draft[i].id : i \in Positions(draft)}) = Len(draft)
    /\ \A i \in Positions(draft) :
         /\ draft[i].assignee \in Roster
         /\ draft[i].deps \subseteq {draft[j].id : j \in Positions(draft)}
    /\ Acyclic(draft)

(***************************************************************************)
(* In a chain that was let through, the stage of a node is the length of   *)
(* the longest walk that ends in it, whatever order the nodes are given in.*)
(***************************************************************************)
StageIsDepth ==
  Consistent(draft, Roster) =>
    \A i \in Positions(draft) :
      Stages(draft)[i] = Max({Len(w) : w \in Walks(draft, i)})

(***************************************************************************)
(* Renaming by stage changes names and nothing else: the same nodes depend *)
(* on the same nodes, no two share a name, and the stages, computed again  *)
(* from the new chain (every later question does), are those in the names. *)
(***************************************************************************)
RenamingKeepsTheGraph ==
  chain # <<>> =>
    /\ \A i, j \in Positions(chain) :
         /\ DependsOn(chain, i, j) <=> DependsOn(draft, i, j)
         /\ chain[i].id = chain[j].id => i = j
    /\ \A i \in Positions(chain) : chain[i].id[1] = Stages(chain)[i]

(***************************************************************************)
(* What the scheduler dispatches waits for nothing: whatever the nodes     *)
(* have done so far, a node of the current stage that is ready depends on  *)
(* accepted nodes only (the comment on stage_ready: "no need to look at    *)
(* dependencies again"), and once every stage passed no node is left.      *)
(***************************************************************************)
ReadyWaitsForNothing ==
  chain # <<>> =>
    LET stage == Stages(chain) IN
    \A status \in [Positions(chain) -> {"pending", "running", "done"}],
       verdict \in [Positions(chain) -> {"none", "pass"}] :
      IF AllPassed(stage, status, verdict)
      THEN \A i \in Positions(chain) : status[i] = "done" /\ verdict[i] = "pass"
      ELSE \A i \in StageReady(stage, status, CurrentStage(stage, status, verdict)) :
             \A j \in Positions(chain) :
               DependsOn(chain, i, j) => status[j] = "done" /\ verdict[j] = "pass"

=============================================================================
