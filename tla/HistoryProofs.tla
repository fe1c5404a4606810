----------------------------- MODULE HistoryProofs -----------------------------
(***************************************************************************)
(* What the three instances of MCHistory promise, from the theorems about  *)
(* WorkStore.  Each instance has an inductive invariant of WorkStore's;    *)
(* the instances do not disturb each other.                                *)
(***************************************************************************)
EXTENDS MCHistory, TLAPS

(* The instances meet the assumptions their theorems rest on. *)
USE HistoryAssumption DEF Line!RequestKinds, Agent!RequestKinds, Bound!RequestKinds

-----------------------------------------------------------------------------
(* Each instance keeps its own invariant: the line and what the mapping to *)
(* SharedLine needs; the histories, bases and objects; the untouched       *)
(* external content.                                                       *)
HistoryInv ==
  /\ which = "line" => Line!MappedInv
  /\ which = "agent" => Agent!ConvergeInv /\ Agent!ObjectsInv
  /\ which = "external" =>
       /\ Bound!TypeOK /\ Bound!PendingInv /\ Bound!OperationInv
       /\ Bound!UntouchedInv

(* Each instance starts with its invariant.                                *)
LEMMA InitHistory == Init => HistoryInv
<1>1. Line!Init => Line!MappedInv  BY Line!InitMapped
<1>2. Agent!InitHist => Agent!ConvergeInv /\ Agent!ObjectsInv
  BY Agent!InitConverge, Agent!InitObjects DEF Agent!InitHist
<1>3. Bound!Init => /\ Bound!TypeOK /\ Bound!PendingInv /\ Bound!OperationInv
                    /\ Bound!UntouchedInv
  <2>1. Bound!Init => Bound!UntouchedInv
    BY DEF Bound!Init, Bound!UntouchedInv, Bound!Idle, Bound!NoPending
  <2> QED BY <2>1, Bound!InitType, Bound!InitLine
<1> QED BY <1>1, <1>2, <1>3 DEF Init, HistoryInv

(* A step of the whole is a step of the instance that runs.                *)
LEMMA StepOfOne ==
  ASSUME [Next]_vars
  PROVE  /\ which' = which
         /\ which = "line" => [Line!Next]_(Line!vars)
         /\ which = "agent" => [Agent!NextHist]_(Agent!hvars)
         /\ which = "external" => [Bound!Next]_(Bound!vars)
  BY DEF Next, vars, stored, Line!vars, Agent!vars, Agent!hvars, Bound!vars

(* and keeps the instance's invariant.                                     *)
LEMMA StepHistory == HistoryInv /\ [Next]_vars => HistoryInv'
<1> SUFFICES ASSUME HistoryInv, [Next]_vars PROVE HistoryInv'  OBVIOUS
<1>1. CASE which = "line"
  BY <1>1, StepOfOne, Line!StepMapped DEF HistoryInv
<1>2. CASE which = "agent"
  <2>1. Agent!ConvergeInv'
    BY <1>2, StepOfOne, Agent!StepConverge DEF HistoryInv
  <2>2. [Agent!Next]_(Agent!vars)
    BY <1>2, StepOfOne DEF Agent!NextHist, Agent!hvars, Agent!vars
  <2>3. Agent!ObjectsInv'
    BY <1>2, <2>1, <2>2, Agent!StepObjects
       DEF HistoryInv, Agent!ConvergeInv, Agent!HistInv
  <2> QED BY <1>2, <2>1, <2>3, StepOfOne DEF HistoryInv
<1>3. CASE which = "external"
  <2>1. [Bound!Next]_(Bound!vars)  BY <1>3, StepOfOne
  <2>2. Bound!TypeOK'  BY <1>3, <2>1, Bound!StepType DEF HistoryInv
  <2>3. Bound!PendingInv' /\ Bound!OperationInv'
    BY <1>3, <2>1, <2>2, Bound!StepLine DEF HistoryInv
  <2>4. Bound!UntouchedInv'
    BY <1>3, <2>1, <2>2, Bound!StepUntouched DEF HistoryInv
  <2> QED BY <1>3, <2>2, <2>3, <2>4, StepOfOne DEF HistoryInv
<1>4. CASE which \notin {"line", "agent", "external"}
  BY <1>4, StepOfOne DEF HistoryInv
<1> QED BY <1>1, <1>2, <1>3, <1>4

-----------------------------------------------------------------------------
(* HistoryInv is an invariant.                                             *)
LEMMA HistoryCorrect == Spec => []HistoryInv
  BY InitHistory, StepHistory, PTL DEF Spec

(* Whatever is discarded and wherever a crash interrupts it, the history   *)
(* behind head is complete (head_tree, head_ancestors).                    *)
THEOREM LineAlwaysIntact == Spec => []LineIntact
<1>1. HistoryInv => LineIntact
  BY Line!LineWhole DEF HistoryInv, LineIntact, Line!MappedInv
<1> QED BY <1>1, HistoryCorrect, PTL

(* A rewind drops no commit of the line that every seat keeps              *)
(* (work_rewind_to).                                                       *)
THEOREM RewindNeverLoses == Spec => []RewindLosesNothingKept
<1>1. HistoryInv => RewindLosesNothingKept
  BY Line!RewindKeeps DEF HistoryInv, RewindLosesNothingKept, Line!MappedInv
<1> QED BY <1>1, HistoryCorrect, PTL

(* A pull that was not interrupted ends in no conflict for a path its      *)
(* agent did not write (work_pull).                                        *)
THEOREM PullsAlwaysConverge == Spec => []PullConverges
<1>1. HistoryInv => PullConverges
  BY Agent!Converged DEF HistoryInv, PullConverges
<1> QED BY <1>1, HistoryCorrect, PTL

(* No pull and no resolution destroys the only copy of what an agent       *)
(* wrote (work_pull, work_resolve, backup_lost).                           *)
THEOREM EditsAlwaysSurvive == Spec => EditsSurvive
<1>1. HistoryInv /\ [Next]_vars => (which = "agent" => Agent!EditSurvives)
  <2> SUFFICES ASSUME HistoryInv, [Next]_vars, which = "agent" PROVE Agent!EditSurvives
    OBVIOUS
  <2>1. [Agent!Next]_(Agent!vars)
    BY StepOfOne DEF Agent!NextHist, Agent!hvars, Agent!vars
  <2> QED BY <2>1, Agent!StepSurvives DEF HistoryInv, Agent!ConvergeInv, Agent!HistInv
<1> QED BY <1>1, HistoryCorrect, PTL DEF Spec, EditsSurvive

(* An agent's commit never replaces or deletes a version of a path that    *)
(* the agent has not had in front of it (work_commit, work_resolve).       *)
THEOREM NoUpdateLost == Spec => NoLostUpdate
<1>1. HistoryInv /\ [Next]_vars => (which = "agent" => Agent!UpdateSeen)
  <2> SUFFICES ASSUME HistoryInv, [Next]_vars, which = "agent" PROVE Agent!UpdateSeen
    OBVIOUS
  <2>1. [Agent!Next]_(Agent!vars)
    BY StepOfOne DEF Agent!NextHist, Agent!hvars, Agent!vars
  <2> QED BY <2>1, Agent!StepUpdateSeen DEF HistoryInv, Agent!ConvergeInv, Agent!HistInv
<1> QED BY <1>1, HistoryCorrect, PTL DEF Spec, NoLostUpdate

(* Of an external directory only versions that head recorded are replaced  *)
(* or removed, the user's own upload apart (reject_external_changes,       *)
(* external_materialize_conflicts).                                        *)
THEOREM ExternalEditsAlwaysKept == Spec => ExternalEditsKept
<1>1. HistoryInv /\ [Next]_vars => (which = "external" => Bound!EditKept)
  BY StepOfOne, Bound!StepKept DEF HistoryInv
<1> QED BY <1>1, HistoryCorrect, PTL DEF Spec, ExternalEditsKept
=============================================================================
