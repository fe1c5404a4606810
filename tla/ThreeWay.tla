------------------------------ MODULE ThreeWay ------------------------------
(***************************************************************************)
(* The file-level three-way comparison of the versioned shared area        *)
(* (src/capabilities/workspace/domain/workstore.rs).  A version of a path  *)
(* is a content fingerprint or NoFile.  `base' is the version the agent    *)
(* last pulled (its index entry), `head' the version on the shared line,   *)
(* `local' the version in the agent's sandbox.                             *)
(***************************************************************************)
CONSTANTS Contents,     \* the fingerprints a file may have
          NoFile        \* the path does not exist

ASSUME NoFileAssumption == NoFile \notin Contents

Version == Contents \cup {NoFile}

(* plan_commit: one path of a commit request, local = NoFile for a path in *)
(* `deletes'.  Any conflict rejects the whole commit; a path that is       *)
(* neither a change nor a conflict is reported as unchanged.               *)
PlanConflict(base, head, local) ==
  \/ local = NoFile /\ base = NoFile                     \* DeleteWithoutBase
  \/ local = NoFile /\ base # NoFile
       /\ head \notin {NoFile, base}                     \* DeleteVsModify
  \/ local # NoFile /\ base = NoFile
       /\ head \notin {NoFile, local}                    \* BothAdded
  \/ local # NoFile /\ base # NoFile /\ head = NoFile
       /\ local # base                                   \* ModifyVsDelete
  \/ local # NoFile /\ base # NoFile /\ head # NoFile
       /\ local \notin {base, head} /\ base # head       \* BothModified

PlanChange(base, head, local) ==
  \/ local = NoFile /\ base # NoFile /\ base = head      \* Delete
  \/ local # NoFile /\ base = NoFile /\ head = NoFile    \* Add
  \/ local # NoFile /\ base # NoFile /\ base = head
       /\ local # base                                   \* Modify

(* pull_verdict: one path of the head tree.  Update copies it into the     *)
(* sandbox, AlreadySame only moves the base, Occupied and Conflict leave   *)
(* everything alone, as do Missing and NoChange.                           *)
PullUpdate(base, head, local) ==
  /\ head # NoFile
  /\ \/ base = NoFile /\ local = NoFile
     \/ base # NoFile /\ local = base /\ base # head

PullSame(base, head, local) ==
  /\ head # NoFile /\ local = head
  /\ base # head

PullOccupied(base, head, local) ==
  head # NoFile /\ base = NoFile /\ local \notin {NoFile, head}

PullConflict(base, head, local) ==
  head # NoFile /\ base \notin {NoFile, head} /\ local \notin {base, head}

(* local_take_verdict: may work_resolve(take=local) register this path?    *)
TakeLocalDenied(base, head, local) ==
  /\ head # NoFile /\ base # NoFile /\ local # NoFile
  /\ base # head /\ local = base

NeedsBackupIfRemoved(head, local) ==     \* mutant: overwriting needs none
  local # NoFile /\ head = NoFile

(* needs_backup: would take=upstream destroy a local version?              *)
NeedsBackup(head, local) == local # NoFile /\ local # head

(* status_of: the states work_status shows for a path that differs, and    *)
(* the one it shows for a path that does not.                              *)
StatusConflict(base, head, local) ==
  /\ base # NoFile /\ head # base
  /\ local \notin {base, head}

StatusUpstreamMoved(base, head, local) ==
  base # NoFile /\ head \notin {NoFile, base} /\ local = base

StatusClean(base, head, local) ==
  \/ base = NoFile /\ head = NoFile /\ local = NoFile
  \/ base # NoFile /\ head # NoFile /\ local # NoFile /\ local = head
=============================================================================
