------------------------------ MODULE MCHistory ------------------------------
(***************************************************************************)
(* What the versioned shared area keeps of everybody's work, over three    *)
(* instances of WorkStore at a time: two paths and the line of commits     *)
(* ("line"); an agent and the user on one path, watched by the histories   *)
(* of WorkStoreHist ("agent"); a root bound to an external directory that  *)
(* somebody edits ("external").                                            *)
(***************************************************************************)
EXTENDS Naturals, FiniteSets, TLC

CONSTANTS a1, p1, p2, c1, c2, NoFile, User, Outside

ASSUME HistoryAssumption ==
  User # Outside /\ a1 \notin {User, Outside} /\ NoFile \notin {c1, c2}

VARIABLES which, work, sandbox, lost, commits, head, index, objects, nextId,
          pending, viewed, op, faults, seen, edited

stored == <<work, sandbox, lost, commits, head, index, objects, nextId, pending,
            viewed, op, faults>>
vars == <<which, stored, seen, edited>>

Permutes == Permutations({c1, c2})

\* Uploads, rollbacks, rewinds and discards over two files, with a crash.
Line == INSTANCE WorkStoreProofs WITH Agents <- {}, Paths <- {p1, p2}, Contents <- {c1},
  External <- FALSE, EditsMidOp <- FALSE, MaxId <- 3, MaxLine <- 1, MaxFaults <- 1,
  Requests <- {"upload", "restore", "force", "rewind", "point", "discard", "gc"}

\* An agent pulls, edits, merges by hand and takes backups back while the user
\* uploads new versions and rolls the shared area back, with a crash.
Agent == INSTANCE WorkStoreProofs WITH Agents <- {a1}, Paths <- {p1}, Contents <- {c1, c2},
  External <- FALSE, EditsMidOp <- FALSE, MaxId <- 3, MaxLine <- 0, MaxFaults <- 1,
  Requests <- {"pull", "commit", "resolve", "restore_lost", "upload", "restore"}

\* Somebody edits the shared files between two operations.
Bound == INSTANCE WorkStoreProofs WITH Agents <- {a1}, Paths <- {p1}, Contents <- {c1, c2},
  External <- TRUE, EditsMidOp <- FALSE, MaxId <- 2, MaxLine <- 0, MaxFaults <- 0,
  Requests <- {"sync", "pull", "commit", "upload", "restore", "point", "discard"}

Init ==
  \/ which = "line" /\ Line!Init /\ seen = <<>> /\ edited = <<>>
  \/ which = "agent" /\ Agent!InitHist
  \/ which = "external" /\ Bound!Init /\ seen = <<>> /\ edited = <<>>

Next ==
  /\ UNCHANGED which
  /\ \/ which = "line" /\ Line!Next /\ UNCHANGED <<seen, edited>>
     \/ which = "agent" /\ Agent!NextHist
     \/ which = "external" /\ Bound!Next /\ UNCHANGED <<seen, edited>>

Spec == Init /\ [][Next]_vars

-----------------------------------------------------------------------------
\* The history behind head stays complete, whatever is discarded.
LineIntact == which = "line" => Line!LineIntact

\* A rewind drops no commit that every seat keeps.
RewindLosesNothingKept == which = "line" => Line!RewindLosesNothingKept

\* No pull or resolution destroys the only copy of what an agent wrote.
EditsSurvive == [][which = "agent" => Agent!EditSurvives]_vars

\* A commit never replaces a version its author has not had in front of it.
NoLostUpdate == [][which = "agent" => Agent!UpdateSeen]_vars

\* A pull that was not interrupted leaves no conflict in a file the agent did
\* not write.
PullConverges == which = "agent" => Agent!PullConverges

\* Of an external directory only versions that head recorded are replaced.
ExternalEditsKept == [][which = "external" => Bound!EditKept]_vars
=============================================================================
