-------------------------- MODULE WorkStoreProofs --------------------------
(***************************************************************************)
(* Theorems about WorkStore for every value of its constants: its types    *)
(* and its shared files; the line of commits, which stays whole and linear *)
(* and implements SharedLine; what pulls, resolutions, rewinds and an      *)
(* external root keep; and, with the histories of WorkStoreHist, that no   *)
(* version is lost unseen.                                                 *)
(***************************************************************************)
EXTENDS WorkStoreHist, TLAPS

USE WorkStoreAssumption

-----------------------------------------------------------------------------
(* The three-way comparison, for every set of fingerprints.               *)

(* A path is committed exactly when the head version is still the author's *)
(* base and the local version differs: plan_commit never turns a version   *)
(* the author has not based on into a change.                              *)
THEOREM ChangeOnlyOnBase ==
  ASSUME NEW b0 \in Version, NEW h0 \in Version, NEW l0 \in Version,
         l0 # NoFile \/ b0 # NoFile
  PROVE  PlanChange(b0, h0, l0) <=> b0 = h0 /\ l0 # h0
BY NoFileAssumption DEF PlanChange, Version

(* plan_commit's table is the classic three-way rule: a conflict is two    *)
(* different changes of one base.  (A deletion without a base is refused   *)
(* as well.)                                                               *)
THEOREM ConflictIsTwoChanges ==
  ASSUME NEW b0 \in Version, NEW h0 \in Version, NEW l0 \in Version,
         l0 # NoFile \/ b0 # NoFile
  PROVE  PlanConflict(b0, h0, l0)
         <=> l0 # h0 /\ h0 # b0 /\ l0 # b0
BY NoFileAssumption DEF PlanConflict, Version

(* work_pull writes the sandbox only where the local file is the base      *)
(* version (or both are absent), and gives one verdict per path: pulling   *)
(* never overwrites local work.                                            *)
THEOREM PullKeepsLocalWork ==
  ASSUME NEW b0 \in Version, NEW h0 \in Version, NEW l0 \in Version
  PROVE  /\ PullUpdate(b0, h0, l0) =>
              /\ l0 = b0 /\ h0 # b0
              /\ ~PullSame(b0, h0, l0)
              /\ ~PullOccupied(b0, h0, l0)
              /\ ~PullConflict(b0, h0, l0)
         /\ PullSame(b0, h0, l0) =>
              ~PullOccupied(b0, h0, l0) /\ ~PullConflict(b0, h0, l0)
BY NoFileAssumption
   DEF PullUpdate, PullSame, PullOccupied, PullConflict, Version

(* The sides agree: what pulling refuses, committing the local file        *)
(* refuses too; and where a base exists, the status table shows a conflict *)
(* exactly there.                                                          *)
THEOREM SidesAgree ==
  ASSUME NEW b0 \in Version, NEW h0 \in Contents, NEW l0 \in Contents
  PROVE  /\ PullConflict(b0, h0, l0) \/ PullOccupied(b0, h0, l0)
              <=> PlanConflict(b0, h0, l0)
         /\ b0 # NoFile => (StatusConflict(b0, h0, l0)
                                <=> PlanConflict(b0, h0, l0))
BY NoFileAssumption
   DEF PullConflict, PullOccupied, PlanConflict, StatusConflict, Version

(* Resolving ends the conflict: take=local and take=upstream both make the *)
(* head version the base, and with that base neither a commit of the local *)
(* file nor another pull conflicts.                                        *)
THEOREM ResolvedNeverConflicts ==
  ASSUME NEW h0 \in Version, NEW l0 \in Version,
         l0 # NoFile \/ h0 # NoFile
  PROVE  /\ ~PlanConflict(h0, h0, l0)
         /\ ~PullConflict(h0, h0, l0)
         /\ ~StatusConflict(h0, h0, l0)
BY NoFileAssumption DEF PlanConflict, PullConflict, StatusConflict, Version

(* take=local is refused exactly where status shows "upstream moved": the  *)
(* file was not edited, so registering it would only put the old base back *)
(* over a newer version.                                                   *)
THEOREM DeniedMeansUnedited ==
  ASSUME NEW b0 \in Version, NEW h0 \in Version, NEW l0 \in Version
  PROVE  TakeLocalDenied(b0, h0, l0)
         <=> StatusUpstreamMoved(b0, h0, l0)
BY NoFileAssumption DEF TakeLocalDenied, StatusUpstreamMoved, Version

-----------------------------------------------------------------------------
(* The shapes the actions build.                                           *)

(* A record of every shape op can have is told apart by its kind.          *)
LEMMA OpShapes ==
  ASSUME op \in Op
  PROVE  /\ op.kind = "pull" => op \in PullOp
         /\ op.kind = "make" => op \in MakeOp
         /\ op.kind = "apply" => op \in ApplyOp
         /\ op.kind = "resolve" => op \in ResolveOp
         /\ op.kind = "idle" => op = Idle
         /\ op.kind = "ready" => op = Ready
         /\ op.kind \in {"idle", "ready", "pull", "make", "apply", "resolve"}
  BY DEF Op, Idle, Ready, PullOp, MakeOp, ApplyOp, ResolveOp

LEMMA EmptyShapes ==
  /\ EmptyTree \in Tree /\ NoCommit \in Commit /\ NoPending \in Pending
  /\ NoPending.kind = "none"
  BY DEF EmptyTree, Tree, Version, NoCommit, Commit, NoPending, Pending, Heads, Seats

(* Reading the tree of a commit, of head or of a transaction.              *)
LEMMA TreeShapes ==
  ASSUME commits \in [Ids -> Commit], head \in Heads, pending \in Pending
  PROVE  /\ \A i \in Heads : TreeOf(i) \in Tree
         /\ HeadTree \in Tree /\ TargetTree \in Tree
<1>1. ASSUME NEW i \in Heads PROVE TreeOf(i) \in Tree
  <2>1. CASE i = 0  BY <2>1, EmptyShapes DEF TreeOf
  <2>2. CASE i # 0
    <3>1. i \in Ids  BY <2>2 DEF Heads, Ids
    <3> QED BY <2>2, <3>1 DEF TreeOf, Commit
  <2> QED BY <2>1, <2>2
<1>2. HeadTree \in Tree  BY <1>1 DEF HeadTree
<1>3. TargetTree \in Tree  BY <1>1 DEF TargetTree, Pending, Commit
<1> QED BY <1>1, <1>2, <1>3

LEMMA PatchedShape ==
  ASSUME NEW t \in Tree, NEW u \in Tree, NEW S
  PROVE  Patched(t, S, u) \in Tree
  BY DEF Patched, Tree

LEMMA MoveShape ==
  ASSUME NEW k \in {"restore", "discard"}, NEW i \in Heads
  PROVE  /\ MoveHead(k, i) \in Pending
         /\ MoveHead(k, i).kind = k /\ MoveHead(k, i).target = i
  BY EmptyShapes DEF MoveHead, Pending, NoPending

LEMMA ApplyShape ==
  ASSUME NEW pd \in Pending, NEW n \in {1, 2}, NEW then \in {Idle, Ready}
  PROVE  /\ Applying(pd, n, then) \in ApplyOp
         /\ Applying(pd, n, then) \in Op
         /\ Applying(pd, n, then).kind = "apply"
  BY DEF Applying, FilesToMove, ApplyOp, Op, Pending, Commit

LEMMA MakeShape ==
  ASSUME NEW a \in Authors, NEW l \in 0..MaxLine, NEW C \in SUBSET Paths, NEW t \in Tree
  PROVE  /\ Making(a, l, C, t) \in MakeOp /\ Making(a, l, C, t) \in Op
         /\ Making(a, l, C, t).kind = "make"
  BY DEF Making, MakeOp, Op, Heads

(* Each update an action makes to op leaves it in its own shape.           *)
LEMMA PullStep ==
  ASSUME NEW o \in PullOp, NEW p \in Paths, NEW v \in Version
  PROVE  /\ [o EXCEPT !.copying = {p}] \in PullOp
         /\ [o EXCEPT !.want = @ \ {p}] \in PullOp
         /\ [o EXCEPT !.want = @ \ {p}, !.base[p] = v] \in PullOp
         /\ [o EXCEPT !.want = @ \ {p}, !.copying = {}, !.base[p] = v] \in PullOp
  BY DEF PullOp, Tree

LEMMA MakeStep ==
  ASSUME NEW o \in MakeOp, NEW p \in Paths
  PROVE  [o EXCEPT !.ingest = @ \ {p}] \in MakeOp
  BY DEF MakeOp

LEMMA MakeIdStep ==
  ASSUME NEW o \in MakeOp, NEW n \in Ids
  PROVE  [o EXCEPT !.id = n] \in MakeOp
  BY DEF MakeOp, Ids, Heads

LEMMA ApplyStep ==
  ASSUME NEW o \in ApplyOp, NEW p \in Paths
  PROVE  [o EXCEPT !.files = @ \ {p}] \in ApplyOp
  BY DEF ApplyOp

LEMMA StageStep ==
  ASSUME NEW o \in ApplyOp, NEW s \in {"recorded", "headed", "indexed"}
  PROVE  [o EXCEPT !.stage = s] \in ApplyOp
  BY DEF ApplyOp

LEMMA ResolveStep ==
  ASSUME NEW o \in ResolveOp, NEW p \in Paths, NEW v \in Version
  PROVE  /\ [o EXCEPT !.backup = @ \ {p}] \in ResolveOp
         /\ [o EXCEPT !.todo = @ \ {p}, !.base[p] = v] \in ResolveOp
  BY DEF ResolveOp, Tree

(* The shapes are values of op, and only ApplyOp applies.                  *)
LEMMA ShapesAreOps ==
  /\ Idle \in Op /\ Ready \in Op
  /\ Idle.kind = "idle" /\ Ready.kind = "ready"
  /\ \A o : o \in PullOp => o \in Op /\ o.kind = "pull"
  /\ \A o : o \in MakeOp => o \in Op /\ o.kind = "make"
  /\ \A o : o \in ApplyOp => o \in Op /\ o.kind = "apply"
  /\ \A o : o \in ResolveOp => o \in Op /\ o.kind = "resolve"
  BY DEF Op, Idle, Ready, PullOp, MakeOp, ApplyOp, ResolveOp

LEMMA EditShape ==
  ASSUME NEW T, NEW d \in [T -> Tree], NEW a \in T, NEW p \in Paths, NEW v \in Version
  PROVE  [d EXCEPT ![a][p] = v] \in [T -> Tree]
  BY DEF Tree

-----------------------------------------------------------------------------
(* Type correctness, for any number of agents, paths, contents, commits    *)
(* and faults.                                                             *)
LEMMA InitType == Init => TypeOK
  BY EmptyShapes DEF Init, TypeOK, Op, Idle, Ready, Heads, Tree

LEMMA StepType == TypeOK /\ [Next]_vars => TypeOK'
<1> SUFFICES ASSUME TypeOK, [Next]_vars PROVE TypeOK'
  OBVIOUS
<1>op. /\ op.kind = "pull" => op \in PullOp
       /\ op.kind = "make" => op \in MakeOp
       /\ op.kind = "apply" => op \in ApplyOp
       /\ op.kind = "resolve" => op \in ResolveOp
  BY OpShapes DEF TypeOK
<1>tree. /\ HeadTree \in Tree /\ TargetTree \in Tree
         /\ \A i \in Heads : TreeOf(i) \in Tree
  BY TreeShapes DEF TypeOK
<1>ver. /\ \A t \in Tree, p \in Paths : t[p] \in Version
        /\ NoFile \in Version /\ EmptyTree \in Tree
  BY EmptyShapes DEF Tree, Version
\* Entering and leaving.
<1>1. CASE Enter
  BY <1>1, ApplyShape, ShapesAreOps DEF Enter, disks, store, TypeOK
<1>2. CASE Leave
  BY <1>2, ShapesAreOps DEF Leave, disks, store, TypeOK
\* work_pull
<1>3. CASE PullEnd
  BY <1>3, <1>op, ShapesAreOps DEF PullEnd, disks, PullOp, TypeOK
<1>4. ASSUME NEW p \in Paths, PullDecide(p) PROVE TypeOK'
  <2>1. op \in PullOp  BY <1>4, <1>op DEF PullDecide
  <2>2. HeadTree[p] \in Version  BY <1>tree, <1>ver
  <2>3. /\ [op EXCEPT !.copying = {p}] \in PullOp
        /\ [op EXCEPT !.want = @ \ {p}] \in PullOp
        /\ [op EXCEPT !.want = @ \ {p}, !.base[p] = HeadTree[p]] \in PullOp
    BY <2>1, <2>2, PullStep
  <2>4. \/ op' = [op EXCEPT !.copying = {p}]
        \/ op' = [op EXCEPT !.want = @ \ {p}]
        \/ op' = [op EXCEPT !.want = @ \ {p}, !.base[p] = HeadTree[p]]
    BY <1>4, Zenon DEF PullDecide
  <2>5. op' \in PullOp  BY <2>3, <2>4
  <2> QED BY <2>5, <1>4, ShapesAreOps DEF PullDecide, disks, store, TypeOK
<1>5. ASSUME NEW p \in Paths, PullCopy(p) PROVE TypeOK'
  <2>1. op \in PullOp /\ op.agent \in Agents  BY <1>5, <1>op DEF PullCopy, PullOp
  <2>2. op' \in PullOp
    BY <2>1, <1>5, <1>tree, <1>ver, PullStep DEF PullCopy
  <2>3. sandbox' \in [Agents -> Tree]
    BY <2>1, <1>5, <1>tree, <1>ver, EditShape DEF PullCopy, TypeOK
  <2> QED BY <2>2, <2>3, <1>5, ShapesAreOps DEF PullCopy, store, TypeOK
<1>6. ASSUME NEW a \in Agents, NEW S \in NonEmpty, PullBegin(a, S) PROVE TypeOK'
  <2>1. op' \in PullOp
    BY <1>6 DEF PullBegin, PullOp, NonEmpty, TypeOK
  <2> QED BY <2>1, <1>6, ShapesAreOps DEF PullBegin, disks, store, TypeOK
<1>7. CASE PullFails
  BY <1>7, <1>op, ShapesAreOps DEF PullFails, disks, PullOp, TypeOK
\* work_commit, work_sync, work_commit_user
<1>8. ASSUME NEW a \in Agents, NEW S \in SUBSET Paths, NEW D \in SUBSET Paths,
             NEW l \in Lines, CommitBegin(a, S, D, l)
      PROVE  TypeOK'
  <2> DEFINE local == [p \in Paths |-> IF p \in S THEN sandbox[a][p] ELSE NoFile]
             changes == {p \in S \cup D : PlanChange(index[a][p], HeadTree[p], local[p])}
  <2>1. local \in Tree  BY <1>ver DEF Tree, TypeOK
  <2>2. changes \in SUBSET Paths  OBVIOUS
  <2>3. Patched(HeadTree, changes, local) \in Tree
    BY <2>1, <1>tree, PatchedShape
  <2>4. op' = Making(a, l, changes, Patched(HeadTree, changes, local))
    BY <1>8 DEF CommitBegin
  <2>5. op' \in Op /\ op'.kind = "make"
    <3> HIDE DEF local, changes
    <3> QED BY <2>2, <2>3, <2>4, MakeShape DEF Lines, Authors, Seats
  <2> QED BY <2>5, <1>8 DEF CommitBegin, disks, store, TypeOK
<1>9. ASSUME NEW S \in NonEmpty, SyncBegin(S) PROVE TypeOK'
  <2> DEFINE changes == {p \in S : work[p] # HeadTree[p]}
  <2>1. changes \in SUBSET Paths  BY DEF NonEmpty
  <2>2. Patched(HeadTree, changes, work) \in Tree
    BY <1>tree, PatchedShape DEF TypeOK
  <2>3. op' = Making(Outside, 0, changes, Patched(HeadTree, changes, work))
    BY <1>9 DEF SyncBegin
  <2>4. op' \in Op /\ op'.kind = "make"
    <3> HIDE DEF changes
    <3> QED BY <2>1, <2>2, <2>3, MakeShape DEF Authors
  <2> QED BY <2>4, <1>9 DEF SyncBegin, disks, store, TypeOK
<1>10. ASSUME NEW p \in Paths, NEW c \in Contents, NEW l \in Lines, UploadBegin(p, c, l)
       PROVE  TypeOK'
  <2>1. [HeadTree EXCEPT ![p] = c] \in Tree  BY <1>tree DEF Tree, Version
  <2>2. op' \in Op /\ op'.kind = "make"
    BY <2>1, <1>10, MakeShape DEF UploadBegin, Lines, Authors, Seats
  <2> QED BY <2>2, <1>10 DEF UploadBegin, disks, store, TypeOK
<1>11. ASSUME NEW p \in Paths, Ingest(p) PROVE TypeOK'
  <2>1. op \in MakeOp  BY <1>11, <1>op DEF Ingest, IngestTurn
  <2>2. op' \in MakeOp  BY <2>1, <1>11, MakeStep DEF Ingest
  <2>3. op.tree[p] \in Version /\ Source(p) \in Version
    BY <2>1, <1>ver DEF Source, MakeOp, Authors, Seats, TypeOK
  <2>4. objects' \in SUBSET Version  BY <2>3, <1>11 DEF Ingest, TypeOK
  <2> QED BY <2>2, <2>4, <1>11, ShapesAreOps DEF Ingest, disks, TypeOK
<1>12. ASSUME NEW p \in Paths, IngestChanged(p) PROVE TypeOK'
  BY <1>12, ShapesAreOps DEF IngestChanged, disks, store, TypeOK
<1>13. CASE ReserveId
  <2>1. op \in MakeOp  BY <1>13, <1>op DEF ReserveId
  <2>2. PICK n \in Ids : op' = [op EXCEPT !.id = n] /\ nextId' = n + 1
    BY <1>13 DEF ReserveId
  <2>3. op' \in MakeOp  BY <2>1, <2>2, MakeIdStep
  <2>4. nextId' \in 1..(MaxId + 1)  BY <2>2 DEF Ids
  <2> QED BY <2>3, <2>4, <1>13, ShapesAreOps DEF ReserveId, disks, TypeOK
<1>14. CASE LogCommit
  <2>1. op \in MakeOp /\ op.author \in Authors  BY <1>14, <1>op DEF LogCommit, MakeOp
  <2> DEFINE rec == [parent |-> head, author |-> op.author, line |-> op.line,
                     changes |-> op.changes, tree |-> op.tree]
             base == IF op.author \in Agents
                     THEN Patched(index[op.author], op.changes, op.tree)
                     ELSE EmptyTree
             pd == [kind |-> "commit", target |-> op.id, rec |-> rec, base |-> base]
  <2>2. base \in Tree
    BY <2>1, <1>ver, PatchedShape DEF MakeOp, TypeOK
  <2>3. rec \in Commit  BY <2>1 DEF MakeOp, Commit, Authors, TypeOK
  <2>4. pd \in Pending /\ pd.kind = "commit"
    <3> HIDE DEF rec, base
    <3> QED BY <2>1, <2>2, <2>3 DEF Pending, MakeOp
  <2>5. pending' = pd /\ op' = Applying(pd, 1, Idle)  BY <1>14 DEF LogCommit
  <2> HIDE DEF pd
  <2>6. op' \in Op  BY <2>4, <2>5, ApplyShape
  <2> QED BY <2>4, <2>5, <2>6, <1>14 DEF LogCommit, disks, TypeOK
\* Moving the shared line.
<1>15. ASSUME NEW k \in {"restore", "discard"}, NEW i \in Heads, NEW f, LogMove(k, i, f)
       PROVE  TypeOK'
  <2>1. pending' = MoveHead(k, i) /\ op' = Applying(MoveHead(k, i), 1, Idle)
    BY <1>15 DEF LogMove
  <2>2. pending' \in Pending /\ pending'.kind # "none" /\ op' \in Op
    BY <2>1, MoveShape, ApplyShape
  <2> QED BY <2>2, <1>15 DEF LogMove, disks, TypeOK
<1>16. ASSUME NEW i \in Ids, NEW f, Restore(i, f) PROVE TypeOK'
  BY <1>15, <1>16 DEF Restore, Ids, Heads
<1>17. ASSUME NEW i \in Heads, RestorePoint(i) PROVE TypeOK'
  BY <1>15, <1>17 DEF RestorePoint
<1>18. ASSUME NEW i \in Heads, DiscardAfter(i) PROVE TypeOK'
  BY <1>15, <1>18 DEF DiscardAfter
<1>19. ASSUME NEW keep \in Keeps, RewindTo(keep) PROVE TypeOK'
  BY <1>15, <1>19 DEF RewindTo
\* Applying a transaction.
<1>20. ASSUME NEW p \in Paths, WriteFile(p) PROVE TypeOK'
  <2>1. op \in ApplyOp  BY <1>20, <1>op DEF WriteFile, ApplyStage
  <2>2. op' \in ApplyOp  BY <2>1, <1>20, ApplyStep DEF WriteFile
  <2>3. work' \in Tree  BY <1>20, <1>tree DEF WriteFile, Tree, TypeOK
  <2> QED BY <2>1, <2>2, <2>3, <1>20, ShapesAreOps DEF WriteFile, store, TypeOK
<1>21. ASSUME NEW p \in Paths, NEW c \in Version, TearFile(p, c) PROVE TypeOK'
  <2>1. work' \in Tree  BY <1>21 DEF TearFile, Tree, TypeOK
  <2> QED BY <2>1, <1>21, ShapesAreOps DEF TearFile, store, TypeOK
<1>22. CASE WriteCommit
  <2>1. op \in ApplyOp  BY <1>22, <1>op DEF WriteCommit, ApplyStage
  <2>2. op' \in ApplyOp  BY <2>1, <1>22, StageStep DEF WriteCommit
  <2>3. commits' \in [Ids -> Commit]  BY <1>22 DEF WriteCommit, Pending, TypeOK
  <2> QED BY <2>1, <2>2, <2>3, <1>22, ShapesAreOps DEF WriteCommit, disks, TypeOK
<1>23. CASE SetHead
  <2>1. op \in ApplyOp  BY <1>23, <1>op DEF SetHead
  <2>2. op' \in ApplyOp  BY <2>1, <1>23, StageStep DEF SetHead
  <2>3. head' \in Heads  BY <1>23 DEF SetHead, Pending, TypeOK
  <2> QED BY <2>1, <2>2, <2>3, <1>23, ShapesAreOps DEF SetHead, disks, TypeOK
<1>24. CASE WriteIndex
  <2>1. op \in ApplyOp  BY <1>24, <1>op DEF WriteIndex, ApplyStage
  <2>2. op' \in ApplyOp  BY <2>1, <1>24, StageStep DEF WriteIndex
  <2>3. index' \in [Agents -> Tree]
    BY <1>24 DEF WriteIndex, OwnsBase, Pending, TypeOK
  <2> QED BY <2>1, <2>2, <2>3, <1>24, ShapesAreOps DEF WriteIndex, disks, TypeOK
<1>25. ASSUME NEW i \in Ids, DropCommit(i) PROVE TypeOK'
  <2>1. commits' \in [Ids -> Commit]  BY <1>25, EmptyShapes DEF DropCommit, TypeOK
  <2> QED BY <2>1, <1>25 DEF DropCommit, disks, TypeOK
<1>26. CASE ClearPending
  <2>1. op' \in {Idle, Ready}  BY <1>26, <1>op DEF ClearPending, ApplyOp
  <2> QED BY <2>1, <1>26, EmptyShapes, ShapesAreOps DEF ClearPending, disks, TypeOK
<1>27. CASE ApplyFails
  <2>1. op' \in Op /\ (op'.kind = "apply" => pending.kind # "none")
    BY <1>27, ApplyShape, ShapesAreOps DEF ApplyFails, TypeOK
  <2> QED BY <2>1, <1>27 DEF ApplyFails, disks, store, TypeOK
\* Looking and resolving.
<1>28. ASSUME NEW a \in Agents, View(a) PROVE TypeOK'
  BY <1>28, ShapesAreOps DEF View, disks, store, TypeOK
<1>29. ASSUME NEW a \in Agents, NEW take \in {"upstream", "local"}, NEW S \in NonEmpty,
              ResolveBegin(a, take, S)
       PROVE  TypeOK'
  <2>1. op' \in ResolveOp
    BY <1>29 DEF ResolveBegin, ResolveOp, NonEmpty, TypeOK
  <2> QED BY <2>1, <1>29, ShapesAreOps DEF ResolveBegin, disks, store, TypeOK
<1>30. ASSUME NEW p \in Paths, ResolveBackup(p) PROVE TypeOK'
  <2>1. op \in ResolveOp /\ op.agent \in Agents /\ op.found[p] \in Version
    BY <1>30, <1>op, <1>ver DEF ResolveBackup, ResolveOp
  <2>2. op' \in ResolveOp  BY <2>1, <1>30, ResolveStep DEF ResolveBackup
  <2>3. lost' \in [Agents -> Tree]
    BY <2>1, <1>30, EditShape DEF ResolveBackup, TypeOK
  <2> QED BY <2>2, <2>3, <1>30, ShapesAreOps DEF ResolveBackup, store, TypeOK
<1>31. ASSUME NEW p \in Paths, ResolveChanged(p) PROVE TypeOK'
  BY <1>31, ShapesAreOps DEF ResolveChanged, disks, store, TypeOK
<1>32. ASSUME NEW p \in Paths, ResolveApply(p) PROVE TypeOK'
  <2>1. op \in ResolveOp /\ op.agent \in Agents /\ HeadTree[p] \in Version
    BY <1>32, <1>op, <1>tree, <1>ver DEF ResolveApply, ResolveOp
  <2>2. op' \in ResolveOp  BY <2>1, <1>32, ResolveStep DEF ResolveApply
  <2>3. sandbox' \in [Agents -> Tree]
    BY <2>1, <1>32, EditShape DEF ResolveApply, TypeOK
  <2> QED BY <2>2, <2>3, <1>32, ShapesAreOps DEF ResolveApply, store, TypeOK
<1>33. CASE ResolveEnd
  BY <1>33, <1>op, ShapesAreOps DEF ResolveEnd, disks, ResolveOp, TypeOK
<1>34. ASSUME NEW a \in Agents, NEW p \in Paths, NEW e, RestoreLost(a, p, e) PROVE TypeOK'
  <2>1. lost[a][p] \in Version /\ sandbox \in [Agents -> Tree]  BY <1>ver DEF TypeOK
  <2>2. sandbox' \in [Agents -> Tree]
    <3>1. [sandbox EXCEPT ![a][p] = lost[a][p]] \in [Agents -> Tree]
      BY <2>1, EditShape
    <3> QED BY <3>1, <1>34 DEF RestoreLost
  <2> QED BY <2>2, <1>34, ShapesAreOps DEF RestoreLost, store, TypeOK
<1>35. CASE Gc
  <2>1. objects' \in SUBSET Version /\ op' = Idle  BY <1>35 DEF Gc, TypeOK
  <2> QED BY <2>1, <1>35, ShapesAreOps DEF Gc, disks, TypeOK
\* The world around an operation.
<1>36. ASSUME NEW a \in Agents, NEW p \in Paths, NEW c \in Version, EditSandbox(a, p, c)
       PROVE  TypeOK'
  <2>1. sandbox' \in [Agents -> Tree]
    BY <1>36, EditShape DEF EditSandbox, TypeOK
  <2> QED BY <2>1, <1>36 DEF EditSandbox, store, TypeOK
<1>37. ASSUME NEW p \in Paths, NEW c \in Version, EditShared(p, c) PROVE TypeOK'
  <2>1. work' \in Tree  BY <1>37 DEF EditShared, Tree, TypeOK
  <2> QED BY <2>1, <1>37 DEF EditShared, store, TypeOK
<1>38. CASE Interrupt
  BY <1>38, ShapesAreOps DEF Interrupt, disks, store, TypeOK
<1>39. CASE UNCHANGED vars
  BY <1>39 DEF vars, TypeOK
<1> QED
  <2>1. CASE Proceed
    BY <2>1, <1>1, <1>2, <1>3, <1>4, <1>5, <1>11, <1>12, <1>13, <1>14, <1>20, <1>22,
       <1>23, <1>24, <1>25, <1>26, <1>30, <1>31, <1>32, <1>33 DEF Proceed
  <2>2. CASE Call
    BY <2>2, <1>6, <1>8, <1>9, <1>10, <1>16, <1>17, <1>18, <1>19, <1>28, <1>29, <1>34,
       <1>35 DEF Call, Request
  <2>3. CASE Fault
    BY <2>3, <1>7, <1>21, <1>27, <1>38 DEF Fault, Crash
  <2>4. CASE Edit
    BY <2>4, <1>36, <1>37 DEF Edit
  <2> QED BY <2>1, <2>2, <2>3, <2>4, <1>39 DEF Next

(* Every reachable state has the shape the code stores (TypeOK).           *)
THEOREM TypeCorrect == Spec => []TypeOK
  BY InitType, StepType, PTL DEF Spec

-----------------------------------------------------------------------------
(* The shared files are the head tree between transactions (internal root).*)

(* A step that leaves the shared files, the commits, head and the record   *)
(* alone keeps everything PendingInv says.                                 *)
LEMMA PendingFrame ==
  PendingInv /\ UNCHANGED <<work, commits, head, pending>> => PendingInv'
  BY DEF PendingInv, Existing, HeadTree, TargetTree, TreeOf

(* What it leaves alone is what the trees are computed from.               *)
LEMMA TreeFrame ==
  /\ UNCHANGED <<commits, head>> => UNCHANGED HeadTree
  /\ UNCHANGED <<commits, pending>> => UNCHANGED TargetTree
  /\ UNCHANGED commits => UNCHANGED Existing
  BY DEF Existing, HeadTree, TargetTree, TreeOf

(* The files a transaction starts to write are all those that differ.      *)
LEMMA ApplyingFiles ==
  ASSUME NEW pd \in Pending, NEW n, NEW then, NEW w,
         pd.kind = "commit" =>
           \A p \in Paths \ pd.rec.changes : External \/ w[p] = pd.rec.tree[p],
         pd.kind # "commit" =>
           \A p \in Paths : External \/ w[p] \in {HeadTree[p], TreeOf(pd.target)[p]}
  PROVE  /\ Applying(pd, n, then).kind = "apply" /\ Applying(pd, n, then).stage = "files"
         /\ pd.kind = "commit" =>
              /\ \A p \in Paths \ Applying(pd, n, then).files :
                   External \/ w[p] = pd.rec.tree[p]
              /\ Applying(pd, n, then).files \subseteq pd.rec.changes
         /\ pd.kind # "commit" =>
              \A p \in Paths \ Applying(pd, n, then).files :
                External \/ w[p] = TreeOf(pd.target)[p]
  BY DEF Applying, FilesToMove

(* Replaying the record from any point it was left at.                     *)
LEMMA ReplayFiles ==
  ASSUME TypeOK, PendingInv, pending.kind # "none", NEW n, NEW then,
         op' = Applying(pending, n, then), UNCHANGED <<work, commits, head, pending>>
  PROVE  OperationInv'
<1>1. pending \in Pending  BY DEF TypeOK
<1>2. pending.kind \in {"commit", "restore", "discard"}  BY <1>1 DEF Pending
<1>3. pending.kind = "commit" =>
        \A p \in Paths \ pending.rec.changes : External \/ work[p] = pending.rec.tree[p]
  BY DEF PendingInv, TargetTree
<1>4. pending.kind # "commit" =>
        \A p \in Paths : External \/ work[p] \in {HeadTree[p], TreeOf(pending.target)[p]}
  BY <1>2 DEF PendingInv, TargetTree, NoCommit
<1>5. /\ op'.kind = "apply" /\ op'.stage = "files"
      /\ pending.kind = "commit" => op'.files \subseteq pending.rec.changes
      /\ \A p \in Paths \ op'.files : External \/ work[p] = TargetTree[p]
  BY <1>1, <1>3, <1>4, ApplyingFiles DEF TargetTree
<1> QED BY <1>5, TreeFrame DEF OperationInv, ApplyStage

(* An operation that has returned leaves nothing to keep.                  *)
LEMMA IdleKeeps == op' = Idle => OperationInv'
  BY DEF Idle, OperationInv, ApplyStage

LEMMA ReadyKeeps == op' = Ready /\ pending'.kind = "none" => OperationInv'
  BY DEF Ready, OperationInv, ApplyStage

(* A commit is an ancestor of itself, so discarding keeps it.              *)
LEMMA SelfAncestor == \A i \in Ids : i \in Ancestors(i)
  BY DEF Ancestors, Ids

LEMMA InitLine == Init => PendingInv /\ OperationInv
  BY EmptyShapes DEF Init, PendingInv, OperationInv, ApplyStage, Idle, HeadTree, TreeOf,
     EmptyTree, Existing

LEMMA StepLine ==
  ASSUME TypeOK, TypeOK', PendingInv, OperationInv, [Next]_vars
  PROVE  PendingInv' /\ OperationInv'
<1> DEFINE Same == UNCHANGED <<work, commits, head, pending>>
<1>op. /\ op.kind = "pull" => op \in PullOp
       /\ op.kind = "make" => op \in MakeOp
       /\ op.kind = "apply" => op \in ApplyOp
       /\ op.kind = "resolve" => op \in ResolveOp
       /\ op.kind \in {"idle", "ready", "pull", "make", "apply", "resolve"}
  BY OpShapes DEF TypeOK
<1>pd. /\ pending.kind \in {"none", "commit", "restore", "discard"}
       /\ pending.target \in Heads /\ pending.rec \in Commit
       /\ work \in Tree /\ HeadTree \in Tree /\ TargetTree \in Tree
  BY TreeShapes DEF Pending, TypeOK
\* Steps that leave the shared files, the commits, head and the record alone.
<1>1. ASSUME Same, op' = Idle PROVE PendingInv' /\ OperationInv'
  BY <1>1, PendingFrame, IdleKeeps
<1>2. ASSUME Same, op'.kind \in {"pull", "resolve"}, pending.kind = "none"
      PROVE  PendingInv' /\ OperationInv'
  BY <1>2, PendingFrame DEF OperationInv, ApplyStage
<1>3. CASE Enter
  <2>1. Same  BY <1>3 DEF Enter, disks, store
  <2>2. CASE pending.kind = "none"
    BY <2>1, <2>2, <1>3, PendingFrame, ReadyKeeps DEF Enter
  <2>3. CASE pending.kind # "none"
    BY <2>1, <2>3, <1>3, PendingFrame, ReplayFiles DEF Enter
  <2> QED BY <2>2, <2>3
<1>4. CASE Leave
  BY <1>4, <1>1 DEF Leave, disks, store
<1>5. CASE PullEnd
  BY <1>5, <1>1 DEF PullEnd, disks
<1>6. ASSUME NEW p \in Paths, PullDecide(p) PROVE PendingInv' /\ OperationInv'
  <2>1. op \in PullOp /\ pending.kind = "none"
    BY <1>6, <1>op DEF PullDecide, OperationInv
  <2>2. op'.kind = "pull"  BY <2>1, <1>6 DEF PullDecide, PullOp
  <2> QED BY <2>1, <2>2, <1>6, <1>2 DEF PullDecide, disks, store
<1>7. ASSUME NEW p \in Paths, PullCopy(p) PROVE PendingInv' /\ OperationInv'
  <2>1. op \in PullOp /\ pending.kind = "none"
    BY <1>7, <1>op DEF PullCopy, OperationInv
  <2>2. op'.kind = "pull"  BY <2>1, <1>7 DEF PullCopy, PullOp
  <2> QED BY <2>1, <2>2, <1>7, <1>2 DEF PullCopy, store
<1>8. ASSUME NEW a \in Agents, NEW S \in NonEmpty, PullBegin(a, S)
      PROVE  PendingInv' /\ OperationInv'
  BY <1>8, <1>2 DEF PullBegin, disks, store, Ready, OperationInv
<1>9. CASE PullFails
  BY <1>9, <1>1 DEF PullFails, disks
\* A commit being prepared carries head's versions outside its changes.
<1>10. ASSUME Same, op = Ready, NEW a, NEW l, NEW C, NEW t, C # {},
              \A p \in Paths \ C : t[p] = HeadTree[p], op' = Making(a, l, C, t)
       PROVE  PendingInv' /\ OperationInv'
  BY <1>10, PendingFrame, TreeFrame DEF Making, Ready, OperationInv, ApplyStage
<1>11. ASSUME NEW a \in Agents, NEW S \in SUBSET Paths, NEW D \in SUBSET Paths,
              NEW l \in Lines, CommitBegin(a, S, D, l)
       PROVE  PendingInv' /\ OperationInv'
  <2> DEFINE local == [p \in Paths |-> IF p \in S THEN sandbox[a][p] ELSE NoFile]
             changes == {p \in S \cup D : PlanChange(index[a][p], HeadTree[p], local[p])}
             t == Patched(HeadTree, changes, local)
  <2>1. op = Ready /\ changes # {} /\ op' = Making(a, l, changes, t) /\ Same
    BY <1>11 DEF CommitBegin, disks, store
  <2>2. \A p \in Paths \ changes : t[p] = HeadTree[p]  BY DEF Patched
  <2> HIDE DEF local, changes, t
  <2> QED BY <2>1, <2>2, <1>10
<1>12. ASSUME NEW S \in NonEmpty, SyncBegin(S) PROVE PendingInv' /\ OperationInv'
  <2> DEFINE changes == {p \in S : work[p] # HeadTree[p]}
             t == Patched(HeadTree, changes, work)
  <2>1. op = Ready /\ changes # {} /\ op' = Making(Outside, 0, changes, t) /\ Same
    BY <1>12 DEF SyncBegin, disks, store
  <2>2. \A p \in Paths \ changes : t[p] = HeadTree[p]  BY DEF Patched
  <2> HIDE DEF changes, t
  <2> QED BY <2>1, <2>2, <1>10
<1>13. ASSUME NEW p \in Paths, NEW c \in Contents, NEW l \in Lines, UploadBegin(p, c, l)
       PROVE  PendingInv' /\ OperationInv'
  <2>1. \A q \in Paths \ {p} : [HeadTree EXCEPT ![p] = c][q] = HeadTree[q]
    BY <1>pd DEF Tree
  <2> QED BY <2>1, <1>13, <1>10 DEF UploadBegin, disks, store
<1>14. ASSUME NEW p \in Paths, Ingest(p) PROVE PendingInv' /\ OperationInv'
  <2>1. op \in MakeOp /\ Same  BY <1>14, <1>op DEF Ingest, IngestTurn, disks
  <2>2. op' = [op EXCEPT !.ingest = @ \ {p}]  BY <1>14 DEF Ingest
  <2>3. /\ op'.kind = "make" /\ op'.changes = op.changes /\ op'.tree = op.tree
        /\ op'.id = op.id
    BY <2>1, <2>2 DEF MakeOp
  <2>4. op.kind = "make"  BY <2>1 DEF MakeOp
  <2> QED BY <2>1, <2>3, <2>4, PendingFrame, TreeFrame DEF OperationInv, ApplyStage
<1>15. ASSUME NEW p \in Paths, IngestChanged(p) PROVE PendingInv' /\ OperationInv'
  BY <1>15, <1>1 DEF IngestChanged, disks, store
<1>16. CASE ReserveId
  <2>1. op \in MakeOp /\ op.kind = "make" /\ Same  BY <1>16, <1>op DEF ReserveId, disks
  <2>2. PICK n \in Ids : FreshId(n) /\ op' = [op EXCEPT !.id = n]
    BY <1>16 DEF ReserveId
  <2>3. /\ op'.kind = "make" /\ op'.changes = op.changes /\ op'.tree = op.tree
        /\ op'.id = n
    BY <2>1, <2>2 DEF MakeOp
  <2>4. \A i \in Existing : i < n  BY <2>2 DEF FreshId, Existing, Ids
  <2> QED BY <2>1, <2>3, <2>4, PendingFrame, TreeFrame DEF OperationInv, ApplyStage
\* Writing the record.
<1>17. CASE LogCommit
  <2>1. op \in MakeOp /\ op.kind = "make" /\ op.id # 0
    BY <1>17, <1>op DEF LogCommit, Prepared
  <2>2. UNCHANGED <<work, commits, head>>  BY <1>17 DEF LogCommit, disks
  <2>3. /\ pending'.kind = "commit" /\ pending'.target = op.id
        /\ pending'.rec.tree = op.tree /\ pending'.rec.changes = op.changes
    BY <1>17 DEF LogCommit
  <2>4. op' = Applying(pending', 1, Idle)  BY <1>17 DEF LogCommit
  <2>5. pending.kind = "none" /\ (External \/ work = HeadTree)
    BY <2>1 DEF OperationInv, PendingInv
  <2>6. HeadTree' = HeadTree /\ Existing' = Existing  BY <2>2, TreeFrame
  <2>7. TargetTree' = op.tree  BY <2>3 DEF TargetTree
  <2>8. /\ op.changes # {} /\ \A p \in Paths \ op.changes : op.tree[p] = HeadTree[p]
        /\ \A i \in Existing : i < op.id
    BY <2>1 DEF OperationInv
  <2>9. op.id \in Ids /\ commits[op.id] = NoCommit /\ head < op.id
    BY <2>1, <2>8 DEF MakeOp, Heads, Ids, Existing, PendingInv
  <2>10. pending'.rec # NoCommit  BY <2>3, <2>8 DEF NoCommit
  <2>11. PendingInv'
    BY <2>2, <2>3, <2>5, <2>6, <2>7, <2>8, <2>9, <2>10 DEF PendingInv, Ids, Heads, TypeOK
  <2>12. /\ op'.kind = "apply" /\ op'.stage = "files" /\ op'.files \subseteq pending'.rec.changes
         /\ \A p \in Paths \ op'.files : External \/ work[p] = pending'.rec.tree[p]
    BY <2>3, <2>4, <2>5, <2>8, ApplyingFiles DEF TypeOK
  <2> QED BY <2>2, <2>3, <2>7, <2>11, <2>12 DEF OperationInv, ApplyStage
<1>18. ASSUME NEW k \in {"restore", "discard"}, NEW i \in Heads, NEW f, LogMove(k, i, f),
              i \in Existing \cup {0}
       PROVE  PendingInv' /\ OperationInv'
  <2>1. /\ pending' = MoveHead(k, i) /\ op' = Applying(pending', 1, Idle)
        /\ UNCHANGED <<work, commits, head>> /\ op = Ready
    BY <1>18 DEF LogMove, disks
  <2>2. pending'.kind = k /\ pending'.target = i /\ pending'.rec = NoCommit
    BY <2>1 DEF MoveHead, NoPending
  <2>3. pending.kind = "none" /\ (External \/ work = HeadTree)
    BY <2>1 DEF OperationInv, PendingInv, Ready
  <2>4. HeadTree' = HeadTree /\ Existing' = Existing  BY <2>1, TreeFrame
  <2>5. TargetTree' = TreeOf(i)  BY <2>1, <2>2 DEF TargetTree, TreeOf
  <2>6. PendingInv'
    BY <1>18, <2>1, <2>2, <2>3, <2>4 DEF PendingInv
  <2>7. /\ op'.kind = "apply" /\ op'.stage = "files"
        /\ \A p \in Paths \ op'.files : External \/ work[p] = TreeOf(i)[p]
    BY <2>1, <2>2, <2>3, ApplyingFiles DEF TypeOK
  <2> QED BY <2>1, <2>2, <2>5, <2>6, <2>7 DEF OperationInv, ApplyStage
<1>19. ASSUME NEW i \in Ids, NEW f, Restore(i, f) PROVE PendingInv' /\ OperationInv'
  BY <1>18, <1>19 DEF Restore, Ids, Heads
<1>20. ASSUME NEW i \in Heads, RestorePoint(i) PROVE PendingInv' /\ OperationInv'
  BY <1>18, <1>20 DEF RestorePoint
<1>21. ASSUME NEW i \in Heads, DiscardAfter(i) PROVE PendingInv' /\ OperationInv'
  BY <1>18, <1>21 DEF DiscardAfter
<1>22. ASSUME NEW keep \in Keeps, RewindTo(keep) PROVE PendingInv' /\ OperationInv'
  <2>1. PICK t \in Heads : RewindTarget(keep, t) /\ LogMove("restore", t, FALSE)
    BY <1>22 DEF RewindTo
  <2>2. t \in Existing \cup {0}  BY <2>1 DEF RewindTarget
  <2> QED BY <2>1, <2>2, <1>18
\* Applying the record.
<1>app. op.kind = "apply" =>
          /\ op \in ApplyOp /\ pending.kind # "none"
          /\ op.stage = "files" =>
               \A p \in Paths \ op.files : External \/ work[p] = TargetTree[p]
  BY <1>op DEF OperationInv, ApplyStage, TypeOK
<1>all. (\A p \in Paths : External \/ work[p] = TargetTree[p])
          => External \/ work = TargetTree
  BY <1>pd DEF Tree
<1>23. ASSUME NEW p \in Paths, WriteFile(p) PROVE PendingInv' /\ OperationInv'
  <2>1. op \in ApplyOp /\ pending.kind # "none" /\ op.stage = "files" /\ op.kind = "apply"
    BY <1>23, <1>app DEF WriteFile, ApplyStage
  <2>2. op' = [op EXCEPT !.files = @ \ {p}]  BY <1>23 DEF WriteFile
  <2>3. op'.kind = "apply" /\ op'.stage = "files" /\ op'.files = op.files \ {p}
    BY <2>1, <2>2 DEF ApplyOp
  <2>4. UNCHANGED <<commits, head, pending>>  BY <1>23 DEF WriteFile, store
  <2>5. UNCHANGED <<HeadTree, TargetTree, Existing>>  BY <2>4, TreeFrame
  <2>6. \A q \in Paths : work'[q] = IF q = p THEN TargetTree[p] ELSE work[q]
    BY <1>23, <1>pd DEF WriteFile, Tree
  <2>7. PendingInv'  BY <2>1, <2>4, <2>5, <2>6 DEF PendingInv
  <2> QED BY <2>1, <2>3, <2>4, <2>5, <2>6, <2>7 DEF OperationInv, ApplyStage
<1>24. ASSUME NEW p \in Paths, NEW c \in Version, TearFile(p, c)
       PROVE  PendingInv' /\ OperationInv'
  <2>1. op.kind = "apply" /\ op.stage = "files" /\ pending.kind = "commit"
    BY <1>24 DEF TearFile, ApplyStage
  <2>2. p \in pending.rec.changes /\ pending.rec.author = User
    BY <1>24, <2>1 DEF TearFile, OperationInv, ApplyStage
  <2>3. UNCHANGED <<commits, head, pending>> /\ op' = Idle  BY <1>24 DEF TearFile, store
  <2>4. UNCHANGED <<HeadTree, TargetTree, Existing>>  BY <2>3, TreeFrame
  <2>5. \A q \in Paths \ {p} : work'[q] = work[q]  BY <1>24, <1>pd DEF TearFile, Tree
  <2>6. PendingInv'  BY <2>1, <2>2, <2>3, <2>4, <2>5 DEF PendingInv
  <2> QED BY <2>3, <2>6, IdleKeeps
<1>25. CASE WriteCommit
  <2>1. op \in ApplyOp /\ op.stage = "files" /\ op.files = {} /\ pending.kind = "commit"
    BY <1>25, <1>app DEF WriteCommit, ApplyStage
  <2>2. External \/ work = TargetTree
    BY <2>1, <1>25, <1>app, <1>all DEF WriteCommit, ApplyStage
  <2>3. /\ pending.target \in Ids /\ pending.rec # NoCommit
        /\ commits[pending.target] \in {NoCommit, pending.rec}
        /\ head = pending.target => commits[pending.target] = pending.rec
    BY <2>1, <1>pd DEF PendingInv, Ids, Heads
  <2>4. /\ \A i \in Ids : commits'[i] = IF i = pending.target THEN pending.rec
                                        ELSE commits[i]
        /\ UNCHANGED <<work, head, pending>>
    BY <1>25, <2>3 DEF WriteCommit, disks, TypeOK
  <2>5. head' \in Existing' \cup {0} /\ HeadTree' = HeadTree /\ TargetTree' = TargetTree
    BY <2>1, <2>3, <2>4, <1>pd DEF PendingInv, Existing, HeadTree, TreeOf, TargetTree, Ids,
       Heads, TypeOK
  <2>6. PendingInv'  BY <2>1, <2>3, <2>4, <2>5 DEF PendingInv
  <2>7. op' = [op EXCEPT !.stage = "recorded"]  BY <1>25 DEF WriteCommit
  <2>8. op'.kind = "apply" /\ op'.stage = "recorded"  BY <2>1, <2>7 DEF ApplyOp
  <2> QED BY <2>1, <2>2, <2>3, <2>4, <2>5, <2>6, <2>8 DEF OperationInv, ApplyStage
<1>26. CASE SetHead
  <2>1. op \in ApplyOp /\ op.kind = "apply" /\ op.files = {} /\ pending.kind # "none"
    BY <1>26, <1>app DEF SetHead
  <2>2. External \/ work = TargetTree
    BY <2>1, <1>26, <1>app, <1>all DEF SetHead, OperationInv
  <2>3. pending.kind = "commit" =>
          pending.target \in Ids /\ commits[pending.target] = pending.rec
    BY <2>1, <1>26, <1>pd DEF SetHead, OperationInv, PendingInv, Ids, Heads
  <2>4. head' = pending.target /\ UNCHANGED <<work, commits, pending>>
    BY <1>26 DEF SetHead, disks
  <2>5. HeadTree' = TargetTree /\ TargetTree' = TargetTree /\ Existing' = Existing
    BY <2>3, <2>4 DEF HeadTree, TargetTree, TreeOf, Existing, Ids
  <2>6. head' \in Existing' \cup {0}
    BY <2>1, <2>3, <2>4, <2>5, <1>pd DEF PendingInv, Existing
  <2>7. PendingInv'
    BY <2>1, <2>2, <2>3, <2>4, <2>5, <2>6, <1>pd DEF PendingInv, TargetTree, Heads
  <2>8. op' = [op EXCEPT !.stage = "headed"]  BY <1>26 DEF SetHead
  <2>9. op'.kind = "apply" /\ op'.stage = "headed"  BY <2>1, <2>8 DEF ApplyOp
  <2> QED BY <2>2, <2>3, <2>4, <2>5, <2>7, <2>9 DEF OperationInv, ApplyStage
<1>27. CASE WriteIndex
  <2>1. op \in ApplyOp /\ op.kind = "apply" /\ op.stage = "headed" /\ Same
    BY <1>27, <1>app DEF WriteIndex, ApplyStage, disks
  <2>2. op' = [op EXCEPT !.stage = "indexed"]  BY <1>27 DEF WriteIndex
  <2>3. op'.kind = "apply" /\ op'.stage = "indexed"  BY <2>1, <2>2 DEF ApplyOp
  <2> QED BY <2>1, <2>3, TreeFrame, PendingFrame DEF OperationInv, ApplyStage
<1>28. ASSUME NEW i \in Ids, DropCommit(i) PROVE PendingInv' /\ OperationInv'
  <2>1. op.kind = "apply" /\ op.stage = "headed" /\ pending.kind = "discard"
    BY <1>28 DEF DropCommit, ApplyStage, Dropped
  <2>2. head = pending.target /\ i # pending.target
    BY <2>1, <1>28, SelfAncestor DEF DropCommit, Dropped, OperationInv
  <2>3. /\ \A j \in Ids \ {i} : commits'[j] = commits[j]
        /\ UNCHANGED <<work, head, pending, op>>
    BY <1>28 DEF DropCommit, disks, TypeOK
  <2>4. head' \in Existing' \cup {0}
    BY <2>2, <2>3 DEF PendingInv, Existing
  <2>5. HeadTree' = HeadTree /\ TargetTree' = TargetTree
    BY <2>1, <2>2, <2>3, <1>pd DEF HeadTree, TargetTree, TreeOf, Heads, Ids
  <2>6. PendingInv'  BY <2>1, <2>2, <2>3, <2>4, <2>5 DEF PendingInv
  <2> QED BY <2>1, <2>3, <2>5, <2>6 DEF OperationInv, ApplyStage
<1>29. CASE ClearPending
  <2>1. op \in ApplyOp /\ op.kind = "apply" /\ op.stage \in {"headed", "indexed"}
    BY <1>29, <1>app DEF ClearPending
  <2>2. (External \/ work = TargetTree) /\ head = pending.target
    BY <2>1 DEF OperationInv
  <2>3. HeadTree = TargetTree
    BY <2>1, <2>2 DEF OperationInv, PendingInv, HeadTree, TargetTree, TreeOf
  <2>4. UNCHANGED <<work, commits, head>> /\ pending' = NoPending /\ op' \in {Idle, Ready}
    BY <2>1, <1>29 DEF ClearPending, ApplyOp, disks
  <2>5. pending'.kind = "none" /\ HeadTree' = HeadTree /\ Existing' = Existing
    BY <2>4, TreeFrame DEF NoPending
  <2>6. PendingInv'  BY <2>2, <2>3, <2>4, <2>5 DEF PendingInv
  <2> QED BY <2>4, <2>5, <2>6, IdleKeeps, ReadyKeeps
<1>30. CASE ApplyFails
  <2>1. Same /\ pending.kind # "none"
    BY <1>30, <1>app DEF ApplyFails, disks, store
  <2>2. op' = Applying(pending, 2, Idle) \/ op' = Idle  BY <1>30 DEF ApplyFails
  <2> QED BY <2>1, <2>2, PendingFrame, ReplayFiles, IdleKeeps
\* Resolving, looking, collecting.
<1>31. ASSUME NEW a \in Agents, View(a) PROVE PendingInv' /\ OperationInv'
  BY <1>31, <1>1 DEF View, disks, store
<1>32. ASSUME NEW a \in Agents, NEW take, NEW S, ResolveBegin(a, take, S)
       PROVE  PendingInv' /\ OperationInv'
  BY <1>32, <1>2 DEF ResolveBegin, disks, store, Ready, OperationInv
<1>33. ASSUME NEW p \in Paths, ResolveBackup(p) PROVE PendingInv' /\ OperationInv'
  <2>1. op \in ResolveOp /\ pending.kind = "none"
    BY <1>33, <1>op DEF ResolveBackup, OperationInv
  <2>2. op'.kind = "resolve"  BY <2>1, <1>33 DEF ResolveBackup, ResolveOp
  <2> QED BY <2>1, <2>2, <1>33, <1>2 DEF ResolveBackup, store
<1>34. ASSUME NEW p \in Paths, ResolveChanged(p) PROVE PendingInv' /\ OperationInv'
  BY <1>34, <1>1 DEF ResolveChanged, disks, store
<1>35. ASSUME NEW p \in Paths, ResolveApply(p) PROVE PendingInv' /\ OperationInv'
  <2>1. op \in ResolveOp /\ pending.kind = "none"
    BY <1>35, <1>op DEF ResolveApply, OperationInv
  <2>2. op'.kind = "resolve"  BY <2>1, <1>35 DEF ResolveApply, ResolveOp
  <2> QED BY <2>1, <2>2, <1>35, <1>2 DEF ResolveApply, store
<1>36. CASE ResolveEnd
  BY <1>36, <1>1 DEF ResolveEnd, disks
<1>37. ASSUME NEW a \in Agents, NEW p \in Paths, NEW e, RestoreLost(a, p, e)
       PROVE  PendingInv' /\ OperationInv'
  BY <1>37, <1>1 DEF RestoreLost, store
<1>38. CASE Gc
  BY <1>38, <1>1 DEF Gc, disks
\* The world around the operation.
<1>39. ASSUME Same, UNCHANGED op PROVE PendingInv' /\ OperationInv'
  BY <1>39, PendingFrame, TreeFrame DEF OperationInv, ApplyStage
<1>40. ASSUME NEW a \in Agents, NEW p \in Paths, NEW c \in Version, EditSandbox(a, p, c)
       PROVE  PendingInv' /\ OperationInv'
  BY <1>40, <1>39 DEF EditSandbox, store
<1>41. ASSUME NEW p \in Paths, NEW c \in Version, EditShared(p, c)
       PROVE  PendingInv' /\ OperationInv'
  <2>1. External /\ UNCHANGED <<commits, head, pending, op>>
    BY <1>41 DEF EditShared, store
  <2> QED BY <2>1, TreeFrame DEF PendingInv, OperationInv, ApplyStage
<1>42. CASE Interrupt
  BY <1>42, <1>1 DEF Interrupt, disks, store
<1>43. CASE UNCHANGED vars
  BY <1>43, <1>39 DEF vars
<1> QED
  <2>1. CASE Proceed
    BY <2>1, <1>3, <1>4, <1>5, <1>6, <1>7, <1>14, <1>15, <1>16, <1>17, <1>23, <1>25, <1>26,
       <1>27, <1>28, <1>29, <1>33, <1>34, <1>35, <1>36 DEF Proceed
  <2>2. CASE Call
    BY <2>2, <1>8, <1>11, <1>12, <1>13, <1>19, <1>20, <1>21, <1>22, <1>31, <1>32, <1>37,
       <1>38 DEF Call, Request
  <2>3. CASE Fault
    BY <2>3, <1>9, <1>24, <1>30, <1>42 DEF Fault, Crash
  <2>4. CASE Edit
    BY <2>4, <1>40, <1>41 DEF Edit
  <2> QED BY <2>1, <2>2, <2>3, <2>4, <1>43 DEF Next

-----------------------------------------------------------------------------
(* Stored contents, and the record that can always be replayed.            *)

(* The trees of commits, of head and of the record are stored.             *)
LEMMA StoredTrees ==
  ASSUME TypeOK, ObjectsInv
  PROVE  /\ \A i \in Heads, p \in Paths : TreeOf(i)[p] \in objects \cup {NoFile}
         /\ \A p \in Paths : HeadTree[p] \in objects \cup {NoFile}
         /\ \A p \in Paths : TargetTree[p] \in objects \cup {NoFile}
<1>1. ASSUME NEW i \in Heads, NEW p \in Paths PROVE TreeOf(i)[p] \in objects \cup {NoFile}
  <2>1. CASE i = 0  BY <2>1 DEF TreeOf, EmptyTree
  <2>2. CASE i # 0
    <3>1. i \in Ids  BY <2>2 DEF Heads, Ids
    <3>2. CASE commits[i] = NoCommit  BY <2>2, <3>2 DEF TreeOf, NoCommit, EmptyTree
    <3>3. CASE commits[i] # NoCommit
      BY <2>2, <3>1, <3>3 DEF TreeOf, ObjectsInv, ObjectsPresent, Existing
    <3> QED BY <3>2, <3>3
  <2> QED BY <2>1, <2>2
<1>2. head \in Heads /\ pending.target \in Heads  BY DEF TypeOK, Pending
<1> QED BY <1>1, <1>2 DEF HeadTree, TargetTree, ObjectsInv, ObjectsPresent

(* Objects may be added, and an operation without contents keeps none.     *)
LEMMA ObjectsFrame ==
  ASSUME ObjectsInv, objects \subseteq objects', UNCHANGED <<commits, index, pending>>,
         op' = op \/ op'.kind \notin {"make", "pull", "resolve"}
  PROVE  ObjectsInv'
<1>1. \A v : v \in objects \cup {NoFile} => v \in objects' \cup {NoFile}  OBVIOUS
<1> QED BY <1>1 DEF ObjectsInv, ObjectsPresent, Existing, OwnsBase

LEMMA NoContents ==
  /\ Idle.kind \notin {"make", "pull", "resolve"}
  /\ Ready.kind \notin {"make", "pull", "resolve"}
  /\ \A pd, n, then : Applying(pd, n, then).kind \notin {"make", "pull", "resolve"}
  BY DEF Idle, Ready, Applying

LEMMA InitObjects == Init => ObjectsInv
  BY DEF Init, ObjectsInv, ObjectsPresent, Existing, OwnsBase, NoPending, Idle, EmptyTree

(* A commit that starts to be prepared has to store only its changes.      *)
LEMMA MakingStored ==
  ASSUME ObjectsInv, UNCHANGED <<objects, commits, index, pending>>,
         NEW a, NEW l, NEW C, NEW t, op' = Making(a, l, C, t),
         \A p \in Paths \ C : t[p] \in objects \cup {NoFile}
  PROVE  ObjectsInv'
<1>1. op'.kind = "make" /\ op'.tree = t /\ op'.ingest = {p \in C : t[p] # NoFile}
  BY DEF Making
<1>2. \A p \in Paths \ op'.ingest : op'.tree[p] \in objects \cup {NoFile}
  BY <1>1
<1>3. ObjectsPresent' /\ (OwnsBase' => \A p \in Paths : pending'.base[p] \in objects' \cup {NoFile})
  BY DEF ObjectsInv, ObjectsPresent, Existing, OwnsBase
<1> QED BY <1>1, <1>2, <1>3 DEF ObjectsInv

LEMMA StepObjects ==
  ASSUME TypeOK, PendingInv, OperationInv, ObjectsInv, [Next]_vars
  PROVE  ObjectsInv'
<1> DEFINE Stored(t) == \A p \in Paths : t[p] \in objects \cup {NoFile}
           Same == UNCHANGED <<objects, commits, index, pending>>
<1>op. /\ op.kind = "pull" => op \in PullOp
       /\ op.kind = "make" => op \in MakeOp
       /\ op.kind = "apply" => op \in ApplyOp
       /\ op.kind = "resolve" => op \in ResolveOp
  BY OpShapes DEF TypeOK
<1>tr. Stored(HeadTree) /\ Stored(TargetTree)  BY StoredTrees
<1>tt. \A p \in Paths : HeadTree[p] \in objects \cup {NoFile}  BY <1>tr
\* Steps that store nothing and forget what they carried.
<1>1. ASSUME Same, op' = op \/ op' = Idle \/ op' = Ready
             \/ \E pd, n, then : op' = Applying(pd, n, then)
      PROVE  ObjectsInv'
  <2>1. op' = op \/ op'.kind \notin {"make", "pull", "resolve"}  BY <1>1, NoContents
  <2> QED BY <1>1, <2>1, ObjectsFrame
<1>2. CASE Enter  BY <1>2, <1>1 DEF Enter, store
<1>3. CASE Leave  BY <1>3, <1>1 DEF Leave, store
\* Pulling and resolving collect bases from head.
<1>4. ASSUME Same, op'.kind \in {"pull", "resolve"}, Stored(op'.base) PROVE ObjectsInv'
  BY <1>4 DEF ObjectsInv, ObjectsPresent, Existing, OwnsBase
<1>5. ASSUME op'.kind = "idle", UNCHANGED <<objects, commits, pending>>, NEW a \in Agents,
             NEW t, Stored(t), index' = [index EXCEPT ![a] = t]
      PROVE  ObjectsInv'
  <2>1. \A b \in Agents : index'[b] = IF b = a THEN t ELSE index[b]  BY <1>5 DEF TypeOK
  <2>2. \A b \in Agents, p \in Paths : index'[b][p] \in objects \cup {NoFile}
    BY <2>1, <1>5 DEF ObjectsInv, ObjectsPresent
  <2> QED BY <2>2, <1>5 DEF ObjectsInv, ObjectsPresent, Existing, OwnsBase
<1>6. ASSUME NEW a \in Agents, NEW S \in NonEmpty, PullBegin(a, S) PROVE ObjectsInv'
  <2>1. op'.kind = "pull" /\ op'.base = index[a]  BY <1>6 DEF PullBegin
  <2>2. Stored(op'.base)  BY <2>1 DEF ObjectsInv, ObjectsPresent
  <2> QED BY <2>1, <2>2, <1>6, <1>4 DEF PullBegin, store
<1>7. ASSUME op \in PullOp \cup ResolveOp, NEW p \in Paths, op'.kind = op.kind, Same,
             op'.base \in {op.base, [op.base EXCEPT ![p] = HeadTree[p]]}
      PROVE  ObjectsInv'
  <2>1. op.kind \in {"pull", "resolve"} /\ op.base \in Tree
    BY <1>7 DEF PullOp, ResolveOp
  <2>2. Stored(op.base)  BY <2>1 DEF ObjectsInv
  <2>3. \A q \in Paths : op'.base[q] \in {op.base[q], HeadTree[q]}
    BY <1>7, <2>1 DEF Tree
  <2>4. Stored(op'.base)  BY <2>2, <2>3, <1>tt
  <2> QED BY <1>7, <2>1, <2>4, <1>4
<1>8. ASSUME NEW p \in Paths, PullDecide(p) PROVE ObjectsInv'
  <2>1. op \in PullOp  BY <1>8, <1>op DEF PullDecide
  <2>2. op'.kind = op.kind /\ op'.base \in {op.base, [op.base EXCEPT ![p] = HeadTree[p]]}
    BY <2>1, <1>8 DEF PullDecide, PullOp
  <2> QED BY <2>1, <2>2, <1>8, <1>7 DEF PullDecide, store
<1>9. ASSUME NEW p \in Paths, PullCopy(p) PROVE ObjectsInv'
  <2>1. op \in PullOp  BY <1>9, <1>op DEF PullCopy
  <2>2. op'.kind = op.kind /\ op'.base = [op.base EXCEPT ![p] = HeadTree[p]]
    BY <2>1, <1>9 DEF PullCopy, PullOp
  <2> QED BY <2>1, <2>2, <1>9, <1>7 DEF PullCopy, store
<1>10. ASSUME PullEnd \/ PullFails PROVE ObjectsInv'
  <2>1. op.agent \in Agents /\ Stored(op.base)
    BY <1>10, <1>op DEF PullEnd, PullFails, PullOp, ObjectsInv
  <2>2. /\ op'.kind = "idle" /\ UNCHANGED <<objects, commits, pending>>
        /\ index' = [index EXCEPT ![op.agent] = op.base]
    BY <1>10 DEF PullEnd, PullFails, Idle
  <2> QED BY <2>1, <2>2, <1>5
\* Preparing a commit.
<1>11. ASSUME NEW a \in Agents, NEW S \in SUBSET Paths, NEW D \in SUBSET Paths,
              NEW l \in Lines, CommitBegin(a, S, D, l)
       PROVE  ObjectsInv'
  <2> DEFINE local == [p \in Paths |-> IF p \in S THEN sandbox[a][p] ELSE NoFile]
             changes == {p \in S \cup D : PlanChange(index[a][p], HeadTree[p], local[p])}
  <2>1. op' = Making(a, l, changes, Patched(HeadTree, changes, local)) /\ Same
    BY <1>11 DEF CommitBegin, store
  <2>2. \A p \in Paths \ changes : Patched(HeadTree, changes, local)[p] = HeadTree[p]
    BY DEF Patched
  <2> HIDE DEF local, changes
  <2> QED BY <2>1, <2>2, <1>tt, MakingStored
<1>12. ASSUME NEW S \in NonEmpty, SyncBegin(S) PROVE ObjectsInv'
  <2> DEFINE changes == {p \in S : work[p] # HeadTree[p]}
  <2>1. op' = Making(Outside, 0, changes, Patched(HeadTree, changes, work))
    BY <1>12 DEF SyncBegin
  <2>3. Same  BY <1>12 DEF SyncBegin, store
  <2>2. \A p \in Paths \ changes : Patched(HeadTree, changes, work)[p] = HeadTree[p]
    BY DEF Patched
  <2> HIDE DEF changes
  <2> QED BY <2>1, <2>2, <2>3, <1>tt, MakingStored
<1>13. ASSUME NEW p \in Paths, NEW c \in Contents, NEW l \in Lines, UploadBegin(p, c, l)
       PROVE  ObjectsInv'
  <2>1. op' = Making(User, l, {p}, [HeadTree EXCEPT ![p] = c]) /\ Same
    BY <1>13 DEF UploadBegin, store
  <2>2. HeadTree \in Tree  BY TreeShapes DEF TypeOK
  <2>3. \A q \in Paths \ {p} : [HeadTree EXCEPT ![p] = c][q] = HeadTree[q]
    BY <2>2 DEF Tree
  <2> DEFINE t == [HeadTree EXCEPT ![p] = c]
  <2>4. op' = Making(User, l, {p}, t) /\ Same  BY <2>1
  <2>5. \A q \in Paths \ {p} : t[q] \in objects \cup {NoFile}  BY <2>3, <1>tt
  <2> HIDE DEF t
  <2> QED BY <2>4, <2>5, MakingStored
<1>14. ASSUME NEW p \in Paths, Ingest(p) PROVE ObjectsInv'
  <2>1. op \in MakeOp  BY <1>14, <1>op DEF Ingest, IngestTurn
  <2>2. op.kind = "make"  BY <2>1 DEF MakeOp
  <2>3. op' = [op EXCEPT !.ingest = @ \ {p}]  BY <1>14 DEF Ingest
  <2>4. op'.kind = "make" /\ op'.tree = op.tree /\ op'.ingest = op.ingest \ {p}
    BY <2>1, <2>3 DEF MakeOp
  <2>5. objects \subseteq objects' /\ op.tree[p] \in objects'
    <3>1. CASE op.tree[p] \in objects  BY <3>1, <1>14 DEF Ingest
    <3>2. CASE op.tree[p] \notin objects  BY <3>2, <1>14 DEF Ingest, SourceIntact
    <3> QED BY <3>1, <3>2
  <2>6. UNCHANGED <<commits, index, pending>>  BY <1>14 DEF Ingest
  <2>7. \A q \in Paths \ op'.ingest : op'.tree[q] \in objects' \cup {NoFile}
    BY <2>2, <2>4, <2>5 DEF ObjectsInv
  <2>8. \A v : v \in objects \cup {NoFile} => v \in objects' \cup {NoFile}  BY <2>5
  <2>9. ObjectsPresent'
        /\ (OwnsBase' => \A q \in Paths : pending'.base[q] \in objects' \cup {NoFile})
    BY <2>6, <2>8 DEF ObjectsInv, ObjectsPresent, Existing, OwnsBase
  <2> QED BY <2>4, <2>7, <2>9 DEF ObjectsInv
<1>15. ASSUME NEW p \in Paths, IngestChanged(p) PROVE ObjectsInv'
  BY <1>15, <1>1 DEF IngestChanged, store
<1>16. CASE ReserveId
  <2>1. op \in MakeOp /\ op.kind = "make"  BY <1>16, <1>op DEF ReserveId
  <2>2. PICK n \in Ids : op' = [op EXCEPT !.id = n]  BY <1>16 DEF ReserveId
  <2>3. op'.kind = "make" /\ op'.tree = op.tree /\ op'.ingest = op.ingest
    BY <2>1, <2>2 DEF MakeOp
  <2>4. Same  BY <1>16 DEF ReserveId
  <2> QED BY <2>1, <2>3, <2>4 DEF ObjectsInv, ObjectsPresent, Existing, OwnsBase
<1>17. CASE LogCommit
  <2> DEFINE rec == [parent |-> head, author |-> op.author, line |-> op.line,
                     changes |-> op.changes, tree |-> op.tree]
             base == IF op.author \in Agents
                     THEN Patched(index[op.author], op.changes, op.tree)
                     ELSE EmptyTree
             pd == [kind |-> "commit", target |-> op.id, rec |-> rec, base |-> base]
  <2>1. op.kind = "make" /\ op.ingest = {} /\ pending' = pd /\ op' = Applying(pd, 1, Idle)
    BY <1>17 DEF LogCommit, Prepared
  <2>2. UNCHANGED <<objects, commits, index>>  BY <1>17 DEF LogCommit
  <2>3. Stored(op.tree)  BY <2>1 DEF ObjectsInv
  <2>4. Stored(base)
    <3>1. \A a \in Agents, p \in Paths : index[a][p] \in objects \cup {NoFile}
      BY DEF ObjectsInv, ObjectsPresent
    <3> QED BY <2>3, <3>1 DEF Patched, EmptyTree
  <2>5. pd.rec.tree = op.tree /\ pd.base = base  OBVIOUS
  <2>6. op'.kind \notin {"make", "pull", "resolve"}  BY <2>1, NoContents
  <2> HIDE DEF pd, base, rec
  <2> QED BY <2>1, <2>2, <2>3, <2>4, <2>5, <2>6
          DEF ObjectsInv, ObjectsPresent, Existing, OwnsBase
<1>18. ASSUME NEW k \in {"restore", "discard"}, NEW i, NEW f, LogMove(k, i, f)
       PROVE  ObjectsInv'
  <2>1. pending'.kind = k  BY <1>18 DEF LogMove, MoveHead, NoPending
  <2>2. op'.kind \notin {"make", "pull", "resolve"} /\ UNCHANGED <<objects, commits, index>>
    BY <1>18, NoContents DEF LogMove
  <2> QED BY <2>1, <2>2 DEF ObjectsInv, ObjectsPresent, Existing, OwnsBase
<1>19. ASSUME NEW i \in Ids, NEW f, Restore(i, f) PROVE ObjectsInv'
  BY <1>18, <1>19 DEF Restore
<1>20. ASSUME NEW i \in Heads, RestorePoint(i) \/ DiscardAfter(i) PROVE ObjectsInv'
  BY <1>18, <1>20 DEF RestorePoint, DiscardAfter
<1>21. ASSUME NEW keep \in Keeps, RewindTo(keep) PROVE ObjectsInv'
  BY <1>18, <1>21 DEF RewindTo
\* Applying the record.
<1>ap. op.kind = "apply" => op \in ApplyOp /\ op.kind \notin {"make", "pull", "resolve"}
  BY <1>op
<1>22. ASSUME op \in ApplyOp, NEW s, op' = [op EXCEPT !.stage = s]
       PROVE  op'.kind \notin {"make", "pull", "resolve"}
  BY <1>22 DEF ApplyOp
<1>23. ASSUME NEW p \in Paths, WriteFile(p) PROVE ObjectsInv'
  <2>1. op \in ApplyOp /\ op' = [op EXCEPT !.files = @ \ {p}]
    BY <1>23, <1>op DEF WriteFile, ApplyStage
  <2>2. op'.kind = "apply"  BY <2>1 DEF ApplyOp
  <2>3. Same  BY <1>23 DEF WriteFile, store
  <2> QED BY <2>2, <2>3, ObjectsFrame
<1>24. ASSUME NEW p \in Paths, NEW c \in Version, TearFile(p, c) PROVE ObjectsInv'
  BY <1>24, <1>1 DEF TearFile, store
<1>25. CASE WriteCommit
  <2>1. op \in ApplyOp /\ pending.kind = "commit"
    BY <1>25, <1>op DEF WriteCommit, ApplyStage
  <2>2. op'.kind \notin {"make", "pull", "resolve"}
    BY <2>1, <1>25, <1>22 DEF WriteCommit
  <2>3. \A i \in Ids : commits'[i] \in {commits[i], pending.rec}
    BY <1>25 DEF WriteCommit, TypeOK
  <2>4. \A i \in Existing' : commits'[i] = pending.rec \/ (i \in Existing /\ commits'[i] = commits[i])
    BY <2>3 DEF Existing
  <2>5. Stored(pending.rec.tree)  BY <2>1 DEF ObjectsInv, ObjectsPresent
  <2>6. \A i \in Existing', p \in Paths : commits'[i].tree[p] \in objects \cup {NoFile}
    BY <2>4, <2>5 DEF ObjectsInv, ObjectsPresent
  <2>7. UNCHANGED <<objects, index, pending>>  BY <1>25 DEF WriteCommit
  <2> QED BY <2>2, <2>6, <2>7 DEF ObjectsInv, ObjectsPresent, OwnsBase
<1>26. CASE SetHead
  <2>1. op \in ApplyOp  BY <1>26, <1>op DEF SetHead
  <2>2. op'.kind \notin {"make", "pull", "resolve"}  BY <2>1, <1>26, <1>22 DEF SetHead
  <2> QED BY <2>2, <1>26, ObjectsFrame DEF SetHead
<1>27. CASE WriteIndex
  <2>1. op \in ApplyOp /\ OwnsBase  BY <1>27, <1>op DEF WriteIndex, ApplyStage
  <2>2. op'.kind \notin {"make", "pull", "resolve"}  BY <2>1, <1>27, <1>22 DEF WriteIndex
  <2>3. \A a \in Agents : index'[a] \in {index[a], pending.base}
    BY <1>27 DEF WriteIndex, TypeOK
  <2>4. Stored(pending.base)  BY <2>1 DEF ObjectsInv
  <2>5. \A a \in Agents, p \in Paths : index'[a][p] \in objects \cup {NoFile}
    BY <2>3, <2>4 DEF ObjectsInv, ObjectsPresent
  <2>6. UNCHANGED <<objects, commits, pending>>  BY <1>27 DEF WriteIndex
  <2> QED BY <2>2, <2>5, <2>6 DEF ObjectsInv, ObjectsPresent, Existing, OwnsBase
<1>28. ASSUME NEW i \in Ids, DropCommit(i) PROVE ObjectsInv'
  <2>1. op'.kind = "apply" /\ UNCHANGED <<objects, index, pending>>
    BY <1>28 DEF DropCommit, ApplyStage
  <2>2. \A j \in Existing' : j \in Existing /\ commits'[j] = commits[j]
    BY <1>28 DEF DropCommit, Existing, TypeOK
  <2> QED BY <2>1, <2>2 DEF ObjectsInv, ObjectsPresent, OwnsBase
<1>29. CASE ClearPending
  <2>1. op' \in {Idle, Ready}
    BY <1>29, <1>op DEF ClearPending, ApplyOp
  <2>2. pending'.kind = "none" /\ UNCHANGED <<objects, commits, index>>
    BY <1>29 DEF ClearPending, NoPending
  <2>3. op'.kind \notin {"make", "pull", "resolve"}  BY <2>1, NoContents
  <2> QED BY <2>2, <2>3 DEF ObjectsInv, ObjectsPresent, Existing, OwnsBase
<1>30. CASE ApplyFails
  BY <1>30, <1>1 DEF ApplyFails, store
\* Looking, resolving, collecting.
<1>31. ASSUME NEW a \in Agents, View(a) PROVE ObjectsInv'
  BY <1>31, <1>1 DEF View, store
<1>32. ASSUME NEW a \in Agents, NEW take, NEW S, ResolveBegin(a, take, S)
       PROVE  ObjectsInv'
  <2>1. op'.kind = "resolve" /\ op'.base = index[a] /\ Same
    BY <1>32 DEF ResolveBegin, store
  <2>2. Stored(op'.base)  BY <2>1 DEF ObjectsInv, ObjectsPresent
  <2> QED BY <2>1, <2>2, <1>4
<1>33. ASSUME NEW p \in Paths, ResolveBackup(p) \/ ResolveApply(p) PROVE ObjectsInv'
  <2>1. op \in ResolveOp /\ Same
    BY <1>33, <1>op DEF ResolveBackup, ResolveApply, store
  <2>2. op'.kind = op.kind /\ op'.base \in {op.base, [op.base EXCEPT ![p] = HeadTree[p]]}
    BY <2>1, <1>33 DEF ResolveBackup, ResolveApply, ResolveOp
  <2> QED BY <2>1, <2>2, <1>7
<1>34. ASSUME NEW p \in Paths, ResolveChanged(p) PROVE ObjectsInv'
  BY <1>34, <1>1 DEF ResolveChanged, store
<1>35. CASE ResolveEnd
  <2>1. op.agent \in Agents /\ Stored(op.base)
    BY <1>35, <1>op DEF ResolveEnd, ResolveOp, ObjectsInv
  <2>2. /\ op'.kind = "idle" /\ UNCHANGED <<objects, commits, pending>>
        /\ index' = [index EXCEPT ![op.agent] = op.base]
    BY <1>35 DEF ResolveEnd, Idle
  <2> QED BY <2>1, <2>2, <1>5
<1>36. ASSUME NEW a \in Agents, NEW p \in Paths, NEW e, RestoreLost(a, p, e)
       PROVE  ObjectsInv'
  BY <1>36, <1>1 DEF RestoreLost, store
<1>37. CASE Gc
  <2>1. op' = Idle /\ pending.kind = "none" /\ UNCHANGED <<commits, index, pending>>
    BY <1>37 DEF Gc, OperationInv, Ready
  <2>2. \A v \in objects \cap Reachable : v \in objects'  BY <1>37 DEF Gc
  <2>3. \A i \in Existing, p \in Paths : commits[i].tree[p] \in objects' \cup {NoFile}
    BY <2>2 DEF Reachable, ObjectsInv, ObjectsPresent
  <2>4. \A a \in Agents, p \in Paths : index[a][p] \in objects' \cup {NoFile}
    BY <2>2 DEF Reachable, ObjectsInv, ObjectsPresent
  <2>5. op'.kind \notin {"make", "pull", "resolve"}  BY <2>1, NoContents
  <2> QED BY <2>1, <2>3, <2>4, <2>5 DEF ObjectsInv, ObjectsPresent, Existing, OwnsBase
\* The world around the operation.
<1>38. ASSUME NEW a \in Agents, NEW p \in Paths, NEW c \in Version, EditSandbox(a, p, c)
       PROVE  ObjectsInv'
  BY <1>38, <1>1 DEF EditSandbox, store
<1>39. ASSUME NEW p \in Paths, NEW c \in Version, EditShared(p, c) PROVE ObjectsInv'
  BY <1>39, <1>1 DEF EditShared, store
<1>40. CASE Interrupt  BY <1>40, <1>1 DEF Interrupt, store
<1>41. CASE UNCHANGED vars  BY <1>41, <1>1 DEF vars
<1> QED
  <2>1. CASE Proceed
    BY <2>1, <1>2, <1>3, <1>8, <1>9, <1>10, <1>14, <1>15, <1>16, <1>17, <1>23, <1>25, <1>26,
       <1>27, <1>28, <1>29, <1>33, <1>34, <1>35 DEF Proceed
  <2>2. CASE Call
    BY <2>2, <1>6, <1>11, <1>12, <1>13, <1>19, <1>20, <1>21, <1>31, <1>32, <1>36, <1>37
       DEF Call, Request
  <2>3. CASE Fault
    BY <2>3, <1>10, <1>24, <1>30, <1>40 DEF Fault, Crash
  <2>4. CASE Edit
    BY <2>4, <1>38, <1>39 DEF Edit
  <2> QED BY <2>1, <2>2, <2>3, <2>4, <1>41 DEF Next

(* What the store rests on: the open transaction, the operation and the    *)
(* stored contents, between any two steps.                                 *)
LEMMA StoreCorrect == Spec => [](TypeOK /\ PendingInv /\ OperationInv /\ ObjectsInv)
<1>1. Init => PendingInv /\ OperationInv /\ ObjectsInv  BY InitLine, InitObjects
<1>2. TypeOK /\ TypeOK' /\ PendingInv /\ OperationInv /\ ObjectsInv /\ [Next]_vars
        => PendingInv' /\ OperationInv' /\ ObjectsInv'
  BY StepLine, StepObjects
<1> QED BY <1>1, <1>2, TypeCorrect, PTL DEF Spec

(* Every fingerprint a commit, a base or a logged commit names has its     *)
(* object, whatever is edited, collected, discarded or interrupted.        *)
THEOREM ObjectsAlwaysPresent == Spec => []ObjectsPresent
<1>1. ObjectsInv => ObjectsPresent  BY DEF ObjectsInv
<1> QED BY <1>1, StoreCorrect, PTL

(* A logged transaction can always be replayed: its commit is not older    *)
(* than head, its target exists and its contents are stored.               *)
THEOREM ReplayAlwaysCompletes == Spec => []ReplayCanComplete
<1>1. TypeOK /\ PendingInv /\ ObjectsInv => ReplayCanComplete
  <2> SUFFICES ASSUME TypeOK, PendingInv, ObjectsInv, pending.kind # "none"
               PROVE  /\ pending.kind = "commit" => head <= pending.target
                      /\ pending.kind # "commit" => pending.target \in Existing \cup {0}
                      /\ \A p \in Paths : TargetTree[p] \in objects \cup {NoFile}
    BY DEF ReplayCanComplete
  <2>1. pending.kind \in {"commit", "restore", "discard"}  BY DEF TypeOK, Pending
  <2> QED BY <2>1, StoredTrees DEF PendingInv
<1> QED BY <1>1, StoreCorrect, PTL

(* On an internal root, whatever the number of agents, paths, commits and  *)
(* crashes: the shared files are the head tree whenever no transaction is  *)
(* open, and between the old and the new tree while one is.                *)
THEOREM SharedAlwaysHead ==
  ASSUME External = FALSE
  PROVE  Spec => []SharedIsHead
<1>1. PendingInv => SharedIsHead  BY DEF PendingInv, SharedIsHead
<1> QED BY <1>1, StoreCorrect, PTL

-----------------------------------------------------------------------------
(* The line of commits: walking the parents.                               *)

(* S is closed under the parents of what it holds.                         *)
Closed(S) == \A k \in S : commits[k].parent # 0 => commits[k].parent \in S

(* Ancestors is the least set with i that is closed under parents.         *)
LEMMA AncestorsLeast ==
  ASSUME NEW i, NEW S \in SUBSET Ids, i # 0 => i \in S, Closed(S)
  PROVE  Ancestors(i) \subseteq S
  BY DEF Ancestors, Closed

(* It is closed itself, and holds i.                                       *)
LEMMA AncestorsClosed ==
  ASSUME NEW i, commits \in [Ids -> Commit]
  PROVE  Closed(Ancestors(i))
<1> SUFFICES ASSUME NEW k \in Ancestors(i), commits[k].parent # 0
             PROVE  commits[k].parent \in Ancestors(i)
  BY DEF Closed
<1>1. k \in Ids  BY DEF Ancestors
<1>2. commits[k].parent \in Ids  BY <1>1 DEF Commit, Heads, Ids
<1>3. ASSUME NEW S \in SUBSET Ids, i # 0 => i \in S,
             \A j \in S : commits[j].parent # 0 => commits[j].parent \in S
      PROVE  commits[k].parent \in S
  <2>1. k \in S  BY <1>3 DEF Ancestors
  <2> QED BY <2>1, <1>3
<1> QED BY <1>2, <1>3 DEF Ancestors

(* A commit past the first is met only through the parent.                 *)
LEMMA AncestorsStep ==
  ASSUME NEW i \in Ids, commits \in [Ids -> Commit]
  PROVE  Ancestors(i) \subseteq {i} \cup Ancestors(commits[i].parent)
<1> DEFINE up == Ancestors(commits[i].parent)
<1>1. up \subseteq Ids  BY DEF Ancestors
<1>2. commits[i].parent \in Heads  BY DEF Commit
<1>3. commits[i].parent # 0 => commits[i].parent \in up
  BY <1>2, SelfAncestor DEF Heads, Ids
<1>4. Closed(up)  BY AncestorsClosed
<1>5. Closed({i} \cup up)  BY <1>3, <1>4 DEF Closed
<1> HIDE DEF up
<1>6. {i} \cup up \in SUBSET Ids  BY <1>1
<1>7. Ancestors(i) \subseteq {i} \cup up  BY <1>5, <1>6, AncestorsLeast
<1> QED BY <1>7 DEF up

(* Nothing is behind the empty head.                                       *)
LEMMA NoAncestors == Ancestors(0) = {}
<1>1. Closed({})  BY DEF Closed
<1> QED BY <1>1, AncestorsLeast

ParentsBelow == \A i \in Ids : commits[i].parent < i

(* Parents come before their children.                                     *)
LEMMA AncestorsBelow ==
  ASSUME NEW i \in Ids, commits \in [Ids -> Commit], ParentsBelow
  PROVE  \A j \in Ancestors(i) : j <= i
<1> DEFINE S == {j \in Ids : j <= i}
<1>1. Closed(S)
  <2> SUFFICES ASSUME NEW k \in S, commits[k].parent # 0
               PROVE  commits[k].parent \in S
    BY DEF Closed
  <2>1. commits[k].parent \in Heads /\ commits[k].parent < k
    BY DEF ParentsBelow, Commit
  <2> QED BY <2>1 DEF Heads, Ids
<1>2. i \in S  BY DEF Ids
<1>3. Ancestors(i) \subseteq S  BY <1>1, <1>2, AncestorsLeast
<1> QED BY <1>3

(* Two commits behind one are behind one another: the line does not fork.  *)
LEMMA LineIsLinear ==
  ASSUME NEW i \in Ids, NEW t \in Ancestors(i), commits \in [Ids -> Commit]
  PROVE  \A j \in Ancestors(i) : t \in Ancestors(j) \/ j \in Ancestors(t)
<1> DEFINE S == {j \in Ids : t \in Ancestors(j) \/ j \in Ancestors(t)}
<1>1. t \in Ids  BY DEF Ancestors
<1>2. Closed(S)
  <2> SUFFICES ASSUME NEW k \in S, commits[k].parent # 0
               PROVE  commits[k].parent \in S
    BY DEF Closed
  <2> DEFINE up == commits[k].parent
  <2>1. up \in Ids  BY DEF Commit, Heads, Ids
  <2>2. CASE k \in Ancestors(t)
    BY <2>1, <2>2, AncestorsClosed DEF Closed
  <2>3. CASE t \in Ancestors(k)
    <3>1. CASE t = k
      <4>1. k \in Ancestors(t)  BY <1>1, <3>1, SelfAncestor
      <4> QED BY <4>1, <2>2
    <3>2. CASE t # k
      <4>1. t \in Ancestors(up)  BY <2>3, <3>2, AncestorsStep
      <4> QED BY <2>1, <4>1
    <3> QED BY <3>1, <3>2
  <2> QED BY <2>2, <2>3
<1>3. Ancestors(i) \subseteq S  BY <1>2, AncestorsLeast
<1> QED BY <1>3

-----------------------------------------------------------------------------
(* What a discard has left so far.                                         *)
LineInv ==
  /\ \A i \in Existing :
       \/ commits[i].parent \in Existing \cup {0}
       \/ pending.kind = "discard" /\ head = pending.target /\ i \notin Ancestors(head)
  /\ ParentsBelow
  /\ pending.kind = "commit" =>
       pending.rec.parent \in Existing \cup {0} /\ pending.rec.parent < pending.target

(* The steps that touch the line.                                          *)
LEMMA LineSteps ==
  ASSUME [Next]_vars
  PROVE  \/ UNCHANGED <<commits, head, pending>>
         \/ LogCommit
         \/ \E k \in {"restore", "discard"}, i \in Heads, f \in BOOLEAN : LogMove(k, i, f)
         \/ WriteCommit
         \/ SetHead
         \/ \E i \in Ids : DropCommit(i)
         \/ ClearPending
<1>1. CASE Proceed
  BY <1>1 DEF Proceed, Enter, Leave, PullEnd, ReserveId, ResolveEnd, WriteIndex, PullDecide,
     PullCopy, Ingest, IngestChanged, WriteFile, ResolveBackup, ResolveChanged, ResolveApply,
     store
<1>2. CASE Call
  <2> DEFINE Same == UNCHANGED <<commits, head, pending>>
             Move == \E k \in {"restore", "discard"}, i \in Heads, f \in BOOLEAN : LogMove(k, i, f)
  <2>1. \A a, S, D, l : PullBegin(a, S) \/ CommitBegin(a, S, D, l) => Same
    BY DEF PullBegin, CommitBegin, store
  <2>2. \A a, t, S, p, e : View(a) \/ ResolveBegin(a, t, S) \/ RestoreLost(a, p, e) => Same
    BY DEF View, ResolveBegin, RestoreLost, store
  <2>3. \A S, p, c, l : SyncBegin(S) \/ UploadBegin(p, c, l) \/ Gc => Same
    BY DEF SyncBegin, UploadBegin, Gc, store
  <2>4. \A i \in Ids, f \in BOOLEAN : Restore(i, f) => Move
    BY DEF Restore, Ids, Heads
  <2>5. \A i \in Heads : RestorePoint(i) \/ DiscardAfter(i) => Move
    BY DEF RestorePoint, DiscardAfter
  <2>6. \A keep : RewindTo(keep) => Move
    BY DEF RewindTo
  <2> HIDE DEF Same, Move
  <2>7. Same \/ Move
    BY <1>2, <2>1, <2>2, <2>3, <2>4, <2>5, <2>6 DEF Call, Request
  <2> QED BY <2>7 DEF Same, Move
<1>3. CASE Fault
  BY <1>3 DEF Fault, Crash, Interrupt, TearFile, ApplyFails, PullFails, store
<1>4. CASE Edit
  BY <1>4 DEF Edit, EditShared, EditSandbox, store
<1>5. CASE UNCHANGED vars
  BY <1>5 DEF vars
<1> QED BY <1>1, <1>2, <1>3, <1>4, <1>5 DEF Next
(* Reading them does not need more than the commits.                       *)
LEMMA LineFrame ==
  ASSUME LineInv, UNCHANGED <<commits, head, pending>>
  PROVE  LineInv'
  BY DEF LineInv, ParentsBelow, Existing, Ancestors

(* The line before anything is committed.                                  *)
LEMMA InitParents == Init => LineInv
  BY DEF Init, LineInv, ParentsBelow, Existing, NoCommit, NoPending, Ids

(* Every step keeps it.                                                    *)
LEMMA StepParents ==
  ASSUME TypeOK, TypeOK', PendingInv, OperationInv, LineInv, [Next]_vars
  PROVE  LineInv'
<1>ty. /\ commits \in [Ids -> Commit] /\ head \in Heads /\ pending \in Pending
       /\ pending.target \in Heads
  BY DEF TypeOK, Pending
<1>all. pending.kind # "discard" => \A i \in Existing : commits[i].parent \in Existing \cup {0}
  BY DEF LineInv
<1>1. CASE UNCHANGED <<commits, head, pending>>
  BY <1>1, LineFrame
<1>2. CASE LogCommit
  <2>1. op \in MakeOp /\ op.kind = "make" /\ pending.kind = "none"
    BY <1>2, OpShapes DEF LogCommit, OperationInv, TypeOK
  <2>2. /\ pending'.kind = "commit" /\ pending'.target = op.id
        /\ pending'.rec.parent = head /\ UNCHANGED <<commits, head>>
    BY <1>2 DEF LogCommit
  <2>3. op.id \in Ids /\ \A i \in Existing : i < op.id
    BY <1>2, <2>1 DEF LogCommit, Prepared, MakeOp, OperationInv, Heads, Ids
  <2>4. head \in Existing \cup {0} /\ head < op.id
    BY <2>3, <1>ty DEF PendingInv, Ids, Heads
  <2>5. Existing' = Existing /\ ParentsBelow'
    BY <2>2 DEF Existing, LineInv, ParentsBelow
  <2> QED BY <2>1, <2>2, <2>4, <2>5, <1>all DEF LineInv
<1>3. ASSUME NEW k \in {"restore", "discard"}, NEW i \in Heads, NEW f \in BOOLEAN, LogMove(k, i, f)
      PROVE  LineInv'
  <2>1. /\ pending.kind = "none" /\ pending'.kind = k /\ UNCHANGED <<commits, head>>
    BY <1>3, MoveShape DEF LogMove, OperationInv, Ready
  <2>2. Existing' = Existing /\ ParentsBelow'
    BY <2>1 DEF Existing, LineInv, ParentsBelow
  <2> QED BY <2>1, <2>2, <1>all DEF LineInv
<1>4. CASE WriteCommit
  <2>1. pending.kind = "commit" /\ UNCHANGED <<head, pending>>
    BY <1>4 DEF WriteCommit
  <2>2. pending.target \in Ids /\ pending.rec # NoCommit
    BY <2>1, <1>ty DEF PendingInv, Heads, Ids
  <2>3. \A i \in Ids : commits'[i] = IF i = pending.target THEN pending.rec ELSE commits[i]
    BY <1>4, <2>2, <1>ty DEF WriteCommit
  <2>4. Existing' = Existing \cup {pending.target}
    BY <2>2, <2>3 DEF Existing
  <2>5. pending.rec.parent \in Existing \cup {0} /\ pending.rec.parent < pending.target
    BY <2>1 DEF LineInv
  <2>6. ParentsBelow'  BY <2>3, <2>5 DEF LineInv, ParentsBelow
  <2>7. \A i \in Existing' : commits'[i].parent \in Existing' \cup {0}
    BY <2>1, <2>2, <2>3, <2>4, <2>5, <1>all DEF Existing
  <2> QED BY <2>1, <2>4, <2>5, <2>6, <2>7 DEF LineInv
<1>5. CASE SetHead
  <2>1. head' = pending.target /\ UNCHANGED <<commits, pending>>
    BY <1>5 DEF SetHead
  <2>2. Existing' = Existing /\ ParentsBelow'
    BY <2>1 DEF Existing, LineInv, ParentsBelow
  <2>3. CASE head = pending.target
    BY <2>1, <2>3, LineFrame
  <2>4. CASE head # pending.target
    BY <2>1, <2>2, <2>4 DEF LineInv
  <2> QED BY <2>3, <2>4
<1>6. ASSUME NEW i \in Ids, DropCommit(i) PROVE LineInv'
  <2>1. /\ pending.kind = "discard" /\ head = pending.target
        /\ i \in Existing /\ i \notin Ancestors(head) /\ UNCHANGED <<head, pending>>
    BY <1>6 DEF DropCommit, Dropped, OperationInv, ApplyStage
  <2>2. \A j \in Ids : commits'[j] = IF j = i THEN NoCommit ELSE commits[j]
    BY <1>6, <1>ty DEF DropCommit
  <2>3. Existing' = Existing \ {i}  BY <2>2 DEF Existing
  \* What is dropped is not on the line, so the line stays what it was.
  <2>4. Ancestors(head)' \subseteq Ancestors(head)
    <3>1. commits' \in [Ids -> Commit]  BY DEF TypeOK
    <3>2. Closed(Ancestors(head))  BY <1>ty, AncestorsClosed
    <3>3. Ancestors(head) \in SUBSET Ids  BY DEF Ancestors
    <3>4. \A k \in Ancestors(head) : commits'[k].parent # 0 => commits'[k].parent \in Ancestors(head)
      BY <2>1, <2>2, <3>2, <3>3 DEF Closed
    <3>5. head # 0 => head \in Ancestors(head)
      BY <1>ty, SelfAncestor DEF Heads, Ids
    <3> DEFINE A == Ancestors(head)
    <3> HIDE DEF A
    <3>6. A \in SUBSET Ids /\ (head' # 0 => head' \in A)
          /\ \A k \in A : commits'[k].parent # 0 => commits'[k].parent \in A
      BY <2>1, <3>3, <3>4, <3>5 DEF A
    <3>7. Ancestors(head)' \subseteq A  BY <3>6 DEF Ancestors
    <3> QED BY <3>7 DEF A
  <2>5. Closed(Ancestors(head))  BY <1>ty, AncestorsClosed
  <2>6. ASSUME NEW j \in Existing'
        PROVE  \/ commits'[j].parent \in Existing' \cup {0}
               \/ j \notin Ancestors(head)'
    <3>1. j \in Existing /\ j # i /\ j \in Ids /\ commits'[j] = commits[j]
      BY <2>2, <2>3, <2>6 DEF Existing
    <3>2. CASE commits[j].parent = i
      <4>1. i # 0  BY DEF Ids
      <4> QED BY <3>2, <4>1, <2>1, <2>4, <2>5 DEF Closed
    <3>3. CASE commits[j].parent # i
      BY <3>1, <3>3, <2>3, <2>4 DEF LineInv
    <3> QED BY <3>2, <3>3
  <2>7. ParentsBelow'  BY <2>2 DEF LineInv, ParentsBelow, NoCommit, Ids
  <2> QED BY <2>1, <2>6, <2>7 DEF LineInv
<1>7. CASE ClearPending
  <2>1. UNCHANGED <<commits, head>> /\ pending'.kind = "none"
    BY <1>7 DEF ClearPending, NoPending
  <2>2. Existing' = Existing /\ ParentsBelow'
    BY <2>1 DEF Existing, LineInv, ParentsBelow
  <2>3. \A i \in Existing : commits[i].parent \in Existing \cup {0}
    <3>1. CASE pending.kind # "discard"  BY <3>1, <1>all
    <3>2. CASE pending.kind = "discard"
      <4>1. Existing \subseteq Ancestors(pending.target)
        BY <3>2, <1>7 DEF ClearPending, Dropped
      <4> QED BY <4>1 DEF LineInv
    <3> QED BY <3>1, <3>2
  <2> QED BY <2>1, <2>2, <2>3 DEF LineInv
<1> QED BY <1>1, <1>2, <1>3, <1>4, <1>5, <1>6, <1>7, LineSteps

(* LineInv is an invariant.                                                *)
LEMMA ParentsCorrect == Spec => []LineInv
<1>1. TypeOK /\ TypeOK' /\ PendingInv /\ OperationInv /\ LineInv /\ [Next]_vars => LineInv'
  BY StepParents
<1> QED BY <1>1, InitParents, TypeCorrect, StoreCorrect, PTL DEF Spec

(* What it says of the history behind head.                                *)
LEMMA LineWhole ==
  ASSUME TypeOK, PendingInv, LineInv
  PROVE  LineIntact
<1> SUFFICES ASSUME head # 0 PROVE Ancestors(head) \subseteq Existing /\ head \in Existing
  BY DEF LineIntact
<1>1. head \in Existing /\ head \in Ids  BY DEF PendingInv, Existing
<1> DEFINE S == Existing \cap Ancestors(head)
<1>2. head \in S  BY <1>1, SelfAncestor
<1>3. Closed(S)
  <2>1. Closed(Ancestors(head))  BY AncestorsClosed DEF TypeOK
  <2>2. \A k \in S : commits[k].parent \in Existing \cup {0}  BY DEF LineInv
  <2> QED BY <2>1, <2>2 DEF Closed
<1>4. Ancestors(head) \subseteq S  BY <1>2, <1>3, AncestorsLeast DEF Existing
<1> QED BY <1>1, <1>4

(* Whatever is discarded and wherever a crash interrupts it, the history   *)
(* behind head is complete: head_tree and head_ancestors never meet a      *)
(* missing record.                                                         *)
THEOREM LineAlwaysIntact == Spec => []LineIntact
<1>1. TypeOK /\ PendingInv /\ LineInv => LineIntact  BY LineWhole
<1> QED BY <1>1, TypeCorrect, StoreCorrect, ParentsCorrect, PTL

(* Where a rewind goes to, from what the seats keep.                       *)
LEMMA RewindKeeps ==
  ASSUME TypeOK, PendingInv, LineInv
  PROVE  RewindLosesNothingKept
<1> SUFFICES ASSUME NEW keep \in Keeps, NEW t \in Heads, RewindTarget(keep, t),
                    NEW i \in Ancestors(head), i \notin Ancestors(t), Within(i, keep)
             PROVE  FALSE
  BY DEF RewindLosesNothingKept
<1>1. head # 0  BY NoAncestors
<1>2. head \in Ids /\ i \in Ids /\ commits \in [Ids -> Commit] /\ ParentsBelow
  BY <1>1 DEF TypeOK, Heads, Ids, Ancestors, LineInv
<1>3. i \in Existing  BY <1>1, LineWhole DEF LineIntact
<1> DEFINE line == {j \in Ancestors(head) \cap Existing : Within(j, keep)}
<1>4. i \in line  BY <1>3
<1>5. t \in line /\ i <= t
  BY <1>4 DEF RewindTarget
<1>6. t \in Ancestors(head) /\ t \in Ids  BY <1>5 DEF Ancestors
<1>7. t \in Ancestors(i)
  BY <1>2, <1>6, LineIsLinear
<1>8. t <= i  BY <1>2, <1>7, AncestorsBelow
<1>9. t = i  BY <1>2, <1>5, <1>6, <1>8 DEF Ids
<1> QED BY <1>2, <1>9, SelfAncestor

(* Going back along the transcript drops no commit of the current line     *)
(* that every seat keeps, whatever line and order the commits were made in *)
(* (work_rewind_to).                                                       *)
THEOREM RewindNeverLoses == Spec => []RewindLosesNothingKept
<1>1. TypeOK /\ PendingInv /\ LineInv => RewindLosesNothingKept  BY RewindKeeps
<1> QED BY <1>1, TypeCorrect, StoreCorrect, ParentsCorrect, PTL

-----------------------------------------------------------------------------
(* What an operation inside the locks can become.                          *)
LEMMA OpSteps ==
  ASSUME TypeOK, [Next]_vars
  PROVE  \/ op'.kind \in {"idle", "ready", "apply"}
         \/ \E a \in Agents, S \in SUBSET Paths, D \in SUBSET Paths, l \in Lines : CommitBegin(a, S, D, l)
         \/ \E S \in NonEmpty : SyncBegin(S)
         \/ \E p \in Paths, c \in Contents, l \in Lines : UploadBegin(p, c, l)
         \/ \E p \in Paths : Ingest(p)
         \/ ReserveId
         \/ \E a \in Agents, S \in NonEmpty : PullBegin(a, S)
         \/ \E p \in Paths : PullDecide(p) \/ PullCopy(p)
         \/ \E a \in Agents, S \in NonEmpty, take \in {"upstream", "local"} : ResolveBegin(a, take, S)
         \/ \E p \in Paths : ResolveBackup(p) \/ ResolveApply(p)
         \/ Edit /\ UNCHANGED op
         \/ UNCHANGED vars
<1> DEFINE Out == op'.kind \in {"idle", "ready", "apply"}
<1>op. op.kind = "apply" => op \in ApplyOp  BY OpShapes DEF TypeOK
<1>0. \A pd, n, then : Applying(pd, n, then).kind = "apply"  BY DEF Applying
<1>1. Enter \/ Leave \/ PullEnd \/ LogCommit \/ ResolveEnd => Out
  BY <1>0 DEF Enter, Leave, PullEnd, LogCommit, ResolveEnd, Idle, Ready
<1>2. WriteCommit \/ SetHead \/ WriteIndex => Out
  <2>1. ASSUME op \in ApplyOp, NEW s, op' = [op EXCEPT !.stage = s] PROVE op'.kind = "apply"
    BY <2>1 DEF ApplyOp
  <2> QED BY <2>1, <1>op DEF WriteCommit, SetHead, WriteIndex, ApplyStage
<1>3. ClearPending => Out
  BY <1>op DEF ClearPending, ApplyOp, Idle, Ready
<1>4. \A i \in Ids : DropCommit(i) => Out
  BY DEF DropCommit, ApplyStage
<1>5. \A p \in Paths : IngestChanged(p) \/ ResolveChanged(p) => Out
  BY DEF IngestChanged, ResolveChanged, Idle
<1>6. \A p \in Paths : WriteFile(p) => Out
  <2>1. ASSUME op \in ApplyOp, NEW p, op' = [op EXCEPT !.files = @ \ {p}] PROVE op'.kind = "apply"
    BY <2>1 DEF ApplyOp
  <2> QED BY <2>1, <1>op DEF WriteFile, ApplyStage
<1>7. CASE Proceed
  <2> HIDE DEF Out
  <2>1. Out \/ (\E p \in Paths : Ingest(p)) \/ ReserveId
        \/ (\E p \in Paths : PullDecide(p) \/ PullCopy(p))
        \/ (\E p \in Paths : ResolveBackup(p) \/ ResolveApply(p))
    BY <1>7, <1>1, <1>2, <1>3, <1>4, <1>5, <1>6 DEF Proceed
  <2> QED BY <2>1 DEF Out
<1>8. CASE Call
  <2>1. \A a, p, e : View(a) \/ RestoreLost(a, p, e) => Out
    BY DEF View, RestoreLost, Idle
  <2>2. Gc => Out  BY DEF Gc, Idle
  <2>3. \A k, i, f : LogMove(k, i, f) => Out  BY <1>0 DEF LogMove
  <2>4. \A i, f : Restore(i, f) => Out  BY <2>3 DEF Restore
  <2>5. \A i : RestorePoint(i) \/ DiscardAfter(i) => Out  BY <2>3 DEF RestorePoint, DiscardAfter
  <2>6. \A keep : RewindTo(keep) => Out  BY <2>3 DEF RewindTo
  <2> HIDE DEF Out
  <2>7. Out \/ (\E a \in Agents, S \in SUBSET Paths, D \in SUBSET Paths, l \in Lines : CommitBegin(a, S, D, l))
        \/ (\E S \in NonEmpty : SyncBegin(S))
        \/ (\E p \in Paths, c \in Contents, l \in Lines : UploadBegin(p, c, l))
        \/ (\E a \in Agents, S \in NonEmpty : PullBegin(a, S))
        \/ (\E a \in Agents, S \in NonEmpty, take \in {"upstream", "local"} : ResolveBegin(a, take, S))
    BY <1>8, <2>1, <2>2, <2>4, <2>5, <2>6 DEF Call, Request
  <2> QED BY <2>7 DEF Out
<1>9. CASE Fault
  BY <1>9, <1>0 DEF Fault, Crash, Interrupt, TearFile, ApplyFails, PullFails, Idle
<1>10. CASE Edit
  BY <1>10 DEF Edit, EditShared, EditSandbox
<1> QED BY <1>7, <1>8, <1>9, <1>10 DEF Next

(* The steps that touch a sandbox.                                         *)
LEMMA SandboxSteps ==
  ASSUME [Next]_vars
  PROVE  \/ UNCHANGED sandbox
         \/ \E p \in Paths : PullCopy(p) \/ ResolveApply(p)
         \/ \E a \in Agents, p \in Paths, e \in Version : RestoreLost(a, p, e)
         \/ (EditsMidOp \/ op = Idle) /\ UNCHANGED op
            /\ \E a \in Agents, p \in Paths, c \in Version : EditSandbox(a, p, c)
<1>1. CASE Proceed
  BY <1>1 DEF Proceed, Enter, Leave, PullEnd, ReserveId, LogCommit, ResolveEnd, WriteCommit,
     SetHead, WriteIndex, ClearPending, DropCommit, PullDecide, Ingest, IngestChanged, WriteFile,
     ResolveBackup, ResolveChanged, disks
<1>2. CASE Call
  <2> DEFINE Same == UNCHANGED sandbox
  <2>1. \A a, S, D, l : PullBegin(a, S) \/ CommitBegin(a, S, D, l) => Same
    BY DEF PullBegin, CommitBegin, disks
  <2>2. \A a, t, S : View(a) \/ ResolveBegin(a, t, S) => Same
    BY DEF View, ResolveBegin, disks
  <2>3. \A S, p, c, l : SyncBegin(S) \/ UploadBegin(p, c, l) \/ Gc => Same
    BY DEF SyncBegin, UploadBegin, Gc, disks
  <2>4. \A i, f : Restore(i, f) \/ RestorePoint(i) \/ DiscardAfter(i) => Same
    BY DEF Restore, RestorePoint, DiscardAfter, LogMove, disks
  <2>5. \A keep : RewindTo(keep) => Same
    BY DEF RewindTo, LogMove, disks
  <2> HIDE DEF Same
  <2>6. Same \/ \E a \in Agents, p \in Paths, e \in Version : RestoreLost(a, p, e)
    BY <1>2, <2>1, <2>2, <2>3, <2>4, <2>5 DEF Call, Request
  <2> QED BY <2>6 DEF Same
<1>3. CASE Fault
  BY <1>3 DEF Fault, Crash, Interrupt, TearFile, ApplyFails, PullFails, disks
<1>4. CASE Edit
  BY <1>4 DEF Edit, EditShared, EditSandbox
<1>5. CASE UNCHANGED vars
  BY <1>5 DEF vars
<1> QED BY <1>1, <1>2, <1>3, <1>4, <1>5 DEF Next
-----------------------------------------------------------------------------
(* What a pull and a resolution know of the sandbox they are about to      *)
(* write, when nobody edits it while they run.                             *)
CopyInv ==
  /\ op.kind = "pull" =>
       \A p \in op.copying : sandbox[op.agent][p] \in {NoFile, op.base[p]}
  /\ op.kind = "resolve" =>
       op.backup \subseteq op.todo
  /\ op.kind = "resolve" =>
       \A p \in op.todo :
         /\ sandbox[op.agent][p] = op.found[p]
         /\ op.take = "upstream" /\ p \notin op.backup /\ NeedsBackup(HeadTree[p], op.found[p])
              => lost[op.agent][p] = op.found[p]

(* Every step keeps it.                                                    *)
LEMMA StepCopy ==
  ASSUME EditsMidOp = FALSE, TypeOK, TypeOK', CopyInv, [Next]_vars
  PROVE  CopyInv'
<1>op. /\ op.kind = "pull" => op \in PullOp
       /\ op.kind = "resolve" => op \in ResolveOp
  BY OpShapes DEF TypeOK
<1>1. ASSUME op'.kind \notin {"pull", "resolve"} PROVE CopyInv'
  BY <1>1 DEF CopyInv
<1>2. ASSUME op'.kind = "make" PROVE CopyInv'
  BY <1>1, <1>2
<1>3. ASSUME NEW p \in Paths, Ingest(p) PROVE CopyInv'
  <2>1. op \in MakeOp /\ op' = [op EXCEPT !.ingest = @ \ {p}]
    BY <1>3, OpShapes DEF Ingest, IngestTurn, TypeOK
  <2> QED BY <2>1, <1>2, MakeStep, ShapesAreOps
<1>4. CASE ReserveId
  <2>1. op \in MakeOp  BY <1>4, OpShapes DEF ReserveId, TypeOK
  <2>2. PICK n \in Ids : op' = [op EXCEPT !.id = n]  BY <1>4 DEF ReserveId
  <2> QED BY <2>1, <2>2, <1>2, MakeIdStep, ShapesAreOps
<1>5. ASSUME NEW a \in Agents, NEW S \in NonEmpty, PullBegin(a, S) PROVE CopyInv'
  BY <1>5 DEF PullBegin, CopyInv
<1>6. ASSUME NEW p \in Paths, PullDecide(p) PROVE CopyInv'
  <2>1. op \in PullOp /\ op.copying = {} /\ UNCHANGED sandbox
    BY <1>6, <1>op DEF PullDecide, disks
  <2>2. CASE op' = [op EXCEPT !.copying = {p}]
    <3>1. op'.kind = "pull" /\ op'.copying = {p} /\ op'.agent = op.agent /\ op'.base = op.base
      BY <2>1, <2>2 DEF PullOp
    <3>2. sandbox[op.agent][p] \in {NoFile, op.base[p]}
      <4>1. op' # [op EXCEPT !.want = @ \ {p}, !.base[p] = HeadTree[p]]
            /\ op' # [op EXCEPT !.want = @ \ {p}]
        <5>1. /\ [op EXCEPT !.want = @ \ {p}, !.base[p] = HeadTree[p]].copying = {}
              /\ [op EXCEPT !.want = @ \ {p}].copying = {}
          BY <2>1 DEF PullOp
        <5> QED BY <5>1, <3>1
      <4>2. PullUpdate(op.base[p], HeadTree[p], sandbox[op.agent][p])
        BY <4>1, <1>6 DEF PullDecide
      <4> QED BY <4>2 DEF PullUpdate
    <3> QED BY <2>1, <3>1, <3>2 DEF CopyInv
  <2>3. CASE op' # [op EXCEPT !.copying = {p}]
    <3>1. op' = [op EXCEPT !.want = @ \ {p}, !.base[p] = HeadTree[p]]
          \/ op' = [op EXCEPT !.want = @ \ {p}]
      BY <2>3, <1>6, Zenon DEF PullDecide
    <3>2. op'.kind = "pull" /\ op'.copying = {}
      BY <3>1, <2>1 DEF PullOp
    <3> QED BY <3>2 DEF CopyInv
  <2> QED BY <2>2, <2>3
<1>7. ASSUME NEW p \in Paths, PullCopy(p) PROVE CopyInv'
  <2>1. op \in PullOp
        /\ op' = [op EXCEPT !.want = @ \ {p}, !.copying = {}, !.base[p] = HeadTree[p]]
    BY <1>7, <1>op DEF PullCopy
  <2>2. op'.kind = "pull" /\ op'.copying = {}  BY <2>1 DEF PullOp
  <2> QED BY <2>2 DEF CopyInv
<1>8. ASSUME NEW a \in Agents, NEW S \in NonEmpty, NEW take \in {"upstream", "local"},
             ResolveBegin(a, take, S)
      PROVE  CopyInv'
  <2>1. /\ op'.kind = "resolve" /\ op'.agent = a /\ op'.found = sandbox[a]
        /\ op'.take = take /\ UNCHANGED <<sandbox, lost, commits, head>>
        /\ op'.backup = {p \in op'.todo : take = "upstream" /\ NeedsBackup(HeadTree[p], sandbox[a][p])}
    BY <1>8 DEF ResolveBegin, disks, store
  <2>2. HeadTree' = HeadTree  BY <2>1, TreeFrame
  <2> QED BY <2>1, <2>2 DEF CopyInv
<1>9. ASSUME NEW p \in Paths, ResolveBackup(p) PROVE CopyInv'
  <2>1. op \in ResolveOp /\ op.agent \in Agents /\ UNCHANGED <<sandbox, commits, head>>
    BY <1>9, <1>op DEF ResolveBackup, ResolveOp, store
  <2>2. op.kind = "resolve" /\ HeadTree' = HeadTree  BY <2>1, TreeFrame DEF ResolveOp
  <2>3. op' = [op EXCEPT !.backup = @ \ {p}]  BY <1>9 DEF ResolveBackup
  <2>4. /\ op'.kind = "resolve" /\ op'.agent = op.agent /\ op'.found = op.found
        /\ op'.take = op.take /\ op'.todo = op.todo /\ op'.backup = op.backup \ {p}
    BY <2>1, <2>3 DEF ResolveOp
  <2>5. \A q \in Paths : lost'[op.agent][q] = IF q = p THEN op.found[p] ELSE lost[op.agent][q]
    BY <2>1, <1>9 DEF ResolveBackup, Tree, TypeOK
  <2>6. op.todo \subseteq Paths  BY <2>1 DEF ResolveOp
  <2> QED BY <2>1, <2>2, <2>4, <2>5, <2>6 DEF CopyInv
<1>10. ASSUME NEW p \in Paths, ResolveApply(p) PROVE CopyInv'
  <2>1. op \in ResolveOp /\ op.agent \in Agents /\ UNCHANGED <<lost, commits, head>>
    BY <1>10, <1>op DEF ResolveApply, ResolveOp, store
  <2>2. op.kind = "resolve" /\ HeadTree' = HeadTree  BY <2>1, TreeFrame DEF ResolveOp
  <2>3. op' = [op EXCEPT !.todo = @ \ {p}, !.base[p] = HeadTree[p]]  BY <1>10 DEF ResolveApply
  <2>4. /\ op'.kind = "resolve" /\ op'.agent = op.agent /\ op'.found = op.found
        /\ op'.take = op.take /\ op'.todo = op.todo \ {p} /\ op'.backup = {} /\ op.backup = {}
    BY <2>1, <2>3, <1>10 DEF ResolveOp, ResolveApply
  <2>5. op.todo \subseteq Paths  BY <2>1 DEF ResolveOp
  <2>6. \A q \in Paths \ {p} : sandbox'[op.agent][q] = sandbox[op.agent][q]
    BY <2>1, <1>10 DEF ResolveApply, Tree, TypeOK
  <2> QED BY <2>1, <2>2, <2>4, <2>5, <2>6 DEF CopyInv
<1>11. CASE Edit /\ UNCHANGED op
  <2>1. op' = Idle  BY <1>11 DEF Edit
  <2> QED BY <2>1, <1>1 DEF Idle
<1>12. CASE UNCHANGED vars
  <2>1. UNCHANGED <<op, sandbox, lost, commits, head>>  BY <1>12 DEF vars
  <2>2. HeadTree' = HeadTree  BY <2>1, TreeFrame
  <2> QED BY <2>1, <2>2 DEF CopyInv
<1>13. ASSUME op'.kind \in {"idle", "ready", "apply"} PROVE CopyInv'
  BY <1>1, <1>13
<1>14. ASSUME NEW a, NEW S, NEW D, NEW l,
              CommitBegin(a, S, D, l) \/ SyncBegin(S) \/ UploadBegin(S, D, l)
       PROVE  CopyInv'
  <2>1. op'.kind = "make"  BY <1>14 DEF CommitBegin, SyncBegin, UploadBegin, Making
  <2> QED BY <2>1, <1>2
<1> QED BY <1>3, <1>4, <1>5, <1>6, <1>7, <1>8, <1>9, <1>10, <1>11, <1>12, <1>13, <1>14, OpSteps

(* What a copy overwrites is stored, in the backups or recorded.           *)
LEMMA StepSurvives ==
  ASSUME EditsMidOp = FALSE, TypeOK, ObjectsInv, CopyInv, [Next]_vars
  PROVE  EditSurvives
<1> SUFFICES ASSUME op.kind \in {"pull", "resolve"}, op' # op, NEW a \in Agents, NEW p \in Paths,
                    sandbox'[a][p] # sandbox[a][p]
             PROVE  sandbox[a][p] \in objects \cup {NoFile, lost[a][p]}
  BY DEF EditSurvives
<1>op. /\ op.kind = "pull" => op \in PullOp
       /\ op.kind = "resolve" => op \in ResolveOp
  BY OpShapes DEF TypeOK
<1>1. ASSUME NEW q \in Paths, PullCopy(q) PROVE sandbox[a][p] \in objects \cup {NoFile}
  <2>1. op \in PullOp /\ op.kind = "pull" /\ q \in op.copying
        /\ sandbox' = [sandbox EXCEPT ![op.agent][q] = HeadTree[q]]
    BY <1>1, <1>op DEF PullCopy
  <2>2. a = op.agent /\ p = q
    BY <2>1 DEF PullOp, Tree, TypeOK
  <2>3. op.base[q] \in objects \cup {NoFile}  BY <2>1 DEF ObjectsInv
  <2> QED BY <2>1, <2>2, <2>3 DEF CopyInv
<1>2. ASSUME NEW q \in Paths, ResolveApply(q)
      PROVE  sandbox[a][p] \in {NoFile, lost[a][p]}
  <2>1. /\ op \in ResolveOp /\ op.kind = "resolve" /\ q \in op.todo /\ op.backup = {}
        /\ op.take = "upstream" /\ op.found[q] # HeadTree[q]
        /\ sandbox' = [sandbox EXCEPT ![op.agent][q] = HeadTree[q]]
    BY <1>2, <1>op DEF ResolveApply
  <2>2. a = op.agent /\ p = q
    BY <2>1 DEF ResolveOp, Tree, TypeOK
  <2>3. sandbox[a][p] = op.found[p]  BY <2>1, <2>2 DEF CopyInv
  <2>4. op.found[p] # NoFile => lost[a][p] = op.found[p]
    BY <2>1, <2>2 DEF CopyInv, NeedsBackup
  <2> QED BY <2>3, <2>4
<1>3. ASSUME NEW b, NEW q, NEW e, RestoreLost(b, q, e) PROVE FALSE
  BY <1>3 DEF RestoreLost, Ready
<1> QED BY <1>1, <1>2, <1>3, SandboxSteps

(* When nobody edits a sandbox while an operation on it runs, no pull and  *)
(* no resolution destroys the only copy of what an agent wrote.            *)
THEOREM EditsAlwaysSurvive ==
  ASSUME EditsMidOp = FALSE
  PROVE  Spec => EditsSurvive
<1>1. Init => CopyInv  BY DEF Init, CopyInv, Idle
<1>2. TypeOK /\ TypeOK' /\ ObjectsInv /\ CopyInv /\ [Next]_vars => CopyInv' /\ EditSurvives
  BY StepCopy, StepSurvives
<1>3. EditsSurvive <=> [][EditSurvives]_vars  BY DEF EditsSurvive
<1> QED BY <1>1, <1>2, <1>3, TypeCorrect, StoreCorrect, PTL DEF Spec

-----------------------------------------------------------------------------
(* An external root, where nothing fails and nobody forces a rollback: the *)
(* disk content an operation is about to replace is a version it knows.    *)
UntouchedInv ==
  /\ op.kind # "apply" => pending.kind = "none"
  /\ External /\ op.kind = "make" /\ op.author # User =>
       \A p \in op.changes : work[p] \in {HeadTree[p], op.tree[p]}
  /\ External /\ op.kind = "apply" /\ pending.rec.author # User =>
       \A p \in op.files : work[p] \in {HeadTree[p], TargetTree[p]}

(* The steps that touch the shared files.                                  *)
LEMMA WorkSteps ==
  ASSUME [Next]_vars
  PROVE  \/ UNCHANGED work
         \/ \E p \in Paths : WriteFile(p)
         \/ \E p \in Paths, c \in Version : TearFile(p, c)
         \/ (EditsMidOp \/ op = Idle) /\ UNCHANGED op
            /\ \E p \in Paths, c \in Version : EditShared(p, c)
<1>1. CASE Proceed
  BY <1>1 DEF Proceed, Enter, Leave, PullEnd, ReserveId, LogCommit, ResolveEnd, WriteCommit,
     SetHead, WriteIndex, ClearPending, DropCommit, PullDecide, PullCopy, Ingest, IngestChanged,
     ResolveBackup, ResolveChanged, ResolveApply, disks
<1>2. CASE Call
  <2> DEFINE Same == UNCHANGED work
  <2>1. \A a, S, D, l : PullBegin(a, S) \/ CommitBegin(a, S, D, l) => Same
    BY DEF PullBegin, CommitBegin, disks
  <2>2. \A a, t, S, p, e : View(a) \/ ResolveBegin(a, t, S) \/ RestoreLost(a, p, e) => Same
    BY DEF View, ResolveBegin, RestoreLost, disks
  <2>3. \A S, p, c, l : SyncBegin(S) \/ UploadBegin(p, c, l) \/ Gc => Same
    BY DEF SyncBegin, UploadBegin, Gc, disks
  <2>4. \A i, f : Restore(i, f) \/ RestorePoint(i) \/ DiscardAfter(i) => Same
    BY DEF Restore, RestorePoint, DiscardAfter, LogMove, disks
  <2>5. \A keep : RewindTo(keep) => Same
    BY DEF RewindTo, LogMove, disks
  <2> HIDE DEF Same
  <2>6. Same
    BY <1>2, <2>1, <2>2, <2>3, <2>4, <2>5 DEF Call, Request
  <2> QED BY <2>6 DEF Same
<1>3. CASE Fault
  BY <1>3 DEF Fault, Crash, Interrupt, ApplyFails, PullFails, disks
<1>4. CASE Edit
  BY <1>4 DEF Edit, EditShared, EditSandbox
<1>5. CASE UNCHANGED vars
  BY <1>5 DEF vars
<1> QED BY <1>1, <1>2, <1>3, <1>4, <1>5 DEF Next

(* A commit about to be prepared replaces only what it has compared.       *)
LEMMA MakeUntouched ==
  ASSUME pending.kind = "none", UNCHANGED <<work, commits, head, pending>>,
         NEW a, NEW l, NEW C, NEW t, op' = Making(a, l, C, t),
         External /\ a # User => \A p \in C : work[p] \in {HeadTree[p], t[p]}
  PROVE  UntouchedInv'
<1>1. op'.kind = "make" /\ op'.author = a /\ op'.changes = C /\ op'.tree = t
  BY DEF Making
<1>2. HeadTree' = HeadTree  BY TreeFrame
<1> QED BY <1>1, <1>2 DEF UntouchedInv

(* Every step keeps it.                                                    *)
LEMMA StepUntouched ==
  ASSUME EditsMidOp = FALSE, MaxFaults = 0, "force" \notin Requests,
         TypeOK, TypeOK', PendingInv, OperationInv, UntouchedInv, [Next]_vars
  PROVE  UntouchedInv'
<1>op. /\ op.kind = "pull" => op \in PullOp
       /\ op.kind = "make" => op \in MakeOp
       /\ op.kind = "apply" => op \in ApplyOp
       /\ op.kind = "resolve" => op \in ResolveOp
       /\ op.kind = "idle" => op = Idle
       /\ op.kind = "ready" => op = Ready
  BY OpShapes DEF TypeOK
<1>ty. /\ work \in Tree /\ HeadTree \in Tree /\ TargetTree \in Tree /\ pending \in Pending
       /\ \A i \in Heads : TreeOf(i) \in Tree
  BY TreeShapes DEF TypeOK
<1>no. faults = 0  BY DEF TypeOK
\* Steps without a record, to an operation that replaces nothing shared.
<1>1. ASSUME pending'.kind = "none", op'.kind \notin {"make", "apply"} PROVE UntouchedInv'
  BY <1>1 DEF UntouchedInv
<1>2. ASSUME UNCHANGED pending, op'.kind \notin {"make", "apply"}, op.kind # "apply"
      PROVE  UntouchedInv'
  BY <1>1, <1>2 DEF UntouchedInv
<1>3. CASE Enter
  BY <1>2, <1>3 DEF Enter, store, Idle, Ready, UntouchedInv
<1>4. CASE Leave  BY <1>2, <1>4 DEF Leave, store, Idle, Ready
<1>5. CASE PullEnd \/ ResolveEnd \/ Gc
  BY <1>2, <1>5 DEF PullEnd, ResolveEnd, Gc, Idle, Ready
<1>6. ASSUME NEW p \in Paths, PullDecide(p) \/ PullCopy(p) PROVE UntouchedInv'
  <2>1. op \in PullOp /\ UNCHANGED pending
    BY <1>6, <1>op DEF PullDecide, PullCopy, store
  <2>2. op'.kind = "pull" /\ op.kind = "pull"  BY <2>1, <1>6 DEF PullDecide, PullCopy, PullOp
  <2> QED BY <2>1, <2>2, <1>2
<1>7. ASSUME NEW p \in Paths, ResolveBackup(p) \/ ResolveApply(p) PROVE UntouchedInv'
  <2>1. op \in ResolveOp /\ UNCHANGED pending
    BY <1>7, <1>op DEF ResolveBackup, ResolveApply, store
  <2>2. op'.kind = "resolve" /\ op.kind = "resolve"
    BY <2>1, <1>7 DEF ResolveBackup, ResolveApply, ResolveOp
  <2> QED BY <2>1, <2>2, <1>2
<1>8. ASSUME NEW a, NEW t, NEW S, NEW p, NEW e,
             PullBegin(a, S) \/ View(a) \/ ResolveBegin(a, t, S) \/ RestoreLost(a, p, e)
             \/ IngestChanged(p) \/ ResolveChanged(p)
      PROVE  UntouchedInv'
  BY <1>2, <1>8 DEF PullBegin, View, ResolveBegin, RestoreLost, IngestChanged, IngestTurn,
     ResolveChanged, store, Idle, Ready
\* Preparing a commit.
<1>9. ASSUME NEW a \in Agents, NEW S \in SUBSET Paths, NEW D \in SUBSET Paths, NEW l \in Lines,
             CommitBegin(a, S, D, l)
      PROVE  UntouchedInv'
  <2> DEFINE local == [p \in Paths |-> IF p \in S THEN sandbox[a][p] ELSE NoFile]
             changes == {p \in S \cup D : PlanChange(index[a][p], HeadTree[p], local[p])}
             t == Patched(HeadTree, changes, local)
  <2>1. /\ op = Ready /\ op' = Making(a, l, changes, t) /\ UNCHANGED <<work, commits, head, pending>>
        /\ External => \A p \in S \cup D : Untouched(p, local[p])
    BY <1>9 DEF CommitBegin, disks, store
  <2>2. \A p \in changes : t[p] = local[p]  BY DEF Patched
  <2>3. External => \A p \in changes : work[p] \in {HeadTree[p], t[p]}
    BY <2>1, <2>2 DEF Untouched
  <2>4. pending.kind = "none"  BY <2>1 DEF OperationInv, Ready
  <2> HIDE DEF local, changes, t
  <2> QED BY <2>1, <2>3, <2>4, MakeUntouched
<1>10. ASSUME NEW S \in NonEmpty, SyncBegin(S) PROVE UntouchedInv'
  <2> DEFINE changes == {p \in S : work[p] # HeadTree[p]}
             t == Patched(HeadTree, changes, work)
  <2>1. op = Ready /\ op' = Making(Outside, 0, changes, t) /\ UNCHANGED <<work, commits, head, pending>>
    BY <1>10 DEF SyncBegin, disks, store
  <2>2. \A p \in changes : t[p] = work[p]  BY DEF Patched, NonEmpty
  <2>3. pending.kind = "none"  BY <2>1 DEF OperationInv, Ready
  <2> HIDE DEF changes, t
  <2> QED BY <2>1, <2>2, <2>3, MakeUntouched
<1>11. ASSUME NEW p \in Paths, NEW c \in Contents, NEW l \in Lines, UploadBegin(p, c, l)
       PROVE  UntouchedInv'
  <2>1. op = Ready /\ op' = Making(User, l, {p}, [HeadTree EXCEPT ![p] = c])
        /\ UNCHANGED <<work, commits, head, pending>>
    BY <1>11 DEF UploadBegin, disks, store
  <2>2. pending.kind = "none"  BY <2>1 DEF OperationInv, Ready
  <2> DEFINE t == [HeadTree EXCEPT ![p] = c]
  <2>3. op' = Making(User, l, {p}, t)  BY <2>1
  <2> HIDE DEF t
  <2> QED BY <2>1, <2>2, <2>3, MakeUntouched
<1>12. ASSUME op \in MakeOp, op'.kind = "make", op'.author = op.author, op'.changes = op.changes,
              op'.tree = op.tree, UNCHANGED <<work, commits, head, pending>>
       PROVE  UntouchedInv'
  <2>1. op.kind = "make" /\ HeadTree' = HeadTree  BY <1>12, TreeFrame DEF MakeOp
  <2> QED BY <2>1, <1>12 DEF UntouchedInv
<1>13. ASSUME NEW p \in Paths, Ingest(p) PROVE UntouchedInv'
  <2>1. op \in MakeOp /\ op' = [op EXCEPT !.ingest = @ \ {p}] /\ UNCHANGED <<work, commits, head, pending>>
    BY <1>13, <1>op DEF Ingest, IngestTurn, disks
  <2>2. op'.kind = "make" /\ op'.author = op.author /\ op'.changes = op.changes /\ op'.tree = op.tree
    BY <2>1 DEF MakeOp
  <2> QED BY <2>1, <2>2, <1>12
<1>14. CASE ReserveId
  <2>1. op \in MakeOp /\ UNCHANGED <<work, commits, head, pending>>
    BY <1>14, <1>op DEF ReserveId, disks
  <2>2. PICK n \in Ids : op' = [op EXCEPT !.id = n]  BY <1>14 DEF ReserveId
  <2>3. op'.kind = "make" /\ op'.author = op.author /\ op'.changes = op.changes /\ op'.tree = op.tree
    BY <2>1, <2>2 DEF MakeOp
  <2> QED BY <2>1, <2>3, <1>12
\* Opening a transaction.
<1>15. CASE LogCommit
  <2>1. op \in MakeOp /\ op.kind = "make"  BY <1>15, <1>op DEF LogCommit
  <2>2. /\ UNCHANGED <<work, commits, head>> /\ pending'.kind = "commit"
        /\ pending'.rec.tree = op.tree /\ pending'.rec.changes = op.changes
        /\ pending'.rec.author = op.author
    BY <1>15 DEF LogCommit, disks
  <2>3. op' = Applying(pending', 1, Idle)  BY <1>15 DEF LogCommit
  <2>4. op'.kind = "apply" /\ op'.files = op.changes
    BY <2>2, <2>3 DEF Applying, FilesToMove
  <2>5. HeadTree' = HeadTree /\ TargetTree' = op.tree  BY <2>2, TreeFrame DEF TargetTree
  <2> QED BY <2>1, <2>2, <2>4, <2>5 DEF UntouchedInv
<1>16. ASSUME NEW k \in {"restore", "discard"}, NEW i \in Heads, LogMove(k, i, FALSE)
       PROVE  UntouchedInv'
  <2>1. /\ pending' = MoveHead(k, i) /\ op' = Applying(pending', 1, Idle)
        /\ UNCHANGED <<work, commits, head>>
        /\ External => \A p \in Paths : ~MoveConflict(p, TreeOf(i))
    BY <1>16 DEF LogMove, disks
  <2>2. pending'.kind = k /\ pending'.target = i  BY <2>1, MoveShape
  <2>3. HeadTree' = HeadTree /\ TargetTree' = TreeOf(i)
    BY <2>1, <2>2, TreeFrame DEF TargetTree, TreeOf
  <2>4. op'.kind = "apply"
        /\ op'.files = {p \in Paths : TreeOf(i)[p] # NoFile \/ HeadTree[p] # NoFile}
    BY <2>1, <2>2, <2>3 DEF Applying, FilesToMove, TreeOf, HeadTree
  <2>5. External => \A p \in op'.files : work[p] \in {HeadTree[p], TreeOf(i)[p]}
    BY <2>1, <2>4 DEF MoveConflict
  <2> QED BY <2>1, <2>3, <2>4, <2>5 DEF UntouchedInv
\* Applying it.
<1>17. ASSUME op.kind = "apply", op'.kind = "apply", op'.files \subseteq op.files, UNCHANGED <<commits, head, pending>>,
              \A p \in op'.files : work'[p] = work[p]
       PROVE  UntouchedInv'
  <2>1. HeadTree' = HeadTree /\ TargetTree' = TargetTree  BY <1>17, TreeFrame
  <2> QED BY <2>1, <1>17 DEF UntouchedInv
<1>18. ASSUME op'.kind = "apply", op'.files = {} PROVE UntouchedInv'
  BY <1>18 DEF UntouchedInv
<1>19. ASSUME NEW p \in Paths, WriteFile(p) PROVE UntouchedInv'
  <2>1. op \in ApplyOp /\ op.kind = "apply" /\ op' = [op EXCEPT !.files = @ \ {p}]
        /\ UNCHANGED <<commits, head, pending>>
    BY <1>19, <1>op DEF WriteFile, ApplyStage, store
  <2>2. op'.kind = "apply" /\ op'.files = op.files \ {p} /\ op.files \subseteq Paths
    BY <2>1 DEF ApplyOp
  <2>3. \A q \in Paths \ {p} : work'[q] = work[q]  BY <1>19, <1>ty DEF WriteFile, Tree
  <2> QED BY <2>1, <2>2, <2>3, <1>17
<1>20. CASE WriteCommit \/ SetHead \/ WriteIndex
  <2>1. op \in ApplyOp /\ op.kind = "apply"
    BY <1>20, <1>op DEF WriteCommit, SetHead, WriteIndex, ApplyStage
  <2>2. CASE WriteCommit \/ SetHead
    <3>1. op'.kind = "apply" /\ op'.files = {}
      BY <2>1, <2>2 DEF WriteCommit, SetHead, ApplyOp
    <3> QED BY <3>1, <1>18
  <2>3. CASE WriteIndex
    <3>1. op'.kind = "apply" /\ op'.files = op.files /\ UNCHANGED <<work, commits, head, pending>>
      BY <2>1, <2>3 DEF WriteIndex, ApplyOp, disks
    <3> QED BY <3>1, <2>1, <1>17
  <2> QED BY <2>2, <2>3, <1>20
<1>21. ASSUME NEW i \in Ids, DropCommit(i) PROVE UntouchedInv'
  <2>1. op.kind = "apply" /\ op.stage = "headed" /\ pending.kind = "discard"
    BY <1>21 DEF DropCommit, ApplyStage, Dropped
  <2>2. head = pending.target /\ i # pending.target
    BY <2>1, <1>21, SelfAncestor DEF DropCommit, Dropped, OperationInv
  <2>3. /\ \A j \in Ids \ {i} : commits'[j] = commits[j]
        /\ UNCHANGED <<work, head, pending, op>>
    BY <1>21 DEF DropCommit, disks, TypeOK
  <2>4. HeadTree' = HeadTree /\ TargetTree' = TargetTree
    BY <2>1, <2>2, <2>3, <1>ty DEF HeadTree, TargetTree, TreeOf, Heads, Ids, Pending
  <2> QED BY <2>1, <2>3, <2>4 DEF UntouchedInv
<1>22. CASE ClearPending
  <2>1. op' \in {Idle, Ready} /\ pending'.kind = "none"
    BY <1>22, <1>op DEF ClearPending, ApplyOp, NoPending
  <2> QED BY <2>1, <1>1 DEF Idle, Ready
\* Around it.
<1>23. CASE Fault  BY <1>23, <1>no DEF Fault, Crash, Interrupt, TearFile, ApplyFails, PullFails
<1>24. CASE Edit
  <2>1. op = Idle /\ op' = op /\ UNCHANGED pending
    BY <1>24 DEF Edit, EditShared, EditSandbox, store
  <2> QED BY <2>1, <1>2 DEF Idle
<1>25. CASE UNCHANGED vars
  <2>1. UNCHANGED <<op, work, commits, head, pending>>  BY <1>25 DEF vars
  <2>2. HeadTree' = HeadTree /\ TargetTree' = TargetTree  BY <2>1, TreeFrame
  <2> QED BY <2>1, <2>2 DEF UntouchedInv
<1>26. CASE Proceed
  BY <1>26, <1>3, <1>4, <1>5, <1>6, <1>7, <1>8, <1>13, <1>14, <1>15, <1>19, <1>20, <1>21, <1>22
     DEF Proceed
<1>27. CASE Call
  <2>1. \A i \in Heads : RestorePoint(i) \/ DiscardAfter(i) => UntouchedInv'
    BY <1>16 DEF RestorePoint, DiscardAfter
  <2>2. \A i \in Ids : Restore(i, FALSE) => UntouchedInv'
    <3>1. \A i \in Ids : i \in Heads  BY DEF Ids, Heads
    <3> QED BY <3>1, <1>16 DEF Restore
  <2>3. \A keep : RewindTo(keep) => UntouchedInv'
    BY <1>16 DEF RewindTo
  <2> QED BY <1>27, <2>1, <2>2, <2>3, <1>5, <1>8, <1>9, <1>10, <1>11 DEF Call, Request
<1> QED BY <1>23, <1>24, <1>25, <1>26, <1>27 DEF Next

(* What it says of a write to the shared files.                            *)
LEMMA StepKept ==
  ASSUME EditsMidOp = FALSE, TypeOK, UntouchedInv, [Next]_vars
  PROVE  EditKept
<1> SUFFICES ASSUME External, op.kind = "apply", NEW p \in Paths, work'[p] # work[p],
                    pending.rec.author # User
             PROVE  work[p] \in {HeadTree[p], TargetTree[p]}
  BY DEF EditKept
<1>1. ASSUME NEW q \in Paths, WriteFile(q) PROVE work[p] \in {HeadTree[p], TargetTree[p]}
  <2>1. p = q /\ q \in op.files  BY <1>1 DEF WriteFile, Tree, TypeOK
  <2> QED BY <2>1 DEF UntouchedInv
<1>2. ASSUME NEW q, NEW c, TearFile(q, c) PROVE FALSE
  BY <1>2 DEF TearFile
<1>3. op # Idle  BY DEF Idle
<1> QED BY <1>1, <1>2, <1>3, WorkSteps

(* Of an external directory only versions that head recorded are replaced  *)
(* or removed (the user's own upload apart): as long as no operation is    *)
(* interrupted, nobody edits during one and no rollback is forced.         *)
THEOREM ExternalEditsAlwaysKept ==
  ASSUME EditsMidOp = FALSE, MaxFaults = 0, "force" \notin Requests
  PROVE  Spec => ExternalEditsKept
<1>1. Init => UntouchedInv  BY DEF Init, UntouchedInv, Idle, NoPending
<1>2. TypeOK /\ TypeOK' /\ PendingInv /\ OperationInv /\ UntouchedInv /\ [Next]_vars
        => UntouchedInv' /\ EditKept
  BY StepUntouched, StepKept
<1>3. ExternalEditsKept <=> [][EditKept]_vars  BY DEF ExternalEditsKept
<1> QED BY <1>1, <1>2, <1>3, TypeCorrect, StoreCorrect, PTL DEF Spec

-----------------------------------------------------------------------------
(* Commit numbers: what an agent has looked at is older than any commit    *)
(* that is still to be written.                                            *)
NumberInv ==
  /\ \A i \in Existing : i < nextId
  /\ \A a \in Agents : viewed[a] < nextId
  /\ op.kind = "make" =>
       op.id < nextId /\ (op.id # 0 => \A a \in Agents : viewed[a] < op.id)
  /\ pending.kind = "commit" =>
       pending.target < nextId /\ \A a \in Agents : viewed[a] < pending.target

(* The steps that touch a number.                                          *)
LEMMA NumberSteps ==
  ASSUME [Next]_vars
  PROVE  \/ UNCHANGED <<commits, nextId, viewed, pending>>
         \/ PullEnd
         \/ \E a \in Agents : View(a)
         \/ ReserveId
         \/ LogCommit
         \/ \E k \in {"restore", "discard"}, i \in Heads, f \in BOOLEAN : LogMove(k, i, f)
         \/ WriteCommit
         \/ \E i \in Ids : DropCommit(i)
         \/ ClearPending
<1> DEFINE Same == UNCHANGED <<commits, nextId, viewed, pending>>
<1>1. CASE Proceed
  <2>1. Enter \/ Leave \/ ResolveEnd \/ SetHead \/ WriteIndex => Same
    BY DEF Enter, Leave, ResolveEnd, SetHead, WriteIndex, store
  <2>2. \A p : PullDecide(p) \/ PullCopy(p) \/ Ingest(p) \/ IngestChanged(p) \/ WriteFile(p)
               \/ ResolveBackup(p) \/ ResolveChanged(p) \/ ResolveApply(p) => Same
    BY DEF PullDecide, PullCopy, Ingest, IngestChanged, WriteFile, ResolveBackup, ResolveChanged,
       ResolveApply, store
  <2> HIDE DEF Same
  <2>3. Same \/ PullEnd \/ ReserveId \/ LogCommit \/ WriteCommit \/ ClearPending
        \/ \E i \in Ids : DropCommit(i)
    BY <1>1, <2>1, <2>2 DEF Proceed
  <2> QED BY <2>3 DEF Same
<1>2. CASE Call
  <2> DEFINE Move == \E k \in {"restore", "discard"}, i \in Heads, f \in BOOLEAN : LogMove(k, i, f)
  <2>1. \A a, S, D, l : PullBegin(a, S) \/ CommitBegin(a, S, D, l) => Same
    BY DEF PullBegin, CommitBegin, store
  <2>2. \A a, t, S, p, e : ResolveBegin(a, t, S) \/ RestoreLost(a, p, e) => Same
    BY DEF ResolveBegin, RestoreLost, store
  <2>3. \A S, p, c, l : SyncBegin(S) \/ UploadBegin(p, c, l) \/ Gc => Same
    BY DEF SyncBegin, UploadBegin, Gc, store
  <2>4. \A i \in Ids, f \in BOOLEAN : Restore(i, f) => Move
    BY DEF Restore, Ids, Heads
  <2>5. \A i \in Heads : RestorePoint(i) \/ DiscardAfter(i) => Move
    BY DEF RestorePoint, DiscardAfter
  <2>6. \A keep : RewindTo(keep) => Move
    BY DEF RewindTo
  <2> HIDE DEF Same, Move
  <2>7. Same \/ Move \/ \E a \in Agents : View(a)
    BY <1>2, <2>1, <2>2, <2>3, <2>4, <2>5, <2>6 DEF Call, Request
  <2> QED BY <2>7 DEF Same, Move
<1>3. CASE Fault
  BY <1>3 DEF Fault, Crash, Interrupt, TearFile, ApplyFails, PullFails, store
<1>4. CASE Edit
  BY <1>4 DEF Edit, EditShared, EditSandbox, store
<1>5. CASE UNCHANGED vars
  BY <1>5 DEF vars
<1> QED BY <1>1, <1>2, <1>3, <1>4, <1>5 DEF Next

(* A commit being prepared gets its number once.                           *)
LEMMA MakeSteps ==
  ASSUME TypeOK, [Next]_vars, op'.kind = "make"
  PROVE  \/ op'.id = 0
         \/ ReserveId
         \/ op.kind = "make" /\ op'.id = op.id
<1>op. /\ op.kind = "pull" => op \in PullOp
       /\ op.kind = "make" => op \in MakeOp
       /\ op.kind = "resolve" => op \in ResolveOp
  BY OpShapes DEF TypeOK
<1>1. ASSUME NEW a, NEW S, NEW D, NEW l,
             CommitBegin(a, S, D, l) \/ SyncBegin(S) \/ UploadBegin(S, D, l)
      PROVE  op'.id = 0
  BY <1>1 DEF CommitBegin, SyncBegin, UploadBegin, Making
<1>2. ASSUME NEW p \in Paths, Ingest(p) PROVE op.kind = "make" /\ op'.id = op.id
  BY <1>2, <1>op DEF Ingest, IngestTurn, MakeOp
<1>3. ASSUME NEW a, NEW S, PullBegin(a, S) PROVE FALSE
  BY <1>3 DEF PullBegin
<1>4. ASSUME NEW p \in Paths, PullDecide(p) \/ PullCopy(p) PROVE FALSE
  <2>1. op \in PullOp  BY <1>4, <1>op DEF PullDecide, PullCopy
  <2>2. op'.kind = "pull"  BY <2>1, <1>4 DEF PullDecide, PullCopy, PullOp
  <2> QED BY <2>2
<1>5. ASSUME NEW a, NEW S, NEW t, ResolveBegin(a, t, S) PROVE FALSE
  BY <1>5 DEF ResolveBegin
<1>6. ASSUME NEW p \in Paths, ResolveBackup(p) \/ ResolveApply(p) PROVE FALSE
  <2>1. op \in ResolveOp  BY <1>6, <1>op DEF ResolveBackup, ResolveApply
  <2>2. op'.kind = "resolve"  BY <2>1, <1>6 DEF ResolveBackup, ResolveApply, ResolveOp
  <2> QED BY <2>2
<1>7. UNCHANGED vars => UNCHANGED op  BY DEF vars
<1> QED BY <1>1, <1>2, <1>3, <1>4, <1>5, <1>6, <1>7, OpSteps

(* No number is given yet.                                                 *)
LEMMA InitNumbers == Init => NumberInv
  BY DEF Init, NumberInv, Existing, NoPending, Idle

(* Every step keeps the order of the numbers.                              *)
LEMMA StepNumbers ==
  ASSUME TypeOK, TypeOK', PendingInv, OperationInv, NumberInv, [Next]_vars
  PROVE  NumberInv'
<1>ty. /\ nextId \in Nat /\ nextId >= 1 /\ head \in Nat /\ Ids \subseteq Nat
       /\ viewed \in [Agents -> Heads] /\ commits \in [Ids -> Commit]
       /\ \A a \in Agents : viewed[a] \in Nat
  BY DEF TypeOK, Heads, Ids
<1>hd. head < nextId  BY <1>ty DEF PendingInv, NumberInv
<1>rdy. op.kind \in {"pull", "make", "ready"} => pending.kind = "none"  BY DEF OperationInv
<1>1. CASE UNCHANGED <<commits, nextId, viewed, pending>>
  <2>1. CASE op'.kind # "make"
    BY <1>1, <2>1 DEF NumberInv, Existing
  <2>2. CASE op'.kind = "make"
    <3>1. op'.id = 0 \/ ReserveId \/ (op.kind = "make" /\ op'.id = op.id)
      BY <2>2, MakeSteps
    <3>2. ~ReserveId
      BY <1>1, <1>ty DEF ReserveId, FreshId, Ids
    <3> QED BY <3>1, <3>2, <1>1, <1>ty DEF NumberInv, Existing
  <2> QED BY <2>1, <2>2
<1>2. ASSUME PullEnd \/ \E a \in Agents : View(a) PROVE NumberInv'
  <2>1. /\ pending.kind = "none" /\ UNCHANGED <<commits, nextId, pending>> /\ op' = Idle
        /\ \A a \in Agents : viewed'[a] \in {viewed[a], head}
    BY <1>2, <1>rdy, <1>ty DEF PullEnd, View, store, Ready
  <2> QED BY <2>1, <1>hd DEF NumberInv, Existing, Idle
<1>3. CASE ReserveId
  <2>1. op \in MakeOp  BY <1>3, OpShapes DEF ReserveId, TypeOK
  <2>2. PICK n \in Ids : FreshId(n) /\ op' = [op EXCEPT !.id = n] /\ nextId' = n + 1
    BY <1>3 DEF ReserveId
  <2>3. op'.kind = "make" /\ op'.id = n  BY <2>1, <2>2 DEF MakeOp
  <2>4. n \in Nat /\ n >= nextId /\ \A i \in Existing : i < n
    BY <2>2, <1>ty DEF FreshId, Existing
  <2>5. UNCHANGED <<commits, viewed, pending>> /\ pending.kind = "none"
    BY <1>3, <1>rdy DEF ReserveId
  <2> QED BY <2>2, <2>3, <2>4, <2>5, <1>ty DEF NumberInv, Existing
<1>4. CASE LogCommit
  <2>1. op.kind = "make" /\ op.id # 0  BY <1>4 DEF LogCommit, Prepared
  <2>2. /\ UNCHANGED <<commits, nextId, viewed>> /\ pending'.target = op.id
        /\ op'.kind = "apply"
    BY <1>4 DEF LogCommit, Applying
  <2> QED BY <2>1, <2>2 DEF NumberInv, Existing
<1>5. ASSUME NEW k \in {"restore", "discard"}, NEW i \in Heads, NEW f, LogMove(k, i, f)
      PROVE  NumberInv'
  <2>1. UNCHANGED <<commits, nextId, viewed>> /\ pending'.kind = k /\ op'.kind = "apply"
    BY <1>5, MoveShape DEF LogMove, Applying
  <2> QED BY <2>1 DEF NumberInv, Existing
<1>6. CASE WriteCommit
  <2>1. pending.kind = "commit" /\ UNCHANGED <<nextId, viewed, pending>>
    BY <1>6 DEF WriteCommit
  <2>2. \A i \in Ids \ {pending.target} : commits'[i] = commits[i]
    BY <1>6, <1>ty DEF WriteCommit
  <2>3. op \in ApplyOp  BY <1>6, OpShapes DEF WriteCommit, ApplyStage, TypeOK
  <2>4. op'.kind = "apply"  BY <2>3, <1>6 DEF WriteCommit, ApplyOp
  <2> QED BY <2>1, <2>2, <2>4 DEF NumberInv, Existing
<1>7. ASSUME NEW i \in Ids, DropCommit(i) PROVE NumberInv'
  <2>1. op'.kind = "apply" /\ UNCHANGED <<nextId, viewed, pending>>
    BY <1>7 DEF DropCommit, ApplyStage
  <2>2. Existing' \subseteq Existing  BY <1>7, <1>ty DEF DropCommit, Existing
  <2> QED BY <2>1, <2>2 DEF NumberInv
<1>8. CASE ClearPending
  <2>1. op \in ApplyOp  BY <1>8, OpShapes DEF ClearPending, TypeOK
  <2>2. op' \in {Idle, Ready} /\ pending'.kind = "none" /\ UNCHANGED <<commits, nextId, viewed>>
    BY <2>1, <1>8 DEF ClearPending, NoPending, ApplyOp
  <2> QED BY <2>2 DEF NumberInv, Existing, Idle, Ready
<1> QED BY <1>1, <1>2, <1>3, <1>4, <1>5, <1>6, <1>7, <1>8, NumberSteps

(* The steps that move a pull base: one write of what was collected.       *)
LEMMA IndexSteps ==
  ASSUME [Next]_vars
  PROVE  UNCHANGED index \/ PullEnd \/ PullFails \/ ResolveEnd \/ WriteIndex
<1> DEFINE Same == UNCHANGED index
<1>1. CASE Proceed
  BY <1>1 DEF Proceed, Enter, Leave, ReserveId, LogCommit, WriteCommit, SetHead, ClearPending,
     DropCommit, PullDecide, PullCopy, Ingest, IngestChanged, WriteFile, ResolveBackup,
     ResolveChanged, ResolveApply, store
<1>2. CASE Call
  <2>1. \A a, S, D, l : PullBegin(a, S) \/ CommitBegin(a, S, D, l) => Same
    BY DEF PullBegin, CommitBegin, store
  <2>2. \A a, t, S, p, e : View(a) \/ ResolveBegin(a, t, S) \/ RestoreLost(a, p, e) => Same
    BY DEF View, ResolveBegin, RestoreLost, store
  <2>3. \A S, p, c, l : SyncBegin(S) \/ UploadBegin(p, c, l) \/ Gc => Same
    BY DEF SyncBegin, UploadBegin, Gc, store
  <2>4. \A i, f : Restore(i, f) \/ RestorePoint(i) \/ DiscardAfter(i) => Same
    BY DEF Restore, RestorePoint, DiscardAfter, LogMove
  <2>5. \A keep : RewindTo(keep) => Same
    BY DEF RewindTo, LogMove
  <2> HIDE DEF Same
  <2>6. Same
    BY <1>2, <2>1, <2>2, <2>3, <2>4, <2>5 DEF Call, Request
  <2> QED BY <2>6 DEF Same
<1>3. CASE Fault
  BY <1>3 DEF Fault, Crash, Interrupt, TearFile, ApplyFails, store
<1>4. CASE Edit
  BY <1>4 DEF Edit, EditShared, EditSandbox, store
<1>5. CASE UNCHANGED vars
  BY <1>5 DEF vars
<1> QED BY <1>1, <1>2, <1>3, <1>4, <1>5 DEF Next

-----------------------------------------------------------------------------
(* What the record, the bases and the numbers must be for a step to be a   *)
(* step of SharedLine.                                                     *)
MapInv ==
  /\ pending.kind = "none" => pending = NoPending
  /\ op.kind \in {"pull", "resolve"} =>
       \A p \in Paths : op.base[p] \in {index[op.agent][p], HeadTree[p]}
  /\ op.kind = "make" /\ op.author \in Agents =>
       \A p \in op.changes : index[op.author][p] = HeadTree[p]
  /\ op.kind = "make" /\ op.id # 0 => nextId = op.id + 1
  /\ ApplyStage("indexed") => OwnsBase /\ index[pending.rec.author] = pending.base

(* A pull, a resolution and a commit being prepared leave the line and the *)
(* bases alone until they end.                                             *)
LEMMA QuietOps ==
  ASSUME TypeOK, [Next]_vars, op'.kind \in {"pull", "resolve", "make"}
  PROVE  UNCHANGED <<commits, head, pending, index>>
<1>op. op.kind = "apply" => op \in ApplyOp  BY OpShapes DEF TypeOK
<1>0. \A pd, n, then : Applying(pd, n, then).kind = "apply"  BY DEF Applying
<1>1. ~LogCommit  BY <1>0 DEF LogCommit
<1>2. \A k, i, f : ~LogMove(k, i, f)  BY <1>0 DEF LogMove
<1>3. ~PullEnd /\ ~PullFails /\ ~ResolveEnd  BY DEF PullEnd, PullFails, ResolveEnd, Idle
<1>4. ASSUME op \in ApplyOp, NEW s, op' = [op EXCEPT !.stage = s] PROVE FALSE
  BY <1>4 DEF ApplyOp
<1>5. ~WriteCommit /\ ~SetHead /\ ~WriteIndex
  BY <1>4, <1>op DEF WriteCommit, SetHead, WriteIndex, ApplyStage
<1>6. \A i \in Ids : ~DropCommit(i)  BY DEF DropCommit, ApplyStage
<1>7. ~ClearPending  BY <1>op DEF ClearPending, ApplyOp, Idle, Ready
<1>8. UNCHANGED <<commits, head, pending>>  BY <1>1, <1>2, <1>5, <1>6, <1>7, LineSteps
<1>9. UNCHANGED index  BY <1>3, <1>5, IndexSteps
<1> QED BY <1>8, <1>9

(* The base a pull or a resolution collects moves towards the line.        *)
LEMMA StepMapBase ==
  ASSUME TypeOK, MapInv, [Next]_vars, op'.kind \in {"pull", "resolve"}
  PROVE  \A p \in Paths : op'.base[p] \in {index'[op'.agent][p], HeadTree'[p]}
<1> DEFINE Goal == \A p \in Paths : op'.base[p] \in {index[op'.agent][p], HeadTree[p]}
<1>op. /\ op.kind = "pull" => op \in PullOp
       /\ op.kind = "make" => op \in MakeOp
       /\ op.kind = "resolve" => op \in ResolveOp
  BY OpShapes DEF TypeOK
<1>0. UNCHANGED <<commits, head, index>>  BY QuietOps
<1>1. ASSUME op \in PullOp \cup ResolveOp, op'.agent = op.agent, NEW p \in Paths,
             op'.base \in {op.base, [op.base EXCEPT ![p] = HeadTree[p]]}
      PROVE  Goal
  <2>1. op.kind \in {"pull", "resolve"} /\ op.base \in Tree  BY <1>1 DEF PullOp, ResolveOp
  <2> QED BY <1>1, <2>1 DEF MapInv, Tree
<1>2. ASSUME NEW p \in Paths, PullDecide(p) PROVE Goal
  <2>1. op \in PullOp  BY <1>2, <1>op DEF PullDecide
  <2>2. \/ op' = [op EXCEPT !.copying = {p}]
        \/ op' = [op EXCEPT !.want = @ \ {p}]
        \/ op' = [op EXCEPT !.want = @ \ {p}, !.base[p] = HeadTree[p]]
    BY <1>2, Zenon DEF PullDecide
  <2>3. op'.agent = op.agent /\ op'.base \in {op.base, [op.base EXCEPT ![p] = HeadTree[p]]}
    BY <2>1, <2>2 DEF PullOp
  <2> QED BY <2>1, <2>3, <1>1
<1>3. ASSUME NEW p \in Paths, PullCopy(p) PROVE Goal
  <2>1. op \in PullOp  BY <1>3, <1>op DEF PullCopy
  <2>2. op'.agent = op.agent /\ op'.base = [op.base EXCEPT ![p] = HeadTree[p]]
    BY <2>1, <1>3 DEF PullCopy, PullOp
  <2> QED BY <2>1, <2>2, <1>1
<1>4. ASSUME NEW p \in Paths, ResolveBackup(p) PROVE Goal
  <2>1. op \in ResolveOp  BY <1>4, <1>op DEF ResolveBackup
  <2>2. op'.agent = op.agent /\ op'.base = op.base  BY <2>1, <1>4 DEF ResolveBackup, ResolveOp
  <2> QED BY <2>1, <2>2, <1>1
<1>5. ASSUME NEW p \in Paths, ResolveApply(p) PROVE Goal
  <2>1. op \in ResolveOp  BY <1>5, <1>op DEF ResolveApply
  <2>2. op'.agent = op.agent /\ op'.base = [op.base EXCEPT ![p] = HeadTree[p]]
    BY <2>1, <1>5 DEF ResolveApply, ResolveOp
  <2> QED BY <2>1, <2>2, <1>1
<1>6. ASSUME NEW a, NEW S, NEW t, PullBegin(a, S) \/ ResolveBegin(a, t, S) PROVE Goal
  BY <1>6 DEF PullBegin, ResolveBegin
<1>7. ASSUME NEW a, NEW S, NEW D, NEW l,
             CommitBegin(a, S, D, l) \/ SyncBegin(S) \/ UploadBegin(S, D, l)
      PROVE  FALSE
  BY <1>7 DEF CommitBegin, SyncBegin, UploadBegin, Making
<1>8. ASSUME NEW p \in Paths, Ingest(p) PROVE FALSE
  <2>1. op \in MakeOp  BY <1>8, <1>op DEF Ingest, IngestTurn
  <2>2. op'.kind = "make"  BY <2>1, <1>8 DEF Ingest, MakeOp
  <2> QED BY <2>2
<1>9. ~ReserveId
  <2> SUFFICES ASSUME ReserveId PROVE FALSE  OBVIOUS
  <2>1. op \in MakeOp  BY <1>op DEF ReserveId
  <2>2. op'.kind = "make"  BY <2>1 DEF ReserveId, MakeOp
  <2> QED BY <2>2
<1>10. UNCHANGED op => Goal  BY DEF MapInv
<1>11. UNCHANGED vars => UNCHANGED op  BY DEF vars
<1> HIDE DEF Goal
<1>12. Goal
  BY <1>2, <1>3, <1>4, <1>5, <1>6, <1>7, <1>8, <1>9, <1>10, <1>11, OpSteps
<1>13. HeadTree' = HeadTree  BY <1>0, TreeFrame
<1> QED BY <1>0, <1>12, <1>13 DEF Goal

(* An agent commits only over versions that are its base.                  *)
LEMMA StepMapMake ==
  ASSUME TypeOK, MapInv, [Next]_vars, op'.kind = "make", op'.author \in Agents
  PROVE  \A p \in op'.changes : index'[op'.author][p] = HeadTree'[p]
<1> DEFINE Goal == \A p \in op'.changes : index[op'.author][p] = HeadTree[p]
<1>op. /\ op.kind = "pull" => op \in PullOp
       /\ op.kind = "make" => op \in MakeOp
       /\ op.kind = "resolve" => op \in ResolveOp
  BY OpShapes DEF TypeOK
<1>0. UNCHANGED <<commits, head, index>>  BY QuietOps
<1>1. ASSUME op \in MakeOp, op'.author = op.author, op'.changes = op.changes PROVE Goal
  BY <1>1 DEF MapInv, MakeOp
<1>2. ASSUME NEW p \in Paths, Ingest(p) PROVE Goal
  <2>1. op \in MakeOp  BY <1>2, <1>op DEF Ingest, IngestTurn
  <2>2. op'.author = op.author /\ op'.changes = op.changes  BY <2>1, <1>2 DEF Ingest, MakeOp
  <2> QED BY <2>1, <2>2, <1>1
<1>3. ASSUME ReserveId PROVE Goal
  <2>1. op \in MakeOp  BY <1>3, <1>op DEF ReserveId
  <2>2. PICK n \in Ids : op' = [op EXCEPT !.id = n]  BY <1>3 DEF ReserveId
  <2>3. op'.author = op.author /\ op'.changes = op.changes  BY <2>1, <2>2 DEF MakeOp
  <2> QED BY <2>1, <2>3, <1>1
<1>4. ASSUME NEW a \in Agents, NEW S, NEW D, NEW l, CommitBegin(a, S, D, l) PROVE Goal
  <2> DEFINE local == [p \in Paths |-> IF p \in S THEN sandbox[a][p] ELSE NoFile]
             changes == {p \in S \cup D : PlanChange(index[a][p], HeadTree[p], local[p])}
  <2>1. op' = Making(a, l, changes, Patched(HeadTree, changes, local))
    BY <1>4 DEF CommitBegin
  <2>2. \A p \in changes : index[a][p] = HeadTree[p]  BY DEF PlanChange
  <2> HIDE DEF local, changes
  <2>3. op'.author = a /\ op'.changes = changes  BY <2>1 DEF Making
  <2> QED BY <2>2, <2>3
<1>5. ASSUME NEW a, NEW S, NEW l, SyncBegin(S) \/ UploadBegin(a, S, l) PROVE FALSE
  BY <1>5, WorkStoreAssumption DEF SyncBegin, UploadBegin, Making
<1>6. ASSUME NEW a, NEW S, NEW t, PullBegin(a, S) \/ ResolveBegin(a, t, S) PROVE FALSE
  BY <1>6 DEF PullBegin, ResolveBegin
<1>7. ASSUME NEW p \in Paths, PullDecide(p) \/ PullCopy(p) \/ ResolveBackup(p) \/ ResolveApply(p)
      PROVE  FALSE
  <2>1. op \in PullOp \cup ResolveOp
    BY <1>7, <1>op DEF PullDecide, PullCopy, ResolveBackup, ResolveApply
  <2>2. op'.kind = op.kind
    BY <2>1, <1>7 DEF PullDecide, PullCopy, ResolveBackup, ResolveApply, PullOp, ResolveOp
  <2> QED BY <2>1, <2>2 DEF PullOp, ResolveOp
<1>8. UNCHANGED op => Goal  BY DEF MapInv
<1>9. UNCHANGED vars => UNCHANGED op  BY DEF vars
<1> HIDE DEF Goal
<1>10. Goal  BY <1>2, <1>3, <1>4, <1>5, <1>6, <1>7, <1>8, <1>9, OpSteps
<1>11. HeadTree' = HeadTree  BY <1>0, TreeFrame
<1> QED BY <1>0, <1>10, <1>11 DEF Goal

(* A number is reserved once, and is the last one given.                   *)
LEMMA StepMapNumber ==
  ASSUME TypeOK, MapInv, [Next]_vars, op'.kind = "make", op'.id # 0
  PROVE  nextId' = op'.id + 1
<1>1. CASE ReserveId
  <2>1. op \in MakeOp  BY <1>1, OpShapes DEF ReserveId, TypeOK
  <2>2. PICK n \in Ids : op' = [op EXCEPT !.id = n] /\ nextId' = n + 1  BY <1>1 DEF ReserveId
  <2> QED BY <2>1, <2>2 DEF MakeOp
<1>2. CASE ~ReserveId
  <2>1. op.kind = "make" /\ op'.id = op.id  BY <1>2, MakeSteps
  <2>2. \A a : View(a) => UNCHANGED nextId  BY DEF View, store
  <2>3. PullEnd \/ LogCommit \/ WriteCommit \/ ClearPending => UNCHANGED nextId
    BY DEF PullEnd, LogCommit, WriteCommit, ClearPending
  <2>4. \A k, i, f : LogMove(k, i, f) \/ DropCommit(i) => UNCHANGED nextId
    BY DEF LogMove, DropCommit
  <2>5. UNCHANGED nextId  BY <1>2, <2>2, <2>3, <2>4, NumberSteps
  <2> QED BY <2>1, <2>5 DEF MapInv
<1> QED BY <1>1, <1>2

(* An author's base is written before its commit is done.                  *)
LEMMA StepMapIndexed ==
  ASSUME TypeOK, TypeOK', MapInv, [Next]_vars, op'.kind = "apply", op'.stage = "indexed"
  PROVE  OwnsBase' /\ index'[pending'.rec.author] = pending'.base
<1>op. /\ op.kind = "pull" => op \in PullOp
       /\ op.kind = "make" => op \in MakeOp
       /\ op.kind = "apply" => op \in ApplyOp
       /\ op.kind = "resolve" => op \in ResolveOp
  BY OpShapes DEF TypeOK
<1>0. \A pd, n, then : Applying(pd, n, then).stage = "files"  BY DEF Applying
<1>1. ASSUME UNCHANGED <<op, pending, index>> PROVE OwnsBase' /\ index'[pending'.rec.author] = pending'.base
  BY <1>1 DEF MapInv, ApplyStage, OwnsBase
<1>2. CASE WriteIndex
  <2>1. OwnsBase /\ index' = [index EXCEPT ![pending.rec.author] = pending.base] /\ UNCHANGED pending
    BY <1>2 DEF WriteIndex
  <2> QED BY <2>1 DEF OwnsBase, TypeOK
<1>3. CASE Proceed /\ ~WriteIndex
  <2>1. ~Enter /\ ~Leave /\ ~PullEnd /\ ~LogCommit /\ ~ResolveEnd
    BY <1>0 DEF Enter, Leave, PullEnd, LogCommit, ResolveEnd, Idle, Ready
  <2>2. ~ReserveId
    <3> SUFFICES ASSUME ReserveId PROVE FALSE  OBVIOUS
    <3>1. op \in MakeOp  BY <1>op DEF ReserveId
    <3>2. op'.kind = "make"  BY <3>1 DEF ReserveId, MakeOp
    <3> QED BY <3>2
  <2>3. ~WriteCommit /\ ~SetHead
    BY <1>op DEF WriteCommit, SetHead, ApplyStage, ApplyOp
  <2>4. ~ClearPending  BY <1>op DEF ClearPending, ApplyOp, Idle, Ready
  <2>5. \A i : ~DropCommit(i)  BY DEF DropCommit, ApplyStage
  <2>6. \A p \in Paths : ~PullDecide(p) /\ ~PullCopy(p)
    <3> SUFFICES ASSUME NEW p \in Paths, PullDecide(p) \/ PullCopy(p) PROVE FALSE  OBVIOUS
    <3>1. op \in PullOp  BY <1>op DEF PullDecide, PullCopy
    <3>2. op'.kind = "pull"  BY <3>1 DEF PullDecide, PullCopy, PullOp
    <3> QED BY <3>2
  <2>7. \A p \in Paths : ~Ingest(p)
    <3> SUFFICES ASSUME NEW p \in Paths, Ingest(p) PROVE FALSE  OBVIOUS
    <3>1. op \in MakeOp  BY <1>op DEF Ingest, IngestTurn
    <3>2. op'.kind = "make"  BY <3>1 DEF Ingest, MakeOp
    <3> QED BY <3>2
  <2>8. \A p \in Paths : ~IngestChanged(p) /\ ~ResolveChanged(p)
    BY DEF IngestChanged, ResolveChanged, Idle
  <2>9. \A p \in Paths : ~ResolveBackup(p) /\ ~ResolveApply(p)
    <3> SUFFICES ASSUME NEW p \in Paths, ResolveBackup(p) \/ ResolveApply(p) PROVE FALSE  OBVIOUS
    <3>1. op \in ResolveOp  BY <1>op DEF ResolveBackup, ResolveApply
    <3>2. op'.kind = "resolve"  BY <3>1 DEF ResolveBackup, ResolveApply, ResolveOp
    <3> QED BY <3>2
  <2>10. \A p \in Paths : ~WriteFile(p)
    BY <1>op DEF WriteFile, ApplyStage, ApplyOp
  <2> QED BY <1>3, <2>1, <2>2, <2>3, <2>4, <2>5, <2>6, <2>7, <2>8, <2>9, <2>10 DEF Proceed
<1>4. CASE Call
  <2>1. \A a, S, D, l : ~PullBegin(a, S) /\ ~CommitBegin(a, S, D, l)
    BY DEF PullBegin, CommitBegin, Making
  <2>2. \A a, t, S, p, e : ~View(a) /\ ~ResolveBegin(a, t, S) /\ ~RestoreLost(a, p, e)
    BY DEF View, ResolveBegin, RestoreLost, Idle
  <2>3. \A S, p, c, l : ~SyncBegin(S) /\ ~UploadBegin(p, c, l) /\ ~Gc
    BY DEF SyncBegin, UploadBegin, Gc, Making, Idle
  <2>4. \A i, f : ~Restore(i, f) /\ ~RestorePoint(i) /\ ~DiscardAfter(i)
    BY <1>0 DEF Restore, RestorePoint, DiscardAfter, LogMove
  <2>5. \A keep : ~RewindTo(keep)
    BY <1>0 DEF RewindTo, LogMove
  <2> QED BY <1>4, <2>1, <2>2, <2>3, <2>4, <2>5 DEF Call, Request
<1>5. ~Fault
  BY <1>0 DEF Fault, Crash, Interrupt, TearFile, ApplyFails, PullFails, Idle
<1>6. CASE Edit
  BY <1>6, <1>1 DEF Edit, EditShared, EditSandbox, store
<1>7. CASE UNCHANGED vars
  BY <1>7, <1>1 DEF vars
<1> QED BY <1>2, <1>3, <1>4, <1>5, <1>6, <1>7 DEF Next

(* Every step keeps what the mapping needs.                                *)
LEMMA StepMap ==
  ASSUME TypeOK, TypeOK', MapInv, [Next]_vars
  PROVE  MapInv'
<1>1. pending'.kind = "none" => pending' = NoPending
  <2>1. LogCommit => pending'.kind = "commit"  BY DEF LogCommit
  <2>2. \A k, i, f : LogMove(k, i, f) => pending'.kind = k  BY MoveShape DEF LogMove, MoveHead, NoPending
  <2>3. ClearPending => pending' = NoPending  BY DEF ClearPending
  <2>4. WriteCommit \/ SetHead => UNCHANGED pending  BY DEF WriteCommit, SetHead
  <2>5. \A i : DropCommit(i) => UNCHANGED pending  BY DEF DropCommit
  <2> QED BY <2>1, <2>2, <2>3, <2>4, <2>5, LineSteps DEF MapInv
<1>2. op'.kind \in {"pull", "resolve"} =>
        \A p \in Paths : op'.base[p] \in {index'[op'.agent][p], HeadTree'[p]}
  BY StepMapBase
<1>3. op'.kind = "make" /\ op'.author \in Agents =>
        \A p \in op'.changes : index'[op'.author][p] = HeadTree'[p]
  BY StepMapMake
<1>4. op'.kind = "make" /\ op'.id # 0 => nextId' = op'.id + 1
  BY StepMapNumber
<1>5. ApplyStage("indexed")' => OwnsBase' /\ index'[pending'.rec.author] = pending'.base
  BY StepMapIndexed DEF ApplyStage
<1> QED BY <1>1, <1>2, <1>3, <1>4, <1>5 DEF MapInv

-----------------------------------------------------------------------------
(* What a step does to the line the callers see.                           *)

(* What the mapping reads.                                                 *)
LEMMA FrameShared ==
  ASSUME TypeOK, MapInv, [Next]_vars, UNCHANGED <<commits, head, pending, index>>
  PROVE  UNCHANGED <<SharedArea, SharedAt, SharedHistory, SharedBase>>
<1>1. UNCHANGED <<SharedAt, SharedBase>>  BY DEF SharedAt, SharedBase, OwnsBase
<1>2. SharedHistory' = SharedHistory  BY DEF SharedHistory, Kept, Ancestors
<1>3. SharedArea' = SharedArea
  <2>1. HeadTree' = HeadTree /\ TargetTree' = TargetTree  BY TreeFrame
  <2>2. CASE pending # NoPending  BY <2>1, <2>2 DEF SharedArea
  <2>3. CASE External /\ pending = NoPending  BY <2>1, <2>3 DEF SharedArea
  <2>4. CASE ~External /\ pending = NoPending
    <3>1. op.kind # "apply"  BY <2>4 DEF TypeOK, NoPending
    <3>2. UNCHANGED work
      BY <2>4, <3>1, WorkSteps DEF WriteFile, TearFile, ApplyStage, EditShared
    <3> QED BY <2>4, <3>2 DEF SharedArea
  <2> QED BY <2>2, <2>3, <2>4
<1> QED BY <1>1, <1>2, <1>3

(* The next number moves when one is given back or skipped.                *)
LEMMA FreshSteps ==
  ASSUME TypeOK, MapInv, [Next]_vars
  PROVE  \/ SharedFresh' = SharedFresh
         \/ op.kind = "make" /\ \E i \in Ids : i >= SharedFresh /\ SharedFresh' = i + 1
<1>ty. nextId \in Nat /\ nextId >= 1 /\ Ids \subseteq Nat /\ \A i \in Ids : i >= 1 /\ i <= MaxId
  BY WorkStoreAssumption DEF TypeOK, Ids
<1>mk. op.kind = "make" => op \in MakeOp  BY OpShapes DEF TypeOK
<1>id. op.kind = "make" => op.id \in Heads /\ (op.id # 0 => op.id \in Ids)
  BY <1>mk, WorkStoreAssumption DEF MakeOp, Heads, Ids
<1>1. CASE ReserveId
  <2>1. op.kind = "make" /\ op.id = 0 /\ op \in MakeOp  BY <1>1, <1>mk DEF ReserveId
  <2>2. PICK n \in Ids : n >= nextId /\ op' = [op EXCEPT !.id = n]  BY <1>1 DEF ReserveId, FreshId
  <2>3. op'.kind = "make" /\ op'.id = n /\ n # 0  BY <2>1, <2>2, <1>ty DEF MakeOp
  <2>4. SharedFresh = nextId /\ SharedFresh' = n  BY <2>1, <2>3 DEF SharedFresh
  <2>5. CASE n = nextId  BY <2>4, <2>5
  <2>6. CASE n # nextId
    <3>1. n - 1 \in Ids /\ n - 1 >= nextId /\ n = (n - 1) + 1
      BY <2>2, <2>6, <1>ty, WorkStoreAssumption DEF Ids
    <3> QED BY <2>1, <2>4, <3>1
  <2> QED BY <2>5, <2>6
<1>2. CASE ~ReserveId
  <2>1. \A a : View(a) => UNCHANGED nextId  BY DEF View, store
  <2>2. PullEnd \/ LogCommit \/ WriteCommit \/ ClearPending => UNCHANGED nextId
    BY DEF PullEnd, LogCommit, WriteCommit, ClearPending
  <2>3. \A k, i, f : LogMove(k, i, f) \/ DropCommit(i) => UNCHANGED nextId
    BY DEF LogMove, DropCommit
  <2>4. UNCHANGED nextId  BY <1>2, <2>1, <2>2, <2>3, NumberSteps
  <2>5. op'.kind = "make" /\ op'.id # 0 => op.kind = "make" /\ op'.id = op.id
    BY <1>2, MakeSteps
  <2>6. CASE op.kind = "make" /\ op.id # 0
    <3>1. nextId = op.id + 1 /\ SharedFresh = op.id  BY <2>6 DEF MapInv, SharedFresh
    <3>2. SharedFresh' \in {op.id, nextId}  BY <2>4, <2>5 DEF SharedFresh
    <3>3. op.id \in Ids /\ op.id >= op.id  BY <2>6, <1>id DEF Ids, Heads
    <3> QED BY <2>6, <3>1, <3>2, <3>3
  <2>7. CASE ~(op.kind = "make" /\ op.id # 0)
    BY <2>4, <2>5, <2>7 DEF SharedFresh
  <2> QED BY <2>6, <2>7
<1> QED BY <1>1, <1>2

(* A commit appears with its content and its author's base.                *)
LEMMA CommitIsExtend ==
  ASSUME TypeOK, TypeOK', PendingInv, OperationInv, MapInv, LogCommit
  PROVE  \E i \in Ids : Shared!Extend(i, SharedHistory'[i])
<1>op. op \in MakeOp /\ op.kind = "make"  BY OpShapes DEF LogCommit, TypeOK
<1> DEFINE i == op.id
           c == pending'.rec
<1>1. /\ i \in Ids /\ pending.kind = "none" /\ pending = NoPending
      /\ UNCHANGED <<commits, head, index, nextId, work>>
  BY <1>op DEF LogCommit, Prepared, MakeOp, OperationInv, MapInv, disks, Heads, Ids
<1>2. /\ pending'.kind = "commit" /\ pending'.target = i
      /\ c.parent = head /\ c.author = op.author /\ c.changes = op.changes /\ c.tree = op.tree
      /\ op.author \in Agents => pending'.base = Patched(index[op.author], op.changes, op.tree)
      /\ op'.kind = "apply"
  BY DEF LogCommit, Applying
<1>3. c \in Commit /\ commits \in [Ids -> Commit] /\ index \in [Agents -> Tree]
  BY DEF TypeOK, Pending
<1>4. SharedHistory = commits /\ SharedHistory' = [commits EXCEPT ![i] = c]
  BY <1>1, <1>2 DEF SharedHistory
<1>5. SharedHistory'[i] = c  BY <1>1, <1>3, <1>4
<1>6. SharedAt = head /\ SharedAt' = i  BY <1>1, <1>2 DEF SharedAt, NoPending
<1>7. SharedArea' = c.tree  BY <1>2 DEF SharedArea, TargetTree, NoPending
<1>8. SharedFresh = i /\ SharedFresh' = i + 1
  BY <1>op, <1>1, <1>2 DEF SharedFresh, LogCommit, Prepared, MapInv
<1>9. SharedBase = index  BY <1>1 DEF SharedBase, OwnsBase
<1>10. \A p \in Paths \ c.changes : c.tree[p] = TreeOf(head)[p]
  BY <1>op, <1>2 DEF OperationInv, HeadTree
<1>11. c.author \in Agents => \A p \in c.changes : index[c.author][p] = TreeOf(head)[p]
  BY <1>op, <1>2 DEF MapInv, HeadTree
<1>12. c.changes # {}  BY <1>op, <1>2 DEF OperationInv
<1>13. SharedBase' = IF c.author \in Agents
                     THEN [index EXCEPT ![c.author] =
                             [p \in Paths |-> IF p \in c.changes THEN c.tree[p] ELSE @[p]]]
                     ELSE index
  <2>1. CASE c.author \in Agents
    <3>1. SharedBase' = [index EXCEPT ![c.author] = Patched(index[c.author], c.changes, c.tree)]
      BY <1>1, <1>2, <2>1 DEF SharedBase, OwnsBase
    <3> QED BY <2>1, <3>1 DEF Patched
  <2>2. CASE c.author \notin Agents
    BY <1>1, <1>2, <2>2 DEF SharedBase, OwnsBase
  <2> QED BY <2>1, <2>2
<1>14. i >= SharedFresh /\ c \in Shared!Commit
  BY <1>1, <1>3, <1>8 DEF Shared!Commit, Shared!Authors, Shared!Tree, Commit, Seats, Tree, Version,
     Heads, Ids
<1>15. Shared!TreeAt(SharedAt) = TreeOf(head)
  BY <1>4, <1>6 DEF Shared!TreeAt, Shared!EmptyTree, TreeOf, EmptyTree
<1> HIDE DEF c
<1>16. Shared!Extend(i, c)
  <2>1. c.author \in Agents => \A p \in c.changes : SharedBase[c.author][p] = TreeOf(head)[p]
    BY <1>9, <1>11
  <2>2. SharedBase' = IF c.author \in Agents
                      THEN [SharedBase EXCEPT ![c.author] =
                              [p \in Paths |-> IF p \in c.changes THEN c.tree[p] ELSE @[p]]]
                      ELSE SharedBase
    BY <1>9, <1>13
  <2>3. SharedHistory' = [SharedHistory EXCEPT ![i] = c]  BY <1>4
  <2>4. c.parent = SharedAt  BY <1>2, <1>6 DEF c
  <2> QED BY <1>6, <1>7, <1>8, <1>10, <1>12, <1>14, <1>15, <2>1, <2>2, <2>3, <2>4, Zenon
     DEF Shared!Extend
<1> QED BY <1>1, <1>5, <1>16

(* Moving the head, and discarding what is not behind it.                  *)
LEMMA MoveIsMove ==
  ASSUME TypeOK, TypeOK', PendingInv, PendingInv', OperationInv, LineInv, MapInv,
         NEW k \in {"restore", "discard"}, NEW i \in Heads, NEW f \in BOOLEAN, LogMove(k, i, f)
  PROVE  \/ Shared!Move(i)
         \/ Shared!Discard(i, {j \in Ids : SharedHistory'[j] # NoCommit})
<1>1. /\ pending.kind = "none" /\ pending = NoPending
      /\ pending' = MoveHead(k, i) /\ UNCHANGED <<commits, head, index, nextId, work>>
      /\ op.kind = "ready" /\ op'.kind = "apply"
  BY DEF LogMove, OperationInv, MapInv, Ready, Applying, disks
<1>2. pending'.kind = k /\ pending'.target = i  BY <1>1 DEF MoveHead, NoPending
<1>3. i \in Existing \cup {0}
  BY <1>1, <1>2, TreeFrame DEF PendingInv
<1>4. SharedHistory = commits /\ SharedAt = head /\ SharedAt' = i
      /\ UNCHANGED SharedBase /\ UNCHANGED SharedFresh
  BY <1>1, <1>2 DEF SharedHistory, SharedAt, SharedBase, SharedFresh, OwnsBase, NoPending
<1>5. SharedArea' = TreeOf(i)
  <2>1. TargetTree' = TreeOf(i)  BY <1>1, <1>2 DEF TargetTree, TreeOf
  <2> QED BY <1>2, <2>1 DEF SharedArea, NoPending
<1>6. i \in Shared!Recorded \cup {0} /\ Shared!TreeAt(i) = TreeOf(i)
  BY <1>3, <1>4 DEF Shared!Recorded, Shared!Ids, Shared!NoCommit, Shared!TreeAt, Shared!EmptyTree,
     Existing, Ids, NoCommit, EmptyTree, TreeOf
<1>7. CASE k = "restore"
  <2>1. SharedHistory' = SharedHistory  BY <1>1, <1>2, <1>4, <1>7 DEF SharedHistory
  <2> QED BY <1>4, <1>5, <1>6, <2>1 DEF Shared!Move
<1>8. CASE k = "discard"
  <2> DEFINE C == {j \in Ids : SharedHistory'[j] # NoCommit}
             A == Ancestors(i)
  <2>1. commits \in [Ids -> Commit]  BY DEF TypeOK
  <2>2. Closed(A)  BY <2>1, AncestorsClosed
  <2>3. A \subseteq Existing
    <3>1. \A j \in Existing : commits[j].parent \in Existing \cup {0}
      BY <1>1 DEF LineInv
    <3>2. Closed(Existing)  BY <3>1 DEF Closed
    <3>3. Existing \in SUBSET Ids /\ (i # 0 => i \in Existing)  BY <1>3 DEF Existing
    <3> QED BY <3>2, <3>3, AncestorsLeast
  <2>4. SharedHistory' = [j \in Ids |-> IF j \in A THEN commits[j] ELSE NoCommit]
    BY <1>1, <1>2, <1>8 DEF SharedHistory, Kept, Ancestors
  <2>5. C = A  BY <2>3, <2>4 DEF Existing
  <2>6. i # 0 => i \in A  BY SelfAncestor DEF Heads, Ids
  <2>7. \A j \in A : j = i \/ \E m \in A : commits[m].parent = j
    <3> SUFFICES ASSUME NEW j \in A, j # i, \A m \in A : commits[m].parent # j PROVE FALSE
      OBVIOUS
    <3>1. Closed(A \ {j})  BY <2>2 DEF Closed
    <3>2. A \ {j} \in SUBSET Ids /\ (i # 0 => i \in A \ {j})  BY <2>6 DEF Ancestors
    <3>3. A \subseteq A \ {j}  BY <3>1, <3>2, AncestorsLeast
    <3> QED BY <3>3
  <2> HIDE DEF A, C
  <2>8. Shared!HistoryOf(i, A)
    BY <1>4, <2>2, <2>6, <2>7 DEF Shared!HistoryOf, Closed
  <2>9. SharedHistory' = [j \in Shared!Ids |-> IF j \in A THEN SharedHistory[j] ELSE Shared!NoCommit]
    BY <1>4, <2>4 DEF Shared!Ids, Shared!NoCommit, Shared!EmptyTree, Ids, NoCommit, EmptyTree
  <2>10. Shared!Discard(i, A)
    BY <1>4, <1>5, <1>6, <2>8, <2>9 DEF Shared!Discard
  <2> QED BY <2>5, <2>10 DEF C
<1> QED BY <1>7, <1>8

(* A base moves once, towards the line.                                    *)
LEMMA EndIsRebase ==
  ASSUME TypeOK, TypeOK', OperationInv, MapInv, PullEnd \/ PullFails \/ ResolveEnd
  PROVE  \E a \in Agents : Shared!Rebase(a)
<1>1. /\ op.kind \in {"pull", "resolve"} /\ op.agent \in Agents /\ op' = Idle
      /\ index' = [index EXCEPT ![op.agent] = op.base]
      /\ UNCHANGED <<commits, head, pending, nextId, work>>
  BY OpShapes DEF PullEnd, PullFails, ResolveEnd, PullOp, ResolveOp, TypeOK, disks
<1>2. pending = NoPending /\ pending.kind = "none"  BY <1>1 DEF OperationInv, MapInv
<1>3. SharedBase = index /\ SharedBase' = index'
  BY <1>1, <1>2 DEF SharedBase, OwnsBase
<1>4. UNCHANGED <<SharedAt, SharedHistory>> /\ SharedAt = head /\ SharedHistory = commits
  BY <1>1, <1>2 DEF SharedAt, SharedHistory
<1>5. SharedArea' = SharedArea
  BY <1>1, <1>2, TreeFrame DEF SharedArea
<1>6. SharedFresh' = SharedFresh  BY <1>1 DEF SharedFresh, Idle
<1>7. index \in [Agents -> Tree] /\ index' \in [Agents -> Tree]  BY DEF TypeOK
<1>8. Shared!TreeAt(head) = HeadTree
  BY <1>4 DEF Shared!TreeAt, Shared!EmptyTree, HeadTree, TreeOf, EmptyTree
<1>9. Shared!Tree = Tree  BY DEF Shared!Tree, Tree, Version
<1>10. \A p \in Paths : index'[op.agent][p] \in {index[op.agent][p], HeadTree[p]}
  BY <1>1, <1>7 DEF MapInv
<1>11. \A b \in Agents \ {op.agent} : index'[b] = index[b]  BY <1>1, <1>7
<1>12. Shared!Rebase(op.agent)
  BY <1>3, <1>4, <1>5, <1>6, <1>7, <1>8, <1>9, <1>10, <1>11 DEF Shared!Rebase
<1> QED BY <1>1, <1>12

(* Carrying a transaction out is not seen.                                 *)
LEMMA ApplyIsStutter ==
  ASSUME TypeOK, TypeOK', PendingInv, OperationInv, MapInv,
         WriteCommit \/ SetHead \/ WriteIndex \/ ClearPending \/ \E i \in Ids : DropCommit(i)
  PROVE  UNCHANGED <<SharedArea, SharedAt, SharedHistory, SharedBase>>
<1>op. op.kind = "apply" /\ op \in ApplyOp /\ pending.kind # "none" /\ pending # NoPending
  <2>1. op.kind = "apply"
    BY DEF WriteCommit, SetHead, WriteIndex, ClearPending, DropCommit, ApplyStage
  <2> QED BY <2>1, OpShapes DEF TypeOK, NoPending
<1>ty. /\ commits \in [Ids -> Commit] /\ index \in [Agents -> Tree]
       /\ pending.kind \in {"commit", "restore", "discard"} /\ pending.target \in Heads
       /\ pending.kind = "commit" => pending.target \in Ids
  BY <1>op DEF TypeOK, Pending, PendingInv, Heads, Ids
<1>1. CASE WriteCommit
  <2>1. /\ pending.kind = "commit" /\ UNCHANGED <<head, index, pending>>
        /\ commits' = [commits EXCEPT ![pending.target] = pending.rec]
    BY <1>1 DEF WriteCommit
  <2>2. SharedHistory' = SharedHistory  BY <2>1, <1>ty DEF SharedHistory
  <2>3. TargetTree' = TargetTree  BY <2>1 DEF TargetTree
  <2> QED BY <1>op, <2>1, <2>2, <2>3 DEF SharedArea, SharedAt, SharedBase, OwnsBase
<1>2. CASE SetHead
  <2>1. UNCHANGED <<commits, index, pending>>  BY <1>2 DEF SetHead
  <2>2. SharedHistory' = SharedHistory  BY <2>1 DEF SharedHistory, Kept, Ancestors
  <2>3. TargetTree' = TargetTree  BY <2>1, TreeFrame
  <2> QED BY <1>op, <2>1, <2>2, <2>3 DEF SharedArea, SharedAt, SharedBase, OwnsBase
<1>3. CASE WriteIndex
  <2>1. /\ OwnsBase /\ UNCHANGED <<commits, head, pending>>
        /\ index' = [index EXCEPT ![pending.rec.author] = pending.base]
    BY <1>3 DEF WriteIndex
  <2>2. SharedHistory' = SharedHistory  BY <2>1 DEF SharedHistory, Kept, Ancestors
  <2>3. TargetTree' = TargetTree  BY <2>1, TreeFrame
  <2>4. SharedBase' = SharedBase  BY <2>1, <1>ty DEF SharedBase, OwnsBase
  <2> QED BY <1>op, <2>1, <2>2, <2>3, <2>4 DEF SharedArea, SharedAt
<1>4. ASSUME NEW i \in Ids, DropCommit(i)
      PROVE  UNCHANGED <<SharedArea, SharedAt, SharedHistory, SharedBase>>
  <2>1. /\ pending.kind = "discard" /\ i \in Existing /\ i \notin Ancestors(pending.target)
        /\ commits' = [commits EXCEPT ![i] = NoCommit] /\ UNCHANGED <<head, index, pending, work>>
    BY <1>4 DEF DropCommit, Dropped, disks
  <2> DEFINE A == Ancestors(pending.target)
             B == Kept'
  <2>2. commits' \in [Ids -> Commit] /\ A \subseteq Ids /\ B \subseteq Ids
    BY DEF TypeOK, Kept, Ancestors
  <2>3. \A j \in Ids : commits'[j] = IF j = i THEN NoCommit ELSE commits[j]
    BY <2>1, <1>ty
  <2>4. pending.target # 0 => pending.target \in A
    BY <1>ty, SelfAncestor DEF Heads, Ids
  <2>5. \A j \in A : commits[j].parent # 0 => commits[j].parent \in A
    BY <1>ty, AncestorsClosed DEF Closed
  <2>6. \A j \in A : commits'[j] = commits[j]  BY <2>1, <2>2, <2>3
  <2>7. B \subseteq A
    <3> HIDE DEF A
    <3>1. A \in SUBSET Ids /\ (pending'.target # 0 => pending'.target \in A)
          /\ \A j \in A : commits'[j].parent # 0 => commits'[j].parent \in A
      BY <2>1, <2>2, <2>4, <2>5, <2>6
    <3> QED BY <3>1 DEF Kept, Ancestors
  \* And the other way round: what is closed now was closed before.
  <2>8. A \subseteq B
    <3> SUFFICES ASSUME NEW j \in A PROVE j \in B  OBVIOUS
    <3>1. j \in Ids  BY <2>2
    <3>2. ASSUME NEW S \in SUBSET Ids, pending'.target # 0 => pending'.target \in S,
                 \A m \in S : commits'[m].parent # 0 => commits'[m].parent \in S
          PROVE  j \in S
      <4>1. Closed(S \cap A)
        <5> SUFFICES ASSUME NEW m \in S \cap A, commits[m].parent # 0
                     PROVE  commits[m].parent \in S \cap A
          BY DEF Closed
        <5> QED BY <2>5, <2>6, <3>2
      <4>2. S \cap A \in SUBSET Ids /\ (pending.target # 0 => pending.target \in S \cap A)
        BY <2>1, <2>4, <3>2
      <4>3. A \subseteq S \cap A  BY <4>1, <4>2, AncestorsLeast
      <4> QED BY <4>3
    <3> QED BY <3>1, <3>2 DEF Kept, Ancestors
  <2>9. B = A  BY <2>7, <2>8
  <2>10. SharedHistory' = [j \in Ids |-> IF j \in B THEN commits'[j] ELSE NoCommit]
    BY <2>1 DEF SharedHistory
  <2>11. SharedHistory = [j \in Ids |-> IF j \in A THEN commits[j] ELSE NoCommit]
    BY <2>1 DEF SharedHistory, Kept, Ancestors
  <2>12. TargetTree' = TargetTree
    <3>1. pending.target # 0 => commits'[pending.target] = commits[pending.target]
      BY <2>4, <2>6
    <3> QED BY <2>1, <3>1 DEF TargetTree, TreeOf
  <2> HIDE DEF A, B
  <2>13. SharedHistory' = SharedHistory  BY <2>6, <2>9, <2>10, <2>11
  <2> QED BY <1>op, <2>1, <2>12, <2>13 DEF SharedArea, SharedAt, SharedBase, OwnsBase
<1>5. CASE ClearPending
  <2>1. /\ pending' = NoPending /\ UNCHANGED <<commits, head, index, work>>
        /\ Dropped = {} /\ op.stage = IF OwnsBase THEN "indexed" ELSE "headed"
    BY <1>5 DEF ClearPending, disks
  <2>2. op.stage \in {"headed", "indexed"}  BY <2>1
  <2>3. /\ head = pending.target /\ (External \/ work = TargetTree)
        /\ pending.kind = "commit" => commits[pending.target] = pending.rec
    BY <1>op, <2>2 DEF OperationInv
  <2>4. HeadTree = TargetTree /\ HeadTree' = HeadTree
    BY <2>1, <2>3, <1>ty, TreeFrame DEF HeadTree, TargetTree, TreeOf, Ids
  <2>5. SharedArea' = SharedArea
    BY <1>op, <2>1, <2>3, <2>4 DEF SharedArea
  <2>6. SharedAt' = SharedAt  BY <1>op, <2>1, <2>3 DEF SharedAt
  <2>7. SharedHistory' = SharedHistory
    <3>1. SharedHistory' = commits  BY <2>1 DEF SharedHistory, NoPending
    <3>2. CASE pending.kind = "commit"
      <4>1. SharedHistory = commits  BY <2>3, <3>2, <1>ty DEF SharedHistory
      <4> QED BY <3>1, <4>1
    <3>3. CASE pending.kind = "discard"
      <4>1. Existing \subseteq Kept  BY <2>1, <3>3 DEF Dropped, Kept
      <4>2. \A j \in Ids \ Kept : commits[j] = NoCommit  BY <4>1 DEF Existing
      <4>3. SharedHistory = commits  BY <3>3, <4>2, <1>ty DEF SharedHistory
      <4> QED BY <3>1, <4>3
    <3>4. CASE pending.kind = "restore"
      <4>1. SharedHistory = commits  BY <3>4 DEF SharedHistory
      <4> QED BY <3>1, <4>1
    <3> QED BY <3>2, <3>3, <3>4, <1>ty
  <2>8. SharedBase' = SharedBase
    <3>1. ~OwnsBase'  BY <2>1 DEF OwnsBase, NoPending
    <3>2. OwnsBase => index[pending.rec.author] = pending.base
      BY <1>op, <2>1 DEF MapInv, ApplyStage
    <3> QED BY <2>1, <3>1, <3>2, <1>ty DEF SharedBase, OwnsBase
  <2> QED BY <2>5, <2>6, <2>7, <2>8
<1> QED BY <1>1, <1>2, <1>3, <1>4, <1>5

(* Every step is a step of the line the callers see, or is not seen.       *)
MappedInv == TypeOK /\ PendingInv /\ OperationInv /\ LineInv /\ MapInv

(* One step of the store under the mapping.                                *)
LEMMA StepShared ==
  ASSUME MappedInv, MappedInv', [Next]_vars
  PROVE  [Shared!Next]_(Shared!vars)
<1>inv. /\ TypeOK /\ PendingInv /\ OperationInv /\ LineInv /\ MapInv
        /\ TypeOK' /\ PendingInv' /\ OperationInv' /\ LineInv' /\ MapInv'
  BY DEF MappedInv
<1>ids. Shared!Ids = Ids /\ Shared!NoCommit = NoCommit
  BY DEF Shared!Ids, Shared!NoCommit, Shared!EmptyTree, Ids, NoCommit, EmptyTree
<1>fr. \/ SharedFresh' = SharedFresh
       \/ op.kind = "make" /\ \E i \in Ids : i >= SharedFresh /\ SharedFresh' = i + 1
  BY <1>inv, FreshSteps
<1>1. CASE LogCommit
  <2>1. \E i \in Ids : Shared!Extend(i, SharedHistory'[i])  BY <1>1, <1>inv, CommitIsExtend
  <2> QED BY <2>1, <1>ids DEF Shared!Next
<1>2. ASSUME NEW k \in {"restore", "discard"}, NEW i \in Heads, NEW f \in BOOLEAN, LogMove(k, i, f)
      PROVE  Shared!Next
  <2>1. Shared!Move(i) \/ Shared!Discard(i, {j \in Ids : SharedHistory'[j] # NoCommit})
    BY <1>2, <1>inv, MoveIsMove
  <2>2. i \in 0..MaxId  BY DEF Heads
  <2> QED BY <2>1, <2>2, <1>ids DEF Shared!Next
<1>3. CASE PullEnd \/ PullFails \/ ResolveEnd
  <2>1. \E a \in Agents : Shared!Rebase(a)  BY <1>3, <1>inv, EndIsRebase
  <2> QED BY <2>1 DEF Shared!Next
<1>4. CASE WriteCommit \/ SetHead \/ WriteIndex \/ ClearPending \/ \E i \in Ids : DropCommit(i)
  <2>1. UNCHANGED <<SharedArea, SharedAt, SharedHistory, SharedBase>>
    BY <1>4, <1>inv, ApplyIsStutter
  <2>2. op.kind # "make"
    BY <1>4 DEF WriteCommit, SetHead, WriteIndex, ClearPending, DropCommit, ApplyStage
  <2> QED BY <2>1, <2>2, <1>fr DEF Shared!vars
<1>5. CASE UNCHANGED <<commits, head, pending, index>>
  <2>1. UNCHANGED <<SharedArea, SharedAt, SharedHistory, SharedBase>>
    BY <1>5, <1>inv, FrameShared
  <2>2. CASE SharedFresh' = SharedFresh  BY <2>1, <2>2 DEF Shared!vars
  <2>3. CASE \E i \in Ids : i >= SharedFresh /\ SharedFresh' = i + 1
    <3>1. \E i \in Ids : Shared!Skip(i)  BY <2>1, <2>3 DEF Shared!Skip
    <3> QED BY <3>1, <1>ids DEF Shared!Next
  <2> QED BY <2>2, <2>3, <1>fr
<1>6. UNCHANGED <<commits, head, pending>> \/ LogCommit \/ WriteCommit \/ SetHead \/ ClearPending
      \/ (\E i \in Ids : DropCommit(i))
      \/ \E k \in {"restore", "discard"}, i \in Heads, f \in BOOLEAN : LogMove(k, i, f)
  BY LineSteps
<1>7. UNCHANGED index \/ PullEnd \/ PullFails \/ ResolveEnd \/ WriteIndex
  BY IndexSteps
<1> QED BY <1>1, <1>2, <1>3, <1>4, <1>5, <1>6, <1>7

(* The initial states map to the initial states of SharedLine.             *)
LEMMA InitShared == Init => Shared!Init
<1> SUFFICES ASSUME Init PROVE Shared!Init  OBVIOUS
<1>1. pending = NoPending /\ pending.kind = "none" /\ head = 0 /\ op = Idle /\ ~OwnsBase
  BY DEF Init, NoPending, OwnsBase
<1>2. SharedArea = EmptyTree
  BY <1>1 DEF Init, SharedArea, HeadTree, TreeOf
<1>3. SharedAt = 0 /\ SharedHistory = commits /\ SharedBase = index /\ SharedFresh = nextId
  BY <1>1 DEF SharedAt, SharedHistory, SharedBase, SharedFresh, Idle
<1>4. Shared!Ids = Ids /\ Shared!NoCommit = NoCommit /\ Shared!EmptyTree = EmptyTree
  BY DEF Shared!Ids, Shared!NoCommit, Shared!EmptyTree, Ids, NoCommit, EmptyTree
<1> QED BY <1>2, <1>3, <1>4 DEF Init, Shared!Init

(* The invariant of the refinement holds at first.                         *)
LEMMA InitMapped == Init => MappedInv
<1>1. Init => MapInv  BY DEF Init, MapInv, Idle, ApplyStage
<1> QED BY <1>1, InitType, InitLine, InitParents DEF MappedInv

(* Every step keeps it.                                                    *)
LEMMA StepMapped == MappedInv /\ [Next]_vars => MappedInv'
<1> SUFFICES ASSUME MappedInv, [Next]_vars PROVE MappedInv'  OBVIOUS
<1>1. TypeOK'  BY StepType DEF MappedInv
<1>2. PendingInv' /\ OperationInv'  BY <1>1, StepLine DEF MappedInv
<1>3. LineInv'  BY <1>1, StepParents DEF MappedInv
<1>4. MapInv'  BY <1>1, StepMap DEF MappedInv
<1> QED BY <1>1, <1>2, <1>3, <1>4 DEF MappedInv

(* Crash anywhere, WorkStore behaves as the line of SharedLine, for any    *)
(* number of agents, paths, versions, commits and faults.                  *)
THEOREM StoreImplementsLine == Spec => ImplementsSharedLine
<1>1. MappedInv /\ MappedInv' /\ [Next]_vars => [Shared!Next]_(Shared!vars)  BY StepShared
<1> QED BY <1>1, InitShared, InitMapped, StepMapped, PTL DEF Spec, ImplementsSharedLine, Shared!Spec

-----------------------------------------------------------------------------
(* What an agent has had in front of it covers everything it works from.   *)
Shown(s, tree) == \A p \in Paths : tree[p] # NoFile => <<p, tree[p]>> \in s

SeenInv ==
  /\ \A a \in Agents :
       /\ Shown(seen[a], sandbox[a])
       /\ Shown(seen[a], index[a])
       /\ Shown(seen[a], TreeOf(viewed[a]))
  /\ op.kind \in {"pull", "resolve"} => Shown(seen[op.agent], op.base)
  /\ op.kind = "resolve" =>
       /\ Shown(seen[op.agent], op.found)
       /\ op.take = "local" => Shown(seen[op.agent], HeadTree)
  /\ op.kind = "make" /\ op.author \in Agents =>
       \A p \in op.changes :
         /\ op.tree[p] # NoFile => <<p, op.tree[p]>> \in seen[op.author]
         /\ HeadTree[p] # NoFile => <<p, HeadTree[p]>> \in seen[op.author]
  /\ OwnsBase => Shown(seen[pending.rec.author], pending.base)

(* A larger set shows what a smaller one shows.                            *)
LEMMA ShownMore ==
  ASSUME NEW s, NEW t, NEW tree, s \subseteq t, Shown(s, tree)
  PROVE  Shown(t, tree)
  BY DEF Shown

(* An empty tree shows nothing.                                            *)
LEMMA ShownEmpty == \A s : Shown(s, EmptyTree)
  BY DEF Shown, EmptyTree

(* seen only grows, and takes in the sandbox and the head looked at.       *)
LEMMA SeenSteps ==
  ASSUME TypeOK, TypeOK', \A a \in Agents : Shown(seen[a], sandbox[a]), [NextHist]_hvars
  PROVE  /\ [Next]_vars
         /\ \A a \in Agents :
              /\ seen[a] \subseteq seen'[a]
              /\ Shown(seen'[a], sandbox'[a])
              /\ viewed'[a] # viewed[a] => Shown(seen'[a], HeadTree)
<1>1. CASE NextHist
  <2> SUFFICES ASSUME NEW a \in Agents
               PROVE  /\ seen[a] \subseteq seen'[a]
                      /\ Shown(seen'[a], sandbox'[a])
                      /\ viewed'[a] # viewed[a] => Shown(seen'[a], HeadTree)
    BY <1>1 DEF NextHist
  <2>1. seen'[a] = seen[a] \cup Showing(sandbox'[a])
                   \cup IF viewed'[a] # viewed[a] THEN Showing(HeadTree) ELSE {}
    BY <1>1 DEF NextHist
  <2>2. \A tree : Shown(Showing(tree), tree)  BY DEF Shown, Showing
  <2> QED BY <2>1, <2>2, ShownMore
<1>2. CASE UNCHANGED hvars
  BY <1>2 DEF hvars, vars
<1> QED BY <1>1, <1>2

(* Nothing has been seen yet, and nothing is worked from.                  *)
LEMMA InitSeen == InitHist => SeenInv
  BY ShownEmpty DEF InitHist, Init, SeenInv, Idle, NoPending, OwnsBase, TreeOf

(* A pull base moves to what was collected.                                *)
LEMMA StepSeenIndex ==
  ASSUME TypeOK, SeenInv, [Next]_vars, \A a \in Agents : seen[a] \subseteq seen'[a]
  PROVE  \A a \in Agents : Shown(seen'[a], index'[a])
<1> SUFFICES ASSUME NEW a \in Agents PROVE Shown(seen'[a], index'[a])
  OBVIOUS
<1>0. Shown(seen[a], index[a])  BY DEF SeenInv
<1>1. CASE PullEnd \/ PullFails \/ ResolveEnd
  <2>1. /\ op.kind \in {"pull", "resolve"} /\ op.agent \in Agents
        /\ index' = [index EXCEPT ![op.agent] = op.base]
    BY <1>1, OpShapes DEF PullEnd, PullFails, ResolveEnd, PullOp, ResolveOp, TypeOK
  <2>2. Shown(seen[op.agent], op.base)  BY <2>1 DEF SeenInv
  <2>3. index'[a] = IF a = op.agent THEN op.base ELSE index[a]  BY <2>1 DEF TypeOK
  <2> QED BY <2>2, <2>3, <1>0, ShownMore
<1>2. CASE WriteIndex
  <2>1. OwnsBase /\ index' = [index EXCEPT ![pending.rec.author] = pending.base]
    BY <1>2 DEF WriteIndex
  <2>2. Shown(seen[pending.rec.author], pending.base)  BY <2>1 DEF SeenInv
  <2>3. index'[a] = IF a = pending.rec.author THEN pending.base ELSE index[a]
    BY <2>1 DEF TypeOK
  <2> QED BY <2>2, <2>3, <1>0, ShownMore
<1>3. CASE UNCHANGED index  BY <1>0, <1>3, ShownMore
<1> QED BY <1>1, <1>2, <1>3, IndexSteps

(* A commit an agent has looked at keeps its tree, or is dropped.          *)
LEMMA StepSeenViewed ==
  ASSUME TypeOK, TypeOK', PendingInv, NumberInv, SeenInv, [Next]_vars,
         \A a \in Agents : /\ seen[a] \subseteq seen'[a]
                           /\ viewed'[a] # viewed[a] => Shown(seen'[a], HeadTree)
  PROVE  \A a \in Agents : Shown(seen'[a], TreeOf(viewed[a])')
<1> SUFFICES ASSUME NEW a \in Agents PROVE Shown(seen'[a], TreeOf(viewed[a])')
  OBVIOUS
<1>0. Shown(seen[a], TreeOf(viewed[a])) /\ viewed[a] \in Heads
  BY DEF SeenInv, TypeOK
<1>1. CASE UNCHANGED commits /\ viewed'[a] = viewed[a]
  BY <1>0, <1>1, ShownMore DEF TreeOf
<1>2. CASE UNCHANGED commits /\ viewed'[a] # viewed[a]
  <2>1. PullEnd \/ \E b \in Agents : View(b)
    BY <1>2, NumberSteps DEF ReserveId, LogCommit, LogMove, WriteCommit, DropCommit, ClearPending
  <2>2. viewed'[a] = head  BY <1>2, <2>1 DEF PullEnd, View, TypeOK
  <2> QED BY <1>2, <2>2 DEF HeadTree, TreeOf
<1>3. CASE WriteCommit
  <2>1. viewed' = viewed /\ viewed[a] # pending.target
    BY <1>3 DEF WriteCommit, NumberInv, TypeOK, Heads, Pending
  <2>2. viewed[a] # 0 => commits'[viewed[a]] = commits[viewed[a]]
    BY <1>0, <1>3, <2>1 DEF WriteCommit, TypeOK, Heads, Ids
  <2>3. TreeOf(viewed[a])' = TreeOf(viewed[a])  BY <2>1, <2>2 DEF TreeOf
  <2> QED BY <1>0, <2>3, ShownMore
<1>4. ASSUME NEW i \in Ids, DropCommit(i) PROVE Shown(seen'[a], TreeOf(viewed[a])')
  <2>1. viewed' = viewed  BY <1>4 DEF DropCommit
  <2>2. viewed[a] # 0 => commits'[viewed[a]] = IF viewed[a] = i THEN NoCommit ELSE commits[viewed[a]]
    BY <1>0, <1>4 DEF DropCommit, TypeOK, Heads, Ids
  <2>3. TreeOf(viewed[a])' \in {TreeOf(viewed[a]), EmptyTree}
    BY <2>1, <2>2 DEF TreeOf, NoCommit
  <2> QED BY <1>0, <2>3, ShownMore, ShownEmpty
<1>5. UNCHANGED commits \/ WriteCommit \/ \E i \in Ids : DropCommit(i)
  BY LineSteps DEF LogCommit, LogMove, SetHead, ClearPending
<1> QED BY <1>1, <1>2, <1>3, <1>4, <1>5
(* A patched tree is shown by what shows its parts.                        *)
LEMMA ShownPatch ==
  ASSUME NEW s, NEW t \in Tree, NEW q \in Paths, NEW v, Shown(s, t),
         v # NoFile => <<q, v>> \in s
  PROVE  Shown(s, [t EXCEPT ![q] = v])
  BY DEF Shown, Tree

(* The base a pull or a resolution collects was seen.                      *)
LEMMA StepSeenBase ==
  ASSUME TypeOK, TypeOK', SeenInv, [Next]_vars, op'.kind \in {"pull", "resolve"},
         \A a \in Agents : seen[a] \subseteq seen'[a] /\ Shown(seen'[a], sandbox'[a])
  PROVE  Shown(seen'[op'.agent], op'.base)
<1>op. /\ op.kind = "pull" => op \in PullOp
       /\ op.kind = "make" => op \in MakeOp
       /\ op.kind = "resolve" => op \in ResolveOp
  BY OpShapes DEF TypeOK
<1>1. ASSUME op'.agent \in Agents, op'.base = index[op'.agent]
      PROVE  Shown(seen'[op'.agent], op'.base)
  BY <1>1, ShownMore DEF SeenInv
<1>2. ASSUME op \in PullOp \cup ResolveOp, op'.agent = op.agent,
             \/ op'.base = op.base
             \/ \E p \in Paths : /\ op'.base = [op.base EXCEPT ![p] = HeadTree[p]]
                                 /\ HeadTree[p] # NoFile => <<p, HeadTree[p]>> \in seen'[op.agent]
      PROVE  Shown(seen'[op'.agent], op'.base)
  <2>1. op.agent \in Agents /\ op.kind \in {"pull", "resolve"} /\ op.base \in Tree
    BY <1>2 DEF PullOp, ResolveOp
  <2>2. Shown(seen'[op.agent], op.base)  BY <2>1, ShownMore DEF SeenInv
  <2>3. CASE op'.base = op.base  BY <1>2, <2>2, <2>3
  <2>4. CASE op'.base # op.base
    <3>1. PICK p \in Paths : /\ op'.base = [op.base EXCEPT ![p] = HeadTree[p]]
                             /\ HeadTree[p] # NoFile => <<p, HeadTree[p]>> \in seen'[op.agent]
      BY <1>2, <2>4
    <3>2. Shown(seen'[op.agent], [op.base EXCEPT ![p] = HeadTree[p]])
      BY <2>1, <2>2, <3>1, ShownPatch
    <3> QED BY <1>2, <3>1, <3>2
  <2> QED BY <2>3, <2>4
<1>3. ASSUME NEW p \in Paths, PullDecide(p) PROVE Shown(seen'[op'.agent], op'.base)
  <2>1. op \in PullOp /\ op.agent \in Agents  BY <1>3, <1>op DEF PullDecide, PullOp
  <2>2. CASE op' = [op EXCEPT !.copying = {p}] \/ op' = [op EXCEPT !.want = @ \ {p}]
    <3>1. op'.agent = op.agent /\ op'.base = op.base  BY <2>1, <2>2 DEF PullOp
    <3> QED BY <2>1, <3>1, <1>2
  <2>3. CASE /\ PullSame(op.base[p], HeadTree[p], sandbox[op.agent][p])
             /\ op' = [op EXCEPT !.want = @ \ {p}, !.base[p] = HeadTree[p]]
    <3>1. op'.agent = op.agent /\ op'.base = [op.base EXCEPT ![p] = HeadTree[p]]
      BY <2>1, <2>3 DEF PullOp
    <3>2. HeadTree[p] # NoFile /\ sandbox[op.agent][p] = HeadTree[p]
      BY <2>3 DEF PullSame
    <3>3. <<p, HeadTree[p]>> \in seen[op.agent]
      BY <2>1, <3>2 DEF SeenInv, Shown
    <3> QED BY <2>1, <3>1, <3>3, <1>2
  <2> QED BY <1>3, <2>2, <2>3, Zenon DEF PullDecide
<1>4. ASSUME NEW p \in Paths, PullCopy(p) PROVE Shown(seen'[op'.agent], op'.base)
  <2>1. op \in PullOp /\ op.agent \in Agents  BY <1>4, <1>op DEF PullCopy, PullOp
  <2>2. op'.agent = op.agent /\ op'.base = [op.base EXCEPT ![p] = HeadTree[p]]
    BY <2>1, <1>4 DEF PullCopy, PullOp
  <2>3. sandbox'[op.agent][p] = HeadTree[p]  BY <2>1, <1>4 DEF PullCopy, TypeOK, Tree
  <2>4. HeadTree[p] # NoFile => <<p, HeadTree[p]>> \in seen'[op.agent]
    BY <2>1, <2>3 DEF Shown
  <2> QED BY <2>1, <2>2, <2>4, <1>2
<1>5. ASSUME NEW a \in Agents, NEW S, PullBegin(a, S) PROVE Shown(seen'[op'.agent], op'.base)
  <2>1. op'.agent = a /\ op'.base = index[a]  BY <1>5 DEF PullBegin
  <2> QED BY <2>1, <1>1
<1>6. ASSUME NEW a \in Agents, NEW t, NEW S, ResolveBegin(a, t, S)
      PROVE  Shown(seen'[op'.agent], op'.base)
  <2>1. op'.agent = a /\ op'.base = index[a]  BY <1>6 DEF ResolveBegin
  <2> QED BY <2>1, <1>1
<1>7. ASSUME NEW p \in Paths, ResolveBackup(p) PROVE Shown(seen'[op'.agent], op'.base)
  <2>1. op \in ResolveOp  BY <1>7, <1>op DEF ResolveBackup
  <2>2. op'.agent = op.agent /\ op'.base = op.base  BY <2>1, <1>7 DEF ResolveBackup, ResolveOp
  <2> QED BY <2>1, <2>2, <1>2
<1>8. ASSUME NEW p \in Paths, ResolveApply(p) PROVE Shown(seen'[op'.agent], op'.base)
  <2>1. op \in ResolveOp /\ op.agent \in Agents /\ op.kind = "resolve"
    BY <1>8, <1>op DEF ResolveApply, ResolveOp
  <2>2. op'.agent = op.agent /\ op'.base = [op.base EXCEPT ![p] = HeadTree[p]]
    BY <2>1, <1>8 DEF ResolveApply, ResolveOp
  <2>3. HeadTree[p] # NoFile => <<p, HeadTree[p]>> \in seen'[op.agent]
    <3>1. CASE op.take = "upstream" /\ op.found[p] # HeadTree[p]
      <4>1. sandbox'[op.agent][p] = HeadTree[p]
        BY <2>1, <3>1, <1>8 DEF ResolveApply, TypeOK, Tree
      <4> QED BY <2>1, <4>1 DEF Shown
    <3>2. CASE op.found[p] = HeadTree[p]
      BY <2>1, <3>2 DEF SeenInv, Shown
    <3>3. CASE op.take = "local"
      BY <2>1, <3>3 DEF SeenInv, Shown
    <3> QED BY <2>1, <3>1, <3>2, <3>3 DEF ResolveOp
  <2> QED BY <2>1, <2>2, <2>3, <1>2
<1>9. ASSUME NEW a, NEW S, NEW D, NEW l,
             CommitBegin(a, S, D, l) \/ SyncBegin(S) \/ UploadBegin(S, D, l)
      PROVE  FALSE
  BY <1>9 DEF CommitBegin, SyncBegin, UploadBegin, Making
<1>10. ASSUME NEW p \in Paths, Ingest(p) \/ ReserveId PROVE FALSE
  <2>1. op \in MakeOp  BY <1>10, <1>op DEF Ingest, IngestTurn, ReserveId
  <2>2. op'.kind = "make"  BY <2>1, <1>10 DEF Ingest, ReserveId, MakeOp
  <2> QED BY <2>2
<1>11. ReserveId => FALSE
  <2> SUFFICES ASSUME ReserveId PROVE FALSE  OBVIOUS
  <2>1. op \in MakeOp  BY <1>op DEF ReserveId
  <2>2. op'.kind = "make"  BY <2>1 DEF ReserveId, MakeOp
  <2> QED BY <2>2
<1>12. UNCHANGED op => Shown(seen'[op'.agent], op'.base)
  <2> SUFFICES ASSUME UNCHANGED op PROVE Shown(seen'[op'.agent], op'.base)  OBVIOUS
  <2>1. op \in PullOp \cup ResolveOp  BY <1>op
  <2> QED BY <2>1, <1>2
<1>13. UNCHANGED vars => UNCHANGED op  BY DEF vars
<1> QED BY <1>3, <1>4, <1>5, <1>6, <1>7, <1>8, <1>9, <1>10, <1>11, <1>12, <1>13, OpSteps

(* So was what a resolution found, and the head it was told to expect.     *)
LEMMA StepSeenFound ==
  ASSUME TypeOK, SeenInv, [Next]_vars, op'.kind = "resolve",
         \A a \in Agents : seen[a] \subseteq seen'[a]
  PROVE  /\ Shown(seen'[op'.agent], op'.found)
         /\ op'.take = "local" => Shown(seen'[op'.agent], HeadTree')
<1>op. /\ op.kind = "pull" => op \in PullOp
       /\ op.kind = "make" => op \in MakeOp
       /\ op.kind = "resolve" => op \in ResolveOp
  BY OpShapes DEF TypeOK
<1>1. ASSUME op \in ResolveOp, UNCHANGED <<commits, head>>, op'.agent = op.agent,
             op'.found = op.found, op'.take = op.take
      PROVE  /\ Shown(seen'[op'.agent], op'.found)
             /\ op'.take = "local" => Shown(seen'[op'.agent], HeadTree')
  <2>1. op.agent \in Agents /\ op.kind = "resolve" /\ HeadTree' = HeadTree
    BY <1>1, TreeFrame DEF ResolveOp
  <2>2. Shown(seen'[op.agent], op.found)  BY <2>1, ShownMore DEF SeenInv
  <2>3. op.take = "local" => Shown(seen'[op.agent], HeadTree)
    BY <2>1, ShownMore DEF SeenInv
  <2> QED BY <1>1, <2>1, <2>2, <2>3
<1>2. ASSUME NEW p \in Paths, ResolveBackup(p) \/ ResolveApply(p)
      PROVE  /\ Shown(seen'[op'.agent], op'.found)
             /\ op'.take = "local" => Shown(seen'[op'.agent], HeadTree')
  <2>1. op \in ResolveOp /\ UNCHANGED <<commits, head>>
    BY <1>2, <1>op DEF ResolveBackup, ResolveApply, store
  <2>2. op'.agent = op.agent /\ op'.found = op.found /\ op'.take = op.take
    BY <2>1, <1>2 DEF ResolveBackup, ResolveApply, ResolveOp
  <2> QED BY <2>1, <2>2, <1>1
<1>3. ASSUME NEW a \in Agents, NEW take \in {"upstream", "local"}, NEW S, ResolveBegin(a, take, S)
      PROVE  /\ Shown(seen'[op'.agent], op'.found)
             /\ op'.take = "local" => Shown(seen'[op'.agent], HeadTree')
  <2>1. /\ op'.agent = a /\ op'.found = sandbox[a] /\ op'.take = take
        /\ UNCHANGED <<commits, head>> /\ (take = "local" /\ head # 0 => viewed[a] = head)
    BY <1>3 DEF ResolveBegin, store, ExpectsHead
  <2>2. Shown(seen'[a], sandbox[a]) /\ Shown(seen'[a], TreeOf(viewed[a]))
    BY ShownMore DEF SeenInv
  <2>3. HeadTree' = HeadTree  BY <2>1, TreeFrame
  <2>4. take = "local" => HeadTree \in {EmptyTree, TreeOf(viewed[a])}
    BY <2>1 DEF HeadTree, TreeOf
  <2> QED BY <2>1, <2>2, <2>3, <2>4, ShownEmpty
<1>4. ASSUME NEW a, NEW S, NEW D, NEW l,
             CommitBegin(a, S, D, l) \/ SyncBegin(S) \/ UploadBegin(S, D, l) \/ PullBegin(a, S)
      PROVE  FALSE
  BY <1>4 DEF CommitBegin, SyncBegin, UploadBegin, Making, PullBegin
<1>5. ASSUME NEW p \in Paths, Ingest(p) \/ PullDecide(p) \/ PullCopy(p) PROVE FALSE
  <2>1. op \in MakeOp \cup PullOp  BY <1>5, <1>op DEF Ingest, IngestTurn, PullDecide, PullCopy
  <2>2. op'.kind = op.kind  BY <2>1, <1>5 DEF Ingest, PullDecide, PullCopy, PullOp, MakeOp
  <2> QED BY <2>1, <2>2 DEF MakeOp, PullOp
<1>6. ASSUME ReserveId PROVE FALSE
  <2>1. op \in MakeOp  BY <1>6, <1>op DEF ReserveId
  <2>2. op'.kind = "make"  BY <2>1, <1>6 DEF ReserveId, MakeOp
  <2> QED BY <2>2
<1>7. ASSUME UNCHANGED op, Edit \/ UNCHANGED vars
      PROVE  /\ Shown(seen'[op'.agent], op'.found)
             /\ op'.take = "local" => Shown(seen'[op'.agent], HeadTree')
  <2>1. UNCHANGED <<commits, head>>
    BY <1>7 DEF Edit, EditShared, EditSandbox, store, vars
  <2>2. op \in ResolveOp  BY <1>7, <1>op
  <2> QED BY <1>7, <2>1, <2>2, <1>1
<1>8. UNCHANGED vars => UNCHANGED op  BY DEF vars
<1> QED BY <1>2, <1>3, <1>4, <1>5, <1>6, <1>7, <1>8, OpSteps
(* An agent's commit takes what its sandbox holds over what it had pulled. *)
LEMMA StepSeenMake ==
  ASSUME TypeOK, TypeOK', SeenInv, [Next]_vars, op'.kind = "make", op'.author \in Agents,
         \A a \in Agents : seen[a] \subseteq seen'[a]
  PROVE  \A p \in op'.changes :
           /\ op'.tree[p] # NoFile => <<p, op'.tree[p]>> \in seen'[op'.author]
           /\ HeadTree'[p] # NoFile => <<p, HeadTree'[p]>> \in seen'[op'.author]
<1> DEFINE Goal == \A p \in op'.changes :
             /\ op'.tree[p] # NoFile => <<p, op'.tree[p]>> \in seen'[op'.author]
             /\ HeadTree'[p] # NoFile => <<p, HeadTree'[p]>> \in seen'[op'.author]
<1>op. /\ op.kind = "pull" => op \in PullOp
       /\ op.kind = "make" => op \in MakeOp
       /\ op.kind = "resolve" => op \in ResolveOp
  BY OpShapes DEF TypeOK
<1>1. ASSUME op \in MakeOp, UNCHANGED <<commits, head>>, op'.author = op.author,
             op'.changes = op.changes, op'.tree = op.tree
      PROVE  Goal
  <2>1. op.kind = "make" /\ HeadTree' = HeadTree /\ op.author \in Agents
    BY <1>1, TreeFrame DEF MakeOp
  <2> QED BY <1>1, <2>1 DEF SeenInv
<1>2. ASSUME NEW p \in Paths, Ingest(p) PROVE Goal
  <2>1. op \in MakeOp /\ op' = [op EXCEPT !.ingest = @ \ {p}] /\ UNCHANGED <<commits, head>>
    BY <1>2, <1>op DEF Ingest, IngestTurn
  <2>2. op'.author = op.author /\ op'.changes = op.changes /\ op'.tree = op.tree
    BY <2>1 DEF MakeOp
  <2> QED BY <2>1, <2>2, <1>1
<1>3. ASSUME ReserveId PROVE Goal
  <2>1. op \in MakeOp /\ UNCHANGED <<commits, head>>  BY <1>3, <1>op DEF ReserveId
  <2>2. PICK n \in Ids : op' = [op EXCEPT !.id = n]  BY <1>3 DEF ReserveId
  <2>3. op'.author = op.author /\ op'.changes = op.changes /\ op'.tree = op.tree
    BY <2>1, <2>2 DEF MakeOp
  <2> QED BY <2>1, <2>3, <1>1
<1>4. ASSUME NEW a \in Agents, NEW S \in SUBSET Paths, NEW D \in SUBSET Paths, NEW l \in Lines,
             CommitBegin(a, S, D, l)
      PROVE  Goal
  <2> DEFINE local == [p \in Paths |-> IF p \in S THEN sandbox[a][p] ELSE NoFile]
             changes == {p \in S \cup D : PlanChange(index[a][p], HeadTree[p], local[p])}
             t == Patched(HeadTree, changes, local)
  <2>1. op' = Making(a, l, changes, t) /\ UNCHANGED <<commits, head>>
    BY <1>4 DEF CommitBegin, store
  <2>2. \A p \in changes : /\ p \in Paths /\ t[p] = local[p]
                           /\ local[p] \in {NoFile, sandbox[a][p]}
                           /\ HeadTree[p] \in {NoFile, index[a][p]}
    BY DEF Patched, PlanChange
  <2>3. HeadTree' = HeadTree  BY <2>1, TreeFrame
  <2>4. Shown(seen'[a], sandbox[a]) /\ Shown(seen'[a], index[a])  BY ShownMore DEF SeenInv
  <2> HIDE DEF local, changes, t
  <2>5. op'.author = a /\ op'.changes = changes /\ op'.tree = t  BY <2>1 DEF Making
  <2> QED BY <2>2, <2>3, <2>4, <2>5 DEF Shown
<1>5. ASSUME NEW a, NEW S, NEW l, SyncBegin(S) \/ UploadBegin(a, S, l) PROVE FALSE
  BY <1>5, WorkStoreAssumption DEF SyncBegin, UploadBegin, Making
<1>6. ASSUME NEW a, NEW S, NEW t, PullBegin(a, S) \/ ResolveBegin(a, t, S) PROVE FALSE
  BY <1>6 DEF PullBegin, ResolveBegin
<1>7. ASSUME NEW p \in Paths, PullDecide(p) \/ PullCopy(p) \/ ResolveBackup(p) \/ ResolveApply(p)
      PROVE  FALSE
  <2>1. op \in PullOp \cup ResolveOp
    BY <1>7, <1>op DEF PullDecide, PullCopy, ResolveBackup, ResolveApply
  <2>2. op'.kind = op.kind
    BY <2>1, <1>7 DEF PullDecide, PullCopy, ResolveBackup, ResolveApply, PullOp, ResolveOp
  <2> QED BY <2>1, <2>2 DEF PullOp, ResolveOp
<1>8. ASSUME UNCHANGED op, Edit \/ UNCHANGED vars PROVE Goal
  <2>1. UNCHANGED <<commits, head>>
    BY <1>8 DEF Edit, EditShared, EditSandbox, store, vars
  <2>2. op \in MakeOp  BY <1>8, <1>op
  <2> QED BY <1>8, <2>1, <2>2, <1>1
<1>9. UNCHANGED vars => UNCHANGED op  BY DEF vars
<1> HIDE DEF Goal
<1>10. Goal  BY <1>2, <1>3, <1>4, <1>5, <1>6, <1>7, <1>8, <1>9, OpSteps
<1> QED BY <1>10 DEF Goal

(* The author's new base, in the record, is its old one and what it        *)
(* committed.                                                              *)
LEMMA StepSeenOwned ==
  ASSUME TypeOK, SeenInv, [Next]_vars, OwnsBase',
         \A a \in Agents : seen[a] \subseteq seen'[a]
  PROVE  Shown(seen'[pending'.rec.author], pending'.base)
<1>1. CASE UNCHANGED pending
  <2>1. OwnsBase /\ pending.rec.author \in Agents  BY <1>1 DEF OwnsBase
  <2> QED BY <1>1, <2>1, ShownMore DEF SeenInv
<1>2. CASE LogCommit
  <2>1. op.kind = "make"  BY <1>2 DEF LogCommit
  <2>2. pending'.rec.author = op.author  BY <1>2 DEF LogCommit
  <2>3. op.author \in Agents  BY <2>2 DEF OwnsBase
  <2>4. pending'.base = Patched(index[op.author], op.changes, op.tree)
    BY <1>2, <2>3 DEF LogCommit
  <2>5. Shown(seen[op.author], index[op.author])  BY <2>3 DEF SeenInv
  <2>6. \A p \in op.changes : op.tree[p] # NoFile => <<p, op.tree[p]>> \in seen[op.author]
    BY <2>1, <2>3 DEF SeenInv
  <2>7. Shown(seen[op.author], pending'.base)  BY <2>4, <2>5, <2>6 DEF Shown, Patched
  <2> QED BY <2>2, <2>3, <2>7, ShownMore
<1>3. ASSUME NEW k \in {"restore", "discard"}, NEW i \in Heads, NEW f, LogMove(k, i, f) PROVE FALSE
  <2>1. pending'.kind = k  BY <1>3, MoveShape DEF LogMove
  <2> QED BY <2>1 DEF OwnsBase
<1>4. ASSUME ClearPending PROVE FALSE
  BY <1>4 DEF ClearPending, NoPending, OwnsBase
<1>5. WriteCommit \/ SetHead => UNCHANGED pending  BY DEF WriteCommit, SetHead
<1>6. \A i : DropCommit(i) => UNCHANGED pending  BY DEF DropCommit
<1> QED BY <1>1, <1>2, <1>3, <1>4, <1>5, <1>6, LineSteps

(* Every step keeps it.                                                    *)
LEMMA StepSeen ==
  ASSUME TypeOK, TypeOK', PendingInv, NumberInv, SeenInv, [NextHist]_hvars
  PROVE  SeenInv'
<1>1. \A a \in Agents : Shown(seen[a], sandbox[a])  BY DEF SeenInv
<1>2. /\ [Next]_vars
      /\ \A a \in Agents : seen[a] \subseteq seen'[a]
      /\ \A a \in Agents : Shown(seen'[a], sandbox'[a])
      /\ \A a \in Agents : viewed'[a] # viewed[a] => Shown(seen'[a], HeadTree)
  BY <1>1, SeenSteps
<1>3. \A a \in Agents : Shown(seen'[a], index'[a])  BY <1>2, StepSeenIndex
<1>4. \A a \in Agents : Shown(seen'[a], TreeOf(viewed[a])')  BY <1>2, StepSeenViewed
<1>5. op'.kind \in {"pull", "resolve"} => Shown(seen'[op'.agent], op'.base)
  BY <1>2, StepSeenBase
<1>6. op'.kind = "resolve" =>
        /\ Shown(seen'[op'.agent], op'.found)
        /\ op'.take = "local" => Shown(seen'[op'.agent], HeadTree')
  BY <1>2, StepSeenFound
<1>7. op'.kind = "make" /\ op'.author \in Agents =>
        \A p \in op'.changes :
          /\ op'.tree[p] # NoFile => <<p, op'.tree[p]>> \in seen'[op'.author]
          /\ HeadTree'[p] # NoFile => <<p, HeadTree'[p]>> \in seen'[op'.author]
  BY <1>2, StepSeenMake
<1>8. OwnsBase' => Shown(seen'[pending'.rec.author], pending'.base)
  BY <1>2, StepSeenOwned
<1> QED BY <1>2, <1>3, <1>4, <1>5, <1>6, <1>7, <1>8 DEF SeenInv, Shown

(* What it says of a commit that is logged.                                *)
LEMMA StepUpdateSeen ==
  ASSUME TypeOK, SeenInv, [Next]_vars
  PROVE  UpdateSeen
<1> SUFFICES ASSUME pending' # pending, pending'.kind = "commit", pending'.rec.author \in Agents,
                    NEW p \in pending'.rec.changes, HeadTree[p] # NoFile
             PROVE  <<p, HeadTree[p]>> \in seen[pending'.rec.author]
  BY DEF UpdateSeen
<1>1. CASE LogCommit
  <2>1. op.kind = "make" /\ pending'.rec.author = op.author /\ pending'.rec.changes = op.changes
    BY <1>1 DEF LogCommit
  <2> QED BY <2>1 DEF SeenInv
<1>2. ASSUME NEW k \in {"restore", "discard"}, NEW i \in Heads, NEW f, LogMove(k, i, f) PROVE FALSE
  BY <1>2, MoveShape DEF LogMove
<1>3. ClearPending => FALSE  BY DEF ClearPending, NoPending
<1>4. WriteCommit \/ SetHead => FALSE  BY DEF WriteCommit, SetHead
<1>5. \A i : DropCommit(i) => FALSE  BY DEF DropCommit
<1> QED BY <1>1, <1>2, <1>3, <1>4, <1>5, LineSteps

HistInv == TypeOK /\ PendingInv /\ OperationInv /\ NumberInv /\ SeenInv

(* The inductive invariant is kept,                                        *)
LEMMA StepHist == HistInv /\ [NextHist]_hvars => HistInv'
<1> SUFFICES ASSUME HistInv, [NextHist]_hvars PROVE HistInv'  OBVIOUS
<1>1. [Next]_vars  BY DEF NextHist, hvars, vars
<1>2. TypeOK'  BY <1>1, StepType DEF HistInv
<1>3. PendingInv' /\ OperationInv'  BY <1>1, <1>2, StepLine DEF HistInv
<1>4. NumberInv'  BY <1>1, <1>2, StepNumbers DEF HistInv
<1>5. SeenInv'  BY <1>2, StepSeen DEF HistInv
<1> QED BY <1>2, <1>3, <1>4, <1>5 DEF HistInv

(* and holds at first.                                                     *)
LEMMA InitHistInv == InitHist => HistInv
  BY InitType, InitLine, InitNumbers, InitSeen DEF InitHist, HistInv

(* No lost update, for any number of agents, paths, versions and faults:   *)
(* an agent's commit never replaces or deletes a version of a path that    *)
(* the agent has not had in front of it.                                   *)
THEOREM NoUpdateLost == SpecHist => NoLostUpdate
<1>1. HistInv /\ [NextHist]_hvars => UpdateSeen
  <2>1. [NextHist]_hvars => [Next]_vars  BY DEF NextHist, hvars, vars
  <2> QED BY <2>1, StepUpdateSeen DEF HistInv
<1>2. NoLostUpdate <=> [][UpdateSeen]_hvars  BY DEF NoLostUpdate
<1> QED BY <1>1, <1>2, InitHistInv, StepHist, PTL DEF SpecHist

-----------------------------------------------------------------------------
(* The paths an agent has not written itself are as it pulled them, as     *)
(* long as nothing was interrupted.                                        *)
BaseOf(a) == IF op.kind \in {"pull", "resolve"} /\ op.agent = a THEN op.base ELSE index[a]

UnwrittenInv ==
  faults = MaxFaults =>
    /\ \A a \in Agents : \A p \in Paths \ edited[a] : sandbox[a][p] = BaseOf(a)[p]
    /\ op.kind = "resolve" /\ op.take = "local" => op.todo \subseteq edited[op.agent]
    /\ op.kind = "make" /\ op.author \in Agents => op.changes \subseteq edited[op.author]
    /\ OwnsBase => \A p \in Paths \ edited[pending.rec.author] :
                     pending.base[p] = sandbox[pending.rec.author][p]

(* What edited takes in.                                                   *)
LEMMA EditedSteps ==
  ASSUME TypeOK, TypeOK', UnwrittenInv, [NextHist]_hvars, faults = MaxFaults
  PROVE  /\ [Next]_vars
         /\ \A a \in Agents : edited[a] \subseteq edited'[a]
         /\ \A a \in Agents, p \in Paths :
              op.kind \in {"idle", "ready"} /\ sandbox'[a][p] # sandbox[a][p] => p \in edited'[a]
         /\ op'.kind = "resolve" /\ op'.take = "local" => op'.todo \subseteq edited'[op'.agent]
         /\ op'.kind = "make" /\ op'.author \in Agents => op'.changes \subseteq edited'[op'.author]
<1>1. CASE NextHist
  <2> DEFINE Taken(a) ==
        edited[a]
          \cup {p \in Paths : op.kind \in {"idle", "ready"} /\ sandbox'[a][p] # sandbox[a][p]}
          \cup IF op'.kind = "resolve" /\ op'.agent = a /\ op'.take = "local"
               THEN op'.todo ELSE {}
          \cup IF op'.kind = "make" /\ op'.author = a THEN op'.changes ELSE {}
  <2>1. edited' = [a \in Agents |-> Taken(a)] /\ Next  BY <1>1 DEF NextHist
  <2>2. \A a \in Agents : edited'[a] = Taken(a)  BY <2>1
  <2>3. op'.kind = "resolve" => op'.agent \in Agents
    <3>1. op' \in Op  BY DEF TypeOK
    <3> QED BY <3>1 DEF Op, Idle, Ready, PullOp, MakeOp, ApplyOp, ResolveOp
  <2> QED BY <2>1, <2>2, <2>3
<1>2. CASE UNCHANGED hvars
  BY <1>2 DEF hvars, vars, UnwrittenInv
<1> QED BY <1>1, <1>2

(* A step that is not a fault leaves the count alone.                      *)
LEMMA NoFault ==
  ASSUME TypeOK, TypeOK', [Next]_vars, faults' = MaxFaults
  PROVE  faults = MaxFaults /\ ~Fault
<1>1. faults \in 0..MaxFaults /\ MaxFaults \in Nat  BY WorkStoreAssumption DEF TypeOK
<1>2. Fault => faults' = faults - 1
  BY DEF Fault, Crash, Interrupt, TearFile, ApplyFails, PullFails
<1>3. CASE Fault  BY <1>1, <1>2, <1>3
<1>4. Proceed => faults' = faults
  BY DEF Proceed, Enter, Leave, PullEnd, ReserveId, LogCommit, ResolveEnd, WriteCommit,
     SetHead, WriteIndex, ClearPending, DropCommit, PullDecide, PullCopy, Ingest, IngestChanged,
     WriteFile, ResolveBackup, ResolveChanged, ResolveApply
<1>5. CASE Call
  <2> DEFINE Same == faults' = faults
  <2>1. \A a, S, D, l : PullBegin(a, S) \/ CommitBegin(a, S, D, l) => Same
    BY DEF PullBegin, CommitBegin
  <2>2. \A a, t, S, p, e : View(a) \/ ResolveBegin(a, t, S) \/ RestoreLost(a, p, e) => Same
    BY DEF View, ResolveBegin, RestoreLost
  <2>3. \A S, p, c, l : SyncBegin(S) \/ UploadBegin(p, c, l) \/ Gc => Same
    BY DEF SyncBegin, UploadBegin, Gc
  <2>4. \A i, f : Restore(i, f) \/ RestorePoint(i) \/ DiscardAfter(i) => Same
    BY DEF Restore, RestorePoint, DiscardAfter, LogMove
  <2>5. \A keep : RewindTo(keep) => Same
    BY DEF RewindTo, LogMove
  <2> HIDE DEF Same
  <2>6. Same
    BY <1>5, <2>1, <2>2, <2>3, <2>4, <2>5 DEF Call, Request
  <2>7. ~Fault  BY <2>6, <1>1, <1>2 DEF Same
  <2> QED BY <2>6, <2>7 DEF Same
<1>6. Edit => faults' = faults  BY DEF Edit, EditShared, EditSandbox
<1>7. UNCHANGED vars => faults' = faults  BY DEF vars
<1>8. faults' = faults => faults = MaxFaults /\ ~Fault  BY <1>1, <1>2
<1> QED BY <1>3, <1>4, <1>5, <1>6, <1>7, <1>8 DEF Next

(* The sandbox and the base move together.                                 *)
LEMMA StepUnwritten ==
  ASSUME EditsMidOp = FALSE, TypeOK, TypeOK', OperationInv, CopyInv, UnwrittenInv,
         [NextHist]_hvars, faults' = MaxFaults
  PROVE  \A a \in Agents : \A p \in Paths \ edited'[a] : sandbox'[a][p] = BaseOf(a)'[p]
<1> SUFFICES ASSUME NEW a \in Agents, NEW p \in Paths, p \notin edited'[a]
             PROVE  sandbox'[a][p] = BaseOf(a)'[p]
  OBVIOUS
<1>nx. [Next]_vars  BY DEF NextHist, hvars, vars
<1>ft. faults = MaxFaults /\ ~Fault  BY <1>nx, NoFault
<1>ed. /\ p \notin edited[a]
       /\ op.kind \in {"idle", "ready"} => sandbox'[a][p] = sandbox[a][p]
       /\ op'.kind = "resolve" /\ op'.take = "local" /\ op'.agent = a => p \notin op'.todo
  BY <1>ft, EditedSteps
<1>ih. sandbox[a][p] = BaseOf(a)[p]  BY <1>ft, <1>ed DEF UnwrittenInv
<1>op. /\ op.kind = "pull" => op \in PullOp
       /\ op.kind = "make" => op \in MakeOp
       /\ op.kind = "apply" => op \in ApplyOp
       /\ op.kind = "resolve" => op \in ResolveOp
       /\ op.kind \in {"idle", "ready", "pull", "make", "apply", "resolve"}
  BY OpShapes DEF TypeOK
<1>ty. index \in [Agents -> Tree] /\ sandbox \in [Agents -> Tree]  BY DEF TypeOK
\* Neither moves.
<1>1. ASSUME sandbox'[a][p] = sandbox[a][p], BaseOf(a)'[p] = BaseOf(a)[p]
      PROVE  sandbox'[a][p] = BaseOf(a)'[p]
  BY <1>1, <1>ih
<1>2. ASSUME UNCHANGED index, op.kind \notin {"pull", "resolve"}, op'.kind \notin {"pull", "resolve"},
             sandbox'[a][p] = sandbox[a][p]
      PROVE  sandbox'[a][p] = BaseOf(a)'[p]
  BY <1>1, <1>2 DEF BaseOf
<1>3. ASSUME UNCHANGED <<index, sandbox>>, op.kind \notin {"pull", "resolve"},
             op'.kind \in {"pull", "resolve"}, op'.base = index[op'.agent]
      PROVE  sandbox'[a][p] = BaseOf(a)'[p]
  BY <1>1, <1>3 DEF BaseOf
<1>4. ASSUME op.kind \in {"pull", "resolve"}, op'.kind \notin {"pull", "resolve"}, UNCHANGED sandbox,
             op.agent \in Agents, index' = [index EXCEPT ![op.agent] = op.base]
      PROVE  sandbox'[a][p] = BaseOf(a)'[p]
  BY <1>1, <1>4, <1>ty DEF BaseOf
\* One path moves, for the agent of the operation.
<1>5. ASSUME op.kind \in {"pull", "resolve"}, op'.kind \in {"pull", "resolve"}, UNCHANGED index,
             op'.agent = op.agent, op.agent \in Agents, op.base \in Tree, NEW q \in Paths,
             \/ op'.base = op.base
             \/ op'.base = [op.base EXCEPT ![q] = HeadTree[q]],
             sandbox' \in {sandbox, [sandbox EXCEPT ![op.agent][q] = HeadTree[q]]},
             a = op.agent /\ p = q => sandbox'[a][p] = op'.base[p]
      PROVE  sandbox'[a][p] = BaseOf(a)'[p]
  <2>1. CASE a = op.agent /\ p = q
    BY <1>5, <2>1 DEF BaseOf
  <2>2. CASE ~(a = op.agent /\ p = q)
    <3>1. sandbox'[a][p] = sandbox[a][p]  BY <1>5, <2>2, <1>ty DEF Tree
    <3>2. BaseOf(a)'[p] = BaseOf(a)[p]  BY <1>5, <2>2 DEF BaseOf, Tree
    <3> QED BY <3>1, <3>2, <1>1
  <2> QED BY <2>1, <2>2
<1>6. CASE Enter \/ Leave
  BY <1>6, <1>2 DEF Enter, Leave, Idle, Ready, Applying, disks, store
<1>7. CASE PullEnd
  <2>1. op \in PullOp /\ op.agent \in Agents /\ op.kind = "pull"  BY <1>7, <1>op DEF PullEnd, PullOp
  <2> QED BY <2>1, <1>7, <1>4 DEF PullEnd, Idle, disks
<1>8. CASE ResolveEnd
  <2>1. op \in ResolveOp /\ op.agent \in Agents /\ op.kind = "resolve"
    BY <1>8, <1>op DEF ResolveEnd, ResolveOp
  <2> QED BY <2>1, <1>8, <1>4 DEF ResolveEnd, Idle, disks
<1>9. CASE ReserveId
  <2>1. op \in MakeOp /\ op.kind = "make"  BY <1>9, <1>op DEF ReserveId
  <2>2. op'.kind = "make"  BY <2>1, <1>9 DEF ReserveId, MakeOp
  <2> QED BY <2>1, <2>2, <1>9, <1>2 DEF ReserveId, disks
<1>10. CASE LogCommit
  BY <1>10, <1>2 DEF LogCommit, Applying, disks
<1>11. CASE WriteCommit \/ SetHead
  <2>1. op \in ApplyOp /\ op.kind = "apply"  BY <1>11, <1>op DEF WriteCommit, SetHead, ApplyStage
  <2>2. op'.kind = "apply"  BY <2>1, <1>11 DEF WriteCommit, SetHead, ApplyOp
  <2> QED BY <2>1, <2>2, <1>11, <1>2 DEF WriteCommit, SetHead, disks
<1>12. CASE WriteIndex
  <2>1. op \in ApplyOp /\ op.kind = "apply" /\ OwnsBase  BY <1>12, <1>op DEF WriteIndex, ApplyStage
  <2>2. op'.kind = "apply"  BY <2>1, <1>12 DEF WriteIndex, ApplyOp
  <2>3. UNCHANGED sandbox /\ index' = [index EXCEPT ![pending.rec.author] = pending.base]
    BY <1>12 DEF WriteIndex, disks
  <2>4. CASE a = pending.rec.author
    <3>1. pending.base[p] = sandbox[a][p]  BY <1>ft, <1>ed, <2>1, <2>4 DEF UnwrittenInv
    <3> QED BY <2>2, <2>3, <2>4, <3>1, <1>ty DEF BaseOf
  <2>5. CASE a # pending.rec.author
    <3>1. index'[a] = index[a]  BY <2>3, <2>5, <1>ty
    <3> QED BY <2>1, <2>2, <2>3, <3>1, <1>1 DEF BaseOf
  <2> QED BY <2>4, <2>5
<1>13. CASE ClearPending
  <2>1. op \in ApplyOp /\ op.kind = "apply"  BY <1>13, <1>op DEF ClearPending
  <2>2. op'.kind \in {"idle", "ready"}  BY <2>1, <1>13 DEF ClearPending, ApplyOp, Idle, Ready
  <2> QED BY <2>1, <2>2, <1>13, <1>2 DEF ClearPending, disks
<1>14. ASSUME NEW i \in Ids, DropCommit(i) PROVE sandbox'[a][p] = BaseOf(a)'[p]
  BY <1>14, <1>2 DEF DropCommit, ApplyStage, disks
<1>15. ASSUME NEW q \in Paths, WriteFile(q) PROVE sandbox'[a][p] = BaseOf(a)'[p]
  <2>1. op \in ApplyOp /\ op.kind = "apply"  BY <1>15, <1>op DEF WriteFile, ApplyStage
  <2>2. op'.kind = "apply"  BY <2>1, <1>15 DEF WriteFile, ApplyOp
  <2> QED BY <2>1, <2>2, <1>15, <1>2 DEF WriteFile, store
<1>16. ASSUME NEW q \in Paths, Ingest(q) \/ IngestChanged(q) PROVE sandbox'[a][p] = BaseOf(a)'[p]
  <2>1. op \in MakeOp /\ op.kind = "make"  BY <1>16, <1>op DEF Ingest, IngestChanged, IngestTurn
  <2>2. op'.kind \in {"make", "idle"} /\ UNCHANGED <<sandbox, index>>
    BY <2>1, <1>16 DEF Ingest, IngestChanged, MakeOp, Idle, disks, store
  <2> QED BY <2>1, <2>2, <1>2
<1>17. ASSUME NEW q \in Paths, PullDecide(q) PROVE sandbox'[a][p] = BaseOf(a)'[p]
  <2>1. op \in PullOp /\ op.kind = "pull" /\ op.agent \in Agents /\ op.base \in Tree
        /\ UNCHANGED <<sandbox, index>>
    BY <1>17, <1>op DEF PullDecide, PullOp, disks, store
  <2>2. CASE op' = [op EXCEPT !.copying = {q}] \/ op' = [op EXCEPT !.want = @ \ {q}]
    <3>1. op'.agent = op.agent /\ op'.base = op.base /\ op'.kind = "pull"  BY <2>1, <2>2 DEF PullOp
    <3> QED BY <2>1, <3>1, <1>1 DEF BaseOf
  <2>3. CASE /\ PullSame(op.base[q], HeadTree[q], sandbox[op.agent][q])
             /\ op' = [op EXCEPT !.want = @ \ {q}, !.base[q] = HeadTree[q]]
    <3>1. /\ op'.agent = op.agent /\ op'.base = [op.base EXCEPT ![q] = HeadTree[q]]
          /\ op'.kind = "pull" /\ op'.base[q] = HeadTree[q]
      BY <2>1, <2>3 DEF PullOp, Tree
    <3>2. sandbox[op.agent][q] = HeadTree[q]  BY <2>3 DEF PullSame
    <3> QED BY <2>1, <3>1, <3>2, <1>5
  <2> QED BY <1>17, <2>2, <2>3, Zenon DEF PullDecide
<1>18. ASSUME NEW q \in Paths, PullCopy(q) PROVE sandbox'[a][p] = BaseOf(a)'[p]
  <2>1. op \in PullOp /\ op.kind = "pull" /\ op.agent \in Agents /\ op.base \in Tree
        /\ UNCHANGED index /\ sandbox' = [sandbox EXCEPT ![op.agent][q] = HeadTree[q]]
    BY <1>18, <1>op DEF PullCopy, PullOp, store
  <2>2. /\ op'.agent = op.agent /\ op'.base = [op.base EXCEPT ![q] = HeadTree[q]]
        /\ op'.kind = "pull" /\ op'.base[q] = HeadTree[q]
    BY <2>1, <1>18 DEF PullCopy, PullOp, Tree
  <2>3. sandbox'[op.agent][q] = HeadTree[q]  BY <2>1, <1>ty DEF Tree
  <2> QED BY <2>1, <2>2, <2>3, <1>5
<1>19. ASSUME NEW q \in Paths, ResolveBackup(q) PROVE sandbox'[a][p] = BaseOf(a)'[p]
  <2>1. op \in ResolveOp /\ op.kind = "resolve" /\ UNCHANGED <<sandbox, index>>
    BY <1>19, <1>op DEF ResolveBackup, store
  <2>2. op'.kind = "resolve" /\ op'.agent = op.agent /\ op'.base = op.base
    BY <2>1, <1>19 DEF ResolveBackup, ResolveOp
  <2> QED BY <2>1, <2>2, <1>1 DEF BaseOf
<1>20. ASSUME NEW q \in Paths, ResolveChanged(q) PROVE FALSE
  BY <1>20 DEF ResolveChanged, CopyInv
<1>21. ASSUME NEW q \in Paths, ResolveApply(q) PROVE sandbox'[a][p] = BaseOf(a)'[p]
  <2>1. op \in ResolveOp /\ op.kind = "resolve" /\ op.agent \in Agents /\ op.base \in Tree
        /\ UNCHANGED index /\ q \in op.todo
    BY <1>21, <1>op DEF ResolveApply, ResolveOp, store
  <2>2. /\ op'.agent = op.agent /\ op'.base = [op.base EXCEPT ![q] = HeadTree[q]]
        /\ op'.kind = "resolve" /\ op'.base[q] = HeadTree[q]
    BY <2>1, <1>21 DEF ResolveApply, ResolveOp, Tree
  <2>3. CASE op.take = "upstream" /\ op.found[q] # HeadTree[q]
    <3>1. sandbox' = [sandbox EXCEPT ![op.agent][q] = HeadTree[q]]  BY <2>3, <1>21 DEF ResolveApply
    <3>2. sandbox'[op.agent][q] = HeadTree[q]  BY <2>1, <3>1, <1>ty DEF Tree
    <3> QED BY <2>1, <2>2, <3>1, <3>2, <1>5
  <2>4. CASE op.take = "upstream" /\ op.found[q] = HeadTree[q]
    <3>1. sandbox' = sandbox  BY <2>4, <1>21 DEF ResolveApply
    <3>2. sandbox[op.agent][q] = HeadTree[q]  BY <2>1, <2>4 DEF CopyInv
    <3> QED BY <2>1, <2>2, <3>1, <3>2, <1>5
  <2>5. CASE op.take = "local"
    <3>1. sandbox' = sandbox  BY <2>5, <1>21 DEF ResolveApply
    <3>2. a = op.agent => p # q
      BY <1>ft, <1>ed, <2>1, <2>5 DEF UnwrittenInv
    <3> QED BY <2>1, <2>2, <3>1, <3>2, <1>5
  <2> QED BY <2>1, <2>3, <2>4, <2>5 DEF ResolveOp
\* Calls start from the locks, and edits are counted.
<1>22. CASE Call
  <2>1. op.kind = "ready" /\ op = Ready  BY <1>22 DEF Call, Ready
  <2>2. sandbox'[a][p] = sandbox[a][p]  BY <2>1, <1>ed
  <2>3. \A b, S : PullBegin(b, S) => UNCHANGED <<index, sandbox>> /\ op'.kind = "pull"
                                     /\ op'.base = index[op'.agent]
    BY DEF PullBegin, disks, store
  <2>4. \A b, t, S : ResolveBegin(b, t, S) => UNCHANGED <<index, sandbox>> /\ op'.kind = "resolve"
                                     /\ op'.base = index[op'.agent]
    BY DEF ResolveBegin, disks, store
  <2> DEFINE Quiet == UNCHANGED index /\ op'.kind \notin {"pull", "resolve"}
  <2>5. \A b, S, D, l : CommitBegin(b, S, D, l) => Quiet
    BY DEF CommitBegin, Making, store
  <2>6. \A b, q, e : View(b) \/ RestoreLost(b, q, e) => Quiet
    BY DEF View, RestoreLost, Idle, store
  <2>7. \A S, q, c, l : SyncBegin(S) \/ UploadBegin(q, c, l) \/ Gc => Quiet
    BY DEF SyncBegin, UploadBegin, Gc, Making, Idle, store
  <2>8. \A i, f : Restore(i, f) \/ RestorePoint(i) \/ DiscardAfter(i) => Quiet
    BY DEF Restore, RestorePoint, DiscardAfter, LogMove, Applying
  <2>9. \A keep : RewindTo(keep) => Quiet
    BY DEF RewindTo, LogMove, Applying
  <2> HIDE DEF Quiet
  <2>10. \/ Quiet
         \/ /\ UNCHANGED <<index, sandbox>> /\ op'.kind \in {"pull", "resolve"}
            /\ op'.base = index[op'.agent]
    BY <1>22, <2>3, <2>4, <2>5, <2>6, <2>7, <2>8, <2>9 DEF Call, Request
  <2> QED BY <2>1, <2>2, <2>10, <1>2, <1>3 DEF Quiet
<1>23. CASE Edit
  <2>1. op = Idle /\ UNCHANGED <<op, index>>
    BY <1>23 DEF Edit, EditShared, EditSandbox, store
  <2> QED BY <2>1, <1>ed, <1>2 DEF Idle
<1>24. CASE UNCHANGED vars
  BY <1>24, <1>1 DEF vars, BaseOf
<1>25. CASE Proceed
  BY <1>25, <1>6, <1>7, <1>8, <1>9, <1>10, <1>11, <1>12, <1>13, <1>14, <1>15, <1>16, <1>17,
     <1>18, <1>19, <1>20, <1>21 DEF Proceed
<1> QED BY <1>nx, <1>ft, <1>22, <1>23, <1>24, <1>25 DEF Next

(* So does the base that a commit under way will leave its author.         *)
LEMMA StepUnwrittenOwned ==
  ASSUME EditsMidOp = FALSE, TypeOK, TypeOK', OperationInv, UnwrittenInv,
         [NextHist]_hvars, faults' = MaxFaults, OwnsBase'
  PROVE  \A p \in Paths \ edited'[pending'.rec.author] :
           pending'.base[p] = sandbox'[pending'.rec.author][p]
<1> SUFFICES ASSUME NEW p \in Paths, p \notin edited'[pending'.rec.author]
             PROVE  pending'.base[p] = sandbox'[pending'.rec.author][p]
  OBVIOUS
<1>nx. [Next]_vars  BY DEF NextHist, hvars, vars
<1>ft. faults = MaxFaults  BY <1>nx, NoFault
<1>au. pending'.rec.author \in Agents  BY DEF OwnsBase
<1>ed. /\ p \notin edited[pending'.rec.author]
       /\ op.kind \in {"idle", "ready"} =>
            sandbox'[pending'.rec.author][p] = sandbox[pending'.rec.author][p]
  BY <1>ft, <1>au, EditedSteps
<1>1. CASE UNCHANGED pending
  <2>1. OwnsBase  BY <1>1 DEF OwnsBase
  <2>2. pending.base[p] = sandbox[pending.rec.author][p]
    BY <1>1, <1>ft, <1>ed, <2>1 DEF UnwrittenInv
  <2>3. pending.kind # "none"  BY <2>1 DEF OwnsBase
  <2>4. \A q : PullCopy(q) \/ ResolveApply(q) => FALSE
    BY <2>3 DEF PullCopy, ResolveApply, OperationInv
  <2>5. \A b, q, e : RestoreLost(b, q, e) => op.kind = "ready"  BY DEF RestoreLost, Ready
  <2>6. sandbox'[pending'.rec.author][p] = sandbox[pending'.rec.author][p]
    BY <1>nx, <1>ed, <2>4, <2>5, SandboxSteps DEF Idle
  <2> QED BY <1>1, <2>2, <2>6
<1>2. CASE LogCommit
  <2>1. op.kind = "make" /\ UNCHANGED sandbox /\ pending'.rec.author = op.author
    BY <1>2 DEF LogCommit, disks
  <2>2. pending'.base = Patched(index[op.author], op.changes, op.tree)
    BY <1>2, <1>au, <2>1 DEF LogCommit
  <2>3. p \notin op.changes  BY <1>ft, <1>au, <1>ed, <2>1 DEF UnwrittenInv
  <2>4. pending'.base[p] = index[op.author][p]  BY <2>2, <2>3 DEF Patched
  <2>5. sandbox[op.author][p] = index[op.author][p]
    BY <1>ft, <1>au, <1>ed, <2>1 DEF UnwrittenInv, BaseOf
  <2> QED BY <2>1, <2>4, <2>5
<1>3. ASSUME NEW k \in {"restore", "discard"}, NEW i \in Heads, NEW f, LogMove(k, i, f) PROVE FALSE
  <2>1. pending'.kind = k  BY <1>3, MoveShape DEF LogMove
  <2> QED BY <2>1 DEF OwnsBase
<1>4. ASSUME ClearPending PROVE FALSE
  BY <1>4 DEF ClearPending, NoPending, OwnsBase
<1>5. WriteCommit \/ SetHead => UNCHANGED pending  BY DEF WriteCommit, SetHead
<1>6. \A i : DropCommit(i) => UNCHANGED pending  BY DEF DropCommit
<1> QED BY <1>nx, <1>1, <1>2, <1>3, <1>4, <1>5, <1>6, LineSteps

(* What makes pulling converge, and the facts it rests on.                 *)
ConvergeInv == HistInv /\ CopyInv /\ UnwrittenInv

(* The same for the invariant of pulling.                                  *)
LEMMA InitConverge == InitHist => ConvergeInv
<1> SUFFICES ASSUME InitHist PROVE ConvergeInv  OBVIOUS
<1>1. HistInv  BY InitHistInv
<1>2. CopyInv  BY DEF InitHist, Init, CopyInv, Idle
<1>3. UnwrittenInv
  BY DEF InitHist, Init, UnwrittenInv, BaseOf, Idle, OwnsBase, NoPending
<1> QED BY <1>1, <1>2, <1>3 DEF ConvergeInv

(* Every step keeps it.                                                    *)
LEMMA StepConverge ==
  ASSUME EditsMidOp = FALSE, ConvergeInv, [NextHist]_hvars
  PROVE  ConvergeInv'
<1>1. HistInv'  BY StepHist DEF ConvergeInv
<1>2. [Next]_vars  BY DEF NextHist, hvars, vars
<1>3. TypeOK /\ TypeOK' /\ OperationInv  BY <1>1 DEF ConvergeInv, HistInv
<1>4. CopyInv'  BY <1>2, <1>3, StepCopy DEF ConvergeInv
<1>5. ASSUME faults' = MaxFaults
      PROVE  /\ \A a \in Agents : \A p \in Paths \ edited'[a] : sandbox'[a][p] = BaseOf(a)'[p]
             /\ op'.kind = "resolve" /\ op'.take = "local" => op'.todo \subseteq edited'[op'.agent]
             /\ op'.kind = "make" /\ op'.author \in Agents => op'.changes \subseteq edited'[op'.author]
             /\ OwnsBase' => \A p \in Paths \ edited'[pending'.rec.author] :
                               pending'.base[p] = sandbox'[pending'.rec.author][p]
  <2>1. faults = MaxFaults  BY <1>2, <1>3, <1>5, NoFault
  <2>2. CopyInv /\ UnwrittenInv  BY DEF ConvergeInv
  <2>3. \A a \in Agents : \A p \in Paths \ edited'[a] : sandbox'[a][p] = BaseOf(a)'[p]
    BY <1>3, <1>5, <2>2, StepUnwritten
  <2>4. /\ op'.kind = "resolve" /\ op'.take = "local" => op'.todo \subseteq edited'[op'.agent]
        /\ op'.kind = "make" /\ op'.author \in Agents => op'.changes \subseteq edited'[op'.author]
    BY <1>3, <2>1, <2>2, EditedSteps
  <2>5. OwnsBase' => \A p \in Paths \ edited'[pending'.rec.author] :
                       pending'.base[p] = sandbox'[pending'.rec.author][p]
    BY <1>3, <1>5, <2>2, StepUnwrittenOwned
  <2> QED BY <2>3, <2>4, <2>5
<1>6. UnwrittenInv'  BY <1>5 DEF UnwrittenInv
<1> QED BY <1>1, <1>4, <1>6 DEF ConvergeInv

(* What it says of a pull under way.                                       *)
LEMMA Converged == ConvergeInv => PullConverges
<1> SUFFICES ASSUME ConvergeInv, op.kind = "pull", faults = MaxFaults,
                    NEW p \in op.want \ edited[op.agent]
             PROVE  /\ ~PullConflict(op.base[p], HeadTree[p], sandbox[op.agent][p])
                    /\ ~PullOccupied(op.base[p], HeadTree[p], sandbox[op.agent][p])
  BY DEF PullConverges
<1>1. op \in PullOp  BY OpShapes DEF ConvergeInv, HistInv, TypeOK
<1>2. op.agent \in Agents /\ p \in Paths  BY <1>1 DEF PullOp
<1>3. sandbox[op.agent][p] = op.base[p]
  BY <1>2 DEF ConvergeInv, UnwrittenInv, BaseOf
<1> QED BY <1>3 DEF PullConflict, PullOccupied

(* A pull that was not interrupted ends in no conflict for a path its      *)
(* agent did not write, for any number of agents, paths and versions.      *)
THEOREM PullsAlwaysConverge ==
  ASSUME EditsMidOp = FALSE
  PROVE  SpecHist => []PullConverges
<1>1. ConvergeInv /\ [NextHist]_hvars => ConvergeInv'  BY StepConverge
<1> QED BY <1>1, InitConverge, Converged, PTL DEF SpecHist
=============================================================================
