------------------------------ MODULE WorkStore ------------------------------
(***************************************************************************)
(* The versioned shared area of one work (src/capabilities/workspace):     *)
(* the shared copy `work/', the version store `.work/' (commits, head,     *)
(* per-agent pull bases, content objects, the write-ahead record           *)
(* pending.json, the counter next-id, the backups lost/) and the agents'   *)
(* sandboxes.                                                              *)
(*                                                                         *)
(* An operation holds the work's gate and the store's file lock from       *)
(* entry to return, so at most one is inside; `op' is its volatile state.  *)
(* Every durable write is a step of its own: between two steps the         *)
(* process may die, the operation may fail, the agents may edit their      *)
(* sandboxes and, when the shared root is bound to an external directory,  *)
(* somebody may edit the shared files.                                     *)
(***************************************************************************)
EXTENDS ThreeWay, Naturals, FiniteSets

CONSTANTS
  Agents,        \* agent instance names, the seats that own a sandbox
  Paths,         \* relative paths of the shared area
  User,          \* author of an upload, seat of the main session
  Outside,       \* author of a commit that adopts external content
  External,      \* TRUE: the shared root is bound to an external directory
  Requests,      \* the operations the agents and the user call
  EditsMidOp,    \* TRUE: files are also edited while an operation runs
  MaxId,         \* bound: commit numbers are 1..MaxId
  MaxLine,       \* bound: transcript lines are 0..MaxLine
  MaxFaults      \* bound: crashes and failed writes in a behaviour

RequestKinds == {"pull", "commit", "sync", "upload", "resolve", "restore_lost",
                 "gc", "restore", "force", "rewind", "point", "discard"}

ASSUME WorkStoreAssumption ==
  /\ User \notin Agents /\ Outside \notin Agents /\ User # Outside
  /\ External \in BOOLEAN /\ EditsMidOp \in BOOLEAN
  /\ Requests \subseteq RequestKinds
  /\ MaxId \in Nat /\ MaxLine \in Nat /\ MaxFaults \in Nat

VARIABLES
  work,      \* the shared files on disk
  sandbox,   \* each agent's private files
  lost,      \* each agent's backups, one per path
  commits,   \* commits/<id>.json
  head,      \* the commit the shared line is at, 0 = none
  index,     \* each agent's pull base
  objects,   \* the content objects stored
  nextId,    \* next-id
  pending,   \* pending.json
  viewed,    \* the head each agent last looked at (what it passes as `head')
  op,        \* the operation holding the gate (volatile)
  faults     \* the crashes and failures still allowed (bound)

disks == <<work, sandbox, lost>>
store == <<commits, head, index, objects, nextId, pending>>
vars == <<work, sandbox, lost, commits, head, index, objects, nextId, pending,
          viewed, op, faults>>

Ids == 1..MaxId
Heads == 0..MaxId
Tree == [Paths -> Version]
EmptyTree == [p \in Paths |-> NoFile]
Seats == Agents \cup {User}

(* A commit record.  `changes' is the set of changed paths: the kind and   *)
(* the hash of each follow from tree.  The anchor is (author, line); a     *)
(* commit by Outside has none.                                             *)
Commit == [parent: Heads, author: Seats \cup {Outside}, line: 0..MaxLine,
           changes: SUBSET Paths, tree: Tree]
NoCommit == [parent |-> 0, author |-> Outside, line |-> 0, changes |-> {},
             tree |-> EmptyTree]

(* pending.json: `target' is the head the transaction leads to; `rec' and  *)
(* `base' (the author's new index) belong to a commit.                     *)
Pending == [kind: {"none", "commit", "restore", "discard"}, target: Heads,
            rec: Commit, base: Tree]
NoPending == [kind |-> "none", target |-> 0, rec |-> NoCommit,
              base |-> EmptyTree]
MoveHead(kind, target) == [NoPending EXCEPT !.kind = kind, !.target = target]

Existing == {i \in Ids : commits[i] # NoCommit}
TreeOf(i) == IF i = 0 THEN EmptyTree ELSE commits[i].tree
HeadTree == TreeOf(head)

(* The commits on the way from i to the root (head_ancestors).             *)
Ancestors(i) ==
  {j \in Ids : \A S \in SUBSET Ids :
      (/\ i # 0 => i \in S
       /\ \A k \in S : commits[k].parent # 0 => commits[k].parent \in S)
      => j \in S}

TargetTree == IF pending.kind = "commit" THEN pending.rec.tree
              ELSE TreeOf(pending.target)

(* The commit in pending.json carries its author's new base.               *)
OwnsBase == pending.kind = "commit" /\ pending.rec.author \in Agents

(* tree with the paths of S taken from other.                              *)
Patched(tree, S, other) == [p \in Paths |-> IF p \in S THEN other[p] ELSE tree[p]]

-----------------------------------------------------------------------------
(* The volatile state of an operation.                                     *)

Idle == [kind |-> "idle"]
Ready == [kind |-> "ready"]     \* inside the locks, recovered, before the call

(* A transaction being applied: `files' are the shared paths still to be   *)
(* written, `attempt' is 1 while settle may still replay it, `then' is     *)
(* what follows it: the return, or the call recovery was run for.          *)
FilesToWriteOnly(pd) ==       \* mutant: files only head has are not removed
  IF pd.kind = "commit" THEN pd.rec.changes
  ELSE {p \in Paths : TreeOf(pd.target)[p] # NoFile}

FilesToMove(pd) ==
  IF pd.kind = "commit" THEN pd.rec.changes
  ELSE {p \in Paths : TreeOf(pd.target)[p] # NoFile \/ HeadTree[p] # NoFile}

Applying(pd, attempt, then) ==
  [kind |-> "apply", stage |-> "files", attempt |-> attempt, then |-> then,
   files |-> FilesToMove(pd)]

(* A commit being prepared: `ingest' are the paths whose content is not    *)
(* known to be in the object store yet, id = 0 until one is reserved.      *)
Making(author, line, changes, tree) ==
  [kind |-> "make", author |-> author, line |-> line, changes |-> changes,
   tree |-> tree, id |-> 0,
   ingest |-> {p \in changes : tree[p] # NoFile}]

(* Every value of op.                                                      *)
Authors == Seats \cup {Outside}
PullOp == [kind: {"pull"}, agent: Agents, base: Tree, copying: SUBSET Paths,
           want: SUBSET Paths]
MakeOp == [kind: {"make"}, author: Authors, line: 0..MaxLine,
           changes: SUBSET Paths, tree: Tree, id: Heads, ingest: SUBSET Paths]
ApplyOp == [kind: {"apply"}, stage: {"files", "recorded", "headed", "indexed"},
            attempt: {1, 2}, then: {Idle, Ready}, files: SUBSET Paths]
ResolveOp == [kind: {"resolve"}, agent: Agents, take: {"upstream", "local"},
              todo: SUBSET Paths, found: Tree, base: Tree, backup: SUBSET Paths]
Op == {Idle, Ready} \cup PullOp \cup MakeOp \cup ApplyOp \cup ResolveOp

EnterReplaying ==             \* mutant: replays without looking for a record
  /\ op = Idle
  /\ op' = Applying(pending, 2, Ready)
  /\ UNCHANGED <<disks, store, viewed, faults>>

EnterIgnoring ==              \* mutant: leaves the record where it is
  /\ op = Idle
  /\ op' = Ready
  /\ UNCHANGED <<disks, store, viewed, faults>>

(* Every operation takes the locks and replays a pending transaction.      *)
Enter ==
  /\ op = Idle
  /\ op' = IF pending.kind = "none" THEN Ready ELSE Applying(pending, 2, Ready)
  /\ UNCHANGED <<disks, store, viewed, faults>>

(* work_recover, work_head, work_log, and every call that is refused.      *)
Leave ==
  /\ op = Ready
  /\ op' = Idle
  /\ UNCHANGED <<disks, store, viewed, faults>>

-----------------------------------------------------------------------------
(* work_pull                                                               *)

PullBegin(a, S) ==
  /\ op = Ready /\ head # 0
  /\ op' = [kind |-> "pull", agent |-> a, base |-> index[a], copying |-> {},
            want |-> {p \in S : HeadTree[p] # NoFile}]
  /\ UNCHANGED <<disks, store, viewed, faults>>

(* Look at one path.  On an external root a path whose disk content is not *)
(* the head version is only reported.                                      *)
PullDecide(p) ==
  LET base == op.base[p]
      local == sandbox[op.agent][p]
      withheld == External /\ work[p] # HeadTree[p]
  IN
  /\ op.kind = "pull" /\ op.copying = {} /\ p \in op.want
  /\ \/ /\ ~withheld /\ PullUpdate(base, HeadTree[p], local)
        /\ op' = [op EXCEPT !.copying = {p}]
     \/ /\ ~withheld /\ PullSame(base, HeadTree[p], local)
        /\ op' = [op EXCEPT !.want = @ \ {p}, !.base[p] = HeadTree[p]]
     \/ /\ \/ withheld
           \/ /\ ~PullUpdate(base, HeadTree[p], local)
              /\ ~PullSame(base, HeadTree[p], local)
        /\ op' = [op EXCEPT !.want = @ \ {p}]
  /\ UNCHANGED <<disks, store, viewed, faults>>

PullCopyNoBase(p) ==          \* mutant: the base stays where it was
  /\ op.kind = "pull" /\ op.copying = {p}
  /\ HeadTree[p] \in objects
  /\ sandbox' = [sandbox EXCEPT ![op.agent][p] = HeadTree[p]]
  /\ op' = [op EXCEPT !.want = @ \ {p}, !.copying = {}]
  /\ UNCHANGED <<work, lost, store, viewed, faults>>

PullCopy(p) ==
  /\ op.kind = "pull" /\ op.copying = {p}
  /\ HeadTree[p] \in objects
  /\ sandbox' = [sandbox EXCEPT ![op.agent][p] = HeadTree[p]]
  /\ op' = [op EXCEPT !.want = @ \ {p}, !.copying = {}, !.base[p] = HeadTree[p]]
  /\ UNCHANGED <<work, lost, store, viewed, faults>>

(* The base is written once, at the end or when a path fails.              *)
PullEnd ==
  /\ op.kind = "pull" /\ op.want = {}
  /\ index' = [index EXCEPT ![op.agent] = op.base]
  /\ viewed' = [viewed EXCEPT ![op.agent] = head]     \* the report names it
  /\ op' = Idle
  /\ UNCHANGED <<disks, commits, head, objects, nextId, pending, faults>>

PullFails ==
  /\ op.kind = "pull" /\ op.want # {} /\ faults > 0
  /\ index' = [index EXCEPT ![op.agent] = op.base]
  /\ op' = Idle /\ faults' = faults - 1
  /\ UNCHANGED <<disks, commits, head, objects, nextId, pending, viewed>>

-----------------------------------------------------------------------------
(* work_commit, work_sync and work_commit_user                             *)

(* Bound: a commit starts only while a number is left.                     *)
IdLeft == nextId <= MaxId

UntouchedIfKept(p, local) ==  \* mutant: deletions are not checked
  local # NoFile => work[p] = HeadTree[p]

(* reject_external_changes: the disk still holds what head says.           *)
Untouched(p, local) ==
  work[p] = HeadTree[p] \/ (local = NoFile /\ work[p] = NoFile)

CommitBegin(a, S, D, line) ==
  LET local == [p \in Paths |-> IF p \in S THEN sandbox[a][p] ELSE NoFile]
      changes == {p \in S \cup D : PlanChange(index[a][p], HeadTree[p], local[p])}
  IN
  /\ op = Ready /\ IdLeft
  /\ S \cap D = {} /\ \A p \in S : sandbox[a][p] # NoFile
  /\ External => \A p \in S \cup D : Untouched(p, local[p])
  /\ \A p \in S \cup D : ~PlanConflict(index[a][p], HeadTree[p], local[p])
  /\ changes # {}
  /\ op' = Making(a, line, changes, Patched(HeadTree, changes, local))
  /\ UNCHANGED <<disks, store, viewed, faults>>

(* work_sync adopts the disk content of the paths S; work_import_root and  *)
(* work_sync_tracked call it with paths they found without the lock.       *)
SyncBegin(S) ==
  LET changes == {p \in S : work[p] # HeadTree[p]} IN
  /\ op = Ready /\ IdLeft /\ changes # {}
  /\ op' = Making(Outside, 0, changes, Patched(HeadTree, changes, work))
  /\ UNCHANGED <<disks, store, viewed, faults>>

UploadBegin(p, content, line) ==
  /\ op = Ready /\ IdLeft
  /\ op' = Making(User, line, {p}, [HeadTree EXCEPT ![p] = content])
  /\ UNCHANGED <<disks, store, viewed, faults>>

(* work_commit reserves its number before it stores objects, the other two *)
(* after.                                                                  *)
IngestTurn == op.kind = "make" /\ (op.author \in Agents => op.id # 0)

(* What is read from the source when p is stored (an upload carries its    *)
(* own bytes) must still be what was planned.                              *)
Source(p) ==
  IF op.author = User THEN op.tree[p]
  ELSE IF op.author = Outside THEN work[p] ELSE sandbox[op.author][p]

SourceAssumed(p) == Source(p) # NoFile    \* mutant: the hash is not compared
SourceIntact(p) == Source(p) = op.tree[p]

Ingest(p) ==
  /\ IngestTurn /\ p \in op.ingest
  /\ op.tree[p] \in objects \/ SourceIntact(p)
  /\ objects' = objects \cup {IF op.tree[p] \in objects THEN op.tree[p] ELSE Source(p)}
  /\ op' = [op EXCEPT !.ingest = @ \ {p}]
  /\ UNCHANGED <<disks, commits, head, index, nextId, pending, viewed, faults>>

IngestChanged(p) ==
  /\ IngestTurn /\ p \in op.ingest
  /\ op.tree[p] \notin objects /\ ~SourceIntact(p)
  /\ op' = Idle
  /\ UNCHANGED <<disks, store, viewed, faults>>

FreshAfterHead(n) == n = head + 1     \* mutant: next-id is not consulted
FreshId(n) ==
  /\ n >= nextId /\ \A i \in Existing : n > i
  /\ n = nextId \/ n - 1 \in Existing

ReserveId ==
  /\ op.kind = "make" /\ op.id = 0
  /\ op.author \in Agents \/ op.ingest = {}
  /\ \E n \in Ids :
       /\ FreshId(n)
       /\ op' = [op EXCEPT !.id = n]
       /\ nextId' = n + 1
  /\ UNCHANGED <<disks, commits, head, index, objects, pending, viewed, faults>>

Numbered == op.id # 0                 \* mutant: logged before it is stored
Prepared == op.id # 0 /\ op.ingest = {}

(* The commit is decided here: the author's base moves with it.            *)
LogCommit ==
  LET rec == [parent |-> head, author |-> op.author, line |-> op.line,
              changes |-> op.changes, tree |-> op.tree]
      base == IF op.author \in Agents
              THEN Patched(index[op.author], op.changes, op.tree)
              ELSE EmptyTree
      pd == [kind |-> "commit", target |-> op.id, rec |-> rec, base |-> base]
  IN
  /\ op.kind = "make" /\ Prepared
  /\ pending' = pd
  /\ op' = Applying(pd, 1, Idle)
  /\ UNCHANGED <<disks, commits, head, index, objects, nextId, viewed, faults>>

-----------------------------------------------------------------------------
(* Moving the shared line to another commit                                *)

MoveConflictOnWrite(p, to) ==         \* mutant: removals are not checked
  to[p] # NoFile /\ work[p] # HeadTree[p]

(* external_materialize_conflicts: content the move would destroy that is  *)
(* not the version head recorded.                                          *)
MoveConflict(p, to) ==
  \/ HeadTree[p] # NoFile /\ to[p] = NoFile /\ work[p] \notin {NoFile, HeadTree[p]}
  \/ to[p] # NoFile /\ work[p] # HeadTree[p]

LogMove(kind, target, force) ==
  LET pd == MoveHead(kind, target) IN
  /\ op = Ready
  /\ External /\ ~force => \A p \in Paths : ~MoveConflict(p, TreeOf(target))
  /\ pending' = pd
  /\ op' = Applying(pd, 1, Idle)
  /\ UNCHANGED <<disks, commits, head, index, objects, nextId, viewed, faults>>

(* work_restore and work_restore_force                                     *)
Restore(i, force) == i \in Existing /\ LogMove("restore", i, force)

RestorePointUnchecked(i) == LogMove("restore", i, FALSE)   \* mutant: any number

(* work_restore_point                                                      *)
RestorePoint(i) == i \in Existing \cup {0} /\ LogMove("restore", i, FALSE)

(* work_discard_after                                                      *)
DiscardAfter(i) == i \in Existing \cup {0} /\ LogMove("discard", i, FALSE)

(* work_rewind_to: the last commit of the current line whose own anchor is *)
(* not past the line its seat keeps; a seat without an entry keeps none.   *)
Within(i, keep) ==
  LET c == commits[i] IN
  c.author = Outside \/ (c.author \in DOMAIN keep /\ c.line <= keep[c.author])

RewindAnywhere(keep, t) ==            \* mutant: off the current line too
  LET line == {i \in Existing : Within(i, keep)} IN
  IF line = {} THEN t = 0 ELSE t \in line /\ \A i \in line : i <= t

RewindTarget(keep, t) ==
  LET line == {i \in Ancestors(head) \cap Existing : Within(i, keep)} IN
  IF line = {} THEN t = 0 ELSE t \in line /\ \A i \in line : i <= t

RewindTo(keep) == \E t \in Heads : RewindTarget(keep, t)
                                   /\ LogMove("restore", t, FALSE)

-----------------------------------------------------------------------------
(* apply_commit_pending, materialize and discard_commits_locked, run by    *)
(* the operation itself and again by recover_locked.                       *)

ApplyStage(stage) == op.kind = "apply" /\ op.stage = stage

(* A pending commit older than head is refused.                            *)
NotStale == pending.kind = "commit" => head <= pending.target

FileReady(p) == TargetTree[p] \in objects \cup {NoFile}

WriteFile(p) ==
  /\ ApplyStage("files") /\ p \in op.files /\ NotStale /\ FileReady(p)
  /\ work' = [work EXCEPT ![p] = TargetTree[p]]
  /\ op' = [op EXCEPT !.files = @ \ {p}]
  /\ UNCHANGED <<sandbox, lost, store, viewed, faults>>

(* An upload is written in place: what a crash leaves may be any content.  *)
TearFile(p, content) ==
  /\ ApplyStage("files") /\ p \in op.files /\ NotStale /\ FileReady(p)
  /\ pending.kind = "commit" /\ pending.rec.author = User
  /\ faults > 0
  /\ work' = [work EXCEPT ![p] = content]
  /\ op' = Idle /\ faults' = faults - 1
  /\ UNCHANGED <<sandbox, lost, store, viewed>>

WriteCommit ==
  /\ ApplyStage("files") /\ op.files = {} /\ NotStale
  /\ pending.kind = "commit"
  /\ commits' = [commits EXCEPT ![pending.target] = pending.rec]
  /\ op' = [op EXCEPT !.stage = "recorded"]
  /\ UNCHANGED <<disks, head, index, objects, nextId, pending, viewed, faults>>

SetHead ==
  /\ op.kind = "apply" /\ op.files = {}
  /\ op.stage = IF pending.kind = "commit" THEN "recorded" ELSE "files"
  /\ head' = pending.target
  /\ op' = [op EXCEPT !.stage = "headed"]
  /\ UNCHANGED <<disks, commits, index, objects, nextId, pending, viewed, faults>>

WriteIndex ==
  /\ ApplyStage("headed") /\ OwnsBase
  /\ index' = [index EXCEPT ![pending.rec.author] = pending.base]
  /\ op' = [op EXCEPT !.stage = "indexed"]
  /\ UNCHANGED <<disks, commits, head, objects, nextId, pending, viewed, faults>>

DroppedAllButKept == IF pending.kind = "discard"    \* mutant: no ancestors
                     THEN Existing \ {pending.target} ELSE {}

Dropped == IF pending.kind = "discard"
           THEN Existing \ Ancestors(pending.target) ELSE {}

(* Commit records are removed in ascending order.                          *)
DropCommit(i) ==
  /\ ApplyStage("headed") /\ i \in Dropped /\ \A j \in Dropped : i <= j
  /\ commits' = [commits EXCEPT ![i] = NoCommit]
  /\ UNCHANGED <<disks, head, index, objects, nextId, pending, viewed, op, faults>>

ClearPending ==
  /\ op.kind = "apply" /\ Dropped = {}
  /\ op.stage = IF OwnsBase THEN "indexed" ELSE "headed"
  /\ pending' = NoPending
  /\ op' = op.then
  /\ UNCHANGED <<disks, commits, head, index, objects, nextId, viewed, faults>>

(* A write of the transaction fails.  settle replays it once; a second     *)
(* failure, or one while recovering, leaves it to the next operation.      *)
ApplyFails ==
  /\ op.kind = "apply" /\ faults > 0
  /\ op' = IF op.attempt = 1 THEN Applying(pending, 2, Idle) ELSE Idle
  /\ faults' = faults - 1
  /\ UNCHANGED <<disks, store, viewed>>

-----------------------------------------------------------------------------
(* work_status and work_versions: the agent learns the head.               *)
View(a) ==
  /\ op = Ready /\ viewed[a] # head
  /\ viewed' = [viewed EXCEPT ![a] = head]
  /\ op' = Idle
  /\ UNCHANGED <<disks, store, faults>>

(* work_resolve                                                            *)

LookedOnce(a) == viewed[a] # 0        \* mutant: any head will do
ExpectsHead(a) == viewed[a] = head

ResolveBegin(a, take, S) ==
  LET want == {p \in S : \/ index[a][p] # NoFile \/ HeadTree[p] # NoFile
                         \/ sandbox[a][p] # NoFile} IN
  /\ op = Ready /\ want # {}
  /\ take = "local" /\ head # 0 => ExpectsHead(a)
  /\ take = "local" =>
       \A p \in want : ~TakeLocalDenied(index[a][p], HeadTree[p], sandbox[a][p])
  /\ op' = [kind |-> "resolve", agent |-> a, take |-> take, todo |-> want,
            found |-> sandbox[a], base |-> index[a],
            backup |-> {p \in want : take = "upstream"
                                 /\ NeedsBackup(HeadTree[p], sandbox[a][p])}]
  /\ UNCHANGED <<disks, store, viewed, faults>>

(* Every backup is made before anything is overwritten.                    *)
ResolveBackup(p) ==
  /\ op.kind = "resolve" /\ p \in op.backup
  /\ sandbox[op.agent][p] = op.found[p]
  /\ lost' = [lost EXCEPT ![op.agent][p] = op.found[p]]
  /\ op' = [op EXCEPT !.backup = @ \ {p}]
  /\ UNCHANGED <<work, sandbox, store, viewed, faults>>

ResolveChangedWaits(p) == FALSE       \* mutant: never gives up

ResolveChanged(p) ==
  /\ op.kind = "resolve" /\ p \in op.backup
  /\ sandbox[op.agent][p] # op.found[p]
  /\ op' = Idle
  /\ UNCHANGED <<disks, store, viewed, faults>>

ResolveApply(p) ==
  /\ op.kind = "resolve" /\ op.backup = {} /\ p \in op.todo
  /\ IF op.take = "upstream" /\ op.found[p] # HeadTree[p]
     THEN /\ HeadTree[p] \in objects \cup {NoFile}
          /\ sandbox' = [sandbox EXCEPT ![op.agent][p] = HeadTree[p]]
     ELSE UNCHANGED sandbox
  /\ op' = [op EXCEPT !.todo = @ \ {p}, !.base[p] = HeadTree[p]]
  /\ UNCHANGED <<work, lost, store, viewed, faults>>

ResolveEnd ==
  /\ op.kind = "resolve" /\ op.todo = {}
  /\ index' = [index EXCEPT ![op.agent] = op.base]
  /\ op' = Idle
  /\ UNCHANGED <<disks, commits, head, objects, nextId, pending, viewed, faults>>

(* work_restore_lost: the caller names the content it is replacing.        *)
RestoreLost(a, p, expected) ==
  /\ op = Ready /\ lost[a][p] # NoFile /\ sandbox[a][p] = expected
  /\ sandbox' = [sandbox EXCEPT ![a][p] = lost[a][p]]
  /\ op' = Idle
  /\ UNCHANGED <<work, lost, store, viewed, faults>>

(* work_gc: some of the unreachable objects (all of them, unless it fails).*)
ReachableFromCommits ==       \* mutant: bases do not keep objects
  {commits[i].tree[p] : i \in Existing, p \in Paths}
Reachable == {commits[i].tree[p] : i \in Existing, p \in Paths}
             \cup {index[a][p] : a \in Agents, p \in Paths}
Gc ==
  /\ op = Ready
  /\ \E S \in SUBSET (objects \ Reachable) : objects' = objects \ S
  /\ op' = Idle
  /\ UNCHANGED <<disks, commits, head, index, nextId, pending, viewed, faults>>

-----------------------------------------------------------------------------
(* The world around an operation.                                          *)

EditSandbox(a, p, content) ==
  /\ sandbox' = [sandbox EXCEPT ![a][p] = content]
  /\ UNCHANGED <<work, lost, store, viewed, op, faults>>

EditShared(p, content) ==
  /\ External
  /\ work' = [work EXCEPT ![p] = content]
  /\ UNCHANGED <<sandbox, lost, store, viewed, op, faults>>

(* The process dies, or a step outside a transaction fails and the         *)
(* operation returns an error: what is on disk stays.                      *)
Interrupt ==
  /\ op \notin {Idle, Ready} /\ faults > 0
  /\ op' = Idle /\ faults' = faults - 1
  /\ UNCHANGED <<disks, store, viewed>>

-----------------------------------------------------------------------------
Init ==
  /\ work \in IF External THEN Tree ELSE {EmptyTree}
  /\ sandbox = [a \in Agents |-> EmptyTree]
  /\ lost = [a \in Agents |-> EmptyTree]
  /\ commits = [i \in Ids |-> NoCommit]
  /\ head = 0
  /\ index = [a \in Agents |-> EmptyTree]
  /\ objects = {}
  /\ nextId = 1
  /\ pending = NoPending
  /\ viewed = [a \in Agents |-> 0]
  /\ op = Idle
  /\ faults = MaxFaults

Lines == 0..MaxLine
Keeps == UNION {[D -> Lines] : D \in SUBSET Seats}
NonEmpty == (SUBSET Paths) \ {{}}

(* What callers ask for, once the locks are held.                          *)
Request ==
  \/ \E a \in Agents :
       \/ "pull" \in Requests /\ \E S \in NonEmpty : PullBegin(a, S)
       \/ "commit" \in Requests /\ \E S, D \in SUBSET Paths, line \in Lines :
            CommitBegin(a, S, D, line)
       \/ "resolve" \in Requests /\ View(a)
       \/ "resolve" \in Requests
          /\ \E S \in NonEmpty, take \in {"upstream", "local"} : ResolveBegin(a, take, S)
       \/ "restore_lost" \in Requests
          /\ \E p \in Paths, expected \in Version : RestoreLost(a, p, expected)
  \/ "sync" \in Requests /\ \E S \in NonEmpty : SyncBegin(S)
  \/ "upload" \in Requests
     /\ \E p \in Paths, c \in Contents, line \in Lines : UploadBegin(p, c, line)
  \/ "restore" \in Requests /\ \E i \in Ids : Restore(i, FALSE)
  \/ "force" \in Requests /\ \E i \in Ids : Restore(i, TRUE)
  \/ "point" \in Requests /\ \E i \in Heads : RestorePoint(i)
  \/ "discard" \in Requests /\ \E i \in Heads : DiscardAfter(i)
  \/ "rewind" \in Requests /\ \E keep \in Keeps : RewindTo(keep)
  \/ "gc" \in Requests /\ Gc

Call == op = Ready /\ Request

(* The steps that carry the operation inside the locks to its return.      *)
Proceed ==
  \/ Enter \/ Leave
  \/ PullEnd \/ ReserveId \/ LogCommit \/ ResolveEnd
  \/ WriteCommit \/ SetHead \/ WriteIndex \/ ClearPending
  \/ \E i \in Ids : DropCommit(i)
  \/ \E p \in Paths :
       \/ PullDecide(p) \/ PullCopy(p) \/ Ingest(p) \/ IngestChanged(p)
       \/ WriteFile(p)
       \/ ResolveBackup(p) \/ ResolveChanged(p) \/ ResolveApply(p)

Crash ==
  /\ faults > 0
  /\ Interrupt \/ \E p \in Paths, c \in Version : TearFile(p, c)

Fault == Crash \/ ApplyFails \/ PullFails

Edit ==
  /\ EditsMidOp \/ op = Idle
  /\ \E p \in Paths, c \in Version :
       EditShared(p, c) \/ \E a \in Agents : EditSandbox(a, p, c)

Next == Proceed \/ Call \/ Fault \/ Edit

Spec == Init /\ [][Next]_vars

(* Operations return unless a write keeps failing, and a work in use is    *)
(* operated on again (work_recover runs before an upload, recover_locked   *)
(* in every call).                                                         *)
FairSpec == Spec /\ WF_vars(Proceed)

-----------------------------------------------------------------------------
(* Type invariant: every variable keeps the shape the code stores, and an  *)
(* operation that applies has a transaction to apply.                      *)
TypeOK ==
  /\ work \in Tree
  /\ sandbox \in [Agents -> Tree]
  /\ lost \in [Agents -> Tree]
  /\ commits \in [Ids -> Commit]
  /\ head \in Heads
  /\ index \in [Agents -> Tree]
  /\ objects \in SUBSET Version
  /\ nextId \in 1..(MaxId + 1)
  /\ pending \in Pending
  /\ viewed \in [Agents -> Heads]
  /\ op \in Op
  /\ op.kind = "apply" => pending.kind # "none"
  /\ faults \in 0..MaxFaults

(* Whatever the crash point, the history behind head is complete: reading  *)
(* the head tree or walking parents never meets a missing record           *)
(* (head_tree, head_ancestors, discard_commits_locked).                    *)
LineIntact == head # 0 => Ancestors(head) \subseteq Existing /\ head \in Existing

(* Every fingerprint a commit, a base or a logged commit names has its     *)
(* object, across crashes, discards, collections and sandbox edits during  *)
(* the copy (ingest_under, work_gc).                                       *)
ObjectsPresent ==
  /\ \A i \in Existing, p \in Paths : commits[i].tree[p] \in objects \cup {NoFile}
  /\ \A a \in Agents, p \in Paths : index[a][p] \in objects \cup {NoFile}
  /\ pending.kind = "commit" =>
       \A p \in Paths : pending.rec.tree[p] \in objects \cup {NoFile}

(* On an internal root the shared files are the head tree whenever no      *)
(* transaction is open, and between the old and the new tree while one is  *)
(* (apply_commit_pending, materialize, recover_locked).                    *)
SharedIsHead ==
  \A p \in Paths :
    IF pending.kind = "none" THEN work[p] = HeadTree[p]
    ELSE \/ work[p] \in {HeadTree[p], TargetTree[p]}
         \/ pending.rec.author = User /\ p \in pending.rec.changes

(* A logged transaction can always be replayed: its commit is not older    *)
(* than head, the commit it moves to exists, its contents are stored.      *)
ReplayCanComplete ==
  pending.kind # "none" =>
    /\ pending.kind = "commit" => head <= pending.target
    /\ pending.kind # "commit" => pending.target \in Existing \cup {0}
    /\ \A p \in Paths : TargetTree[p] \in objects \cup {NoFile}

(* Why they hold: what an open transaction, a commit being prepared and an *)
(* operation being applied guarantee between any two steps.  What they say *)
(* of the shared files holds on an internal root.                          *)
PendingInv ==
  /\ head \in Existing \cup {0}
  /\ pending.kind = "none" => External \/ work = HeadTree
  /\ pending.kind = "commit" =>
       /\ pending.target # 0 /\ pending.rec # NoCommit /\ head <= pending.target
       /\ commits[pending.target] \in {NoCommit, pending.rec}
       /\ head = pending.target => commits[pending.target] = pending.rec
       /\ \A p \in Paths \ pending.rec.changes : pending.rec.tree[p] = HeadTree[p]
  /\ pending.kind \in {"restore", "discard"} =>
       pending.target \in Existing \cup {0} /\ pending.rec = NoCommit
  /\ pending.kind # "none" =>
       \A p \in Paths : \/ External \/ work[p] \in {HeadTree[p], TargetTree[p]}
                        \/ pending.rec.author = User /\ p \in pending.rec.changes

OperationInv ==
  /\ op.kind \in {"ready", "pull", "make", "resolve"} => pending.kind = "none"
  /\ op.kind = "make" =>
       /\ op.changes # {}
       /\ \A p \in Paths \ op.changes : op.tree[p] = HeadTree[p]
       /\ op.id # 0 => \A i \in Existing : i < op.id
  /\ ApplyStage("files") =>
       /\ \A p \in Paths \ op.files : External \/ work[p] = TargetTree[p]
       /\ pending.kind = "commit" => op.files \subseteq pending.rec.changes
  /\ ApplyStage("recorded") => pending.kind = "commit"
  /\ op.kind = "apply" /\ op.stage # "files" =>
       /\ External \/ work = TargetTree
       /\ pending.kind = "commit" => commits[pending.target] = pending.rec
  /\ op.kind = "apply" /\ op.stage \in {"headed", "indexed"} => head = pending.target

(* The same for the content objects, which only work_gc removes.           *)
ObjectsInv ==
  /\ ObjectsPresent
  /\ OwnsBase => \A p \in Paths : pending.base[p] \in objects \cup {NoFile}
  /\ op.kind = "make" =>
       \A p \in Paths \ op.ingest : op.tree[p] \in objects \cup {NoFile}
  /\ op.kind \in {"pull", "resolve"} =>
       \A p \in Paths : op.base[p] \in objects \cup {NoFile}

(* Pulling or resolving never destroys the only copy of a sandbox file: it *)
(* is stored as an object or was backed up first (needs_backup,            *)
(* copy_under_to_under before copy_object_to_under).                       *)
EditSurvives ==
  op.kind \in {"pull", "resolve"} /\ op' # op =>
    \A a \in Agents, p \in Paths :
      sandbox'[a][p] # sandbox[a][p] =>
        sandbox[a][p] \in objects \cup {NoFile, lost[a][p]}
EditsSurvive == [][EditSurvives]_vars

(* On an external root an operation replaces or removes a file only when   *)
(* the disk still holds the version head recorded; the user's own upload   *)
(* is the exception (reject_external_changes,                              *)
(* external_materialize_conflicts).                                        *)
EditKept ==
  External /\ op.kind = "apply" =>
    \A p \in Paths : work'[p] # work[p] =>
      work[p] \in {HeadTree[p], TargetTree[p]} \/ pending.rec.author = User
ExternalEditsKept == [][EditKept]_vars

(* Going back along the transcript drops no commit of the current line     *)
(* that every seat still keeps, whatever line the commits were made on     *)
(* (work_rewind_to looks only along head_ancestors).                       *)
RewindLosesNothingKept ==
  op = Ready => \A keep \in Keeps, t \in Heads :
    RewindTarget(keep, t) =>
      \A i \in Ancestors(head) \ Ancestors(t) : ~Within(i, keep)

(* A transaction is never left open for ever (recover_locked in every      *)
(* operation), and every operation gives the gate and the store lock back. *)
PendingSettles ==
  /\ pending.kind # "none" ~> pending.kind = "none"
  /\ op.kind # "idle" ~> op.kind = "idle"

-----------------------------------------------------------------------------
(* What the callers see: the write-ahead record makes every operation      *)
(* atomic.  The line has moved once the transaction is on disk.            *)
SharedArea == IF pending # NoPending THEN TargetTree
              ELSE IF External THEN HeadTree ELSE work
SharedAt == IF pending = NoPending THEN head ELSE pending.target
Kept == Ancestors(pending.target)
SharedHistory ==
  CASE pending.kind = "commit" -> [commits EXCEPT ![pending.target] = pending.rec]
    [] pending.kind = "discard" ->
         [i \in Ids |-> IF i \in Kept THEN commits[i] ELSE NoCommit]
    [] OTHER -> commits
SharedBase == IF OwnsBase THEN [index EXCEPT ![pending.rec.author] = pending.base]
              ELSE index
SharedFresh == IF op.kind = "make" /\ op.id # 0 THEN op.id ELSE nextId

Shared == INSTANCE SharedLine WITH
  area <- SharedArea, line <- SharedAt, history <- SharedHistory, base <- SharedBase,
  fresh <- SharedFresh

(* Crash anywhere, the store behaves as the line of SharedLine.            *)
ImplementsSharedLine == Shared!Spec
=============================================================================
