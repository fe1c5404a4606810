---------------------------- MODULE BuildVolumes ----------------------------
(***************************************************************************)
(* Building a module inside a virtual root: the state file that says what  *)
(* was built, the cache volume of each root with its lock file and its     *)
(* queue of workspaces to drop, the builders that wait for a volume, and   *)
(* storage, which deletes volumes nobody seems to use.                     *)
(*                                                                         *)
(* Lock files carry the process that wrote them.  Both a waiting builder   *)
(* and storage look at the file and remove whatever file has its name      *)
(* later; `raced` remembers the roots where a lock was taken in between,   *)
(* until nobody works there.  Nothing depends on it.                       *)
(***************************************************************************)
EXTENDS Naturals, FiniteSets

CONSTANTS
  Builders,   \* the calls of ensure_many or build that may run at once
  Roots,      \* the virtual roots
  MaxEdits,   \* bound: how often the source is edited
  MaxLocks    \* bound: lock files written

VARIABLES
  source,   \* the version of the module's source
  state,    \* build-state: target and fingerprint of the last build
  product,  \* what lies in the module's directory
  lock,     \* the lock file of each root: its number, writer, and age
  volume,   \* the cache volume of each root: there or not
  purge,    \* roots whose workspace is queued to be dropped
  builder,  \* where each builder stands
  janitor,  \* the volume storage found unused and is deleting, file by file
  locks,    \* how many lock files were written
  raced     \* roots where a lock was taken when somebody had looked, to remove it

vars == <<source, state, product, lock, volume, purge, builder, janitor, locks, raced>>

NoRoot == "none"
NoLock == [file |-> 0, by |-> "nobody", old |-> FALSE, alive |-> FALSE]
Idle == [pc |-> "idle", root |-> NoRoot, seen |-> 0, file |-> 0, copy |-> 0]
Away == [at |-> NoRoot, pc |-> "rest"]

Init ==
  /\ source = 1
  /\ state = [target |-> NoRoot, seen |-> 0]
  /\ product = [target |-> NoRoot, copy |-> 0, whole |-> TRUE]
  /\ lock = [r \in Roots |-> NoLock]
  /\ volume \in [Roots -> BOOLEAN]
  /\ purge = {}
  /\ builder = [b \in Builders |-> Idle]
  /\ janitor = Away /\ locks = 0 /\ raced = {}

Goto(b, pc) == builder' = [builder EXCEPT ![b].pc = pc]
On(b) == builder[b].root

\* Between taking the lock and giving it back.
Works(s) == s.pc \in {"volume", "mount", "build", "copying", "finish", "stop"}
Holds(b) == Works(builder[b])

\* A user, or git, changes the source; an older version never comes back.
Edit ==
  /\ source <= MaxEdits
  /\ source' = source + 1
  /\ UNCHANGED <<state, product, lock, volume, purge, builder, janitor, locks, raced>>

(***************************************************************************)
(* guest: the fingerprint is taken, the entries and the state are compared,*)
(* all before the lock; a hit ends the call.  With no entries there is no  *)
(* hit, and a module whose entries are of another target is built again.   *)
(***************************************************************************)
Fresh(r) == product.copy # 0 /\ state = [target |-> r, seen |-> source]

Plan(b) ==
  /\ builder[b].pc = "idle"
  /\ \E r \in Roots :
       /\ ~Fresh(r)
       /\ builder' = [builder EXCEPT ![b] = [Idle EXCEPT !.pc = "lock", !.root = r,
                                                         !.seen = source]]
  /\ UNCHANGED <<source, state, product, lock, volume, purge, janitor, locks, raced>>

Hit(b) ==
  /\ builder[b].pc = "idle"
  /\ \E r \in Roots : Fresh(r) /\ builder' = [builder EXCEPT ![b] = [Idle EXCEPT !.pc = "hit", !.root = r]]
  /\ UNCHANGED <<source, state, product, lock, volume, purge, janitor, locks, raced>>

Return(b) ==
  /\ builder[b].pc = "hit"
  /\ builder' = [builder EXCEPT ![b] = Idle]
  /\ UNCHANGED <<source, state, product, lock, volume, purge, janitor, locks, raced>>

\* Somebody looked at the lock of r and is about to remove it.
Sought(r) == janitor.at = r \/ \E c \in Builders : builder[c].pc = "steal" /\ On(c) = r

TakesLock(b) ==
  /\ builder[b].pc = "lock" /\ locks < MaxLocks
  /\ locks' = locks + 1
  /\ lock' = [lock EXCEPT ![On(b)] = [file |-> locks', by |-> b, old |-> FALSE, alive |-> TRUE]]
  /\ builder' = [builder EXCEPT ![b].pc = "volume", ![b].file = locks']
  /\ raced' = IF Sought(On(b)) THEN raced \union {On(b)} ELSE raced
  /\ UNCHANGED <<source, state, product, volume, purge, janitor>>

AcquireOver(b) == TakesLock(b)       \* mutant: the lock file is written over, not created

(***************************************************************************)
(* VolumeLock::acquire.  Creating the file takes the lock.  A file that    *)
(* was not touched for three hours is removed, whoever wrote it; looking   *)
(* at it and removing it are two steps.                                    *)
(***************************************************************************)
Acquire(b) == builder[b].pc = "lock" /\ lock[On(b)] = NoLock /\ TakesLock(b)

FindStale(b) ==
  /\ builder[b].pc = "lock" /\ lock[On(b)].old
  /\ Goto(b, "steal")
  /\ UNCHANGED <<source, state, product, lock, volume, purge, janitor, locks, raced>>

Steal(b) ==
  /\ builder[b].pc = "steal"
  /\ lock' = [lock EXCEPT ![On(b)] = NoLock]
  /\ Goto(b, "lock")
  /\ UNCHANGED <<source, state, product, volume, purge, janitor, locks, raced>>

\* Ten minutes are up, or the directory cannot be written.
Refuse(b) ==
  /\ builder[b].pc = "lock" /\ lock[On(b)] # NoLock
  /\ builder' = [builder EXCEPT ![b] = Idle]
  /\ UNCHANGED <<source, state, product, lock, volume, purge, janitor, locks, raced>>

(***************************************************************************)
(* The volume is made if there is none, the guest is started with it, the  *)
(* queued workspaces are dropped as it is mounted, the source is copied in.*)
(***************************************************************************)
Attach(b) ==
  /\ builder[b].pc = "volume"
  /\ volume' = [volume EXCEPT ![On(b)] = TRUE]
  /\ Goto(b, "mount")
  /\ UNCHANGED <<source, state, product, lock, purge, janitor, locks, raced>>

Mount(b) ==
  /\ builder[b].pc = "mount"
  /\ purge' = purge \ {On(b)}
  /\ builder' = [builder EXCEPT ![b].pc = "build", ![b].copy = source]
  /\ UNCHANGED <<source, state, product, lock, volume, janitor, locks, raced>>

(***************************************************************************)
(* The build command, and the copy of what it made back over the module;   *)
(* then the entries are looked for and the state is written.               *)
(***************************************************************************)
CopyOut(b) ==
  /\ builder[b].pc = "build"
  /\ product' = [target |-> On(b), copy |-> builder[b].copy, whole |-> FALSE]
  /\ Goto(b, "copying")
  /\ UNCHANGED <<source, state, lock, volume, purge, janitor, locks, raced>>

CopiedOut(b) ==
  /\ builder[b].pc = "copying"
  /\ product' = [target |-> On(b), copy |-> builder[b].copy, whole |-> TRUE]
  /\ Goto(b, "finish")
  /\ UNCHANGED <<source, state, lock, volume, purge, janitor, locks, raced>>

FinishNow(b) ==         \* mutant: the fingerprint is taken after the build
  /\ builder[b].pc = "finish"
  /\ state' = [target |-> On(b), seen |-> source]
  /\ Goto(b, "stop")
  /\ UNCHANGED <<source, product, lock, volume, purge, janitor, locks, raced>>

Finish(b) ==
  /\ builder[b].pc = "finish"
  /\ state' = [target |-> On(b), seen |-> builder[b].seen]
  /\ Goto(b, "stop")
  /\ UNCHANGED <<source, product, lock, volume, purge, janitor, locks, raced>>

FailsHolding(b) ==      \* mutant: an error returns past the release
  /\ builder[b].pc \in {"volume", "mount", "build", "copying", "finish"}
  /\ builder' = [builder EXCEPT ![b] = Idle]
  /\ UNCHANGED <<source, state, product, lock, volume, purge, janitor, locks, raced>>

\* Whatever fails goes on to stop the guest and to give the lock back.
Fails(b) ==
  /\ builder[b].pc \in {"volume", "mount", "build", "copying", "finish"}
  /\ Goto(b, "stop")
  /\ UNCHANGED <<source, state, product, lock, volume, purge, janitor, locks, raced>>

\* b is gone, and with the last builder of a root what happened there.
Leaves(b) ==
  /\ builder' = [builder EXCEPT ![b] = Idle]
  /\ raced' = {r \in raced : \E c \in Builders \ {b} : Holds(c) /\ On(c) = r}

\* guest_stop, then Drop: the file of that name is removed, whoever wrote it.
Release(b) ==
  /\ builder[b].pc = "stop"
  /\ lock' = [lock EXCEPT ![On(b)] = NoLock]
  /\ Leaves(b)
  /\ UNCHANGED <<source, state, product, volume, purge, janitor, locks>>

\* The process dies, and its guest with it; the lock file stays.
Die(b) ==
  /\ builder[b].pc # "idle" /\ Leaves(b)
  /\ lock' = [r \in Roots |-> IF lock[r] # NoLock /\ lock[r].by = b
                                THEN [lock[r] EXCEPT !.alive = FALSE] ELSE lock[r]]
  /\ UNCHANGED <<source, state, product, volume, purge, janitor, locks>>

\* Three hours pass; a build that runs is taken to end before.
Ages(r) ==
  /\ lock[r] # NoLock /\ ~lock[r].alive /\ ~lock[r].old
  /\ lock' = [lock EXCEPT ![r].old = TRUE]
  /\ UNCHANGED <<source, state, product, volume, purge, builder, janitor, locks, raced>>

(***************************************************************************)
(* storage.  A volume whose lock is that of a living process, or young, is *)
(* in use.  Looking is one step; then the volume goes, and then the lock   *)
(* file of that name with the queue.  Any removal may fail.                *)
(***************************************************************************)
InUse(r) == lock[r] # NoLock /\ (lock[r].alive \/ ~lock[r].old)

FindUnused(r) ==
  /\ janitor = Away
  /\ ~InUse(r) /\ volume[r]
  /\ janitor' = [at |-> r, pc |-> "volume"]
  /\ UNCHANGED <<source, state, product, lock, volume, purge, builder, locks, raced>>

DeleteVolume ==
  /\ janitor.pc = "volume"
  /\ volume' = [volume EXCEPT ![janitor.at] = FALSE]
  /\ janitor' = [janitor EXCEPT !.pc = "lock"]
  /\ UNCHANGED <<source, state, product, lock, purge, builder, locks, raced>>

DeleteLock ==
  /\ janitor.pc = "lock"
  /\ lock' = [lock EXCEPT ![janitor.at] = NoLock]
  /\ purge' = purge \ {janitor.at}
  /\ janitor' = Away
  /\ UNCHANGED <<source, state, product, volume, builder, locks, raced>>

DeletionFails ==
  /\ janitor # Away /\ janitor' = Away
  /\ UNCHANGED <<source, state, product, lock, volume, purge, builder, locks, raced>>

QueuePurge(r) ==
  /\ ~InUse(r)
  /\ purge' = purge \union {r}
  /\ UNCHANGED <<source, state, product, lock, volume, builder, janitor, locks, raced>>

Step(b) ==
  \/ Plan(b) \/ Hit(b) \/ Return(b)
  \/ Acquire(b) \/ FindStale(b) \/ Steal(b) \/ Refuse(b)
  \/ Attach(b) \/ Mount(b) \/ CopyOut(b) \/ CopiedOut(b) \/ Finish(b)
  \/ Fails(b) \/ Release(b)

Next ==
  \/ Edit \/ DeleteVolume \/ DeleteLock \/ DeletionFails
  \/ \E b \in Builders : Step(b) \/ Die(b)
  \/ \E r \in Roots : Ages(r) \/ FindUnused(r) \/ QueuePurge(r)

(***************************************************************************)
(* Threads run; time passes.  A waiting builder looks every half second,   *)
(* so it finds the file old, or gone, before it gives up for good.         *)
(***************************************************************************)
Working(b) == builder[b].pc \notin {"idle", "lock"}
Fairness ==
  /\ \A b \in Builders : WF_vars(Working(b) /\ Step(b))
  /\ \A r \in Roots : WF_vars(Ages(r))

Spec == Init /\ [][Next]_vars /\ Fairness

-----------------------------------------------------------------------------
TypeOK ==
  /\ source \in 1..(MaxEdits + 1)
  /\ state.target \in Roots \union {NoRoot}
  /\ purge \subseteq Roots /\ raced \subseteq Roots /\ janitor.at \in Roots \union {NoRoot}
  /\ \A r \in Roots : volume[r] \in BOOLEAN /\ lock[r].file \in 0..locks

(***************************************************************************)
(* "Never two writers on one volume" (LOCK_WAIT): the builders that stand  *)
(* between taking the lock and giving it back are on different roots,      *)
(* whoever dies, grows old or cleans up, but where a lock was taken between*)
(* the look and the removal of one who took the file for a dead one: that  *)
(* window is the code's.                                                   *)
(***************************************************************************)
VolumeIsOwned ==
  \A b, c \in Builders : b # c /\ Holds(b) /\ Holds(c) /\ On(b) = On(c) => On(b) \in raced

(***************************************************************************)
(* A call that is answered from the cache is answered truly: what lies in  *)
(* the module's directory was built, all of it, for this root and from the *)
(* source as it is, whatever was edited or failed during earlier builds.   *)
(***************************************************************************)
TrueHit ==
  \A b \in Builders :
    builder[b].pc = "idle" /\ builder'[b].pc = "hit" =>
      product = [target |-> builder'[b].root, copy |-> source, whole |-> TRUE]

HitIsTrue == [][TrueHit]_vars

(***************************************************************************)
(* However a builder ends, by an error or by dying, it does not block the  *)
(* volume for ever: the lock goes, or becomes one that may be taken.       *)
(***************************************************************************)
LocksPass == \A r \in Roots : lock[r].file # 0 ~> lock[r] = NoLock \/ lock[r].old
=============================================================================
