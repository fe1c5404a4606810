------------------------------ MODULE Storage ------------------------------
(***************************************************************************)
(* What storage deletes, and when: a collection scans, plans by age and by *)
(* the cap, and removes item by item; builds and guests take volumes and   *)
(* overlays into use meanwhile.  One lock file keeps collections apart.    *)
(*                                                                         *)
(* A volume is looked at, and then its files go one after another: a build *)
(* that takes the lock in between loses its volume, or its lock file.      *)
(* `crossed` remembers those builds; nothing depends on it.                *)
(*                                                                         *)
(* An item is a number up to MaxItems; the scan lists items in that order. *)
(* One build at a time works in a volume here (two: see BuildVolumes).     *)
(***************************************************************************)
EXTENDS Integers, FiniteSets

CONSTANTS
  MaxItems,    \* the items that may be on disk
  CatOf,       \* their category: "build", "download", "overlays", "logs"
  Collectors,  \* the callers of a collection: the timer, a user, a build
  Caps,        \* the caps the policy may set
  KeepLogs     \* logs kept whatever their age

VARIABLES
  disk,    \* last use and size of each item, or Gone
  busy,    \* the volumes a build works in, the overlays of running guests
  lost,    \* the volumes among them whose lock file was removed
  cap,     \* StoragePolicy.cap_bytes
  gclock,  \* the process that wrote storage.lock, or nobody
  coll,    \* where each collector stands
  crossed  \* volumes whose build took the lock when a removal had looked already

vars == <<disk, busy, lost, cap, gclock, coll, crossed>>

Items == 1..MaxItems
Gone == [used |-> 0, bytes |-> 0]
Old == 1            \* last used before the cutoff of its category
Resting == [pc |-> "rest", job |-> "gc", plan |-> {}, protect |-> 0, at |-> 0]

Present == {i \in Items : disk[i] # Gone}
Of(cat) == {i \in Present : CatOf[i] = cat}

\* The numbers of all items, added up.
Total(numbers) ==
  LET upTo[n \in 0..MaxItems] == IF n = 0 THEN 0 ELSE upTo[n - 1] + numbers[n]
  IN  upTo[MaxItems]
Bytes(S) == Total([i \in Items |-> IF i \in S THEN disk[i].bytes ELSE 0])

Init ==
  /\ disk \in [Items -> [used : 1..2, bytes : 1..2] \union {Gone}]
  /\ busy = {} /\ lost = {} /\ crossed = {} /\ cap \in Caps
  /\ gclock = "nobody"
  /\ coll = [c \in Collectors |-> Resting]

-----------------------------------------------------------------------------
(***************************************************************************)
(* plan: by age first.  Every overlay counts as used while a guest runs, and *)
(* a new one always.                                                       *)
(***************************************************************************)
GuestRuns == \E i \in busy : CatOf[i] = "overlays"
Active(i) ==
  \/ CatOf[i] = "build" /\ i \in busy \ lost
  \/ CatOf[i] = "overlays" /\ (GuestRuns \/ disk[i].used # Old)
Aged(i) == disk[i].used = Old

NewerLogs(i) ==
  {j \in Of("logs") : disk[j].used > disk[i].used \/ (disk[j].used = disk[i].used /\ j > i)}

Expired(protect) ==
  {i \in Present :
     /\ ~Active(i) /\ ~(CatOf[i] = "build" /\ i = protect)
     /\ Aged(i) \/ (CatOf[i] = "logs" /\ Cardinality(NewerLogs(i)) >= KeepLogs)}

(***************************************************************************)
(* ... then, over the cap, the least recently used of the others, until    *)
(* their bytes make up for what is over.                                   *)
(***************************************************************************)
Over == IF Bytes(Present) > cap THEN Bytes(Present) - cap ELSE 0
Others(protect) ==
  {i \in Present \ Expired(protect) : ~Active(i) /\ ~(CatOf[i] = "build" /\ i = protect)}

Sooner(i, j) == disk[i].used < disk[j].used \/ (disk[i].used = disk[j].used /\ i < j)

TopUpWithin(protect) ==   \* mutant: stops before more than the excess is freed
  {i \in Others(protect) :
     Bytes({i} \union {j \in Others(protect) : Sooner(j, i)}) <= Over}

TopUp(protect) ==
  {i \in Others(protect) : Bytes({j \in Others(protect) : Sooner(j, i)}) < Over}

Plan(protect) == Expired(protect) \union TopUp(protect)

-----------------------------------------------------------------------------
\* A collector goes on with c as its state.
Moves(c, o) == coll' = [coll EXCEPT ![c] = o]

\* try_acquire: the file is created, or somebody has it.
Acquire(c) ==
  /\ coll[c].pc = "rest"
  /\ gclock = "nobody"
  /\ gclock' = c
  /\ \E p \in {0} \union Of("build") : Moves(c, [Resting EXCEPT !.pc = "scan", !.protect = p])
  /\ UNCHANGED <<disk, busy, lost, cap, crossed>>

\* gc_with: one scan, one plan, then remove_one for each.
ScanAndPlan(c) ==
  /\ coll[c].pc = "scan"
  /\ Moves(c, [coll[c] EXCEPT !.pc = "remove", !.plan = Plan(coll[c].protect)])
  /\ UNCHANGED <<disk, busy, lost, cap, gclock, crossed>>

(***************************************************************************)
(* clean: the user empties one category, under the same lock.  Overlays    *)
(* stay while any guest runs; volumes, one or all, go like those of a      *)
(* collection.                                                             *)
(***************************************************************************)
Clean(c, cat) ==
  /\ coll[c].pc = "rest" /\ gclock = "nobody" /\ cat # "build"
  /\ disk' = [i \in Items |-> IF i \in Of(cat) /\ ~Active(i) /\ (cat = "logs" => Aged(i))
                              THEN Gone ELSE disk[i]]
  /\ UNCHANGED <<busy, lost, cap, gclock, coll, crossed>>

CleanBuild(c) ==
  /\ coll[c].pc = "rest" /\ gclock = "nobody"
  /\ gclock' = c
  /\ \E S \in {Of("build")} \union {{i} : i \in Of("build")} :
       Moves(c, [Resting EXCEPT !.pc = "remove", !.job = "clean", !.plan = S])
  /\ UNCHANGED <<disk, busy, lost, cap, crossed>>

\* start_reset: one at a time, without the lock of the collections, and not while
\* a guest runs or the volume is locked; its thread removes the volume.
Reset(c, i) ==
  /\ coll[c].pc = "rest" /\ \A d \in Collectors : coll[d].job # "reset"
  /\ CatOf[i] = "build" /\ ~GuestRuns /\ ~Active(i)
  /\ Moves(c, [Resting EXCEPT !.pc = "remove", !.job = "reset", !.plan = {i}])
  /\ UNCHANGED <<disk, busy, lost, cap, gclock, crossed>>

(***************************************************************************)
(* remove_one, and the loop of clean: only the lock of a build volume is   *)
(* looked at again.  A collection passes over what it may not remove; a    *)
(* cleaning that finds the lock at its second look gives up.               *)
(***************************************************************************)
Next1(c, i, held) ==
  /\ coll[c].pc = "remove" /\ i \in coll[c].plan
  /\ LET left == coll[c].plan \ {i}
     IN  IF CatOf[i] # "build" THEN /\ disk' = [disk EXCEPT ![i] = Gone]
                                    /\ Moves(c, [coll[c] EXCEPT !.plan = left])
         ELSE /\ UNCHANGED disk
              /\ IF held
                 THEN \E S \in {left} \union (IF coll[c].job = "clean" THEN {{}} ELSE {}) :
                        Moves(c, [coll[c] EXCEPT !.plan = S])
                 ELSE Moves(c, [coll[c] EXCEPT !.plan = left, !.pc = "unlink", !.at = i])
  /\ UNCHANGED <<busy, lost, cap, gclock, crossed>>

RemoveOneBlindly(c) ==  \* mutant: a volume is not looked at again
  \E i \in coll[c].plan : Next1(c, i, FALSE)

RemoveOne(c) == \E i \in coll[c].plan : Next1(c, i, Active(i))

\* remove_build_volume: the image and its note, then the lock file and the queue.
UnlinkVolume(c) ==
  /\ coll[c].pc = "unlink"
  /\ disk' = [disk EXCEPT ![coll[c].at] = Gone]
  /\ Moves(c, [coll[c] EXCEPT !.pc = "unlock"])
  /\ UNCHANGED <<busy, lost, cap, gclock, crossed>>

UnlinkLock(c) ==
  /\ coll[c].pc = "unlock"
  /\ lost' = lost \union ({coll[c].at} \intersect busy)
  /\ Moves(c, [coll[c] EXCEPT !.pc = "remove", !.at = 0])
  /\ UNCHANGED <<disk, busy, cap, gclock, crossed>>

\* A file that cannot be removed: a collection goes on with the next item.
UnlinkFails(c) ==
  /\ coll[c].pc \in {"unlink", "unlock"}
  /\ Moves(c, [coll[c] EXCEPT !.pc = "remove", !.at = 0,
                              !.plan = IF coll[c].job = "gc" THEN @ ELSE {}])
  /\ UNCHANGED <<disk, busy, lost, cap, gclock, crossed>>

\* The end; or the process dies, and the next one finds it gone and takes the file.
Ends(c) ==
  /\ Moves(c, Resting)
  /\ gclock' = IF coll[c].job = "reset" THEN gclock ELSE "nobody"
  /\ UNCHANGED <<disk, busy, lost, cap, crossed>>

Release(c) == coll[c].pc = "remove" /\ coll[c].plan = {} /\ Ends(c)
Crash(c) == coll[c].pc # "rest" /\ Ends(c)

(***************************************************************************)
(* Others: a build takes a volume, a guest an overlay (made if need be);   *)
(* downloads and logs come; a policy is set; time passes.                  *)
(***************************************************************************)
Take(i) ==
  /\ i \notin busy /\ CatOf[i] \in {"build", "overlays"}
  /\ busy' = busy \union {i}
  /\ crossed' = IF \E c \in Collectors : coll[c].at = i THEN crossed \union {i} ELSE crossed
  /\ disk' = [disk EXCEPT ![i] = IF CatOf[i] = "overlays" \/ @ = Gone
                                 THEN [used |-> 3, bytes |-> 1] ELSE [@ EXCEPT !.used = 3]]
  /\ UNCHANGED <<lost, cap, gclock, coll>>

GiveBack(i) ==
  /\ i \in busy
  /\ busy' = busy \ {i} /\ lost' = lost \ {i} /\ crossed' = crossed \ {i}
  /\ disk' = [disk EXCEPT ![i] = IF CatOf[i] = "overlays" THEN Gone ELSE @]
  /\ UNCHANGED <<cap, gclock, coll>>

SetPolicy ==
  /\ cap' \in Caps
  /\ UNCHANGED <<disk, busy, lost, gclock, coll, crossed>>

Collect(c) ==
  \/ Acquire(c) \/ ScanAndPlan(c) \/ CleanBuild(c) \/ (\E i \in Items : Reset(c, i))
  \/ RemoveOne(c) \/ UnlinkVolume(c) \/ UnlinkLock(c) \/ UnlinkFails(c) \/ Release(c)

Next ==
  \/ SetPolicy
  \/ \E c \in Collectors :
       Collect(c) \/ Crash(c) \/ (\E cat \in {"download", "overlays", "logs"} : Clean(c, cat))
  \/ \E i \in Items : Take(i) \/ GiveBack(i)

Spec == Init /\ [][Next]_vars

-----------------------------------------------------------------------------
TypeOK ==
  /\ busy \subseteq Items /\ lost \subseteq busy /\ cap \in Caps
  /\ gclock \in Collectors \union {"nobody"}
  /\ \A c \in Collectors : coll[c].plan \subseteq Items

(***************************************************************************)
(* A volume in use is not deleted, and a lock file does not go under a     *)
(* build, by whichever collection, cleaning or reset, but for a build that *)
(* took the lock between the look of a removal and its last unlink: that   *)
(* window is the code's.  And a collection that a build asked for leaves   *)
(* that build's volume.                                                    *)
(***************************************************************************)
SparesInUse ==
  /\ \A i \in Items : CatOf[i] = "build" /\ disk[i] # Gone /\ disk'[i] = Gone =>
       /\ i \in busy => i \in crossed
       /\ \A c \in Collectors :
            coll[c].pc = "unlink" /\ coll'[c].pc = "unlock" /\ coll[c].at = i => coll[c].protect # i
  /\ lost' \subseteq crossed'
VolumesInUseStay == [][SparesInUse]_vars

(***************************************************************************)
(* What is planned is enough: after it the disk is under the cap, or only  *)
(* what is in use or protected is left; and nothing was chosen for the cap *)
(* while something used less recently was spared.                          *)
(***************************************************************************)
PlanSuffices ==
  \A p \in {0} \union Of("build") :
    LET left == Present \ Plan(p)
    IN  /\ Bytes(left) <= cap \/ \A i \in left : Active(i) \/ (CatOf[i] = "build" /\ i = p)
        /\ \A i \in TopUp(p), j \in left : Sooner(j, i) => Active(j) \/ (CatOf[j] = "build" /\ j = p)

\* plan: the top-up goes on until it is enough, and no further.
TopUpIsNeeded ==
  \A p \in {0} \union Of("build") :
    \A i \in TopUp(p) : Bytes(Present \ (Plan(p) \ {i})) > cap
=============================================================================
