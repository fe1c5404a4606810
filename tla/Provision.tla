----------------------------- MODULE Provision -----------------------------
(***************************************************************************)
(* What ensures the dependencies of the manifest: the job of the setup     *)
(* page, the reset of a virtual root that storage starts, and a second     *)
(* process, `solomni --provision`.  The first two share one service and    *)
(* with it one cancel flag.                                                *)
(***************************************************************************)
EXTENDS Lists

CONSTANTS
  Manifest,    \* the entries for this host, in the order of the manifest
  Toolchains,  \* the entries of kind toolchain
  Guest,       \* the entries of the virtual root
  Runtime      \* the entry of kind guest-runtime

VARIABLES
  running,  \* JobState.running
  cancel,   \* the flag of the service
  run,      \* who is where
  present,  \* the entries whose probe is on disk
  active,   \* the toolchains that active.json lists
  heard     \* a cancel came while the job went through its entries

vars == <<running, cancel, run, present, active, heard>>

Entries == ToSet(Manifest)
Runners == {"job", "reset", "cli"}
Idle == [pc |-> "idle", todo |-> <<>>, explicit |-> FALSE, end |-> "none"]

Init ==
  /\ running = FALSE /\ cancel = FALSE /\ heard = FALSE
  /\ run = [r \in Runners |-> Idle]
  /\ present \in {{}, Toolchains}
  /\ active = {}

Picked(ids) == SelectSeq(Manifest, LAMBDA d : ids = {} \/ d \in ids)
Entered(r, pc, ids) ==
  run' = [run EXCEPT ![r] = [pc |-> pc, todo |-> Picked(ids),
                             explicit |-> ids # {}, end |-> "none"]]
Ended(r, how) == run' = [run EXCEPT ![r] = [Idle EXCEPT !.end = how]]
Rest(r) == run' = [run EXCEPT ![r].pc = "next", ![r].todo = Tail(@)]

(***************************************************************************)
(* start: the record is taken under its lock; the flag is cleared after    *)
(* the lock is released, and only then does the thread exist.              *)
(***************************************************************************)
Start ==
  /\ ~running
  /\ running' = TRUE
  /\ \E ids \in SUBSET Entries : Entered("job", "arm", ids)
  /\ heard' = FALSE
  /\ UNCHANGED <<cancel, present, active>>

Arm ==
  /\ run["job"].pc = "arm"
  /\ cancel' = FALSE
  /\ run' = [run EXCEPT !["job"].pc = "next"]
  /\ UNCHANGED <<running, present, active, heard>>

\* The cancel button is there whether or not a job runs.
Cancel ==
  /\ cancel' = TRUE
  /\ heard' = (heard \/ (running /\ run["job"].pc # "arm"))
  /\ UNCHANGED <<running, run, present, active>>

(***************************************************************************)
(* ensure_spec with a kind: only what is missing of it, and nothing at all *)
(* when nothing is missing.                                                *)
(***************************************************************************)
EnsureKind ==
  /\ run["cli"].pc = "idle"
  /\ LET missing == Toolchains \ present
     IN  IF missing = {} THEN Ended("cli", "nothing") ELSE Entered("cli", "next", missing)
  /\ UNCHANGED <<running, cancel, present, active, heard>>

(***************************************************************************)
(* start_reset and reset_guest: refused while a guest runs; the directory  *)
(* goes, and the entries of the root are ensured by name.                  *)
(***************************************************************************)
GuestLive == \E r \in Runners : run[r].pc = "boot"

ResetArms ==            \* mutant: a reset clears the flag it shares
  /\ run["reset"].pc = "idle" /\ ~GuestLive
  /\ present' = present \ Guest
  /\ cancel' = FALSE
  /\ Entered("reset", "next", Guest)
  /\ UNCHANGED <<running, active, heard>>

Reset ==
  /\ run["reset"].pc = "idle" /\ ~GuestLive
  /\ present' = present \ Guest
  /\ Entered("reset", "next", Guest)
  /\ UNCHANGED <<running, cancel, active, heard>>

(***************************************************************************)
(* The loop of `run`.  The command line has a flag of its own that nobody  *)
(* sets; the other two read the flag of the service.                       *)
(***************************************************************************)
Cancelled(r) == r # "cli" /\ cancel
Looks(r) == run[r].pc = "next" /\ run[r].todo # <<>> /\ ~Cancelled(r)

StopHere(r) ==
  /\ run[r].pc = "next" /\ run[r].todo # <<>> /\ Cancelled(r)
  /\ Ended(r, "cancelled")
  /\ running' = (running /\ r # "job")
  /\ UNCHANGED <<cancel, present, active, heard>>

Skips(r, d) == d \in Toolchains /\ ~run[r].explicit /\ d \in present

Skip(r) ==
  /\ Looks(r) /\ Skips(r, Head(run[r].todo))
  /\ Rest(r)
  /\ UNCHANGED <<running, cancel, present, active, heard>>

Take(r) ==
  /\ Looks(r) /\ ~Skips(r, Head(run[r].todo))
  /\ run' = [run EXCEPT ![r].pc = IF Head(run[r].todo) = Runtime THEN "boot" ELSE "fetch"]
  /\ UNCHANGED <<running, cancel, present, active, heard>>

\* Downloaded, verified, installed and its probe found; see Download, GuestBase.
Installed(r) ==
  /\ run[r].pc \in {"fetch", "boot"}
  /\ run[r].pc = "boot" => (Guest \ {Runtime}) \subseteq present
  /\ present' = present \union {Head(run[r].todo)}
  /\ Rest(r)
  /\ UNCHANGED <<running, cancel, active, heard>>

FailsSoftly(r) ==       \* mutant: a runtime is passed over even when named
  /\ run[r].pc \in {"fetch", "boot"}
  /\ IF run[r].pc = "boot"
       THEN Rest(r) /\ UNCHANGED running
       ELSE Ended(r, "failed") /\ running' = (running /\ r # "job")
  /\ UNCHANGED <<cancel, present, active, heard>>

FailsRunning(r) ==      \* mutant: an error leaves the record of the job
  /\ run[r].pc \in {"fetch", "boot"}
  /\ IF run[r].pc = "boot" /\ ~run[r].explicit THEN Rest(r) ELSE Ended(r, "failed")
  /\ UNCHANGED <<running, cancel, present, active, heard>>

(***************************************************************************)
(* A failure ends the run; only the runtime of a guest, which needs a      *)
(* machine that can boot it, is passed over when nobody named it.          *)
(***************************************************************************)
Fails(r) ==
  /\ run[r].pc \in {"fetch", "boot"}
  /\ IF run[r].pc = "boot" /\ ~run[r].explicit
       THEN Rest(r) /\ UNCHANGED running
       ELSE Ended(r, "failed") /\ running' = (running /\ r # "job")
  /\ UNCHANGED <<cancel, present, active, heard>>

RegisterAll(r) ==       \* mutant: every installed entry is listed as a toolchain
  /\ run[r].pc = "next" /\ run[r].todo = <<>>
  /\ active' = present
  /\ Ended(r, "done")
  /\ running' = (running /\ r # "job")
  /\ UNCHANGED <<cancel, present, heard>>

\* sync_toolchain_active: what is on disk, whoever put it there.
Register(r) ==
  /\ run[r].pc = "next" /\ run[r].todo = <<>>
  /\ active' = present \intersect Toolchains
  /\ Ended(r, "done")
  /\ running' = (running /\ r # "job")
  /\ UNCHANGED <<cancel, present, heard>>

\* The main process dies: its record, its flag and its threads with it.
Crash ==
  /\ run' = [run EXCEPT !["job"] = Idle, !["reset"] = Idle]
  /\ run # run'
  /\ running' = FALSE /\ cancel' = FALSE /\ heard' = FALSE
  /\ UNCHANGED <<present, active>>

Step(r) == StopHere(r) \/ Skip(r) \/ Take(r) \/ Installed(r) \/ Fails(r) \/ Register(r)
Work(r) == Step(r) \/ (r = "job" /\ Arm)

Next ==
  \/ Start \/ Cancel \/ EnsureKind \/ Reset \/ Crash
  \/ \E r \in Runners : Work(r)

(***************************************************************************)
(* Threads run, and every download and boot has a timeout.                 *)
(***************************************************************************)
Fairness == \A r \in Runners : WF_vars(Work(r))
Spec == Init /\ [][Next]_vars /\ Fairness

-----------------------------------------------------------------------------
TypeOK ==
  /\ {running, cancel, heard} \subseteq BOOLEAN
  /\ present \subseteq Entries /\ active \subseteq Toolchains
  /\ \A r \in Runners :
       /\ run[r].pc \in {"idle", "arm", "next", "fetch", "boot"}
       /\ ToSet(run[r].todo) \subseteq Entries
       /\ run[r].end \in {"none", "done", "cancelled", "failed", "nothing"}

(***************************************************************************)
(* A job that was started ends, however its downloads go, and the door is  *)
(* open for the next one; the record never outlives the thread.            *)
(***************************************************************************)
JobEnds == running ~> ~running

(***************************************************************************)
(* Once a cancel has come, the job takes no further entry: not even when   *)
(* a reset, which goes by the same flag, starts or ends meanwhile.         *)
(***************************************************************************)
CancelIsHeard ==
  [][heard /\ running /\ run["job"].pc = "next" =>
       run'["job"].pc \notin {"fetch", "boot"}]_vars

(***************************************************************************)
(* A reset that ran to its end has built the virtual root again: every     *)
(* entry of it is there, whatever the job beside it installed or failed.   *)
(***************************************************************************)
ResetRebuilds == run["reset"].end = "done" => Guest \subseteq present

(***************************************************************************)
(* reset_guest (api.rs): the root is deleted and installed again by the    *)
(* manifest, or an error says that this failed.  A run that was cancelled  *)
(* returns no error.                                                       *)
(***************************************************************************)
ResetRestores ==
  run["reset"].end \in {"done", "cancelled"} => Guest \subseteq present
=============================================================================
