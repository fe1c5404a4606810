----------------------------- MODULE FenceLedger -----------------------------
(***************************************************************************)
(* Access entries that outlive the process (Windows): a tool call grants   *)
(* its container some paths, the ledger .home/fence-grants.json says who   *)
(* still needs which entry, sessions give theirs back, and a process that  *)
(* starts reclaims what the dead left.  Every transaction holds the lock   *)
(* of the ledger; its process may die inside.                              *)
(*                                                                         *)
(* A session's lease stands for its container: other reaches of a session  *)
(* are other leases here.  An owner of an entry is a process, with that    *)
(* lease.  Interpreters and tools are given to every container at once, to *)
(* the baseline; a process owns such an entry without a lease.             *)
(***************************************************************************)
EXTENDS Naturals, FiniteSets

CONSTANTS
  Procs,    \* processes of the program; each lives once
  Leases,   \* sessions and one-off calls
  Calls,    \* the one-off calls among them
  Paths,    \* what a container is given access to
  Inside,   \* the paths inside the product root
  Baseline, \* the baseline (ALL APPLICATION PACKAGES), no lease
  Common,   \* the paths it is given: interpreters, tools, runtimes
  Fails     \* whether access entries and the ledger may refuse a write

VARIABLES
  life,     \* of each process: "unborn", "alive", "dead"
  acl,      \* whose entries a path carries
  ledger,   \* the ledger on disk
  op,       \* the transaction that holds the lock
  using,    \* the access a living process was granted and not released
  residue   \* entries that failed writes have left on the disk

vars == <<life, acl, ledger, op, using, residue>>

Alive == {p \in Procs : life[p] = "alive"}
Holders == Leases \union {Baseline}
Keys == Holders \X Paths
NoSnap == {}     \* a snapshot is the set of what the path was
Empty == [in |-> {}, own |-> [k \in Keys |-> {}], snap |-> [x \in Paths |-> NoSnap]]
Idle == [kind |-> "none"]

Init ==
  /\ life = [p \in Procs |-> "unborn"]
  /\ acl = [x \in Paths |-> {}]
  /\ ledger = Empty /\ op = Idle /\ using = {} /\ residue = {}

Born(p) ==
  /\ life[p] = "unborn"
  /\ life' = [life EXCEPT ![p] = "alive"]
  /\ UNCHANGED <<acl, ledger, op, using, residue>>

\* What the process had in memory and the lock go with it.
Die(p) ==
  /\ life[p] = "alive"
  /\ life' = [life EXCEPT ![p] = "dead"]
  /\ op' = IF op # Idle /\ op.p = p THEN Idle ELSE op
  /\ using' = {u \in using : u[1] # p}
  /\ UNCHANGED <<acl, ledger, residue>>

-----------------------------------------------------------------------------
(***************************************************************************)
(* prepare_fence: for each entry the snapshot of its path is written down  *)
(* (inside the product root), then the claim, and only then the entry.     *)
(***************************************************************************)
Wanted(l) == {<<l, x>> : x \in Paths} \union {<<Baseline, x>> : x \in Common \cap Paths}

Prepare(p, l) ==
  /\ op = Idle /\ p \in Alive
  /\ op' = [kind |-> "prepare", p |-> p, l |-> l, todo |-> Wanted(l), pc |-> "next",
            k |-> <<>>, added |-> FALSE, snapped |-> FALSE]
  /\ UNCHANGED <<life, acl, ledger, using, residue>>

\* An entry of the baseline that is there already is taken as it is: nobody is
\* named for it, and the process relies on whoever is.
There(k) == k[1] = Baseline /\ Baseline \in acl[k[2]]

Skip(k) ==
  /\ op.kind = "prepare" /\ op.pc = "next" /\ k \in op.todo /\ There(k)
  /\ op' = [op EXCEPT !.todo = @ \ {k}]
  /\ UNCHANGED <<life, acl, ledger, using, residue>>

Snapshot(k) ==
  /\ op.kind = "prepare" /\ op.pc = "next" /\ k \in op.todo /\ ~There(k)
  /\ LET new == k[2] \in Inside /\ ledger.snap[k[2]] = NoSnap
     IN  /\ ledger' = IF new THEN [ledger EXCEPT !.snap[k[2]] = {acl[k[2]]}] ELSE ledger
         /\ op' = [op EXCEPT !.pc = "claim", !.k = k, !.snapped = new]
  /\ UNCHANGED <<life, acl, using, residue>>

\* A container's entry that is there already gets one more owner.
Claim ==
  /\ op.kind = "prepare" /\ op.pc = "claim"
  /\ ledger' = [ledger EXCEPT !.in = @ \union {op.k}, !.own[op.k] = @ \union {op.p}]
  /\ op' = [op EXCEPT !.pc = "write", !.added = op.p \notin ledger.own[op.k]]
  /\ UNCHANGED <<life, acl, using, residue>>

Write ==
  /\ op.kind = "prepare" /\ op.pc = "write"
  /\ acl' = [acl EXCEPT ![op.k[2]] = @ \union {op.k[1]}]
  /\ using' = using \union {<<op.p, op.k[1], op.k[2]>>}
  /\ op' = [op EXCEPT !.pc = "next", !.todo = @ \ {op.k}]
  /\ UNCHANGED <<life, ledger, residue>>

\* The entry is refused, or does not take and cannot be taken back: only the
\* owner that was added goes, and the snapshot that was made if nobody else is
\* on the path.
WithoutOwner(led, k, p) ==
  LET rest == led.own[k] \ {p}
  IN  [led EXCEPT !.own[k] = rest, !.in = IF rest = {} THEN @ \ {k} ELSE @]

Withdrawn ==
  LET led == IF op.added THEN WithoutOwner(ledger, op.k, op.p) ELSE ledger
  IN  IF op.snapped /\ \A m \in Holders : <<m, op.k[2]>> \notin led.in
      THEN [led EXCEPT !.snap[op.k[2]] = NoSnap] ELSE led

WriteFails ==
  /\ Fails /\ op.kind = "prepare" /\ op.pc = "write" /\ op.k[1] \notin acl[op.k[2]]
  /\ ledger' = Withdrawn
  /\ op' = [op EXCEPT !.pc = "next", !.todo = @ \ {op.k}]
  /\ \/ UNCHANGED <<acl, residue>>
     \/ acl' = [acl EXCEPT ![op.k[2]] = @ \union {op.k[1]}] /\ residue' = residue \union {op.k}
  /\ UNCHANGED <<life, using>>

Prepared ==
  /\ op.kind = "prepare" /\ op.pc = "next" /\ op.todo = {}
  /\ op' = Idle
  /\ UNCHANGED <<life, acl, ledger, using, residue>>

-----------------------------------------------------------------------------
(***************************************************************************)
(* release_by_lease, and release_fence for a one-off call: this process    *)
(* leaves the entries of the lease; those without an owner are taken off   *)
(* the disk.  The first looks only where it was an owner, the second at    *)
(* every entry of the container.  All is written down at the end.          *)
(***************************************************************************)
Left(l, p) == {x \in Paths : <<l, x>> \in ledger.in /\ ledger.own[<<l, x>>] \subseteq {p}}

Release(p, l) ==
  /\ op = Idle /\ p \in Alive
  /\ op' = [kind |-> "release", p |-> p, l |-> l,
            todo |-> {x \in Left(l, p) : l \in Calls \/ p \in ledger.own[<<l, x>>]},
            mem |-> [ledger EXCEPT !.own = [k \in Keys |-> IF k[1] = l THEN @[k] \ {p} ELSE @[k]]]]
  /\ using' = {u \in using : ~(u[1] = p /\ u[2] = l)}
  /\ UNCHANGED <<life, acl, ledger, residue>>

\* The last container on a path inside the root gives it back as it was;
\* otherwise only its own entry is revoked.
AloneAlways(led, l, x) == TRUE   \* mutant: no look at the others on the path

Alone(led, l, x) == \A m \in Holders \ {l} : <<m, x>> \notin led.in

Finalize(x) ==
  /\ op.kind = "release" /\ x \in op.todo
  /\ LET whole == Alone(op.mem, op.l, x) /\ op.mem.snap[x] # NoSnap
     IN  /\ acl' = [acl EXCEPT ![x] = IF whole THEN UNION op.mem.snap[x] ELSE @ \ {op.l}]
         /\ op' = [op EXCEPT !.todo = @ \ {x}, !.mem.in = @ \ {<<op.l, x>>},
                             !.mem.snap[x] = IF whole THEN NoSnap ELSE @]
  /\ UNCHANGED <<life, ledger, using, residue>>

FinalizeFails(x) ==
  /\ Fails /\ op.kind = "release" /\ x \in op.todo
  /\ op' = [op EXCEPT !.todo = @ \ {x}]
  /\ UNCHANGED <<life, acl, ledger, using, residue>>

Released ==
  /\ op.kind = "release" /\ op.todo = {}
  /\ ledger' = op.mem \/ (Fails /\ UNCHANGED ledger)
  /\ op' = Idle
  /\ UNCHANGED <<life, acl, using, residue>>

-----------------------------------------------------------------------------
(***************************************************************************)
(* reconcile: the entries whose owners are all dead, and the snapshots on  *)
(* whose paths nothing else is left.  An entry without any owner cannot be *)
(* judged and stays.  One failure, and the whole ledger stays as it was.   *)
(***************************************************************************)
Dead(k) == k \in ledger.in /\ ledger.own[k] # {} /\ ledger.own[k] \intersect Alive = {}

Reconcile(p) ==
  /\ op = Idle /\ p \in Alive
  /\ LET dead == {k \in Keys : Dead(k)}
         snaps == {x \in Paths : ledger.snap[x] # NoSnap
                                 /\ \A m \in Holders : <<m, x>> \in ledger.in => <<m, x>> \in dead}
     IN  op' = [kind |-> "reconcile", p |-> p, dead |-> dead, snaps |-> snaps,
                revoke |-> {k \in dead : k[2] \notin snaps}, restore |-> snaps,
                ok |-> TRUE, living |-> Alive]
  /\ UNCHANGED <<life, acl, ledger, using, residue>>

Revoke(k) ==
  /\ op.kind = "reconcile" /\ k \in op.revoke
  /\ \/ acl' = [acl EXCEPT ![k[2]] = @ \ {k[1]}] /\ op' = [op EXCEPT !.revoke = @ \ {k}]
     \/ Fails /\ op' = [op EXCEPT !.revoke = @ \ {k}, !.ok = FALSE] /\ UNCHANGED acl
  /\ UNCHANGED <<life, ledger, using, residue>>

Restore(x) ==
  /\ op.kind = "reconcile" /\ op.revoke = {} /\ x \in op.restore
  /\ \/ acl' = [acl EXCEPT ![x] = UNION ledger.snap[x]] /\ op' = [op EXCEPT !.restore = @ \ {x}]
     \/ Fails /\ op' = [op EXCEPT !.restore = @ \ {x}, !.ok = FALSE] /\ UNCHANGED acl
  /\ UNCHANGED <<life, ledger, using, residue>>

ReconciledInPart ==     \* mutant: the dead entries go, what is kept for their paths stays
  /\ op.kind = "reconcile" /\ op.revoke = {} /\ op.restore \subseteq op.snaps
  /\ ledger' = [ledger EXCEPT !.in = @ \ op.dead,
                   !.own = [k \in Keys |-> IF k \in op.dead THEN {} ELSE @[k]]]
  /\ op' = Idle
  /\ UNCHANGED <<life, acl, using, residue>>

Reconciled ==
  /\ op.kind = "reconcile" /\ op.revoke = {} /\ op.restore = {}
  /\ ledger' = IF ~op.ok THEN ledger
               ELSE [in |-> ledger.in \ op.dead,
                     own |-> [k \in Keys |-> IF k \in op.dead THEN {} ELSE ledger.own[k]],
                     snap |-> [x \in Paths |-> IF x \in op.snaps THEN NoSnap ELSE ledger.snap[x]]]
  /\ op' = Idle
  /\ UNCHANGED <<life, acl, using, residue>>

Grant == (\E k \in Keys : Skip(k) \/ Snapshot(k)) \/ Claim \/ Write \/ WriteFails \/ Prepared
Reclaim == (\E k \in Keys : Revoke(k)) \/ (\E x \in Paths : Restore(x)) \/ Reconciled
GiveBack == (\E x \in Paths : Finalize(x) \/ FinalizeFails(x)) \/ Released

Next ==
  \/ \E p \in Procs : Born(p) \/ Die(p) \/ Reconcile(p)
  \/ \E p \in Procs, l \in Leases : Prepare(p, l) \/ Release(p, l)
  \/ Grant \/ GiveBack \/ Reclaim

Spec == Init /\ [][Next]_vars

-----------------------------------------------------------------------------
TypeOK ==
  /\ \A x \in Paths : acl[x] \subseteq Holders
  /\ ledger.in \subseteq Keys
  /\ \A k \in Keys : ledger.own[k] \subseteq Procs /\ (k \notin ledger.in => ledger.own[k] = {})
  /\ using \subseteq Procs \X Holders \X Paths
  /\ residue \subseteq Keys

(***************************************************************************)
(* "Only what surely belongs to the dead is reclaimed, the living are not  *)
(* touched" (reconcile), and "other sessions, and other processes of the   *)
(* same session, are not affected" (release_by_lease): an entry that a     *)
(* living process was granted, for a container or for the baseline, stays  *)
(* until it releases it, and the ledger says so, whoever dies, fails or    *)
(* gives back on the same path.  Not so what Skip takes as it is: a        *)
(* process that found an entry of the baseline has it only as long as one  *)
(* lives that was granted it.                                              *)
(***************************************************************************)
AccessKept ==
  \A u \in using : u[2] \in acl[u[3]] /\ u[1] \in ledger.own[<<u[2], u[3]>>]

(***************************************************************************)
(* "First the ledger, then the ACL": an entry of ours on disk is in the    *)
(* ledger, and the snapshot a path will be given back from has none; but   *)
(* for what a write that failed could not take back.                       *)
(***************************************************************************)
EverythingRecorded ==
  \A x \in Paths :
    /\ \A l \in acl[x] : <<l, x>> \in ledger.in \union residue
    /\ \A l \in UNION ledger.snap[x] : <<l, x>> \in residue

(***************************************************************************)
(* What is left over is reclaimed at the next start (release_fences in     *)
(* conductor/service/work.rs): after a reconciliation without an error,    *)
(* every entry on disk is owned by a process that was alive when it began. *)
(***************************************************************************)
Reclaimed ==
  op.kind = "reconcile" /\ op' = Idle /\ op.p \in Alive /\ life' = life /\ op.ok =>
    \A x \in Paths, l \in Holders :
      l \in acl'[x] => ledger'.own[<<l, x>>] \intersect op.living # {}

LeftoversReclaimed == [][Reclaimed]_vars
=============================================================================
