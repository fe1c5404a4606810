------------------------------- MODULE Guests -------------------------------
(***************************************************************************)
(* Virtual machines of sessions.  The core prepares and commits in short   *)
(* commands; booting and stopping a guest runs on the caller's thread in   *)
(* between, beside other requests.  A work tree has one lease, and its     *)
(* guest one writable layer, a file named for the lease.                   *)
(***************************************************************************)
EXTENDS Naturals, FiniteSets

CONSTANTS
  Trees,      \* work trees, each its own lease
  Requests,   \* threads of callers, each one request
  Limit,      \* max_guests
  MaxVms      \* bound: guests booted in all

VARIABLES
  meta,       \* of each tree: "none", "named", "saved", "deleted"
  running,    \* the trees in which a session generates
  booting,    \* the leases whose boot is serialised
  table,      \* the guest of each lease, 0 without one
  alive,      \* the QEMU processes that live
  layer,      \* whose writable layer the file of a lease is, 0 without one
  busy,       \* the call that holds the lock of a guest
  vms,        \* guests booted so far
  req         \* the requests

vars == <<meta, running, booting, table, alive, layer, busy, vms, req>>

Fresh == [pc |-> "new", s |-> "none", kind |-> "none", vm |-> 0, old |-> 0]
Done == [Fresh EXCEPT !.pc = "done"]
Nobody == "nobody"
Leases == {s \in Trees : table[s] # 0}

Init ==
  /\ meta \in [Trees -> {"none", "saved", "deleted"}]
  /\ running = {} /\ booting = {} /\ alive = {} /\ vms = 0
  /\ table = [s \in Trees |-> 0] /\ layer = [s \in Trees |-> 0]
  /\ busy = [v \in 1..MaxVms |-> Nobody]
  /\ req = [t \in Requests |-> Fresh]

Goto(t, pc) == req' = [req EXCEPT ![t].pc = pc]

-----------------------------------------------------------------------------
(***************************************************************************)
(* The first command of each request, in the core.                         *)
(***************************************************************************)
Comes(t, s, kind, pc) == req' = [req EXCEPT ![t] = [Fresh EXCEPT !.s = s, !.kind = kind, !.pc = pc]]

\* prepare_work: the name is taken, nothing is saved before the guest is up.
Create(t, s) ==
  /\ req[t].pc = "new" /\ meta[s] = "none"
  /\ meta' = [meta EXCEPT ![s] = "named"]
  /\ Comes(t, s, "create", "admit")
  /\ UNCHANGED <<running, booting, table, alive, layer, busy, vms>>

\* ensure_guest before a generation: nothing to do if the lease has a guest.
Say(t, s) ==
  /\ req[t].pc = "new" /\ meta[s] = "saved"
  /\ Comes(t, s, "say", IF s \in Leases THEN "prepare" ELSE "slot")
  /\ UNCHANGED <<meta, running, booting, table, alive, layer, busy, vms>>

\* prepare_edit refuses while the tree generates; the guest is built again.
Edit(t, s) ==
  /\ req[t].pc = "new" /\ meta[s] = "saved" /\ s \notin running
  /\ Comes(t, s, "edit", "admit")
  /\ UNCHANGED <<meta, running, booting, table, alive, layer, busy, vms>>

\* delete_bookkeeping refuses while the tree generates.
Delete(t, s) ==
  /\ req[t].pc = "new" /\ meta[s] = "saved" /\ s \notin running
  /\ Comes(t, s, "delete", "remove")
  /\ UNCHANGED <<meta, running, booting, table, alive, layer, busy, vms>>

-----------------------------------------------------------------------------
\* run_guest_boot: one boot at a time for a lease, the second is refused.
SlotForAll(t) ==         \* mutant: every request boots for itself
  /\ req[t].pc = "slot"
  /\ Goto(t, "admit")
  /\ UNCHANGED <<meta, running, booting, table, alive, layer, busy, vms>>

Slot(t) ==
  /\ req[t].pc = "slot"
  /\ IF req[t].s \in booting THEN req' = [req EXCEPT ![t] = Done] /\ UNCHANGED booting
     ELSE Goto(t, "admit") /\ booting' = booting \union {req[t].s}
  /\ UNCHANGED <<meta, running, table, alive, layer, busy, vms>>

\* What follows a boot that succeeded, or that failed.
Then(t, ok) ==
  CASE ~ok -> "done" [] req[t].kind = "say" -> "prepare" [] OTHER -> "commit"

Leave(t, ok) ==
  /\ booting' = IF req[t].kind = "say" THEN booting \ {req[t].s} ELSE booting
  /\ meta' = IF req[t].kind = "create" /\ ~ok THEN [meta EXCEPT ![req[t].s] = "none"] ELSE meta
  /\ req' = [req EXCEPT ![t] = [Fresh EXCEPT !.s = req[t].s, !.kind = req[t].kind, !.pc = Then(t, ok)]]

\* GuestBoot::run: admitted below the limit; who finds the guest there takes it.
Admit(t) ==
  /\ req[t].pc = "admit"
  /\ LET s == req[t].s
         admitted == s \in Leases \/ Cardinality(Leases) < Limit
     IN  IF admitted /\ (req[t].kind = "edit" \/ s \notin Leases)
         THEN Goto(t, IF req[t].kind = "edit" THEN "remove" ELSE "boot") /\ UNCHANGED <<booting, meta>>
         ELSE Leave(t, admitted)
  /\ UNCHANGED <<running, table, alive, layer, busy, vms>>

\* guest_stop: out of the table first, then shut down.
Remove(t) ==
  /\ req[t].pc = "remove"
  /\ table' = [table EXCEPT ![req[t].s] = 0]
  /\ req' = [req EXCEPT ![t].old = table[req[t].s], ![t].pc = "stop"]
  /\ UNCHANGED <<meta, running, booting, alive, layer, busy, vms>>

\* stop_lease waits for the call that is under way; the file of the lease goes.
StopNow(t) ==            \* mutant: does not wait for the call
  /\ req[t].pc = "stop"
  /\ alive' = alive \ {req[t].old}
  /\ layer' = IF req[t].old = 0 THEN layer ELSE [layer EXCEPT ![req[t].s] = 0]
  /\ IF req[t].kind = "delete" THEN Goto(t, "erase") /\ UNCHANGED <<booting, meta>>
     ELSE Leave(t, TRUE)
  /\ UNCHANGED <<running, table, busy, vms>>

StopOld(t) ==
  /\ req[t].pc = "stop"
  /\ req[t].old # 0 => busy[req[t].old] = Nobody
  /\ alive' = alive \ {req[t].old}
  /\ layer' = IF req[t].old = 0 THEN layer ELSE [layer EXCEPT ![req[t].s] = 0]
  /\ IF req[t].kind = "edit" /\ req[t].vm = 0 THEN Goto(t, "boot") /\ UNCHANGED <<booting, meta>>
     ELSE IF req[t].kind = "delete" THEN Goto(t, "erase") /\ UNCHANGED <<booting, meta>>
     ELSE Leave(t, TRUE)
  /\ UNCHANGED <<running, table, busy, vms>>

\* boot: the writable layer is made anew; what fails is taken down again.
Boot(t) ==
  /\ req[t].pc = "boot" /\ vms < MaxVms
  /\ vms' = vms + 1
  /\ alive' = alive \union {vms'}
  /\ layer' = [layer EXCEPT ![req[t].s] = vms']
  /\ req' = [req EXCEPT ![t].vm = vms', ![t].pc = "agent"]
  /\ UNCHANGED <<meta, running, booting, table, busy>>

BootFails(t) ==
  /\ req[t].pc = "agent"
  /\ alive' = alive \ {req[t].vm}
  /\ layer' = [layer EXCEPT ![req[t].s] = 0]
  /\ Leave(t, FALSE)
  /\ UNCHANGED <<running, table, busy, vms>>

\* guest_start: into the table, and what was there is stopped.
EnterOver(t) ==          \* mutant: what was there is dropped from the table
  /\ req[t].pc = "agent" /\ req[t].vm \in alive
  /\ table' = [table EXCEPT ![req[t].s] = req[t].vm]
  /\ Leave(t, TRUE)
  /\ UNCHANGED <<running, alive, layer, busy, vms>>

Enter(t) ==
  /\ req[t].pc = "agent" /\ req[t].vm \in alive
  /\ table' = [table EXCEPT ![req[t].s] = req[t].vm]
  /\ LET old == table[req[t].s]
     IN  IF old = 0 THEN Leave(t, TRUE)
         ELSE /\ req' = [req EXCEPT ![t].old = old, ![t].pc = "stop"]
              /\ UNCHANGED <<booting, meta>>
  /\ UNCHANGED <<running, alive, layer, busy, vms>>

-----------------------------------------------------------------------------
(***************************************************************************)
(* The second command, in the core, and the generation.                    *)
(***************************************************************************)
Commit(t) ==
  /\ req[t].pc = "commit"
  /\ meta' = [meta EXCEPT ![req[t].s] = IF req[t].kind = "create" THEN "saved" ELSE @]
  /\ req' = [req EXCEPT ![t] = Done]
  /\ UNCHANGED <<running, booting, table, alive, layer, busy, vms>>

Erase(t) ==
  /\ req[t].pc = "erase"
  /\ meta' = [meta EXCEPT ![req[t].s] = "deleted"]
  /\ req' = [req EXCEPT ![t] = Done]
  /\ UNCHANGED <<running, booting, table, alive, layer, busy, vms>>

Prepare(t) ==
  /\ req[t].pc = "prepare"
  /\ IF meta[req[t].s] = "saved" /\ req[t].s \notin running
     THEN Goto(t, "generate") /\ running' = running \union {req[t].s}
     ELSE req' = [req EXCEPT ![t] = Done] /\ UNCHANGED running
  /\ UNCHANGED <<meta, booting, table, alive, layer, busy, vms>>

\* run_guest: the guest is taken from the table, then its own lock.
Look(t) ==
  /\ req[t].pc = "generate"
  /\ IF req[t].s \in Leases
     THEN req' = [req EXCEPT ![t].vm = table[req[t].s], ![t].pc = "lock"]
     ELSE Goto(t, "end")                       \* no guest: the call is told so
  /\ UNCHANGED <<meta, running, booting, table, alive, layer, busy, vms>>

Lock(t) ==
  /\ req[t].pc = "lock" /\ busy[req[t].vm] = Nobody
  /\ IF req[t].vm \in alive
     THEN busy' = [busy EXCEPT ![req[t].vm] = t] /\ Goto(t, "exec")
     ELSE Goto(t, "end") /\ UNCHANGED busy     \* the channel is gone
  /\ UNCHANGED <<meta, running, booting, table, alive, layer, vms>>

Executed(t) ==
  /\ req[t].pc = "exec"
  /\ busy' = [busy EXCEPT ![req[t].vm] = Nobody]
  /\ Goto(t, "end")
  /\ UNCHANGED <<meta, running, booting, table, alive, layer, vms>>

End(t) ==
  /\ req[t].pc = "end"
  /\ running' = running \ {req[t].s}
  /\ req' = [req EXCEPT ![t] = Done]
  /\ UNCHANGED <<meta, booting, table, alive, layer, busy, vms>>

Asks(t) == \E s \in Trees : Create(t, s) \/ Say(t, s)
Changes(t) == \E s \in Trees : Edit(t, s) \/ Delete(t, s)
Runs(t) ==
  \/ Slot(t) \/ Admit(t) \/ Remove(t) \/ StopOld(t) \/ Boot(t) \/ BootFails(t) \/ Enter(t)
  \/ Commit(t) \/ Erase(t) \/ Prepare(t) \/ Look(t) \/ Lock(t) \/ Executed(t) \/ End(t)

\* Sessions are made and spoken in; and their configurations edited, and they deleted.
Talk == \E t \in Requests : Asks(t) \/ Runs(t)
Next == Talk \/ \E t \in Requests : Changes(t)
Spec == Init /\ [][Next]_vars

-----------------------------------------------------------------------------
TypeOK ==
  /\ running \subseteq Trees /\ booting \subseteq Trees
  /\ alive \subseteq 1..vms /\ vms \in 0..MaxVms
  /\ \A s \in Trees : table[s] \in 0..vms /\ layer[s] \in 0..vms

(***************************************************************************)
(* No machine is lost: one that lives is in the table, where a stop finds  *)
(* it, or a request that has not ended has it in hand.                     *)
(***************************************************************************)
NoLostGuests ==
  \A v \in alive :
    \/ \E s \in Trees : table[s] = v
    \/ \E t \in Requests : req[t].pc \in {"agent", "stop"} /\ v \in {req[t].vm, req[t].old}

\* A machine is stopped only between the calls of its session (stop_lease).
NotCutOff == \A v \in 1..vms : busy[v] # Nobody => v \in alive

(***************************************************************************)
(* "Never two for one lease" (GuestBoot::run): a lease has one machine at  *)
(* most, in the table or on its way there, and it works on its own layer.  *)
(* It holds of conversations; edits and deletes break it (README.md).      *)
(***************************************************************************)
OneGuestPerLease ==
  \A s \in Trees :
    LET mine == {v \in alive : v = table[s] \/ \E t \in Requests :
                   req[t].s = s /\ req[t].pc \in {"agent", "stop"} /\ v \in {req[t].vm, req[t].old}}
    IN  Cardinality(mine) <= 1 /\ \A v \in mine : layer[s] = v

\* "At the limit a start is refused" (docs/vm/README.md).  It does not hold: two
\* starts may each be admitted before either is in the table (README.md).
WithinLimit == Cardinality(Leases) <= Limit
=============================================================================
