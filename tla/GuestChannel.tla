---------------------------- MODULE GuestChannel ----------------------------
(***************************************************************************)
(* The agent channel of one guest.  Requests are answered in order and     *)
(* carry no numbers; a read gives up after ten seconds, its answer may     *)
(* still come, and a new connection keeps or loses what was under way.     *)
(* One call at a time has the channel (the lock of the lease).  A fenced   *)
(* call writes its policy file first; a cancel or the deadline runs a kill *)
(* as a second call inside the first.                                      *)
(***************************************************************************)
EXTENDS Naturals, Sequences

CONSTANTS
  MaxCalls,   \* bound: calls of the host
  MaxLate     \* bound: answers that come later than the host waits

VARIABLES
  call,       \* the number of the call
  at,         \* where it is: "idle", "sync", "resync", "file", "close", "exec", "status"
  sent,       \* a request is out and its answer waited for
  inner,      \* the second call, a kill, is under way: "no", "cancel", "deadline"
  pid,        \* the processes the agent named, of the call and of its kill
  again,      \* the status is asked for a second time, on a new connection
  stamp,      \* the number of the last handshake
  asks, wire, \* requests and answers under way
  jobs,       \* the processes of the guest: "none", "runs", "exited"
  late,       \* reads that gave up
  cancel, cancelSent, overdue,
  out         \* how the last call ended, and by the status of which process

vars == <<call, at, sent, inner, pid, again, stamp, asks, wire, jobs, late, cancel, cancelSent, overdue, out>>
flags == <<cancel, cancelSent, overdue>>

Killer(c) == MaxCalls + c
Jobs == 1..(2 * MaxCalls)
Nothing == [kind |-> "none", of |-> 0]
Outer == inner = "no"
Mine == IF Outer THEN pid[1] ELSE pid[2]

Init ==
  /\ call = 0 /\ at = "idle" /\ sent = FALSE /\ inner = "no" /\ pid = <<0, 0>> /\ again = FALSE
  /\ stamp = 0 /\ asks = <<>> /\ wire = <<>> /\ jobs = [j \in Jobs |-> "none"]
  /\ late = 0 /\ cancel = FALSE /\ cancelSent = FALSE /\ overdue = FALSE /\ out = Nothing

-----------------------------------------------------------------------------
(***************************************************************************)
(* The guest: the agent serves one request after the other.                *)
(***************************************************************************)
Serve ==
  /\ asks # <<>>
  /\ LET q == Head(asks)
     IN  /\ wire' = Append(wire, [q EXCEPT !.done = q.what = "status" /\ jobs[q.of] = "exited"])
         /\ jobs' = IF q.what = "exec" THEN [jobs EXCEPT ![q.of] = "runs"] ELSE jobs
  /\ asks' = Tail(asks)
  /\ UNCHANGED <<call, at, sent, inner, pid, again, stamp, late, flags, out>>

\* A command ends by itself, or when the signal of the kill reaches it; the kill
\* does not wait for that.
JobExits(j) ==
  /\ jobs[j] = "runs"
  /\ jobs' = [jobs EXCEPT ![j] = "exited"]
  /\ UNCHANGED <<call, at, sent, inner, pid, again, stamp, asks, wire, late, flags, out>>

-----------------------------------------------------------------------------
(***************************************************************************)
(* The host.                                                               *)
(***************************************************************************)
Goto(step) == at' = step /\ sent' = FALSE /\ again' = FALSE

Finish(kind, of) ==
  /\ at' = "idle" /\ sent' = FALSE /\ again' = FALSE /\ inner' = "no" /\ pid' = <<0, 0>>
  /\ out' = [kind |-> kind, of |-> of]
  /\ UNCHANGED cancelSent

\* A kill that ended, however, gives the channel back to its call.
KillReturns ==
  IF inner = "deadline" THEN Finish("timeout", 0)
  ELSE Goto("status") /\ inner' = "no" /\ UNCHANGED <<pid, out, cancelSent>>

Fails == IF Outer THEN Finish("failed", 0) ELSE KillReturns

Begin ==
  /\ at = "idle" /\ call < MaxCalls
  /\ call' = call + 1
  /\ Goto("sync") /\ out' = Nothing
  /\ cancel' = FALSE /\ cancelSent' = FALSE /\ overdue' = FALSE
  /\ UNCHANGED <<inner, pid, stamp, asks, wire, jobs, late>>

Ask(what, of) == asks' = Append(asks, [what |-> what, of |-> of, done |-> FALSE])

Send ==
  /\ at # "idle" /\ ~sent
  /\ sent' = TRUE
  /\ CASE at \in {"sync", "resync"} -> stamp' = stamp + 1 /\ Ask("sync", stamp')
       [] at \in {"file", "close"} -> Ask(at, 0) /\ UNCHANGED stamp
       [] at = "exec" -> Ask("exec", IF Outer THEN call ELSE Killer(call)) /\ UNCHANGED stamp
       [] at = "status" -> Ask("status", Mine) /\ UNCHANGED stamp
  /\ UNCHANGED <<call, at, inner, pid, again, wire, jobs, late, flags, out>>

\* sync: answers to older questions are read away until its own number comes.
InStepAny(r) == r.what = "sync"            \* mutant: any answer to a handshake will do
InStepFirst(r) == TRUE                     \* mutant: the first answer will do
InStep(r) == r.what = "sync" /\ r.of = stamp

\* After the handshake a fenced call writes its policy, a kill goes on at once.
Handshake(r) ==
  /\ \/ ~InStep(r) /\ UNCHANGED <<at, sent, again>>
     \/ InStep(r) /\ at = "sync" /\ Outer /\ Goto("resync")
     \/ InStep(r) /\ at = "sync" /\ Goto("exec")
     \/ InStep(r) /\ at = "resync" /\ Goto("file")
  /\ UNCHANGED <<inner, pid, out, cancelSent>>

\* The loop looks at the cancel flag, asks for the status, then looks at the time.
CancelOrPoll ==
  IF Outer /\ cancel /\ ~cancelSent
  THEN Goto("sync") /\ inner' = "cancel" /\ cancelSent' = TRUE
  ELSE Goto("status") /\ UNCHANGED <<inner, cancelSent>>

\* guest-exec answers with a process; whatever else came, it was not that.
Started(r) ==
  IF r.what = "exec"
  THEN CancelOrPoll /\ pid' = (IF Outer THEN <<r.of, pid[2]>> ELSE <<pid[1], r.of>>) /\ UNCHANGED out
  ELSE Fails

\* An answer that says "exited" ends the call.
Polled(r) ==
  IF r.what = "status" /\ r.done
  THEN IF Outer THEN Finish(IF cancelSent THEN "cancelled" ELSE "exited", r.of) ELSE KillReturns
  ELSE IF Outer /\ overdue THEN Goto("sync") /\ inner' = "deadline" /\ UNCHANGED <<pid, out, cancelSent>>
  ELSE CancelOrPoll /\ UNCHANGED <<pid, out>>

Receive ==
  /\ sent /\ wire # <<>>
  /\ wire' = Tail(wire)
  /\ LET r == Head(wire)
     IN  CASE at \in {"sync", "resync"} -> Handshake(r)
           [] at = "file" -> IF r.what = "file" THEN Goto("close") /\ UNCHANGED <<inner, pid, out, cancelSent>> ELSE Fails
           [] at = "close" -> Goto("exec") /\ UNCHANGED <<inner, pid, out, cancelSent>>
           [] at = "exec" -> Started(r)
           [] at = "status" -> Polled(r)
  /\ UNCHANGED <<call, stamp, asks, jobs, late, cancel, overdue>>

\* The read gives up.  A handshake and the first question for a status go on over
\* a new connection; the handshake gives up after fifteen seconds.
Reconnect == wire' \in {<<>>, wire}

GivesUp ==
  /\ sent /\ wire = <<>> /\ late < MaxLate
  /\ late' = late + 1
  /\ \/ at = "sync" /\ Goto("sync") /\ Reconnect /\ UNCHANGED <<inner, pid, out, cancelSent>>
     \/ at = "status" /\ ~again /\ Reconnect
        /\ sent' = FALSE /\ again' = TRUE /\ UNCHANGED <<at, inner, pid, out, cancelSent>>
     \/ at = "close" /\ Goto("exec") /\ UNCHANGED <<wire, inner, pid, out, cancelSent>>
     \/ (at \in {"sync", "resync", "file", "exec"} \/ again) /\ Fails /\ UNCHANGED wire
  /\ UNCHANGED <<call, stamp, asks, jobs, cancel, overdue>>

\* A connection is lost with what the guest had answered.
Lost ==
  /\ at \in {"sync", "status"} /\ sent /\ wire # <<>> /\ late < MaxLate
  /\ late' = late + 1 /\ wire' = <<>>
  /\ IF at = "status" /\ again THEN Fails
     ELSE sent' = FALSE /\ again' = (at = "status") /\ UNCHANGED <<at, inner, pid, out, cancelSent>>
  /\ UNCHANGED <<call, stamp, asks, jobs, cancel, overdue>>

Cancels == at # "idle" /\ ~cancel /\ cancel' = TRUE
           /\ UNCHANGED <<call, at, sent, inner, pid, again, stamp, asks, wire, jobs, late, cancelSent, overdue, out>>

Deadline == at # "idle" /\ ~overdue /\ overdue' = TRUE
            /\ UNCHANGED <<call, at, sent, inner, pid, again, stamp, asks, wire, jobs, late, cancel, cancelSent, out>>

Host == Begin \/ Send \/ Receive
Next == Host \/ Serve \/ (\E j \in Jobs : JobExits(j)) \/ GivesUp \/ Lost \/ Cancels \/ Deadline

\* The host goes on, the agent answers, time passes, and a kill ends.
Fairness ==
  /\ WF_vars(Send) /\ WF_vars(Receive) /\ WF_vars(Serve) /\ WF_vars(Deadline)
  /\ \A j \in (MaxCalls + 1)..(2 * MaxCalls) : WF_vars(JobExits(j))
Spec == Init /\ [][Next]_vars /\ Fairness

-----------------------------------------------------------------------------
TypeOK ==
  /\ call \in 0..MaxCalls /\ late \in 0..MaxLate
  /\ at \in {"idle", "sync", "resync", "file", "close", "exec", "status"}
  /\ inner \in {"no", "cancel", "deadline"} /\ pid \in (0..2 * MaxCalls) \X (0..2 * MaxCalls)

(***************************************************************************)
(* However late answers come: what a call reports as the end of its        *)
(* command is the end of that command, never of an older one, and the      *)
(* process it names is its own.                                            *)
(***************************************************************************)
RightAnswer ==
  /\ out.kind = "exited" => out.of = call /\ jobs[call] = "exited"
  /\ pid[1] \in {0, call} /\ pid[2] \in {0, Killer(call)}

\* A call ends, even if its command never does.
CallEnds == at # "idle" ~> at = "idle"

(***************************************************************************)
(* A call that is reported as cancelled runs no longer.  It does not hold: *)
(* the late answer about the killing command is taken for the call's own   *)
(* (README.md).                                                            *)
(***************************************************************************)
CancelledIsOver == out.kind = "cancelled" => jobs[call] = "exited"
=============================================================================
