------------------------------ MODULE Residents ------------------------------
(***************************************************************************)
(* Long-lived services of the modules (MCP servers).  Requests come on     *)
(* threads of their own: they look at the switches, take the lock of the   *)
(* table, start processes with no lock held, and speak to a process while  *)
(* they hold it.                                                           *)
(***************************************************************************)
EXTENDS Naturals, FiniteSets

CONSTANTS
  Requests,   \* threads, each one request of a user, a model or a session
  Services,   \* the services one module declares
  Leases,     \* sessions that services are started for
  MaxProcs    \* bound: processes started in all

VARIABLES
  module,     \* the switch of the module
  switch,     \* the switch of each service
  table,      \* the running instances: process and lease
  failed,     \* the lease of an instance that was found ended
  procs,      \* the processes that live
  born,       \* processes started so far
  lock,       \* who holds the lock of the table
  req         \* the requests

vars == <<module, switch, table, failed, procs, born, lock, req>>

None == [proc |-> 0, lease |-> "none"]
Nobody == "nobody"
Waiting == [pc |-> "new", todo |-> {}, k |-> "none", lease |-> "none", proc |-> 0, off |-> FALSE]
Done == [Waiting EXCEPT !.pc = "done"]
Enabled(k) == module /\ switch[k]
Unlocked == lock = Nobody

Init ==
  /\ module = TRUE /\ switch \in [Services -> BOOLEAN]
  /\ table = [k \in Services |-> None]
  /\ failed = [k \in Services |-> "none"]
  /\ procs = {} /\ born = 0 /\ lock = Nobody
  /\ req = [t \in Requests |-> Waiting]

Goto(t, pc) == req' = [req EXCEPT ![t].pc = pc]
Ends(t) == req' = [req EXCEPT ![t] = Done]
StopThese(t, ks, off) ==
  req' = [req EXCEPT ![t] = [Waiting EXCEPT !.pc = "stop", !.todo = ks, !.off = off]]

-----------------------------------------------------------------------------
\* start, also as the second half of "enable": the switch is looked at, then
\* the table; the process is started and greeted with no lock held.
Start(t, k, l) ==
  /\ req[t].pc = "new"
  /\ \/ UNCHANGED switch
     \/ switch' = [switch EXCEPT ![k] = TRUE]
  /\ req' = [req EXCEPT ![t] = [Waiting EXCEPT !.pc = "check", !.k = k, !.lease = l]]
  /\ UNCHANGED <<module, table, failed, procs, born, lock>>

Check(t) ==
  /\ req[t].pc = "check"
  /\ IF Enabled(req[t].k) THEN Goto(t, "look") ELSE Ends(t)
  /\ UNCHANGED <<module, switch, table, failed, procs, born, lock>>

Look(t) ==
  /\ req[t].pc = "look" /\ Unlocked
  /\ IF table[req[t].k] = None THEN Goto(t, "open") ELSE Ends(t)
  /\ UNCHANGED <<module, switch, table, failed, procs, born, lock>>

Open(t) ==
  /\ req[t].pc = "open"
  /\ \/ /\ born < MaxProcs
        /\ born' = born + 1 /\ procs' = procs \union {born'}
        /\ req' = [req EXCEPT ![t].pc = "greet", ![t].proc = born']
     \/ Ends(t) /\ UNCHANGED <<procs, born>>
  /\ UNCHANGED <<module, switch, table, failed, lock>>

\* A handshake that fails drops the session, which ends the process.
GreetLeaks(t) ==         \* mutant: the error returns, the process stays
  /\ req[t].pc = "greet"
  /\ \/ req[t].proc \in procs /\ Goto(t, "clear")
     \/ Ends(t)
  /\ UNCHANGED <<module, switch, table, failed, procs, born, lock>>

Greet(t) ==
  /\ req[t].pc = "greet"
  /\ \/ req[t].proc \in procs /\ Goto(t, "clear") /\ UNCHANGED procs
     \/ Ends(t) /\ procs' = procs \ {req[t].proc}
  /\ UNCHANGED <<module, switch, table, failed, born, lock>>

Clear(t) ==
  /\ req[t].pc = "clear"
  /\ failed' = [failed EXCEPT ![req[t].k] = "none"]
  /\ Goto(t, "insert")
  /\ UNCHANGED <<module, switch, table, procs, born, lock>>

\* What the entry replaces is dropped, and its process ended.
Insert(t) ==
  /\ req[t].pc = "insert" /\ Unlocked
  /\ procs' = procs \ {table[req[t].k].proc}
  /\ table' = [table EXCEPT ![req[t].k] = [proc |-> req[t].proc, lease |-> req[t].lease]]
  /\ Ends(t)
  /\ UNCHANGED <<module, switch, failed, born, lock>>

-----------------------------------------------------------------------------
\* call: the answer is waited for with the table locked; an instance that is
\* found ended leaves the table with its reason.
Call(t, k) ==
  /\ req[t].pc = "new"
  /\ req' = [req EXCEPT ![t] = IF Enabled(k) THEN [Waiting EXCEPT !.pc = "call", !.k = k] ELSE Done]
  /\ UNCHANGED <<module, switch, table, failed, procs, born, lock>>

Ask(t) ==
  /\ req[t].pc = "call" /\ Unlocked
  /\ IF table[req[t].k] = None THEN Ends(t) /\ UNCHANGED lock
     ELSE Goto(t, "wait") /\ lock' = t
  /\ UNCHANGED <<module, switch, table, failed, procs, born>>

Answered(t) ==
  /\ req[t].pc = "wait" /\ table[req[t].k].proc \in procs
  /\ lock' = Nobody /\ Ends(t)
  /\ UNCHANGED <<module, switch, table, failed, procs, born>>

FoundEndedStops(t) ==    \* mutant: stopped by stop(), which takes the lock again
  /\ req[t].pc = "wait" /\ table[req[t].k].proc \notin procs
  /\ StopThese(t, {req[t].k}, FALSE)
  /\ UNCHANGED <<module, switch, table, failed, procs, born, lock>>

FoundEnded(t) ==
  /\ req[t].pc = "wait" /\ table[req[t].k].proc \notin procs
  /\ table' = [table EXCEPT ![req[t].k] = None]
  /\ failed' = [failed EXCEPT ![req[t].k] = table[req[t].k].lease]
  /\ lock' = Nobody /\ Ends(t)
  /\ UNCHANGED <<module, switch, procs, born>>

-----------------------------------------------------------------------------
\* stop, "disable" (the switch goes off after the stop), and the switch of the
\* module (off before its services are stopped one after the other).
Stop(t, k) ==
  /\ req[t].pc = "new"
  /\ \E off \in BOOLEAN : StopThese(t, {k}, off)
  /\ UNCHANGED <<module, switch, table, failed, procs, born, lock>>

ModuleOff(t) ==
  /\ req[t].pc = "new" /\ module
  /\ module' = FALSE
  /\ StopThese(t, Services, FALSE)
  /\ UNCHANGED <<switch, table, failed, procs, born, lock>>

StopOne(t, k) ==
  /\ req[t].pc = "stop" /\ k \in req[t].todo /\ Unlocked
  /\ table' = [table EXCEPT ![k] = None]
  /\ failed' = [failed EXCEPT ![k] = "none"]
  /\ procs' = procs \ {table[k].proc}
  /\ req' = [req EXCEPT ![t].todo = @ \ {k}, ![t].k = k,
                        ![t].pc = IF req[t].todo # {k} THEN "stop"
                                  ELSE IF req[t].off THEN "switch" ELSE "done"]
  /\ UNCHANGED <<module, switch, born, lock>>

SwitchOff(t) ==
  /\ req[t].pc = "switch"
  /\ switch' = [switch EXCEPT ![req[t].k] = FALSE]
  /\ Ends(t)
  /\ UNCHANGED <<module, table, failed, procs, born, lock>>

\* reap: a deleted session takes what was started for it along.
Reap(t, l) ==
  /\ req[t].pc = "new" /\ Unlocked
  /\ LET mine == {k \in Services : table[k].lease = l}
     IN  /\ procs' = procs \ {table[k].proc : k \in mine}
         /\ table' = [k \in Services |-> IF k \in mine THEN None ELSE table[k]]
  /\ failed' = [k \in Services |-> IF failed[k] = l THEN "none" ELSE failed[k]]
  /\ Ends(t)
  /\ UNCHANGED <<module, switch, born, lock>>

\* A service ends by itself: nobody notices until it is called.
Exit(p) ==
  /\ p \in procs
  /\ procs' = procs \ {p}
  /\ UNCHANGED <<module, switch, table, failed, born, lock, req>>

Comes(t) ==
  \/ \E k \in Services : Call(t, k) \/ Stop(t, k) \/ \E l \in Leases : Start(t, k, l)
  \/ ModuleOff(t)
  \/ \E l \in Leases : Reap(t, l)

Runs(t) ==
  \/ Check(t) \/ Look(t) \/ Open(t) \/ Greet(t) \/ Clear(t) \/ Insert(t)
  \/ Ask(t) \/ Answered(t) \/ FoundEnded(t)
  \/ SwitchOff(t) \/ \E k \in Services : StopOne(t, k)

Next == (\E t \in Requests : Comes(t) \/ Runs(t)) \/ \E p \in procs : Exit(p)

\* A service answers or ends: there is no time limit in the code.
Fairness == \A t \in Requests : WF_vars(Runs(t))
Spec == Init /\ [][Next]_vars /\ Fairness

-----------------------------------------------------------------------------
TypeOK ==
  /\ module \in BOOLEAN /\ born \in 0..MaxProcs /\ procs \subseteq 1..MaxProcs
  /\ \A k \in Services : switch[k] \in BOOLEAN /\ table[k].proc \in 0..MaxProcs
  /\ lock \in Requests \union {Nobody}

(***************************************************************************)
(* No process is lost: whatever starts, stops, dies and is deleted at the  *)
(* same time, a process that lives is in the table, where a stop or a      *)
(* deletion finds it, or a start that has not ended has it; and no two     *)
(* entries share one.                                                      *)
(***************************************************************************)
NoStrays ==
  /\ \A p \in procs :
       \/ \E k \in Services : table[k].proc = p
       \/ \E t \in Requests : req[t].pc \in {"greet", "clear", "insert"} /\ req[t].proc = p
  /\ \A j, k \in Services : table[j].proc = table[k].proc /\ table[j] # None => j = k

\* A request that came ends, as long as services answer or end.
RequestEnds(t) == req[t].pc # "new" ~> req[t].pc = "done"

(***************************************************************************)
(* "The module goes down, its services are all stopped (a service can no   *)
(* longer run on a module that is down)" (set_module_enabled): once every  *)
(* request that came has ended, nothing of the module runs.  It does not   *)
(* hold: a start that looked at the switch before it went down enters its  *)
(* service afterwards (README.md).                                         *)
(***************************************************************************)
DownMeansStopped ==
  ~module /\ (\A t \in Requests : req[t].pc \in {"new", "done"}) =>
    \A k \in Services : table[k] = None
=============================================================================
