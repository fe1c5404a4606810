----------------------------- MODULE HostProofs -----------------------------
(***************************************************************************)
(* Proofs about what the host keeps: the ledger of access entries, the book*)
(* of children, the fence of a call, the builds and the collections, for   *)
(* any number of processes, leases, paths, process numbers, builders and   *)
(* items stored.                                                           *)
(***************************************************************************)
EXTENDS MCHost, FiniteSetTheorems, WellFoundedInduction, TLAPS

-----------------------------------------------------------------------------

(* What the thread of a call, its guard and what lives below it say of     *)
(* each other.                                                             *)
ToolShape ==
  /\ case \in Tool!Cases /\ below \subseteq {"command", "child", "loose"}
  /\ at \in {"prepare", "ask", "check", "wait", "join", "done"}
  /\ guard \in {"none", "starts", "runs", "ended"} /\ enforced \subseteq Tool!Parts
  /\ receipt \in {"none", "ok", "failed", "cancelled", "timeout", "exited", "not run"}

BeforeStart == at \in {"prepare", "ask", "check"} => guard = "none" /\ receipt = "none"
NotStarted == guard \in {"none", "starts"} => below = {} /\ ~ran /\ code = "none"
Started == (guard = "runs" => ran) /\ (code = "zero" => ran)
Awaited ==
  /\ at = "wait" => receipt = "none"
  /\ at = "join" => guard = "ended" /\ receipt \in {"cancelled", "timeout", "exited"}
  /\ at = "done" => guard \in {"none", "ended"} /\ below = {}

ToolInv ==
  /\ ToolShape /\ BeforeStart /\ NotStarted /\ Started /\ Awaited
  /\ Tool!FenceIsHonoured /\ Tool!EndsWithTheTree

(* A call begins, or there is none.                                        *)
LEMMA ToolStarts == Tool!Fresh /\ at \in {"prepare", "done"} => ToolInv
BY DEF Tool!Fresh, ToolInv, ToolShape, BeforeStart, NotStarted, Started, Awaited, Tool!FenceIsHonoured, Tool!EndsWithTheTree

(* Before the start: the guard is not there yet.                           *)
LEMMA ToolPrepares ==
  ASSUME ToolInv, Tool!Prepare \/ Tool!Asked \/ Tool!Check
  PROVE  ToolInv'
<1>1. /\ guard = "none" /\ UNCHANGED <<case, enforced, ran, below, job, code, halt, overdue>>
      /\ \/ at' \in {"check", "ask"} /\ receipt' = "none" /\ guard' = "none"
         \/ at' = "done" /\ receipt' = "not run" /\ guard' = "none"
         \/ at' = "wait" /\ receipt' = "none" /\ guard' = "starts"
  BY DEF ToolInv, BeforeStart, Tool!Prepare, Tool!Asked, Tool!Check, Tool!Refuse, Tool!inner
<1>2. ToolShape' /\ BeforeStart' /\ NotStarted' /\ Started' /\ Awaited'
  BY <1>1 DEF ToolInv, ToolShape, BeforeStart, NotStarted, Started, Awaited
<1>3. Tool!FenceIsHonoured'  BY <1>1 DEF ToolInv, NotStarted, Tool!FenceIsHonoured
<1>4. Tool!EndsWithTheTree'  BY <1>1 DEF ToolInv, NotStarted, Tool!EndsWithTheTree
<1> QED BY <1>2, <1>3, <1>4 DEF ToolInv

(* The guard: what it runs without was not asked for, or agreed to.        *)
LEMMA ToolGuard ==
  ASSUME ToolInv, Tool!Guard
  PROVE  ToolInv'
<1>1. guard = "starts" /\ UNCHANGED <<case, at, prepared, chosen, receipt, halt, overdue>>
  BY DEF Tool!Guard, Tool!outer
<1>2. at \in {"wait"} /\ receipt = "none" /\ ~ran /\ below = {} /\ code = "none"
  BY <1>1 DEF ToolInv, ToolShape, BeforeStart, NotStarted, Awaited
<1>3. \/ Tool!GuardRefuses
      \/ \E parts \in SUBSET {"fs", "net"} : Tool!Runs(parts)
  <2>1. CASE case.host = "windows"  BY <2>1 DEF Tool!Guard, Tool!GuardWindows, Tool!Bare
  <2>2. CASE case.host = "linux"
    <3>1. Tool!GuardLinux  BY <2>2 DEF Tool!Guard
    <3>2. PICK fails \in SUBSET {"fs", "net"} : Tool!GuardRefuses \/ Tool!Runs({"fs", "net"} \ fails)
      BY <3>1 DEF Tool!GuardLinux
    <3>3. {"fs", "net"} \ fails \in SUBSET {"fs", "net"}  OBVIOUS
    <3> HIDE DEF Tool!Runs, Tool!GuardRefuses
    <3> QED BY <3>2, <3>3
  <2>3. CASE case.host = "other"  BY <2>3 DEF Tool!Guard, Tool!GuardOther, Tool!Bare
  <2> QED BY <2>1, <2>2, <2>3 DEF ToolInv, ToolShape, Tool!Cases
<1>4. /\ guard' \in {"runs", "ended"} /\ below' \subseteq {"command"} /\ enforced' \subseteq Tool!Parts
      /\ guard' = "runs" => ran'
      /\ code' # "zero"
  <2>1. CASE Tool!GuardRefuses  BY <1>2, <2>1 DEF ToolInv, ToolShape, Tool!GuardRefuses
  <2>2. CASE \E parts \in SUBSET {"fs", "net"} : Tool!Runs(parts)
    <3> PICK parts \in SUBSET {"fs", "net"} : Tool!Runs(parts)  BY <2>2
    <3> QED BY <1>2 DEF Tool!Runs, Tool!Parts
  <2> QED BY <1>3, <2>1, <2>2
<1>6. ToolShape' /\ BeforeStart' /\ NotStarted' /\ Started' /\ Awaited' /\ Tool!EndsWithTheTree'
  BY <1>1, <1>2, <1>4 DEF ToolInv, ToolShape, BeforeStart, NotStarted, Started, Awaited, Tool!EndsWithTheTree
<1>5. Tool!FenceIsHonoured'
  <2>1. CASE case.host = "windows"
    BY <1>1, <1>2, <2>1 DEF Tool!Guard, Tool!GuardWindows, Tool!Bare, Tool!Runs, Tool!GuardRefuses, Tool!Strict, Tool!Policy, Tool!PolicyOfMode,
                            Tool!FenceIsHonoured
  <2>2. CASE case.host = "linux"
    BY <1>1, <1>2, <2>2 DEF Tool!Guard, Tool!GuardLinux, Tool!Bare, Tool!Runs, Tool!GuardRefuses, Tool!Policy, Tool!PolicyOfMode, Tool!FenceIsHonoured
  <2>3. CASE case.host = "other"
    BY <1>1, <1>2, <2>3 DEF Tool!Guard, Tool!GuardOther, Tool!Bare, Tool!Runs, Tool!GuardRefuses, Tool!Policy, Tool!PolicyOfMode, Tool!FenceIsHonoured
  <2> QED BY <2>1, <2>2, <2>3 DEF ToolInv, ToolShape, Tool!Cases
<1> QED BY <1>5, <1>6 DEF ToolInv

(* The command forks, ends, and what it left ends.                         *)
LEMMA ToolTree ==
  ASSUME ToolInv, Tool!Forks \/ Tool!Exits \/ Tool!LeftoverEnds
  PROVE  ToolInv'
<1>1. /\ guard \in {"runs", "ended"}
      /\ UNCHANGED <<case, at, prepared, chosen, receipt, halt, overdue, enforced, ran, job>>
  BY DEF Tool!Forks, Tool!Exits, Tool!LeftoverEnds, Tool!outer
<1>2. /\ guard' \in {guard, "ended"} /\ below' \subseteq {"command", "child", "loose"}
      /\ below' \subseteq below \/ (guard = "runs" /\ guard' = "runs")
      /\ code' \in {code, "zero", "other", "fence"} /\ (code' # code => guard = "runs")
  BY <1>1 DEF Tool!Forks, Tool!Exits, Tool!LeftoverEnds, ToolInv, ToolShape
<1>3. guard = "runs" => at = "wait" /\ receipt = "none" /\ ran
  BY DEF ToolInv, ToolShape, BeforeStart, Started, Awaited
<1>4. ToolShape' /\ BeforeStart' /\ NotStarted' /\ Started' /\ Awaited'
  BY <1>1, <1>2, <1>3 DEF ToolInv, ToolShape, BeforeStart, NotStarted, Started, Awaited
<1>5. Tool!FenceIsHonoured'  BY <1>1 DEF ToolInv, Tool!FenceIsHonoured
<1>6. Tool!EndsWithTheTree'
  BY <1>1, <1>2, <1>3 DEF ToolInv, ToolShape, Awaited, Tool!EndsWithTheTree
<1> QED BY <1>4, <1>5, <1>6 DEF ToolInv

(* The thread: it ends the tree, or waits for its end.                     *)
LEMMA ToolWaits ==
  ASSUME ToolInv, Tool!Wait \/ Tool!Joined
  PROVE  ToolInv'
<1>1. CASE Tool!Wait
  <2>1. /\ at = "wait" /\ at' = "join" /\ guard' = "ended" /\ receipt' \in {"cancelled", "timeout", "exited"}
        /\ UNCHANGED <<case, prepared, chosen, enforced, ran, job, code, halt, overdue>>
        /\ below' \subseteq below /\ (receipt' # "exited" /\ job => below' \subseteq {"loose"})
    BY <1>1 DEF Tool!Wait, Tool!Kill, ToolInv, ToolShape
  <2> QED BY <2>1 DEF ToolInv, ToolShape, BeforeStart, NotStarted, Started, Awaited, Tool!FenceIsHonoured,
                      Tool!EndsWithTheTree
<1>2. CASE Tool!Joined
  <2>1. /\ at = "join" /\ at' = "done" /\ below = {} /\ receipt \in {"cancelled", "timeout", "exited"}
        /\ receipt' \in {"cancelled", "timeout", "ok", "not run", "failed"}
        /\ receipt' = "ok" => code = "zero"
        /\ receipt' \in {"cancelled", "timeout"} => receipt' = receipt
        /\ UNCHANGED <<case, prepared, chosen, guard, enforced, ran, below, job, code, halt, overdue>>
    BY <1>2 DEF Tool!Joined, ToolInv, Awaited, Tool!inner
  <2> QED BY <2>1 DEF ToolInv, ToolShape, BeforeStart, NotStarted, Started, Awaited, Tool!FenceIsHonoured,
                      Tool!EndsWithTheTree
<1> QED BY <1>1, <1>2

(* Every step of a call keeps it.                                          *)
LEMMA ToolStep ==
  ASSUME ToolInv, Tool!Next \/ UNCHANGED Tool!vars
  PROVE  ToolInv'
<1>1. CASE Tool!Cancels \/ Tool!Deadline \/ UNCHANGED Tool!vars
  <2>1. UNCHANGED <<case, at, prepared, chosen, receipt, guard, enforced, ran, below, job, code>>
    BY <1>1 DEF Tool!Cancels, Tool!Deadline, Tool!vars, Tool!outer, Tool!inner
  <2> QED BY <2>1 DEF ToolInv, ToolShape, BeforeStart, NotStarted, Started, Awaited, Tool!FenceIsHonoured,
                      Tool!EndsWithTheTree
<1> QED BY <1>1, ToolPrepares, ToolGuard, ToolTree, ToolWaits DEF Tool!Next, Tool!Waits

-----------------------------------------------------------------------------

Processes == [kind : {"free", "child", "foreign"}, serial : Nat, parent : {"run"} \union {"nobody"}, guarded : BOOLEAN]
Entries == [pid : Pids, serial : Nat]

BookShape ==
  /\ phase \in [{"run"} -> {"off", "reconcile", "on"}]
  /\ mem \in [{"run"} -> SUBSET Entries] /\ todo \in [{"run"} -> SUBSET Entries]
  /\ fresh \in [{"run"} -> Entries \union {Book!NoEntry}]
  /\ book \in SUBSET Entries /\ proc \in [Pids -> Processes] /\ serial \in Nat

(* A run's children are there only while it is on.                         *)
Parents == \A p \in Pids : \A b \in {"run"} : proc[p].parent = b => proc[p].kind = "child" /\ phase[b] = "on"
Serials == \A p \in Pids : proc[p].kind = "child" => proc[p].serial # 0

(* The copy in memory is the file, which has a number once.                *)
Copies ==
  /\ \A b \in {"run"} : todo[b] \subseteq mem[b] /\ (phase[b] # "off" => mem[b] = book)
  /\ \A b \in {"run"} : phase[b] # "reconcile" => todo[b] = {}
  /\ \A b \in {"run"} : fresh[b] # Book!NoEntry \/ mem[b] # {} => phase[b] # "off"
  /\ \A e, f \in book : e.pid = f.pid => e = f
Newest ==
  \A b \in {"run"} : fresh[b] # Book!NoEntry =>
    /\ phase[b] = "on"
    /\ proc[fresh[b].pid].kind = "child" => proc[fresh[b].pid].serial = fresh[b].serial

BookInv == BookShape /\ Parents /\ Serials /\ Copies /\ Newest

(* Nothing is booked yet.                                                  *)
LEMMA BookStarts == Book!Init => BookInv
<1> SUFFICES ASSUME Book!Init PROVE BookInv  OBVIOUS
<1>1. Book!Free \in Processes  BY DEF Book!Free, Processes
<1>2. proc \in [Pids -> Processes]  BY <1>1 DEF Book!Init
<1>3. /\ phase \in [{"run"} -> {"off", "reconcile", "on"}] /\ serial \in Nat /\ book \in SUBSET Entries
      /\ mem \in [{"run"} -> SUBSET Entries] /\ todo \in [{"run"} -> SUBSET Entries]
      /\ fresh \in [{"run"} -> Entries \union {Book!NoEntry}]
  BY DEF Book!Init
<1>4. BookShape  BY <1>2, <1>3 DEF BookShape
<1> QED BY <1>4 DEF BookInv, Book!Init, Parents, Serials, Copies, Newest, Book!Free, Book!NoEntry

(* An entry is a number and a serial, and none is none.                    *)
LEMMA EntryParts == \A e \in Entries : e # Book!NoEntry /\ e = [pid |-> e.pid, serial |-> e.serial]
BY HostAssumption DEF Entries, Book!NoEntry

(* A run opens its book, is ready, or ends with what it guards.            *)
LEMMA BookOpens ==
  ASSUME BookInv, NEW b \in {"run"}, Book!Open(b) \/ Book!Ready(b) \/ Book!Die(b)
  PROVE  BookInv'
<1>0. b = "run"  OBVIOUS
<1>1. CASE Book!Open(b)
  BY <1>0, <1>1 DEF Book!Open, BookInv, BookShape, Parents, Serials, Copies, Newest
<1>2. CASE Book!Ready(b)
  BY <1>0, <1>2 DEF Book!Ready, BookInv, BookShape, Parents, Serials, Copies, Newest
<1>3. CASE Book!Die(b)
  <2>1. \A p \in Pids : proc[p] \in Processes  BY DEF BookInv, BookShape
  <2>2. \A p \in Pids : proc'[p] = proc[p] \/ proc'[p] = Book!Free \/ proc'[p] = [proc[p] EXCEPT !.parent = "nobody"]
    BY <1>3 DEF Book!Die
  <2>3. \A p \in Pids : [proc[p] EXCEPT !.parent = "nobody"] \in Processes  BY <2>1 DEF Processes
  <2>4. Book!Free \in Processes  BY DEF Book!Free, Processes
  <2>5. proc' \in [Pids -> Processes]
    <3>1. proc' = [p \in Pids |-> proc'[p]]  BY <1>3 DEF Book!Die
    <3>2. \A p \in Pids : proc'[p] \in Processes  BY <2>1, <2>2, <2>3, <2>4
    <3> QED BY <3>1, <3>2
  <2>6. \A p \in Pids : proc'[p].parent # "run"
    <3> SUFFICES ASSUME NEW p \in Pids PROVE proc'[p].parent # "run"  OBVIOUS
    <3>1. CASE proc[p].parent # "run"  BY <1>0, <1>3, <3>1 DEF Book!Die
    <3>2. CASE proc[p].parent = "run"
      <4>1. proc'[p] = Book!Free \/ proc'[p] = [proc[p] EXCEPT !.parent = "nobody"]  BY <1>0, <1>3, <3>2 DEF Book!Die
      <4>2. [proc[p] EXCEPT !.parent = "nobody"].parent = "nobody" /\ Book!Free.parent = "nobody"
        BY <2>1 DEF Processes, Book!Free
      <4> QED BY <4>1, <4>2
    <3> QED BY <3>1, <3>2
  <2>7. \A p \in Pids : proc'[p].kind = "child" => proc'[p].serial # 0
    <3>1. \A p \in Pids : [proc[p] EXCEPT !.parent = "nobody"].kind = proc[p].kind
                          /\ [proc[p] EXCEPT !.parent = "nobody"].serial = proc[p].serial
      BY <2>1 DEF Processes
    <3>2. Book!Free.kind # "child"  BY DEF Book!Free
    <3> SUFFICES ASSUME NEW p \in Pids, proc'[p].kind = "child" PROVE proc'[p].serial # 0  OBVIOUS
    <3>3. proc'[p] = proc[p] \/ proc'[p] = [proc[p] EXCEPT !.parent = "nobody"]  BY <2>2, <3>2
    <3>4. proc'[p].kind = proc[p].kind /\ proc'[p].serial = proc[p].serial  BY <3>1, <3>3
    <3> QED BY <3>4 DEF BookInv, Serials
  <2>8. BookShape'  BY <1>0, <1>3, <2>5 DEF Book!Die, BookInv, BookShape
  <2>9. Copies' /\ Newest'  BY <1>0, <1>3 DEF Book!Die, BookInv, BookShape, Copies, Newest
  <2> QED BY <1>0, <2>6, <2>7, <2>8, <2>9 DEF BookInv, Parents, Serials
<1> QED BY <1>1, <1>2, <1>3

(* A child that was started is booked.                                     *)
LEMMA BookRecords ==
  ASSUME BookInv, NEW b \in {"run"}, Book!Record(b)
  PROVE  BookInv'
<1>0. b = "run"  OBVIOUS
<1>1. /\ fresh[b] \in Entries /\ phase[b] = "on" /\ mem[b] = book /\ book \subseteq Entries
      /\ mem' = [mem EXCEPT ![b] = book'] /\ fresh' = [fresh EXCEPT ![b] = Book!NoEntry]
      /\ book' = {e \in mem[b] : e.pid # fresh[b].pid} \union {fresh[b]}
      /\ UNCHANGED <<phase, todo, proc, serial>>
  BY DEF BookInv, BookShape, Newest, Copies, Book!Record, Book!Saved
<1>2. BookShape'  BY <1>1 DEF BookInv, BookShape
<1>3. \A e, f \in book' : e.pid = f.pid => e = f  BY <1>1 DEF BookInv, Copies
<1>4. todo'[b] \subseteq mem'[b]
  BY <1>0, <1>1 DEF BookInv, BookShape, Copies
<1> QED BY <1>0, <1>1, <1>2, <1>3, <1>4 DEF BookInv, BookShape, Parents, Serials, Copies, Newest

(* A child is started: its serial is new.                                  *)
LEMMA BookSpawns ==
  ASSUME BookInv, NEW b \in {"run"}, NEW p \in Pids, Book!Spawn(b, p)
  PROVE  BookInv'
<1>0. b = "run"  OBVIOUS
<1>1. PICK g \in BOOLEAN :
        proc' = [proc EXCEPT ![p] = [kind |-> "child", serial |-> serial', parent |-> b, guarded |-> g]]
  BY DEF Book!Spawn
<1> DEFINE c == [kind |-> "child", serial |-> serial', parent |-> b, guarded |-> g]
<1>2. /\ phase[b] = "on" /\ serial' = serial + 1 /\ serial' \in Nat /\ serial' # 0
      /\ fresh' = [fresh EXCEPT ![b] = [pid |-> p, serial |-> serial']]
      /\ UNCHANGED <<phase, mem, todo, book>>
  BY DEF Book!Spawn, BookInv, BookShape
<1>3. c \in Processes /\ c.kind = "child" /\ c.serial = serial' /\ c.parent = b  BY <1>2 DEF Processes
<1>4. [pid |-> p, serial |-> serial'] \in Entries  BY <1>2 DEF Entries
<1>5. proc' = [proc EXCEPT ![p] = c]  BY <1>1
<1> HIDE DEF c
<1>6. BookShape'  BY <1>2, <1>3, <1>4, <1>5 DEF BookInv, BookShape
<1>7. Parents' /\ Serials'  BY <1>0, <1>2, <1>3, <1>5 DEF BookInv, BookShape, Parents, Serials
<1>8. fresh'[b] = [pid |-> p, serial |-> serial'] /\ proc'[p] = c
  BY <1>2, <1>5 DEF BookInv, BookShape
<1>9. Newest'  BY <1>0, <1>2, <1>3, <1>8 DEF Newest
<1>10. Copies'  BY <1>0, <1>2 DEF BookInv, BookShape, Copies
<1> QED BY <1>6, <1>7, <1>9, <1>10 DEF BookInv

(* A number becomes free, or somebody else's.                              *)
LEMMA BookFrees ==
  ASSUME BookInv, NEW p \in Pids, proc' = [proc EXCEPT ![p] = Book!Free] \/ proc' = [proc EXCEPT ![p] = Book!Foreign],
         UNCHANGED <<phase, mem, todo, fresh, book, serial>>
  PROVE  BookInv'
<1>1. PICK q \in Processes : q.kind # "child" /\ q.parent = "nobody" /\ proc' = [proc EXCEPT ![p] = q]
  <2>1. Book!Free \in Processes /\ Book!Foreign \in Processes /\ Book!Free.kind # "child" /\ Book!Foreign.kind # "child"
        /\ Book!Free.parent = "nobody" /\ Book!Foreign.parent = "nobody"
    BY DEF Book!Free, Book!Foreign, Processes
  <2> QED BY <2>1
<1>2. BookShape'  BY <1>1 DEF BookInv, BookShape
<1>3. Parents' /\ Serials'  BY <1>1 DEF BookInv, BookShape, Parents, Serials
<1>4. Copies'  BY DEF BookInv, Copies
<1>5. Newest'  BY <1>1 DEF BookInv, BookShape, Newest
<1> QED BY <1>2, <1>3, <1>4, <1>5 DEF BookInv

(* An entry is struck out, in memory and on the file.                      *)
LEMMA BookStrikes ==
  ASSUME BookInv, NEW b \in {"run"}, phase[b] # "off", NEW left \in SUBSET mem[b], Book!Saved(b, left),
         todo' \in [{"run"} -> SUBSET Entries], todo'[b] \subseteq left,
         phase[b] = "on" => todo'[b] = {}, UNCHANGED <<phase, fresh, serial, proc>>
  PROVE  BookInv'
<1>0. b = "run"  OBVIOUS
<1>1. mem' = [mem EXCEPT ![b] = left] /\ book' = left /\ mem[b] = book /\ book \subseteq Entries
  BY DEF Book!Saved, BookInv, BookShape, Copies
<1>2. BookShape'  BY <1>1 DEF BookInv, BookShape
<1>3. Copies'  BY <1>0, <1>1 DEF BookInv, BookShape, Copies
<1>4. Parents' /\ Serials' /\ Newest'  BY DEF BookInv, Parents, Serials, Newest
<1> QED BY <1>2, <1>3, <1>4 DEF BookInv

(* The entries are gone through, or one is forgotten.                      *)
LEMMA BookReconciles ==
  ASSUME BookInv, NEW b \in {"run"}, NEW e \in mem[b] \union todo[b], Book!Drop(b, e) \/ Book!Kill(b, e) \/ Book!Forget(b, e)
  PROVE  BookInv'
<1>0. b = "run"  OBVIOUS
<1>1. /\ phase[b] # "off" /\ UNCHANGED <<phase, fresh, serial>> /\ todo[b] \subseteq mem[b]
      /\ mem[b] \subseteq Entries /\ e \in Entries /\ e.pid \in Pids
  BY DEF Book!Drop, Book!Kill, Book!Forget, BookInv, BookShape, Copies, Entries
<1>2. CASE Book!Drop(b, e)
  <2>1. todo' \in [{"run"} -> SUBSET Entries] /\ todo'[b] = todo[b] \ {e}  BY <1>2 DEF Book!Drop, BookInv, BookShape
  <2>2. mem[b] \ {e} \in SUBSET mem[b] /\ Book!Saved(b, mem[b] \ {e}) /\ phase[b] = "reconcile" /\ UNCHANGED proc
    BY <1>2 DEF Book!Drop
  <2> QED BY <1>1, <2>1, <2>2, BookStrikes
<1>3. CASE Book!Forget(b, e)
  <2>1. todo' = todo /\ phase[b] = "on" /\ todo[b] = {} /\ UNCHANGED proc
    BY <1>3 DEF Book!Forget, BookInv, Copies
  <2>2. {f \in mem[b] : f.pid # e.pid} \in SUBSET mem[b] /\ Book!Saved(b, {f \in mem[b] : f.pid # e.pid})
    BY <1>3 DEF Book!Forget
  <2>3. todo' \in [{"run"} -> SUBSET Entries] /\ todo'[b] = {}  BY <2>1 DEF BookInv, BookShape
  <2> QED BY <1>1, <2>1, <2>2, <2>3, BookStrikes
<1>4. CASE Book!Kill(b, e)
  <2>1. todo' \in [{"run"} -> SUBSET Entries] /\ todo'[b] = todo[b] \ {e} /\ phase[b] = "reconcile"
    BY <1>4 DEF Book!Kill, BookInv, BookShape
  <2>2. CASE UNCHANGED <<proc, mem, book>>
    <3>1. Book!Saved(b, mem[b])  BY <1>1, <2>2 DEF Book!Saved, BookInv, BookShape, Copies
    <3> QED BY <1>1, <2>1, <2>2, <3>1, BookStrikes
  <2>3. CASE proc' = [proc EXCEPT ![e.pid] = Book!Free] /\ Book!Saved(b, mem[b] \ {e})
    <3>0. Book!Free \in Processes /\ Book!Free.kind # "child" /\ Book!Free.parent = "nobody"  BY DEF Book!Free, Processes
    <3>1. PICK q \in Processes : q = Book!Free /\ q.kind # "child" /\ q.parent = "nobody"  BY <3>0
    <3>2. proc' = [proc EXCEPT ![e.pid] = q]  BY <2>3, <3>1
    <3>3. mem' = [mem EXCEPT ![b] = book'] /\ book' = mem[b] \ {e} /\ mem[b] = book /\ book \subseteq Entries
      BY <1>1, <2>3 DEF Book!Saved, BookInv, BookShape, Copies
    <3>4. BookShape'  BY <1>1, <2>1, <3>2, <3>3 DEF BookInv, BookShape
    <3>5. Parents' /\ Serials'  BY <1>0, <1>1, <3>1, <3>2 DEF BookInv, BookShape, Parents, Serials
    <3>6. Copies'  BY <1>0, <1>1, <2>1, <3>3 DEF BookInv, BookShape, Copies
    <3>7. Newest'  BY <1>1, <3>1, <3>2 DEF BookInv, BookShape, Newest
    <3> QED BY <3>4, <3>5, <3>6, <3>7 DEF BookInv
  <2> QED BY <1>4, <2>2, <2>3 DEF Book!Kill
<1> QED BY <1>2, <1>3, <1>4

(* Every step keeps the book.                                              *)
LEMMA BookStep ==
  ASSUME BookInv, Book!Next \/ UNCHANGED Book!vars
  PROVE  BookInv'
<1>1. CASE UNCHANGED Book!vars
  BY <1>1 DEF Book!vars, BookInv, BookShape, Parents, Serials, Copies, Newest
<1>2. CASE \E p \in Pids : Book!Exit(p) \/ Book!Reused(p)
  BY <1>2, BookFrees DEF Book!Exit, Book!Reused
<1> QED BY <1>1, <1>2, BookOpens, BookRecords, BookSpawns, BookReconciles DEF Book!Next

(* A start ends children of ours whose own run is gone, and no others.     *)
LEMMA BookEnds ==
  ASSUME BookInv, Book!Next \/ UNCHANGED Book!vars
  PROVE  Book!EndsOrphans
<1> SUFFICES ASSUME NEW p \in Pids, todo' # todo, phase' = phase, proc[p] # Book!Free, proc'[p] = Book!Free
             PROVE  proc[p].kind = "child" /\ proc[p].parent = "nobody"
  BY DEF Book!EndsOrphans
<1>0. proc' # proc  OBVIOUS
<1>1. \A b \in {"run"} : ~Book!Open(b) /\ ~Book!Ready(b) /\ ~Book!Record(b)  BY <1>0 DEF Book!Open, Book!Ready, Book!Record
<1>2. \A b \in {"run"} : ~Book!Die(b)
  <2> SUFFICES ASSUME NEW b \in {"run"}, Book!Die(b) PROVE FALSE  OBVIOUS
  <2> QED BY DEF Book!Die, BookInv, BookShape
<1>3. \A q \in Pids : ~Book!Exit(q) /\ ~Book!Reused(q) /\ \A b \in {"run"} : ~Book!Spawn(b, q)  BY DEF Book!Exit, Book!Reused, Book!Spawn
<1>4. PICK b \in {"run"} : \E e \in mem[b] \union todo[b] : Book!Drop(b, e) \/ Book!Kill(b, e) \/ Book!Forget(b, e)
  BY <1>0, <1>1, <1>2, <1>3 DEF Book!Next, Book!vars
<1>5. PICK e \in mem[b] \union todo[b] : Book!Kill(b, e) /\ proc' = [proc EXCEPT ![e.pid] = Book!Free]
  BY <1>0, <1>4 DEF Book!Drop, Book!Kill, Book!Forget
<1>6. p = e.pid  BY <1>5 DEF BookInv, BookShape
<1>7. proc[p].kind = "child" /\ phase[b] = "reconcile"  BY <1>5, <1>6 DEF Book!Kill, Book!IsIt
<1>8. proc[p].parent \in {"run", "nobody"}  BY <1>0 DEF BookInv, BookShape, Processes
<1> QED BY <1>0, <1>7, <1>8 DEF BookInv, Parents

(* A child that was booked stays on the file until it is gone.             *)
LEMMA BookKeeps ==
  ASSUME BookInv, Book!Next \/ UNCHANGED Book!vars
  PROVE  Book!StaysBooked
<1> SUFFICES ASSUME NEW p \in Pids, proc[p].kind = "child", Book!Entry(p) \in book,
                    proc'[p].serial = proc[p].serial, Book!Entry(p) \notin book'
             PROVE  FALSE
  BY DEF Book!StaysBooked
<1>0. book' # book  OBVIOUS
<1>1. Book!Entry(p).pid = p /\ Book!Entry(p).serial = proc[p].serial /\ Book!IsIt(Book!Entry(p))  BY DEF Book!Entry, Book!IsIt
<1>2. \A b \in {"run"} : ~Book!Open(b) /\ ~Book!Ready(b) /\ ~Book!Die(b)  BY <1>0 DEF Book!Open, Book!Ready, Book!Die
<1>3. \A q \in Pids : ~Book!Exit(q) /\ ~Book!Reused(q) /\ \A b \in {"run"} : ~Book!Spawn(b, q)
  BY <1>0 DEF Book!Exit, Book!Reused, Book!Spawn
<1>4. CASE \E b \in {"run"} : Book!Record(b)
  <2> PICK b \in {"run"} : Book!Record(b)  BY <1>4
  <2>1. fresh[b] \in Entries /\ mem[b] = book
    BY DEF BookInv, BookShape, Newest, Copies, Book!Record
  <2>2. book' = {e \in mem[b] : e.pid # fresh[b].pid} \union {fresh[b]}  BY DEF Book!Record, Book!Saved
  <2>3. p = fresh[b].pid  BY <1>1, <2>1, <2>2
  <2>4. fresh[b].serial = proc[p].serial  BY <2>3 DEF BookInv, Newest, Book!Record
  <2>5. fresh[b] = Book!Entry(p)  BY <2>1, <2>3, <2>4, EntryParts DEF Book!Entry
  <2> QED BY <2>2, <2>5
<1>5. CASE \E b \in {"run"} : \E e \in mem[b] \union todo[b] : Book!Drop(b, e) \/ Book!Kill(b, e) \/ Book!Forget(b, e)
  <2> PICK b \in {"run"} : \E e \in mem[b] \union todo[b] : Book!Drop(b, e) \/ Book!Kill(b, e) \/ Book!Forget(b, e)  BY <1>5
  <2> PICK e \in mem[b] \union todo[b] : Book!Drop(b, e) \/ Book!Kill(b, e) \/ Book!Forget(b, e)  OBVIOUS
  <2>1. mem[b] = book /\ e \in book /\ e.pid \in Pids
    BY DEF Book!Drop, Book!Kill, Book!Forget, BookInv, BookShape, Copies, Entries
  <2>2. CASE Book!Drop(b, e)  BY <1>1, <2>1, <2>2 DEF Book!Drop, Book!Saved
  <2>3. CASE Book!Kill(b, e)
    <3>1. proc' = [proc EXCEPT ![e.pid] = Book!Free] /\ book' = mem[b] \ {e}  BY <1>0, <2>3 DEF Book!Kill, Book!Saved
    <3>2. e = Book!Entry(p)  BY <2>1, <3>1
    <3>3. proc'[p] = Book!Free  BY <1>1, <3>1, <3>2 DEF BookInv, BookShape
    <3> QED BY <3>3 DEF BookInv, Serials, Book!Free
  <2>4. CASE Book!Forget(b, e)
    <3>1. book' = {f \in mem[b] : f.pid # e.pid} /\ ~Book!IsIt(e)  BY <2>4 DEF Book!Forget, Book!Saved
    <3>2. e.pid = Book!Entry(p).pid  BY <2>1, <3>1
    <3>3. e = Book!Entry(p)  BY <2>1, <3>2 DEF BookInv, Copies
    <3> QED BY <1>1, <3>1, <3>3
  <2> QED BY <2>2, <2>3, <2>4
<1> QED BY <1>0, <1>2, <1>3, <1>4, <1>5 DEF Book!Next, Book!vars

-----------------------------------------------------------------------------

Builds == [pc : {"idle", "hit", "lock", "steal", "volume", "mount", "build", "copying", "finish", "stop"},
           root : Roots \union {Pair!NoRoot}, seen : Nat, file : Nat, copy : Nat]
Locks == [file : Nat, by : Builders \union {"nobody"}, old : BOOLEAN, alive : BOOLEAN]
Janitors == [at : Roots \union {Pair!NoRoot}, pc : {"rest", "volume", "lock"}]

BuildShape ==
  /\ builder \in [Builders -> Builds] /\ lock \in [Roots -> Locks] /\ locks \in Nat /\ source \in Nat
  /\ janitor \in Janitors /\ raced \subseteq Roots

(* Only a dead lock grows old.                                             *)
OldIsDead == \A r \in Roots : lock[r].old => ~lock[r].alive
Placed == \A b \in Builders : builder[b].pc \notin {"idle", "hit"} => builder[b].root \in Roots

(* Who works on a root where nobody was raced wrote the lock that is       *)
(* there, and nobody who has looked at it is about to remove it.           *)
At(b, r) == Pair!Works(builder[b]) /\ builder[b].root = r
Owned(b, r) == lock[r].alive /\ lock[r].by = b /\ ~Pair!Sought(r)
Owning == \A b \in Builders, r \in Roots : At(b, r) /\ r \notin raced => Owned(b, r)

PairInv == BuildShape /\ OldIsDead /\ Placed /\ Owning

(* No lock is a lock nobody holds, and no root is one.                     *)
LEMMA NoLockIsOne ==
  /\ Pair!NoLock \in Locks /\ ~Pair!NoLock.old /\ ~Pair!NoLock.alive
  /\ Pair!NoRoot \notin Roots /\ Pair!Away \in Janitors /\ Pair!Away.at = Pair!NoRoot
BY HostAssumption DEF Pair!NoLock, Locks, Pair!Away, Pair!NoRoot, Janitors

(* A builder that rests is a builder.                                      *)
LEMMA PairIdle == Pair!Idle \in Builds /\ Pair!Idle.pc = "idle"
BY DEF Pair!Idle, Builds

(* No builder works yet.                                                   *)
LEMMA PairStarts == Pair!Init => PairInv
<1> SUFFICES ASSUME Pair!Init PROVE PairInv  OBVIOUS
<1>1. BuildShape  BY NoLockIsOne, PairIdle DEF Pair!Init, BuildShape
<1>2. \A b \in Builders : builder[b].pc = "idle"  BY PairIdle DEF Pair!Init
<1>3. OldIsDead  BY NoLockIsOne DEF Pair!Init, OldIsDead
<1> QED BY <1>1, <1>2, <1>3 DEF PairInv, Placed, Owning, At, Pair!Works

(* Two that work in one volume would both have written its lock.           *)
LEMMA PairMeans == PairInv => Pair!VolumeIsOwned
<1> SUFFICES ASSUME PairInv, NEW b \in Builders, NEW c \in Builders, b # c,
                    Pair!Holds(b), Pair!Holds(c), Pair!On(b) = Pair!On(c), Pair!On(b) \notin raced
             PROVE  FALSE
  BY DEF Pair!VolumeIsOwned
<1>1. Pair!On(b) \in Roots  BY DEF PairInv, Placed, Pair!Holds, Pair!Works, Pair!On
<1>2. At(b, Pair!On(b)) /\ At(c, Pair!On(b))  BY DEF At, Pair!Holds, Pair!On
<1>3. Owned(b, Pair!On(b)) /\ Owned(c, Pair!On(b))  BY <1>1, <1>2 DEF PairInv, Owning
<1> QED BY <1>3 DEF Owned

(* Who stops looking, or goes on from there, is about to remove no more.   *)
LEMMA SoughtBefore ==
  ASSUME PairInv, janitor'.at \in {janitor.at, Pair!NoRoot},
         \A d \in Builders : builder'[d].pc = "steal" =>
                               builder[d].pc = "steal" /\ builder'[d].root = builder[d].root
  PROVE  \A r \in Roots : Pair!Sought(r)' => Pair!Sought(r)
<1> SUFFICES ASSUME NEW r \in Roots, Pair!Sought(r)' PROVE Pair!Sought(r)  OBVIOUS
<1>1. janitor'.at = r \/ \E c \in Builders : builder'[c].pc = "steal" /\ builder'[c].root = r
  BY DEF Pair!Sought, Pair!On
<1> QED BY <1>1, NoLockIsOne DEF Pair!Sought, Pair!On

(* A builder goes on while the locks stay.                                 *)
LEMMA PairGoes ==
  ASSUME PairInv, NEW b \in Builders, NEW c \in Builds, builder' = [builder EXCEPT ![b] = c],
         c.pc \notin {"idle", "hit"} => c.root \in Roots /\ c.pc # "steal",
         c.pc \in {"volume", "mount", "build", "copying", "finish", "stop"} => Pair!Holds(b) /\ c.root = Pair!On(b),
         UNCHANGED <<lock, locks, janitor, raced>>, source' \in Nat
  PROVE  PairInv'
<1>1. \A d \in Builders : builder'[d] = IF d = b THEN c ELSE builder[d]  BY DEF PairInv, BuildShape
<1>2. BuildShape'  BY DEF PairInv, BuildShape
<1>3. Placed'  BY <1>1 DEF PairInv, Placed
<1>4. \A r \in Roots : Pair!Sought(r)' => Pair!Sought(r)  BY <1>1, SoughtBefore
<1>5. Owning'
  <2> SUFFICES ASSUME NEW d \in Builders, NEW r \in Roots, At(d, r)', r \notin raced'
               PROVE  Owned(d, r)'
    BY DEF Owning
  <2>1. At(d, r)  BY <1>1 DEF At, Pair!Works, Pair!Holds, Pair!On
  <2>2. Owned(d, r)  BY <2>1 DEF PairInv, Owning
  <2> QED BY <1>4, <2>2 DEF Owned
<1>6. OldIsDead'  BY DEF PairInv, OldIsDead
<1> QED BY <1>2, <1>3, <1>5, <1>6 DEF PairInv

(* A builder finds a lock that is old: nobody works there unraced.         *)
LEMMA PairFinds ==
  ASSUME PairInv, NEW b \in Builders, Pair!FindStale(b)
  PROVE  PairInv'
<1> DEFINE c == [builder[b] EXCEPT !.pc = "steal"]
<1>1. /\ builder[b].pc = "lock" /\ lock[Pair!On(b)].old /\ builder[b] \in Builds
      /\ builder' = [builder EXCEPT ![b] = c] /\ UNCHANGED <<source, lock, locks, janitor, raced>>
      /\ Pair!On(b) \in Roots
  BY DEF Pair!FindStale, Pair!Goto, PairInv, BuildShape, Placed, Pair!On
<1>2. c \in Builds /\ c.pc = "steal" /\ c.root = Pair!On(b)  BY <1>1 DEF Builds, Pair!On
<1> HIDE DEF c
<1>3. \A d \in Builders : builder'[d] = IF d = b THEN c ELSE builder[d]  BY <1>1 DEF PairInv, BuildShape
<1>4. BuildShape'  BY <1>1, <1>2 DEF PairInv, BuildShape
<1>5. Placed' /\ OldIsDead'  BY <1>1, <1>2, <1>3 DEF PairInv, Placed, OldIsDead
<1>6. Owning'
  <2> SUFFICES ASSUME NEW d \in Builders, NEW r \in Roots, At(d, r)', r \notin raced'
               PROVE  Owned(d, r)'
    BY DEF Owning
  <2>1. d # b /\ At(d, r)  BY <1>2, <1>3 DEF At, Pair!Works
  <2>2. Owned(d, r)  BY <1>1, <2>1 DEF PairInv, Owning
  <2>3. r # Pair!On(b)  BY <1>1, <2>2 DEF PairInv, OldIsDead, Owned
  <2>4. ~Pair!Sought(r)'  BY <1>1, <1>2, <1>3, <2>2, <2>3 DEF Owned, Pair!Sought, Pair!On
  <2> QED BY <1>1, <2>2, <2>4 DEF Owned
<1> QED BY <1>4, <1>5, <1>6 DEF PairInv

(* A lock is taken where there was none.                                   *)
LEMMA PairAcquires ==
  ASSUME PairInv, NEW b \in Builders, Pair!Acquire(b)
  PROVE  PairInv'
<1> DEFINE k == [file |-> locks', by |-> b, old |-> FALSE, alive |-> TRUE]
           c == [builder[b] EXCEPT !.pc = "volume", !.file = locks']
           o == Pair!On(b)
<1>1. /\ builder[b].pc = "lock" /\ lock[o] = Pair!NoLock /\ locks' \in Nat /\ UNCHANGED <<janitor, source>>
      /\ lock' = [lock EXCEPT ![o] = k]
      /\ raced' = IF Pair!Sought(o) THEN raced \union {o} ELSE raced
      /\ builder[b] \in Builds /\ o \in Roots
  BY DEF Pair!Acquire, Pair!TakesLock, PairInv, BuildShape, Placed, Pair!On
<1>2. builder' = [builder EXCEPT ![b] = c]
  BY <1>1 DEF Pair!Acquire, Pair!TakesLock, PairInv, BuildShape
<1>3. c \in Builds /\ c.pc = "volume" /\ c.root = o  BY <1>1 DEF Builds, Pair!On
<1>4. k \in Locks /\ k.alive /\ ~k.old /\ k.by = b  BY <1>1 DEF Locks
<1> HIDE DEF k, c
<1>5. \A d \in Builders : builder'[d] = IF d = b THEN c ELSE builder[d]  BY <1>2 DEF PairInv, BuildShape
<1>6. \A r \in Roots : lock'[r] = IF r = o THEN k ELSE lock[r]  BY <1>1 DEF PairInv, BuildShape
<1>7. BuildShape'  BY <1>1, <1>2, <1>3, <1>4 DEF PairInv, BuildShape
<1>8. OldIsDead'  BY <1>1, <1>4, <1>6 DEF PairInv, OldIsDead
<1>9. Placed'  BY <1>1, <1>3, <1>5 DEF PairInv, Placed
<1>10. \A r \in Roots : Pair!Sought(r)' => Pair!Sought(r)  BY <1>1, <1>3, <1>5, SoughtBefore
<1>11. Owning'
  <2> SUFFICES ASSUME NEW d \in Builders, NEW r \in Roots, At(d, r)', r \notin raced'
               PROVE  Owned(d, r)'
    BY DEF Owning
  <2>1. CASE d = b
    <3>1. r = o  BY <1>3, <1>5, <2>1 DEF At
    <3>2. ~Pair!Sought(r)  BY <1>1, <3>1
    <3>3. ~Pair!Sought(r)'  BY <1>10, <3>2
    <3>4. lock'[r] = k  BY <1>6, <3>1
    <3> QED BY <1>4, <2>1, <3>3, <3>4 DEF Owned
  <2>2. CASE d # b
    <3>1. At(d, r) /\ r \notin raced  BY <1>1, <1>5, <2>2 DEF At
    <3>2. Owned(d, r)  BY <3>1 DEF PairInv, Owning
    <3>3. r # o  BY <1>1, <3>2, NoLockIsOne DEF Owned
    <3>4. lock'[r] = lock[r]  BY <1>6, <3>3
    <3>5. ~Pair!Sought(r)'  BY <1>10, <3>2 DEF Owned
    <3> QED BY <3>2, <3>4, <3>5 DEF Owned
  <2> QED BY <2>1, <2>2
<1> QED BY <1>7, <1>8, <1>9, <1>11 DEF PairInv

(* A lock file is removed where it was looked at, or by who works there.   *)
LEMMA PairRemoves ==
  ASSUME PairInv, NEW o \in Roots, NEW b \in Builders, NEW c \in Builds,
         lock' = [lock EXCEPT ![o] = Pair!NoLock], builder' = [builder EXCEPT ![b] = c],
         c = builder[b] \/ c.pc \in {"idle", "lock"}, c.pc = "lock" => c.root \in Roots,
         janitor' \in Janitors, janitor'.at \in {janitor.at, Pair!NoRoot},
         UNCHANGED <<source, locks>>, raced' \subseteq Roots,
         Pair!Sought(o) \/ (At(b, o) /\ c.pc = "idle"),
         \A r \in Roots : r \in raced /\ r \notin raced' => \A d \in Builders \ {b} : ~At(d, r),
         \A r \in Roots : r \in raced /\ r \notin raced' => c.pc = "idle"
  PROVE  PairInv'
<1>1. \A d \in Builders : builder'[d] = IF d = b THEN c ELSE builder[d]  BY DEF PairInv, BuildShape
<1>2. \A r \in Roots : lock'[r] = IF r = o THEN Pair!NoLock ELSE lock[r]  BY DEF PairInv, BuildShape
<1>3. BuildShape'  BY NoLockIsOne DEF PairInv, BuildShape
<1>4. OldIsDead'  BY <1>2, NoLockIsOne DEF PairInv, OldIsDead
<1>5. Placed'  BY <1>1 DEF PairInv, Placed
<1>6. \A r \in Roots : Pair!Sought(r)' => Pair!Sought(r)  BY <1>1, SoughtBefore
<1>7. Owning'
  <2> SUFFICES ASSUME NEW d \in Builders, NEW r \in Roots, At(d, r)', r \notin raced'
               PROVE  Owned(d, r)'
    BY DEF Owning
  <2>1. At(d, r) /\ (d = b => c = builder[b])  BY <1>1 DEF At, Pair!Works
  <2>2. r \notin raced
    <3>1. CASE d # b  BY <2>1, <3>1
    <3>2. CASE d = b  BY <1>1, <3>2 DEF At, Pair!Works
    <3> QED BY <3>1, <3>2
  <2>3. Owned(d, r)  BY <2>1, <2>2 DEF PairInv, Owning
  <2>4. r # o
    <3> SUFFICES ASSUME r = o PROVE FALSE  OBVIOUS
    <3>1. At(b, r) /\ c.pc = "idle"  BY <2>3 DEF Owned
    <3>2. Owned(b, r)  BY <2>2, <3>1 DEF PairInv, Owning
    <3>3. d = b  BY <2>3, <3>2 DEF Owned
    <3> QED BY <1>1, <3>1, <3>3 DEF At, Pair!Works
  <2>5. ~Pair!Sought(r)'  BY <1>6, <2>3 DEF Owned
  <2> QED BY <1>2, <2>3, <2>4, <2>5 DEF Owned
<1> QED BY <1>3, <1>4, <1>5, <1>7 DEF PairInv

(* A builder removes what it took for dead, or gives back its own; storage *)
(* removes what it took for unused.                                        *)
LEMMA PairReleases ==
  ASSUME PairInv, NEW b \in Builders, Pair!Steal(b) \/ Pair!Release(b) \/ Pair!DeleteLock
  PROVE  PairInv'
<1>0. /\ builder \in [Builders -> Builds] /\ janitor \in Janitors /\ raced \subseteq Roots
      /\ builder[b] \in Builds
  BY DEF PairInv, BuildShape
<1>1. CASE Pair!Steal(b)
  <2> DEFINE c == [builder[b] EXCEPT !.pc = "lock"]
  <2>1. /\ builder[b].pc = "steal" /\ lock' = [lock EXCEPT ![Pair!On(b)] = Pair!NoLock]
        /\ builder' = [builder EXCEPT ![b] = c] /\ UNCHANGED <<source, janitor, locks, raced>>
    BY <1>1 DEF Pair!Steal, Pair!Goto
  <2>2. Pair!On(b) \in Roots /\ Pair!Sought(Pair!On(b))
    BY <2>1 DEF PairInv, Placed, Pair!On, Pair!Sought
  <2>3. c \in Builds /\ c.pc = "lock" /\ c.root = Pair!On(b)  BY <1>0 DEF Builds, Pair!On
  <2> HIDE DEF c
  <2> QED BY <1>0, <2>1, <2>2, <2>3, PairRemoves
<1>2. CASE Pair!Release(b)
  <2>1. /\ builder[b].pc = "stop" /\ lock' = [lock EXCEPT ![Pair!On(b)] = Pair!NoLock]
        /\ builder' = [builder EXCEPT ![b] = Pair!Idle] /\ UNCHANGED <<source, janitor, locks>>
        /\ raced' = {r \in raced : \E c \in Builders \ {b} : Pair!Holds(c) /\ Pair!On(c) = r}
    BY <1>2 DEF Pair!Release, Pair!Leaves
  <2>2. Pair!On(b) \in Roots /\ At(b, Pair!On(b))
    BY <2>1 DEF PairInv, Placed, Pair!On, At, Pair!Works
  <2>3. raced' \subseteq Roots  BY <1>0, <2>1
  <2>4. \A r \in Roots : r \in raced /\ r \notin raced' => \A d \in Builders \ {b} : ~At(d, r)
    BY <2>1 DEF At, Pair!Holds, Pair!On
  <2> QED BY <1>0, <2>1, <2>2, <2>3, <2>4, PairIdle, PairRemoves
<1>3. CASE Pair!DeleteLock
  <2>1. /\ janitor.pc = "lock" /\ lock' = [lock EXCEPT ![janitor.at] = Pair!NoLock]
        /\ janitor' = Pair!Away /\ UNCHANGED <<source, builder, locks, raced>>
    BY <1>3 DEF Pair!DeleteLock
  <2>2. builder' = [builder EXCEPT ![b] = builder[b]]  BY <1>0, <2>1
  <2>3. builder[b].pc = "lock" => builder[b].root \in Roots  BY DEF PairInv, Placed
  <2>4. CASE janitor.at \in Roots
    <3>1. Pair!Sought(janitor.at)  BY DEF Pair!Sought
    <3> QED BY <1>0, <2>1, <2>2, <2>3, <2>4, <3>1, NoLockIsOne, PairRemoves
  <2>5. CASE janitor.at \notin Roots
    <3>1. lock' = lock  BY <2>1, <2>5 DEF PairInv, BuildShape
    <3>2. \A r \in Roots : Pair!Sought(r)' => Pair!Sought(r)  BY <2>1, NoLockIsOne, SoughtBefore
    <3>3. Owning'  BY <2>1, <3>1, <3>2 DEF PairInv, Owning, At, Owned
    <3> QED BY <2>1, <3>1, <3>3, NoLockIsOne DEF PairInv, BuildShape, OldIsDead, Placed
  <2> QED BY <2>4, <2>5
<1> QED BY <1>1, <1>2, <1>3

(* A process dies, and its lock is a dead one.                             *)
LEMMA PairDies ==
  ASSUME PairInv, NEW b \in Builders, Pair!Die(b)
  PROVE  PairInv'
<1>1. /\ builder' = [builder EXCEPT ![b] = Pair!Idle] /\ UNCHANGED <<source, janitor, locks>>
      /\ raced' = {r \in raced : \E c \in Builders \ {b} : Pair!Holds(c) /\ Pair!On(c) = r}
      /\ lock' = [r \in Roots |-> IF lock[r] # Pair!NoLock /\ lock[r].by = b
                                   THEN [lock[r] EXCEPT !.alive = FALSE] ELSE lock[r]]
  BY DEF Pair!Die, Pair!Leaves
<1>2. \A d \in Builders : builder'[d] = IF d = b THEN Pair!Idle ELSE builder[d]  BY <1>1 DEF PairInv, BuildShape
<1>3. ASSUME NEW r \in Roots
      PROVE  lock'[r] \in Locks /\ (lock'[r].old => ~lock'[r].alive) /\ (lock[r].by # b => lock'[r] = lock[r])
  BY <1>1 DEF PairInv, BuildShape, OldIsDead, Locks
<1>4. raced' \subseteq Roots /\ lock' \in [Roots -> Locks]  BY <1>1, <1>3 DEF PairInv, BuildShape
<1>5. BuildShape'  BY <1>1, <1>4, PairIdle DEF PairInv, BuildShape
<1>6. OldIsDead' /\ Placed'  BY <1>2, <1>3, PairIdle DEF PairInv, OldIsDead, Placed
<1>7. \A r \in Roots : Pair!Sought(r)' => Pair!Sought(r)  BY <1>1, <1>2, PairIdle, SoughtBefore
<1>8. Owning'
  <2> SUFFICES ASSUME NEW d \in Builders, NEW r \in Roots, At(d, r)', r \notin raced'
               PROVE  Owned(d, r)'
    BY DEF Owning
  <2>1. d # b /\ At(d, r)  BY <1>2, PairIdle DEF At, Pair!Works
  <2>2. r \notin raced  BY <1>1, <2>1 DEF At, Pair!Holds, Pair!On
  <2>3. Owned(d, r)  BY <2>1, <2>2 DEF PairInv, Owning
  <2>4. lock'[r] = lock[r]  BY <1>3, <2>1, <2>3 DEF Owned
  <2>5. ~Pair!Sought(r)'  BY <1>7, <2>3 DEF Owned
  <2> QED BY <2>3, <2>4, <2>5 DEF Owned
<1> QED BY <1>5, <1>6, <1>8 DEF PairInv

(* Storage looks at a lock nobody alive has; a dead one grows old; and a   *)
(* volume goes, or the cleaning is given up.                               *)
LEMMA PairCleans ==
  ASSUME PairInv, NEW r0 \in Roots,
         Pair!FindUnused(r0) \/ Pair!Ages(r0) \/ Pair!DeleteVolume \/ Pair!DeletionFails
  PROVE  PairInv'
<1>1. UNCHANGED <<builder, raced, locks, source>>
  BY DEF Pair!FindUnused, Pair!Ages, Pair!DeleteVolume, Pair!DeletionFails
<1>2. CASE Pair!FindUnused(r0)
  <2>1. /\ janitor' = [at |-> r0, pc |-> "volume"] /\ lock' = lock /\ ~lock[r0].alive
    BY <1>2, NoLockIsOne DEF Pair!FindUnused, Pair!InUse
  <2>2. janitor' \in Janitors /\ janitor'.at = r0  BY <2>1 DEF Janitors
  <2>3. Owning'
    <3> SUFFICES ASSUME NEW d \in Builders, NEW r \in Roots, At(d, r)', r \notin raced'
                 PROVE  Owned(d, r)'
      BY DEF Owning
    <3>1. Owned(d, r)  BY <1>1 DEF PairInv, Owning, At
    <3>2. r # r0  BY <2>1, <3>1 DEF Owned
    <3>3. ~Pair!Sought(r)'  BY <1>1, <2>2, <3>1, <3>2 DEF Owned, Pair!Sought, Pair!On
    <3> QED BY <2>1, <3>1, <3>3 DEF Owned
  <2> QED BY <1>1, <2>1, <2>2, <2>3 DEF PairInv, BuildShape, OldIsDead, Placed
<1>3. CASE Pair!Ages(r0)
  <2>1. /\ janitor' = janitor /\ lock' = [lock EXCEPT ![r0] = [lock[r0] EXCEPT !.old = TRUE]] /\ ~lock[r0].alive
        /\ lock \in [Roots -> Locks]
    BY <1>3 DEF Pair!Ages, PairInv, BuildShape
  <2>2. [lock[r0] EXCEPT !.old = TRUE] \in Locks /\ ~[lock[r0] EXCEPT !.old = TRUE].alive
    BY <2>1 DEF Locks
  <2>3. \A r \in Roots : lock'[r] = IF r = r0 THEN [lock[r0] EXCEPT !.old = TRUE] ELSE lock[r]
    BY <2>1
  <2>4. OldIsDead'  BY <2>2, <2>3 DEF PairInv, OldIsDead
  <2>5. lock' \in [Roots -> Locks]  BY <2>1, <2>2
  <2>6. Owning'
    <3> SUFFICES ASSUME NEW d \in Builders, NEW r \in Roots, At(d, r)', r \notin raced'
                 PROVE  Owned(d, r)'
      BY DEF Owning
    <3>1. Owned(d, r)  BY <1>1 DEF PairInv, Owning, At
    <3>2. r # r0  BY <2>1, <3>1 DEF Owned
    <3>3. ~Pair!Sought(r)'  BY <1>1, <2>1, <3>1 DEF Owned, Pair!Sought, Pair!On
    <3> QED BY <2>3, <3>1, <3>2, <3>3 DEF Owned
  <2> QED BY <1>1, <2>1, <2>4, <2>5, <2>6 DEF PairInv, BuildShape, Placed
<1>4. CASE Pair!DeleteVolume \/ Pair!DeletionFails
  <2>1. lock' = lock /\ janitor' \in Janitors /\ janitor'.at \in {janitor.at, Pair!NoRoot}
    <3>1. janitor \in Janitors  BY DEF PairInv, BuildShape
    <3>2. CASE Pair!DeleteVolume  BY <3>1, <3>2 DEF Pair!DeleteVolume, Janitors
    <3>3. CASE Pair!DeletionFails  BY <3>3, NoLockIsOne DEF Pair!DeletionFails
    <3> QED BY <1>4, <3>2, <3>3
  <2>2. \A r \in Roots : Pair!Sought(r)' => Pair!Sought(r)  BY <1>1, <2>1, SoughtBefore
  <2>3. Owning'  BY <1>1, <2>1, <2>2 DEF PairInv, Owning, At, Owned
  <2> QED BY <1>1, <2>1, <2>3 DEF PairInv, BuildShape, OldIsDead, Placed
<1> QED BY <1>2, <1>3, <1>4

(* A step of a builder that leaves the locks alone.                        *)
LEMMA PairWorks ==
  ASSUME PairInv, NEW b \in Builders,
         Pair!Plan(b) \/ Pair!Hit(b) \/ Pair!Return(b) \/ Pair!Refuse(b) \/ Pair!Attach(b) \/ Pair!Mount(b) \/ Pair!CopyOut(b) \/ Pair!CopiedOut(b)
           \/ Pair!Finish(b) \/ Pair!Fails(b)
  PROVE  PairInv'
<1>0. /\ UNCHANGED <<lock, locks, janitor, raced, source>> /\ source \in Nat /\ builder[b] \in Builds
      /\ builder \in [Builders -> Builds]
  BY DEF Pair!Plan, Pair!Hit, Pair!Return, Pair!Refuse, Pair!Attach, Pair!Mount, Pair!CopyOut, Pair!CopiedOut, Pair!Finish, Pair!Fails, PairInv, BuildShape
<1>1. CASE Pair!Plan(b) \/ Pair!Hit(b)
  <2>1. PICK r \in Roots : builder' = [builder EXCEPT ![b] = [Pair!Idle EXCEPT !.pc = "lock", !.root = r, !.seen = source]]
                           \/ builder' = [builder EXCEPT ![b] = [Pair!Idle EXCEPT !.pc = "hit", !.root = r]]
    BY <1>1 DEF Pair!Plan, Pair!Hit
  <2>2. /\ [Pair!Idle EXCEPT !.pc = "lock", !.root = r, !.seen = source] \in Builds
        /\ [Pair!Idle EXCEPT !.pc = "lock", !.root = r, !.seen = source].pc = "lock"
        /\ [Pair!Idle EXCEPT !.pc = "lock", !.root = r, !.seen = source].root = r
        /\ [Pair!Idle EXCEPT !.pc = "hit", !.root = r] \in Builds
        /\ [Pair!Idle EXCEPT !.pc = "hit", !.root = r].pc = "hit"
    BY <1>0, PairIdle DEF Builds
  <2> QED BY <1>0, <2>1, <2>2, PairGoes
<1>2. CASE Pair!Return(b) \/ Pair!Refuse(b)
  BY <1>0, <1>2, PairIdle, PairGoes DEF Pair!Return, Pair!Refuse
<1>3. CASE Pair!Attach(b) \/ Pair!CopyOut(b) \/ Pair!CopiedOut(b) \/ Pair!Finish(b) \/ Pair!Fails(b)
  <2>1. PICK pc \in {"mount", "copying", "finish", "stop"} : builder' = [builder EXCEPT ![b] = [builder[b] EXCEPT !.pc = pc]]
    BY <1>0, <1>3 DEF Pair!Attach, Pair!CopyOut, Pair!CopiedOut, Pair!Finish, Pair!Fails, Pair!Goto
  <2>2. Pair!Holds(b) /\ Pair!On(b) \in Roots
    BY <1>3 DEF Pair!Attach, Pair!CopyOut, Pair!CopiedOut, Pair!Finish, Pair!Fails, Pair!Holds, Pair!Works, PairInv, Placed, Pair!On
  <2>3. [builder[b] EXCEPT !.pc = pc] \in Builds /\ [builder[b] EXCEPT !.pc = pc].pc = pc
        /\ [builder[b] EXCEPT !.pc = pc].root = Pair!On(b)
    BY <1>0 DEF Builds, Pair!On
  <2> QED BY <1>0, <2>1, <2>2, <2>3, PairGoes
<1>4. CASE Pair!Mount(b)
  <2>1. builder' = [builder EXCEPT ![b] = [builder[b] EXCEPT !.pc = "build", !.copy = source]]
    BY <1>0, <1>4 DEF Pair!Mount
  <2>2. Pair!Holds(b) /\ Pair!On(b) \in Roots  BY <1>4 DEF Pair!Mount, Pair!Holds, Pair!Works, PairInv, Placed, Pair!On
  <2>3. [builder[b] EXCEPT !.pc = "build", !.copy = source] \in Builds
        /\ [builder[b] EXCEPT !.pc = "build", !.copy = source].pc = "build"
        /\ [builder[b] EXCEPT !.pc = "build", !.copy = source].root = Pair!On(b)
    BY <1>0 DEF Builds, Pair!On
  <2> QED BY <1>0, <2>1, <2>2, <2>3, PairGoes
<1> QED BY <1>1, <1>2, <1>3, <1>4

(* Every step keeps who owns what.                                         *)
LEMMA PairStep ==
  ASSUME PairInv, Pair!Next \/ UNCHANGED Pair!vars
  PROVE  PairInv'
<1>1. CASE UNCHANGED Pair!vars \/ Pair!Edit \/ \E r \in Roots : Pair!QueuePurge(r)
  <2>1. UNCHANGED <<builder, lock, locks, janitor, raced>> /\ source' \in Nat
    BY <1>1 DEF Pair!vars, Pair!Edit, Pair!QueuePurge, PairInv, BuildShape
  <2> QED BY <2>1 DEF PairInv, BuildShape, OldIsDead, Placed, Owning, At, Owned, Pair!Sought, Pair!On
<1>2. ASSUME NEW b \in Builders, Pair!Step(b) \/ Pair!Die(b) PROVE PairInv'
  BY <1>2, PairFinds, PairAcquires, PairReleases, PairWorks, PairDies DEF Pair!Step
<1>3. ASSUME NEW r \in Roots, Pair!Ages(r) \/ Pair!FindUnused(r) PROVE PairInv'  BY <1>3, PairCleans
<1>4. CASE Pair!DeleteVolume \/ Pair!DeleteLock \/ Pair!DeletionFails
  <2>1. CASE Builders = {}
    <3>1. UNCHANGED <<source, locks, raced, builder>>
      BY <1>4 DEF Pair!DeleteVolume, Pair!DeleteLock, Pair!DeletionFails
    <3>2. janitor' \in Janitors
      <4>1. janitor \in Janitors  BY DEF PairInv, BuildShape
      <4> QED BY <1>4, <4>1, NoLockIsOne DEF Pair!DeleteVolume, Pair!DeleteLock, Pair!DeletionFails, Janitors
    <3>3. lock' = lock \/ lock' = [lock EXCEPT ![janitor.at] = Pair!NoLock]
      BY <1>4 DEF Pair!DeleteVolume, Pair!DeleteLock, Pair!DeletionFails
    <3>4. lock' \in [Roots -> Locks] /\ OldIsDead'
      BY <3>3, NoLockIsOne DEF PairInv, BuildShape, OldIsDead
    <3> QED BY <2>1, <3>1, <3>2, <3>4 DEF PairInv, BuildShape, Placed, Owning
  <2>2. ASSUME NEW b \in Builders PROVE PairInv'
    <3>1. CASE Pair!DeleteLock  BY <3>1, PairReleases
    <3>2. CASE (Pair!DeleteVolume \/ Pair!DeletionFails) /\ Roots # {}  BY <3>2, PairCleans
    <3>3. CASE (Pair!DeleteVolume \/ Pair!DeletionFails) /\ Roots = {}
      <4>1. UNCHANGED <<source, locks, raced, builder, lock>>
        BY <3>3 DEF Pair!DeleteVolume, Pair!DeletionFails
      <4>2. janitor' \in Janitors
        <5>1. janitor \in Janitors  BY DEF PairInv, BuildShape
        <5> QED BY <3>3, <5>1, NoLockIsOne DEF Pair!DeleteVolume, Pair!DeletionFails, Janitors
      <4> QED BY <3>3, <4>1, <4>2 DEF PairInv, BuildShape, OldIsDead, Placed, Owning
    <3> QED BY <1>4, <3>1, <3>2, <3>3
  <2> QED BY <2>1, <2>2
<1> QED BY <1>1, <1>2, <1>3, <1>4 DEF Pair!Next

-----------------------------------------------------------------------------

Products == [target : {r1} \union {Lone!NoRoot}, copy : Nat, whole : BOOLEAN]
States == [target : {r1} \union {Lone!NoRoot}, seen : Nat]
Places == [pc : {"idle", "hit", "lock", "steal", "volume", "mount", "build", "copying", "finish", "stop"},
           root : {r1} \union {Lone!NoRoot}, seen : Nat, file : Nat, copy : Nat]

LoneShape ==
  /\ builder \in [{b1} -> Places] /\ product \in Products /\ state \in States
  /\ source \in Nat \ {0} /\ locks \in Nat

(* A builder that got its place found nothing fresh, and nothing becomes   *)
(* fresh before it finishes; what it copies is not older than what it saw. *)
Stale == \A r \in {r1} : state # [target |-> r, seen |-> source]
Under(b) == builder[b].pc \notin {"idle", "hit", "stop"}
Building(b) ==
  /\ Under(b) => Stale /\ builder[b].root \in {r1} /\ builder[b].seen <= source
  /\ builder[b].pc \in {"build", "copying", "finish"} =>
       builder[b].seen <= builder[b].copy /\ builder[b].copy <= source
  /\ builder[b].pc = "finish" => product = [target |-> builder[b].root, copy |-> builder[b].copy, whole |-> TRUE]

(* What the state calls fresh is whole, and of the source as it is.        *)
FreshIsWhole ==
  /\ state.seen <= source
  /\ \A r \in {r1} : state = [target |-> r, seen |-> source] =>
                        product = [target |-> r, copy |-> source, whole |-> TRUE]

LoneInv == LoneShape /\ FreshIsWhole /\ \A b \in {b1} : Building(b)

(* A builder that rests is a builder.                                      *)
LEMMA IdlePlace == Lone!Idle \in Places /\ Lone!Idle.pc = "idle"
BY DEF Lone!Idle, Places

(* Nothing is built yet.                                                   *)
LEMMA LoneStarts == Lone!Init => LoneInv
<1> SUFFICES ASSUME Lone!Init PROVE LoneInv  OBVIOUS
<1>1. LoneShape  BY IdlePlace DEF Lone!Init, LoneShape, Products, States
<1>2. \A b \in {b1} : builder[b].pc = "idle"  BY IdlePlace DEF Lone!Init
<1>3. FreshIsWhole  BY HostAssumption DEF Lone!Init, FreshIsWhole
<1> QED BY <1>1, <1>2, <1>3 DEF LoneInv, Building, Under

(* The builder goes on, and leaves what was built as it is.                *)
LEMMA LoneGoes ==
  ASSUME LoneInv, NEW b \in {b1}, NEW c \in Places, builder' = [builder EXCEPT ![b] = c],
         c.pc \notin {"idle", "hit", "stop"} => Stale /\ c.root \in {r1} /\ c.seen <= source,
         c.pc \in {"build", "copying", "finish"} => c.seen <= c.copy /\ c.copy <= source,
         c.pc # "finish",
         UNCHANGED <<source, state, product>>, locks' \in Nat
  PROVE  LoneInv'
<1>1. \A d \in {b1} : d = b /\ builder'[d] = c  BY DEF LoneInv, LoneShape
<1>2. LoneShape'  BY DEF LoneInv, LoneShape
<1>3. Stale' = Stale  BY DEF Stale
<1>4. \A d \in {b1} : Building(d)'  BY <1>1, <1>3 DEF Building, Under
<1>5. FreshIsWhole'  BY DEF LoneInv, FreshIsWhole
<1> QED BY <1>2, <1>4, <1>5 DEF LoneInv

(* A step of the builder that writes neither product nor state.            *)
LEMMA LoneWorks ==
  ASSUME LoneInv, NEW b \in {b1},
         Lone!Plan(b) \/ Lone!Hit(b) \/ Lone!Return(b) \/ Lone!Refuse(b) \/ Lone!Acquire(b) \/ Lone!FindStale(b) \/ Lone!Steal(b) \/ Lone!Attach(b)
           \/ Lone!Mount(b) \/ Lone!Fails(b) \/ Lone!Release(b) \/ Lone!Die(b)
  PROVE  LoneInv'
<1>0. /\ UNCHANGED <<source, state, product>> /\ locks' \in {locks, locks + 1}
      /\ source \in Nat /\ builder[b] \in Places /\ locks \in Nat
      /\ builder \in [{b1} -> Places] /\ Building(b)
  BY DEF Lone!Plan, Lone!Hit, Lone!Return, Lone!Refuse, Lone!Acquire, Lone!FindStale, Lone!Steal, Lone!Attach, Lone!Mount, Lone!Fails, Lone!Release, Lone!Die, Lone!TakesLock, Lone!Leaves, LoneInv, LoneShape
<1>0a. locks' \in Nat  BY <1>0
<1>1. CASE Lone!Plan(b)
  <2>1. PICK r \in {r1} : ~Lone!Fresh(r) /\ builder' = [builder EXCEPT ![b] = [Lone!Idle EXCEPT !.pc = "lock", !.root = r, !.seen = source]]
    BY <1>1 DEF Lone!Plan
  <2>2. /\ [Lone!Idle EXCEPT !.pc = "lock", !.root = r, !.seen = source] \in Places
        /\ [Lone!Idle EXCEPT !.pc = "lock", !.root = r, !.seen = source].pc = "lock"
        /\ [Lone!Idle EXCEPT !.pc = "lock", !.root = r, !.seen = source].root = r
        /\ [Lone!Idle EXCEPT !.pc = "lock", !.root = r, !.seen = source].seen = source
    BY <1>0, IdlePlace DEF Places
  <2>3. Stale
    <3> SUFFICES ASSUME state = [target |-> r, seen |-> source] PROVE FALSE  BY DEF Stale
    <3>1. product.copy = source  BY DEF LoneInv, FreshIsWhole
    <3> QED BY <2>1, <3>1 DEF Lone!Fresh, LoneInv, LoneShape
  <2>4. PICK c \in Places : /\ builder' = [builder EXCEPT ![b] = c] /\ c.pc = "lock"
                            /\ c.root \in {r1} /\ c.seen <= source
    <3>1. \E c \in Places : c = [Lone!Idle EXCEPT !.pc = "lock", !.root = r, !.seen = source]  BY <2>2
    <3>2. PICK c \in Places : c = [Lone!Idle EXCEPT !.pc = "lock", !.root = r, !.seen = source]  BY <3>1
    <3>3. c.pc = "lock" /\ c.root = r /\ c.seen = source  BY <2>2, <3>2
    <3>4. c.seen <= source  BY <1>0, <3>3
    <3> QED BY <2>1, <3>2, <3>3, <3>4
  <2> QED BY <1>0, <1>0a, <2>3, <2>4, LoneGoes
<1>2. CASE Lone!Hit(b)
  <2>1. PICK r \in {r1} : builder' = [builder EXCEPT ![b] = [Lone!Idle EXCEPT !.pc = "hit", !.root = r]]
    BY <1>2 DEF Lone!Hit
  <2>2. /\ [Lone!Idle EXCEPT !.pc = "hit", !.root = r] \in Places /\ [Lone!Idle EXCEPT !.pc = "hit", !.root = r].pc = "hit"
    BY IdlePlace DEF Places
  <2> QED BY <1>0, <1>0a, <2>1, <2>2, LoneGoes
<1>3. CASE Lone!Return(b) \/ Lone!Refuse(b) \/ Lone!Release(b) \/ Lone!Die(b)
  BY <1>0, <1>0a, <1>3, IdlePlace, LoneGoes DEF Lone!Return, Lone!Refuse, Lone!Release, Lone!Die, Lone!Leaves
<1>4. CASE Lone!Acquire(b)
  <2>1. builder' = [builder EXCEPT ![b] = [builder[b] EXCEPT !.pc = "volume", !.file = locks']] /\ builder[b].pc = "lock"
    BY <1>0, <1>4 DEF Lone!Acquire, Lone!TakesLock
  <2>2. /\ [builder[b] EXCEPT !.pc = "volume", !.file = locks'] \in Places
        /\ [builder[b] EXCEPT !.pc = "volume", !.file = locks'].pc = "volume"
        /\ [builder[b] EXCEPT !.pc = "volume", !.file = locks'].root = builder[b].root
        /\ [builder[b] EXCEPT !.pc = "volume", !.file = locks'].seen = builder[b].seen
    BY <1>0, <1>0a DEF Places
  <2> QED BY <1>0, <1>0a, <2>1, <2>2, LoneGoes DEF Building, Under
<1>5. CASE Lone!FindStale(b) \/ Lone!Steal(b) \/ Lone!Attach(b) \/ Lone!Fails(b)
  <2>1. PICK pc \in {"steal", "lock", "mount", "stop"} : builder' = [builder EXCEPT ![b] = [builder[b] EXCEPT !.pc = pc]]
    BY <1>0, <1>5 DEF Lone!FindStale, Lone!Steal, Lone!Attach, Lone!Fails, Lone!Goto
  <2>2. Under(b)  BY <1>5 DEF Lone!FindStale, Lone!Steal, Lone!Attach, Lone!Fails, Under
  <2>3. [builder[b] EXCEPT !.pc = pc] \in Places /\ [builder[b] EXCEPT !.pc = pc].pc = pc
        /\ [builder[b] EXCEPT !.pc = pc].root = builder[b].root
        /\ [builder[b] EXCEPT !.pc = pc].seen = builder[b].seen
    BY <1>0 DEF Places
  <2> QED BY <1>0, <1>0a, <2>1, <2>2, <2>3, LoneGoes DEF Building
<1>6. CASE Lone!Mount(b)
  <2>1. builder' = [builder EXCEPT ![b] = [builder[b] EXCEPT !.pc = "build", !.copy = source]] /\ Under(b)
    BY <1>0, <1>6 DEF Lone!Mount, Under
  <2>2. /\ [builder[b] EXCEPT !.pc = "build", !.copy = source] \in Places
        /\ [builder[b] EXCEPT !.pc = "build", !.copy = source].pc = "build"
        /\ [builder[b] EXCEPT !.pc = "build", !.copy = source].root = builder[b].root
        /\ [builder[b] EXCEPT !.pc = "build", !.copy = source].seen = builder[b].seen
        /\ [builder[b] EXCEPT !.pc = "build", !.copy = source].copy = source
    BY <1>0 DEF Places
  <2>3. PICK c \in Places : /\ builder' = [builder EXCEPT ![b] = c] /\ c.pc = "build" /\ c.copy = source
                            /\ c.root = builder[b].root /\ c.seen = builder[b].seen
    BY <2>1, <2>2
  <2>4. Stale /\ c.root \in {r1} /\ c.seen <= source  BY <1>0, <2>1, <2>3 DEF Building
  <2>5. c.seen <= c.copy /\ c.copy <= source  BY <1>0, <2>3, <2>4
  <2> QED BY <1>0, <1>0a, <2>3, <2>4, <2>5, LoneGoes
<1> QED BY <1>1, <1>2, <1>3, <1>4, <1>5, <1>6

(* What is copied out is not fresh until the builder finishes.             *)
LEMMA LoneCopies ==
  ASSUME LoneInv, NEW b \in {b1}, Lone!CopyOut(b) \/ Lone!CopiedOut(b)
  PROVE  LoneInv'
<1>1. /\ UNCHANGED <<source, state, locks>> /\ builder[b] \in Places /\ Building(b) /\ Under(b)
      /\ builder \in [{b1} -> Places] /\ builder[b].pc \in {"build", "copying"}
  BY DEF Lone!CopyOut, Lone!CopiedOut, LoneInv, LoneShape, Under
<1>2. PICK pc \in {"copying", "finish"} :
        /\ builder' = [builder EXCEPT ![b] = [builder[b] EXCEPT !.pc = pc]]
        /\ product' = [target |-> builder[b].root, copy |-> builder[b].copy, whole |-> (pc = "finish")]
  BY <1>1 DEF Lone!CopyOut, Lone!CopiedOut, Lone!Goto, Lone!On
<1>3. /\ [builder[b] EXCEPT !.pc = pc] \in Places /\ [builder[b] EXCEPT !.pc = pc].pc = pc
      /\ [builder[b] EXCEPT !.pc = pc].root = builder[b].root
      /\ [builder[b] EXCEPT !.pc = pc].seen = builder[b].seen
      /\ [builder[b] EXCEPT !.pc = pc].copy = builder[b].copy
  BY <1>1 DEF Places
<1>4. product' \in Products  BY <1>1, <1>2 DEF Products, Places
<1>5. \A d \in {b1} : d = b /\ builder'[d] = [builder[b] EXCEPT !.pc = pc]
  BY <1>1, <1>2
<1>6. LoneShape'  BY <1>1, <1>2, <1>3, <1>4 DEF LoneInv, LoneShape
<1>7. Stale /\ Stale'  BY <1>1 DEF Building, Stale
<1>8. FreshIsWhole'  BY <1>1, <1>7 DEF LoneInv, FreshIsWhole, Stale
<1>9. Building(b)'  BY <1>1, <1>2, <1>3, <1>5, <1>7 DEF Building
<1> QED BY <1>5, <1>6, <1>8, <1>9 DEF LoneInv

(* What was built is fresh only if nothing was edited since.               *)
LEMMA LoneFinishes ==
  ASSUME LoneInv, NEW b \in {b1}, Lone!Finish(b)
  PROVE  LoneInv'
<1>1. /\ UNCHANGED <<source, product, locks>> /\ builder[b] \in Places /\ Building(b) /\ Under(b) /\ source \in Nat
      /\ builder \in [{b1} -> Places] /\ builder[b].pc = "finish"
      /\ builder' = [builder EXCEPT ![b] = [builder[b] EXCEPT !.pc = "stop"]]
      /\ state' = [target |-> builder[b].root, seen |-> builder[b].seen]
  BY DEF Lone!Finish, Lone!Goto, Lone!On, LoneInv, LoneShape, Under
<1>2. [builder[b] EXCEPT !.pc = "stop"] \in Places /\ [builder[b] EXCEPT !.pc = "stop"].pc = "stop"
  BY <1>1 DEF Places
<1>3. \A d \in {b1} : builder'[d] = [builder[b] EXCEPT !.pc = "stop"]  BY <1>1
<1>4. state' \in States  BY <1>1 DEF States, Places
<1>5. LoneShape'  BY <1>1, <1>2, <1>4 DEF LoneInv, LoneShape
<1>6. /\ builder[b].seen <= builder[b].copy /\ builder[b].copy <= source /\ builder[b].root \in {r1}
      /\ product = [target |-> builder[b].root, copy |-> builder[b].copy, whole |-> TRUE]
  BY <1>1 DEF Building
<1>7. builder[b].seen = source => builder[b].copy = source
  BY <1>1, <1>6 DEF Places
<1>8. FreshIsWhole'
  <2>1. builder[b].seen <= source  BY <1>1, <1>6 DEF Places
  <2> QED BY <1>1, <1>6, <1>7, <2>1 DEF FreshIsWhole
<1>9. \A d \in {b1} : Building(d)'  BY <1>2, <1>3 DEF Building, Under
<1> QED BY <1>5, <1>8, <1>9 DEF LoneInv

(* Every step keeps what is fresh whole.                                   *)
LEMMA LoneStep ==
  ASSUME LoneInv, Lone!Next \/ UNCHANGED Lone!vars
  PROVE  LoneInv'
<1>1. CASE UNCHANGED Lone!vars \/ Lone!DeleteVolume \/ Lone!DeleteLock \/ Lone!DeletionFails \/ \E r \in {r1} : Lone!QueuePurge(r) \/ Lone!Ages(r) \/ Lone!FindUnused(r)
  <2>1. UNCHANGED <<builder, product, state, source, locks>>
    BY <1>1 DEF Lone!vars, Lone!DeleteVolume, Lone!DeleteLock, Lone!DeletionFails, Lone!QueuePurge, Lone!Ages, Lone!FindUnused
  <2> QED BY <2>1 DEF LoneInv, LoneShape, FreshIsWhole, Building, Under, Stale
<1>2. CASE Lone!Edit
  <2>1. UNCHANGED <<builder, product, state, locks>> /\ source' = source + 1 /\ source \in Nat
    BY <1>2 DEF Lone!Edit, LoneInv, LoneShape
  <2>2. state.seen < source' /\ state.seen \in Nat  BY <2>1 DEF LoneInv, LoneShape, FreshIsWhole, States
  <2>3. Stale' /\ FreshIsWhole'  BY <2>1, <2>2 DEF Stale, FreshIsWhole
  <2>4. LoneShape'  BY <2>1 DEF LoneInv, LoneShape
  <2>5. \A b \in {b1} : builder[b].seen \in Nat /\ builder[b].copy \in Nat
    BY DEF LoneInv, LoneShape, Places
  <2>6. \A b \in {b1} : Building(b)'  BY <2>1, <2>3, <2>5 DEF LoneInv, Building, Under
  <2> QED BY <2>3, <2>4, <2>6 DEF LoneInv
<1> QED BY <1>1, <1>2, LoneWorks, LoneCopies, LoneFinishes DEF Lone!Next, Lone!Step

(* A call that is answered from the cache is answered truly.               *)
LEMMA LoneHits ==
  ASSUME LoneInv, Lone!Next \/ UNCHANGED Lone!vars
  PROVE  Lone!TrueHit
<1> SUFFICES ASSUME NEW b \in {b1}, builder[b].pc = "idle", builder'[b].pc = "hit"
             PROVE  product = [target |-> builder'[b].root, copy |-> source, whole |-> TRUE]
  BY DEF Lone!TrueHit
<1>1. \A d \in {b1} : d = b  OBVIOUS
<1>2. builder[b] \in Places /\ builder' # builder  BY DEF LoneInv, LoneShape
<1>3. ~Lone!Plan(b)
  <2> SUFFICES ASSUME Lone!Plan(b) PROVE FALSE  OBVIOUS
  <2> QED BY DEF Lone!Plan, LoneInv, LoneShape, Lone!Idle
<1>4. Lone!Hit(b)
  BY <1>1, <1>2, <1>3 DEF Lone!Next, Lone!Step, Lone!vars, Lone!Edit, Lone!DeleteVolume, Lone!DeleteLock, Lone!DeletionFails, Lone!QueuePurge, Lone!Ages, Lone!FindUnused, Lone!Return, Lone!Refuse, Lone!Acquire,
       Lone!FindStale, Lone!Steal, Lone!Attach, Lone!Mount, Lone!CopyOut, Lone!CopiedOut, Lone!Finish, Lone!Fails, Lone!Release, Lone!Die, Lone!TakesLock, Lone!Leaves
<1>5. PICK r \in {r1} : Lone!Fresh(r) /\ builder' = [builder EXCEPT ![b] = [Lone!Idle EXCEPT !.pc = "hit", !.root = r]]
  BY <1>4 DEF Lone!Hit
<1>6. builder'[b].root = r  BY <1>5 DEF LoneInv, LoneShape, Lone!Idle
<1> QED BY <1>5, <1>6 DEF Lone!Fresh, LoneInv, FreshIsWhole

-----------------------------------------------------------------------------
(* Storage: what is added up, what a plan makes of it, and who collects.   *)

(* A set of numbers that is not empty has a least.                         *)
LEMMA LeastOf ==
  ASSUME NEW S \in SUBSET Nat, S # {}
  PROVE  \E n \in S : \A m \in S : n =< m
<1>1. PICK n \in S : \A m \in S : ~(<<m, n>> \in OpToRel(<, Nat))
  BY WFMin, NatLessThanWellFounded, Zenon
<1>2. \A m \in S : ~(m < n)  BY <1>1, Zenon DEF OpToRel
<1> QED BY <1>2

(* The sums up to each number, of which the total is the last.             *)
Sums(w, m) == {f \in [0..m -> Nat] : f[0] = 0 /\ \A n \in 1..m : f[n] = f[n - 1] + w[n]}

(* There are such sums.                                                    *)
LEMMA SumsExist ==
  ASSUME NEW w \in [1..Stored -> Nat]
  PROVE  Sums(w, Stored) # {}
<1> DEFINE Unkept == {m \in 0..Stored : Sums(w, m) = {}}
<1> SUFFICES ASSUME Unkept # {} PROVE FALSE  BY HostAssumption
<1>1. PICK m \in Unkept : \A k \in Unkept : m =< k
  <2>1. Unkept \in SUBSET Nat  BY HostAssumption
  <2> HIDE DEF Unkept
  <2> QED BY <2>1, LeastOf
<1>2. m \in 0..Stored /\ m \in Nat /\ Sums(w, m) = {}  BY HostAssumption
<1>3. m # 0
  <2>1. [n \in 0..0 |-> 0] \in Sums(w, 0)  BY DEF Sums
  <2> QED BY <1>2, <2>1
<1>4. m - 1 \in 0..Stored /\ m - 1 \in Nat /\ m - 1 < m  BY <1>2, <1>3, HostAssumption
<1>5. PICK g \in Sums(w, m - 1) : TRUE  BY <1>1, <1>4
<1> DEFINE f == [n \in 0..m |-> IF n = m THEN g[m - 1] + w[m] ELSE g[n]]
<1>6. g \in [0..m - 1 -> Nat] /\ g[0] = 0 /\ \A n \in 1..m - 1 : g[n] = g[n - 1] + w[n]
  BY <1>5 DEF Sums
<1>7. w[m] \in Nat /\ g[m - 1] \in Nat  BY <1>2, <1>3, <1>4, <1>6
<1>8. f \in [0..m -> Nat]
  <2>1. \A n \in 0..m : n # m => n \in 0..m - 1  BY <1>2
  <2> QED BY <1>6, <1>7, <2>1
<1>9. f[0] = 0  BY <1>2, <1>3, <1>6
<1>10. ASSUME NEW n \in 1..m PROVE f[n] = f[n - 1] + w[n]
  <2>1. n - 1 \in 0..m /\ n - 1 # m /\ n \in 0..m  BY <1>2
  <2>2. CASE n = m  BY <2>1, <2>2
  <2>3. CASE n # m
    <3>1. n \in 1..m - 1  BY <1>2, <2>3
    <3> QED BY <1>6, <2>1, <2>3, <3>1
  <2> QED BY <2>2, <2>3
<1> HIDE DEF f
<1>11. f \in Sums(w, m)  BY <1>8, <1>9, <1>10 DEF Sums
<1> QED BY <1>2, <1>11

(* and the total is the last of them.                                      *)
LEMMA TotalIs ==
  ASSUME NEW w \in [1..Stored -> Nat]
  PROVE  \E f \in Sums(w, Stored) : Space!Total(w) = f[Stored]
<1> DEFINE Is(u) == u = [n \in 0..Stored |-> IF n = 0 THEN 0 ELSE u[n - 1] + w[n]]
           total == CHOOSE u : Is(u)
<1>1. Space!Total(w) = total[Stored]  BY DEF Space!Total
<1>2. PICK f \in Sums(w, Stored) : TRUE  BY SumsExist
<1>3. f \in [0..Stored -> Nat] /\ f[0] = 0 /\ \A n \in 1..Stored : f[n] = f[n - 1] + w[n]
  BY <1>2 DEF Sums
<1>4. Is(f)
  <2>1. \A n \in 0..Stored : n # 0 => n \in 1..Stored  BY HostAssumption
  <2>2. \A n \in 0..Stored : f[n] = IF n = 0 THEN 0 ELSE f[n - 1] + w[n]  BY <1>3, <2>1
  <2> QED BY <1>3, <2>2
<1>5. Is(total)  BY <1>4
<1> HIDE DEF total
<1>6. DOMAIN total = 0..Stored /\ total[0] = 0 /\ \A n \in 1..Stored : total[n] = total[n - 1] + w[n]
  <2>1. \A n \in 1..Stored : n \in 0..Stored /\ n # 0  BY HostAssumption
  <2>2. 0 \in 0..Stored  BY HostAssumption
  <2> QED BY <1>5, <2>1, <2>2
<1> DEFINE Off == {n \in 0..Stored : total[n] # f[n]}
<1>7. Off = {}
  <2> SUFFICES ASSUME Off # {} PROVE FALSE  OBVIOUS
  <2>1. PICK n \in Off : \A k \in Off : n =< k
    <3>1. Off \in SUBSET Nat  BY HostAssumption
    <3> HIDE DEF Off
    <3> QED BY <3>1, LeastOf
  <2>2. n \in 0..Stored /\ n \in Nat /\ total[n] # f[n]  BY HostAssumption
  <2>3. n # 0  BY <1>3, <1>6, <2>2
  <2>4. n \in 1..Stored /\ n - 1 \in 0..Stored /\ ~(n =< n - 1)  BY <2>2, <2>3, HostAssumption
  <2>5. total[n - 1] = f[n - 1]  BY <2>1, <2>4
  <2>6. total[n] = total[n - 1] + w[n] /\ f[n] = f[n - 1] + w[n]  BY <1>3, <1>6, <2>4
  <2> HIDE DEF Off
  <2> QED BY <2>2, <2>5, <2>6
<1>8. total = f
  <2>1. \A n \in 0..Stored : total[n] = f[n]  BY <1>7
  <2>2. total = [n \in 0..Stored |-> total[n]]  BY <1>5
  <2>3. f = [n \in 0..Stored |-> f[n]]  BY <1>3
  <2> QED BY <2>1, <2>2, <2>3
<1> QED BY <1>1, <1>2, <1>8

(* What is more in every place is more in total, and totals add up.        *)
LEMMA TotalGrows ==
  ASSUME NEW v \in [1..Stored -> Nat], NEW w \in [1..Stored -> Nat],
         \A n \in 1..Stored : v[n] =< w[n]
  PROVE  Space!Total(v) \in Nat /\ Space!Total(w) \in Nat /\ Space!Total(v) =< Space!Total(w)
<1>1. PICK f \in Sums(v, Stored) : Space!Total(v) = f[Stored]  BY TotalIs
<1>2. PICK g \in Sums(w, Stored) : Space!Total(w) = g[Stored]  BY TotalIs
<1>3. f \in [0..Stored -> Nat] /\ f[0] = 0 /\ \A n \in 1..Stored : f[n] = f[n - 1] + v[n]
  BY DEF Sums
<1>4. g \in [0..Stored -> Nat] /\ g[0] = 0 /\ \A n \in 1..Stored : g[n] = g[n - 1] + w[n]
  BY DEF Sums
<1> DEFINE Off == {n \in 0..Stored : ~(f[n] =< g[n])}
<1>5. Off = {}
  <2> SUFFICES ASSUME Off # {} PROVE FALSE  OBVIOUS
  <2>1. PICK n \in Off : \A k \in Off : n =< k
    <3>1. Off \in SUBSET Nat  BY HostAssumption
    <3> HIDE DEF Off
    <3> QED BY <3>1, LeastOf
  <2>2. n \in 0..Stored /\ n \in Nat /\ ~(f[n] =< g[n])  BY HostAssumption
  <2>3. n # 0  BY <1>3, <1>4, <2>2
  <2>4. n \in 1..Stored /\ n - 1 \in 0..Stored /\ ~(n =< n - 1)  BY <2>2, <2>3, HostAssumption
  <2>5. f[n - 1] =< g[n - 1]  BY <2>1, <2>4
  <2>6. f[n] = f[n - 1] + v[n] /\ g[n] = g[n - 1] + w[n] /\ v[n] =< w[n]  BY <1>3, <1>4, <2>4
  <2>7. f[n - 1] \in Nat /\ g[n - 1] \in Nat /\ v[n] \in Nat /\ w[n] \in Nat  BY <1>3, <1>4, <2>4
  <2> HIDE DEF Off
  <2> QED BY <2>2, <2>5, <2>6, <2>7
<1>6. Stored \in 0..Stored  BY HostAssumption
<1>7. f[Stored] =< g[Stored] /\ f[Stored] \in Nat /\ g[Stored] \in Nat  BY <1>3, <1>4, <1>5, <1>6
<1> QED BY <1>1, <1>2, <1>7

(* The total of the sums is the sum of the totals.                         *)
LEMMA TotalAdds ==
  ASSUME NEW v \in [1..Stored -> Nat], NEW w \in [1..Stored -> Nat], NEW x \in [1..Stored -> Nat],
         \A n \in 1..Stored : x[n] = v[n] + w[n]
  PROVE  Space!Total(x) = Space!Total(v) + Space!Total(w)
<1>1. PICK f \in Sums(v, Stored) : Space!Total(v) = f[Stored]  BY TotalIs
<1>2. PICK g \in Sums(w, Stored) : Space!Total(w) = g[Stored]  BY TotalIs
<1>3. PICK h \in Sums(x, Stored) : Space!Total(x) = h[Stored]  BY TotalIs
<1>4. f \in [0..Stored -> Nat] /\ f[0] = 0 /\ \A n \in 1..Stored : f[n] = f[n - 1] + v[n]
  BY DEF Sums
<1>5. g \in [0..Stored -> Nat] /\ g[0] = 0 /\ \A n \in 1..Stored : g[n] = g[n - 1] + w[n]
  BY DEF Sums
<1>6. h \in [0..Stored -> Nat] /\ h[0] = 0 /\ \A n \in 1..Stored : h[n] = h[n - 1] + x[n]
  BY DEF Sums
<1> DEFINE Off == {n \in 0..Stored : h[n] # f[n] + g[n]}
<1>7. Off = {}
  <2> SUFFICES ASSUME Off # {} PROVE FALSE  OBVIOUS
  <2>1. PICK n \in Off : \A k \in Off : n =< k
    <3>1. Off \in SUBSET Nat  BY HostAssumption
    <3> HIDE DEF Off
    <3> QED BY <3>1, LeastOf
  <2>2. n \in 0..Stored /\ n \in Nat /\ h[n] # f[n] + g[n]  BY HostAssumption
  <2>3. n # 0  BY <1>4, <1>5, <1>6, <2>2
  <2>4. n \in 1..Stored /\ n - 1 \in 0..Stored /\ ~(n =< n - 1)  BY <2>2, <2>3, HostAssumption
  <2>5. h[n - 1] = f[n - 1] + g[n - 1]  BY <2>1, <2>4
  <2>6. /\ f[n] = f[n - 1] + v[n] /\ g[n] = g[n - 1] + w[n] /\ h[n] = h[n - 1] + x[n]
        /\ x[n] = v[n] + w[n]
    BY <1>4, <1>5, <1>6, <2>4
  <2>7. /\ f[n - 1] \in Nat /\ g[n - 1] \in Nat /\ h[n - 1] \in Nat
        /\ v[n] \in Nat /\ w[n] \in Nat /\ x[n] \in Nat
    BY <1>4, <1>5, <1>6, <2>4
  <2> HIDE DEF Off
  <2>8. \A a, b, c, d \in Nat : (a + b) + (c + d) = (a + c) + (b + d)  OBVIOUS
  <2>9. h[n] = (f[n - 1] + g[n - 1]) + (v[n] + w[n])  BY <2>5, <2>6, Zenon
  <2>10. f[n] + g[n] = (f[n - 1] + v[n]) + (g[n - 1] + w[n])  BY <2>6, Zenon
  <2>11. (f[n - 1] + g[n - 1]) + (v[n] + w[n]) = (f[n - 1] + v[n]) + (g[n - 1] + w[n])
    <3>1. PICK a \in Nat : a = f[n - 1]  BY <2>7
    <3>2. PICK b \in Nat : b = g[n - 1]  BY <2>7
    <3>3. PICK c \in Nat : c = v[n]  BY <2>7
    <3>4. PICK d \in Nat : d = w[n]  BY <2>7
    <3>5. (a + b) + (c + d) = (a + c) + (b + d)  OBVIOUS
    <3> QED BY <3>1, <3>2, <3>3, <3>4, <3>5, Zenon
  <2>12. h[n] = f[n] + g[n]  BY <2>9, <2>10, <2>11, Zenon
  <2> QED BY <2>2, <2>12, Zenon
<1>8. Stored \in 0..Stored  BY HostAssumption
<1>9. h[Stored] = f[Stored] + g[Stored]  BY <1>7, <1>8
<1> QED BY <1>1, <1>2, <1>3, <1>9

-----------------------------------------------------------------------------
(* What storage holds, and how the bytes of a part of it compare.          *)
Disks == [1..Stored -> [used : Nat, bytes : Nat]]

(* More items take at least as many bytes.                                 *)
LEMMA BytesGrow ==
  ASSUME disk \in Disks, NEW S, NEW T, S \subseteq T
  PROVE  Space!Bytes(S) \in Nat /\ Space!Bytes(T) \in Nat /\ Space!Bytes(S) =< Space!Bytes(T)
<1> DEFINE Part(U) == [i \in Space!Items |-> IF i \in U THEN disk[i].bytes ELSE 0]
<1>1. \A U : Part(U) \in [1..Stored -> Nat]  BY DEF Space!Items, Disks
<1>2. \A n \in 1..Stored : Part(S)[n] =< Part(T)[n]  BY DEF Space!Items, Disks
<1>3. Space!Bytes(S) = Space!Total(Part(S)) /\ Space!Bytes(T) = Space!Total(Part(T))
  BY DEF Space!Bytes
<1> HIDE DEF Part
<1> QED BY <1>1, <1>2, <1>3, TotalGrows

(* The bytes of two parts that have nothing in common add up.              *)
LEMMA BytesAdd ==
  ASSUME disk \in Disks, NEW S, NEW T, S \cap T = {}
  PROVE  Space!Bytes(S \union T) = Space!Bytes(S) + Space!Bytes(T)
<1> DEFINE Part(U) == [i \in Space!Items |-> IF i \in U THEN disk[i].bytes ELSE 0]
<1>1. \A U : Part(U) \in [1..Stored -> Nat]  BY DEF Space!Items, Disks
<1>2. \A n \in 1..Stored : Part(S \union T)[n] = Part(S)[n] + Part(T)[n]
  BY DEF Space!Items, Disks
<1>3. /\ Space!Bytes(S) = Space!Total(Part(S)) /\ Space!Bytes(T) = Space!Total(Part(T))
      /\ Space!Bytes(S \union T) = Space!Total(Part(S \union T))
  BY DEF Space!Bytes
<1> HIDE DEF Part
<1>4. Space!Total(Part(S \union T)) = Space!Total(Part(S)) + Space!Total(Part(T))
  <2> DEFINE v == Part(S)
             w == Part(T)
             x == Part(S \union T)
  <2>1. /\ v \in [1..Stored -> Nat] /\ w \in [1..Stored -> Nat] /\ x \in [1..Stored -> Nat]
        /\ \A n \in 1..Stored : x[n] = v[n] + w[n]
    BY <1>1, <1>2, Zenon
  <2> HIDE DEF v, w, x
  <2>2. Space!Total(x) = Space!Total(v) + Space!Total(w)  BY <2>1, TotalAdds
  <2> QED BY <2>2 DEF v, w, x
<1> QED BY <1>3, <1>4, Zenon

(* Of some items one is the least recently used; the order is transitive.  *)
LEMMA LeastUsed ==
  ASSUME disk \in Disks, NEW S \in SUBSET (1..Stored), S # {}
  PROVE  \E j \in S : \A k \in S : ~Space!Sooner(k, j)
<1> DEFINE U == {disk[i].used : i \in S}
<1>1. U \in SUBSET Nat /\ U # {}  BY DEF Disks
<1>2. PICK u \in U : \A v \in U : u =< v
  <2> HIDE DEF U
  <2> QED BY <1>1, LeastOf
<1> DEFINE V == {i \in S : disk[i].used = u}
<1>3. V \in SUBSET Nat /\ V # {}
  <2>1. PICK i \in S : disk[i].used = u  BY <1>2
  <2>2. i \in V  BY <2>1
  <2>3. S \subseteq Nat
    <3>1. 1..Stored \subseteq Nat  BY HostAssumption
    <3> QED BY <3>1
  <2>4. V \subseteq S  OBVIOUS
  <2> HIDE DEF V
  <2> QED BY <2>2, <2>3, <2>4
<1>4. PICK j \in V : \A k \in V : j =< k
  <2> HIDE DEF V
  <2> QED BY <1>3, LeastOf
<1>5. j \in S /\ disk[j].used = u  BY <1>4
<1>6. ASSUME NEW k \in S, Space!Sooner(k, j) PROVE FALSE
  <2>1. disk[k].used \in U /\ u =< disk[k].used  BY <1>2
  <2>2. /\ disk[k].used \in Nat /\ disk[j].used \in Nat /\ k \in Nat /\ j \in Nat
    BY <1>5 DEF Disks
  <2>3. disk[k].used = u /\ k < j
    BY <1>5, <1>6, <2>1, <2>2 DEF Space!Sooner
  <2>4. k \in V  BY <2>3
  <2>5. j =< k  BY <1>4, <2>4
  <2> QED BY <2>2, <2>3, <2>5
<1> QED BY <1>5, <1>6

(* The order of use is transitive.                                         *)
LEMMA SoonerStill ==
  ASSUME disk \in Disks, NEW i \in 1..Stored, NEW j \in 1..Stored, NEW k \in 1..Stored,
         Space!Sooner(k, j), Space!Sooner(j, i)
  PROVE  Space!Sooner(k, i)
<1>1. /\ disk[i].used \in Nat /\ disk[j].used \in Nat /\ disk[k].used \in Nat
      /\ i \in Nat /\ j \in Nat /\ k \in Nat
  BY DEF Disks
<1> QED BY <1>1 DEF Space!Sooner

(* A plan is enough: after it the disk is under the cap, or only what is in *)
(* use or protected is left; and what is chosen for the cap is the least    *)
(* recently used.                                                           *)
LEMMA PlanIsEnough ==
  ASSUME disk \in Disks, cap \in Nat
  PROVE  Space!PlanSuffices
<1> SUFFICES ASSUME NEW p
             PROVE  LET left == Space!Present \ Space!Plan(p)
                    IN  /\ \/ Space!Bytes(left) <= cap
                           \/ \A i \in left : Space!Active(i) \/ (Kinds[i] = "build" /\ i = p)
                        /\ \A i \in Space!TopUp(p), j \in left : Space!Sooner(j, i) =>
                             Space!Active(j) \/ (Kinds[j] = "build" /\ j = p)
  BY DEF Space!PlanSuffices
<1> DEFINE left == Space!Present \ Space!Plan(p)
           others == Space!Others(p)
           top == Space!TopUp(p)
           before(i) == {j \in others : Space!Sooner(j, i)}
           free(i) == Space!Active(i) \/ (Kinds[i] = "build" /\ i = p)
<1>1. /\ Space!Present \subseteq 1..Stored /\ others \subseteq Space!Present /\ top \subseteq others
      /\ \A i \in others : i \in top <=> Space!Bytes(before(i)) < Space!Over
  BY DEF Space!Present, Space!Items, Space!Others, Space!TopUp
<1>2. left \subseteq Space!Present \ top /\ \A i \in left : free(i) \/ i \in others \ top
  BY DEF Space!Plan, Space!Others
<1>3. \A S : Space!Bytes(S) \in Nat  BY BytesGrow
<1>4. Space!Over \in Nat  BY <1>3 DEF Space!Over
<1>5. \A i \in others \ top : Space!Over =< Space!Bytes(before(i))
  <2> SUFFICES ASSUME NEW i \in others \ top PROVE Space!Over =< Space!Bytes(before(i))  OBVIOUS
  <2>1. ~(Space!Bytes(before(i)) < Space!Over) /\ Space!Bytes(before(i)) \in Nat  BY <1>1, <1>3
  <2> HIDE DEF before
  <2> QED BY <1>4, <2>1
<1>6. ASSUME NEW i \in top, NEW j \in left, Space!Sooner(j, i) PROVE free(j)
  <2> SUFFICES ASSUME j \in others \ top PROVE FALSE  BY <1>2
  <2>1. i \in 1..Stored /\ j \in 1..Stored /\ \A k \in others : k \in 1..Stored  BY <1>1
  <2>2. before(j) \subseteq before(i)  BY <1>6, <2>1, SoonerStill
  <2>3. Space!Over =< Space!Bytes(before(j))  BY <1>5
  <2>4. Space!Bytes(before(i)) < Space!Over  BY <1>1
  <2>5. Space!Bytes(before(j)) =< Space!Bytes(before(i))
    <3> HIDE DEF before
    <3> QED BY <2>2, BytesGrow
  <2>6. Space!Bytes(before(i)) \in Nat /\ Space!Bytes(before(j)) \in Nat  BY <1>3
  <2> HIDE DEF before
  <2> QED BY <1>4, <2>3, <2>4, <2>5, <2>6
<1>7. ASSUME NEW i \in left, ~free(i) PROVE Space!Bytes(left) <= cap
  <2>1. others \ top # {} /\ others \ top \in SUBSET (1..Stored)  BY <1>1, <1>2, <1>7
  <2>2. PICK j \in others \ top : \A k \in others \ top : ~Space!Sooner(k, j)
    <3> HIDE DEF others, top
    <3> QED BY <2>1, LeastUsed
  <2>3. before(j) \subseteq top  BY <2>2
  <2>4. Space!Over =< Space!Bytes(before(j))  BY <1>5
  <2>5. Space!Bytes(before(j)) =< Space!Bytes(top)
    <3> HIDE DEF before, top
    <3> QED BY <2>3, BytesGrow
  <2> DEFINE rest == Space!Present \ top
  <2>6. Space!Bytes(left) =< Space!Bytes(rest)
    <3>1. left \subseteq rest  BY <1>2
    <3> HIDE DEF left, rest
    <3> QED BY <3>1, BytesGrow
  <2>7. Space!Bytes(Space!Present) = Space!Bytes(top) + Space!Bytes(rest)
    <3>1. top \union rest = Space!Present /\ top \cap rest = {}  BY <1>1
    <3> HIDE DEF top, rest
    <3> QED BY <3>1, BytesAdd
  <2>8. PICK a \in Nat : a = Space!Bytes(before(j))  BY <1>3
  <2>9. PICK b \in Nat : b = Space!Bytes(top)  BY <1>3
  <2>10. PICK c \in Nat : c = Space!Bytes(rest)  BY <1>3
  <2>11. PICK d \in Nat : d = Space!Bytes(left)  BY <1>3
  <2>12. PICK e \in Nat : e = Space!Bytes(Space!Present)  BY <1>3
  <2>13. Space!Over = IF e > cap THEN e - cap ELSE 0  BY <2>12 DEF Space!Over
  <2> HIDE DEF before, top, rest, left, free, others
  <2> QED BY <2>4, <2>5, <2>6, <2>7, <2>8, <2>9, <2>10, <2>11, <2>12, <2>13
<1> QED BY <1>6, <1>7

(* A collection spares the volume that it makes room for; whose files it   *)
(* removes one by one took the lock afterwards, if it works there at all.  *)
Collections == [pc : {"rest", "scan", "remove", "unlink", "unlock"}, job : {"gc", "clean", "reset"},
                plan : SUBSET (1..Stored), protect : Nat, at : Nat]
Unlinks(o) == o.pc \in {"unlink", "unlock"}
Careful(o) ==
  /\ \A i \in o.plan : ~(Kinds[i] = "build" /\ i = o.protect)
  /\ Unlinks(o) => o.at \in 1..Stored /\ o.at # o.protect

SpaceShape ==
  /\ disk \in Disks /\ busy \subseteq 1..Stored /\ cap \in Limits
  /\ gclock \in Sweepers \union {"nobody"}
  /\ coll \in [Sweepers -> Collections]
Crossings ==
  /\ lost \subseteq busy /\ lost \subseteq crossed
  /\ \A c \in Sweepers : Unlinks(coll[c]) /\ coll[c].at \in busy => coll[c].at \in crossed

SpaceInv == SpaceShape /\ Crossings /\ \A c \in Sweepers : Careful(coll[c])

(* A collector that rests is one.                                          *)
LEMMA RestingIsOne ==
  Space!Resting \in Collections /\ Careful(Space!Resting) /\ ~Unlinks(Space!Resting)
<1> QED BY DEF Space!Resting, Collections, Careful, Unlinks

(* Whatever is on disk, nobody collects at first.                          *)
LEMMA SpaceStarts == Space!Init => SpaceInv
<1> SUFFICES ASSUME Space!Init PROVE SpaceInv  OBVIOUS
<1>1. /\ disk \in [1..Stored -> [used : 1..2, bytes : 1..2] \union {Space!Gone}]
      /\ busy = {} /\ lost = {} /\ crossed = {} /\ cap \in Limits /\ gclock = "nobody"
      /\ coll = [c \in Sweepers |-> Space!Resting]
  BY DEF Space!Init, Space!Items
<1>2. [used : 1..2, bytes : 1..2] \union {Space!Gone} \subseteq [used : Nat, bytes : Nat]
  BY DEF Space!Gone
<1>3. disk \in Disks  BY <1>1, <1>2 DEF Disks
<1> QED BY <1>1, <1>3, RestingIsOne DEF SpaceInv, SpaceShape, Crossings

(* A plan is of items on disk, and spares what is protected.               *)
LEMMA PlanSpares ==
  ASSUME NEW p
  PROVE  /\ Space!Plan(p) \subseteq 1..Stored
         /\ \A i \in Space!Plan(p) : ~(Kinds[i] = "build" /\ i = p)
<1> QED BY DEF Space!Plan, Space!Expired, Space!TopUp, Space!Others, Space!Present, Space!Items

(* A collector goes on.                                                    *)
LEMMA SpaceMoves ==
  ASSUME SpaceInv, NEW c \in Sweepers, NEW o \in Collections, coll' = [coll EXCEPT ![c] = o], Careful(o),
         Unlinks(o) /\ o.at \in busy => o.at \in crossed,
         UNCHANGED <<busy, crossed, cap>>, lost' \subseteq busy, lost' \subseteq crossed,
         disk' \in Disks, gclock' \in Sweepers \union {"nobody"}
  PROVE  SpaceInv'
<1>1. \A d \in Sweepers : coll'[d] = IF d = c THEN o ELSE coll[d]  BY DEF SpaceInv, SpaceShape
<1>2. SpaceShape'  BY DEF SpaceInv, SpaceShape
<1>3. Crossings'  BY <1>1 DEF SpaceInv, Crossings
<1>4. \A d \in Sweepers : Careful(coll[d])'  BY <1>1 DEF SpaceInv, Careful, Unlinks
<1> QED BY <1>2, <1>3, <1>4 DEF SpaceInv

(* A collection begins, looks at the next item, and ends.                  *)
LEMMA SpaceCollects ==
  ASSUME SpaceInv, NEW c \in Sweepers,
         \/ Space!Acquire(c) \/ Space!ScanAndPlan(c) \/ Space!CleanBuild(c) \/ Space!RemoveOne(c)
         \/ (\E i \in 1..Stored : Space!Reset(c, i)) \/ Space!Release(c) \/ Space!Crash(c)
  PROVE  /\ SpaceInv'
         /\ \A i \in 1..Stored : Kinds[i] = "build" => disk'[i] = disk[i]
<1>0. /\ coll \in [Sweepers -> Collections] /\ coll[c] \in Collections /\ Careful(coll[c]) /\ disk \in Disks
      /\ lost \subseteq busy /\ lost \subseteq crossed /\ gclock \in Sweepers \union {"nobody"}
  BY DEF SpaceInv, SpaceShape, Crossings
<1>1. CASE Space!Acquire(c) \/ Space!CleanBuild(c) \/ \E i \in 1..Stored : Space!Reset(c, i)
  <2>1. PICK o : o \in Collections /\ Careful(o) /\ ~Unlinks(o) /\ coll' = [coll EXCEPT ![c] = o]
    <3>1. CASE Space!Acquire(c)
      <4>1. PICK p \in {0} \union Space!Of("build") :
              coll' = [coll EXCEPT ![c] = [Space!Resting EXCEPT !.pc = "scan", !.protect = p]]
        BY <3>1 DEF Space!Acquire, Space!Moves
      <4>2. p \in Nat  BY DEF Space!Of, Space!Present, Space!Items
      <4> DEFINE o == [Space!Resting EXCEPT !.pc = "scan", !.protect = p]
      <4>3. o \in Collections /\ Careful(o) /\ ~Unlinks(o)
        BY <4>2 DEF Space!Resting, Collections, Careful, Unlinks
      <4> HIDE DEF o
      <4> QED BY <4>1, <4>3 DEF o
    <3>2. CASE Space!CleanBuild(c) \/ \E i \in 1..Stored : Space!Reset(c, i)
      <4>1. \E S \in SUBSET (1..Stored), j \in {"clean", "reset"} :
              coll' = [coll EXCEPT ![c] = [Space!Resting EXCEPT !.pc = "remove", !.job = j, !.plan = S]]
        <5>1. Space!Of("build") \subseteq 1..Stored  BY DEF Space!Of, Space!Present, Space!Items
        <5> QED BY <3>2, <5>1 DEF Space!CleanBuild, Space!Reset, Space!Moves
      <4>2. PICK S \in SUBSET (1..Stored), j \in {"clean", "reset"} :
              coll' = [coll EXCEPT ![c] = [Space!Resting EXCEPT !.pc = "remove", !.job = j, !.plan = S]]
        BY <4>1
      <4> DEFINE o == [Space!Resting EXCEPT !.pc = "remove", !.job = j, !.plan = S]
      <4>3. o \in Collections  BY DEF Space!Resting, Collections
      <4>4. o.pc = "remove" /\ o.plan = S /\ o.protect = 0  BY DEF Space!Resting
      <4> HIDE DEF o
      <4>5. Careful(o) /\ ~Unlinks(o)  BY <4>4 DEF Careful, Unlinks
      <4> QED BY <4>2, <4>3, <4>5 DEF o
    <3> QED BY <1>1, <3>1, <3>2
  <2>2. UNCHANGED <<disk, busy, lost, cap, crossed>> /\ gclock' \in {gclock, c}
    BY <1>1 DEF Space!Acquire, Space!CleanBuild, Space!Reset
  <2> QED BY <1>0, <2>1, <2>2, SpaceMoves
<1>2. CASE Space!ScanAndPlan(c)
  <2> DEFINE p == coll[c].protect
             o == [coll[c] EXCEPT !.pc = "remove", !.plan = Space!Plan(p)]
  <2>1. coll' = [coll EXCEPT ![c] = o] /\ UNCHANGED <<disk, busy, lost, cap, gclock, crossed>>
    BY <1>2 DEF Space!ScanAndPlan, Space!Moves
  <2>2. o \in Collections /\ Careful(o) /\ ~Unlinks(o)
    <3>1. /\ Space!Plan(p) \subseteq 1..Stored
          /\ \A i \in Space!Plan(p) : ~(Kinds[i] = "build" /\ i = p)
      BY PlanSpares
    <3> QED BY <1>0, <3>1 DEF Collections, Careful, Unlinks
  <2> HIDE DEF o
  <2> QED BY <1>0, <2>1, <2>2, SpaceMoves
<1>3. CASE Space!RemoveOne(c)
  <2>1. PICK i \in coll[c].plan : Space!Next1(c, i, Space!Active(i))  BY <1>3 DEF Space!RemoveOne
  <2>2. i \in 1..Stored /\ UNCHANGED <<busy, lost, cap, gclock, crossed>>
    BY <1>0, <2>1 DEF Collections, Space!Next1
  <2>3. \E S \in SUBSET coll[c].plan : coll' = [coll EXCEPT ![c] = [coll[c] EXCEPT !.plan = S]]
        \/ (~Space!Active(i) /\ Kinds[i] = "build"
             /\ coll' = [coll EXCEPT ![c] = [coll[c] EXCEPT !.plan = coll[c].plan \ {i}, !.pc = "unlink", !.at = i]])
    <3>1. coll[c].plan \ {i} \in SUBSET coll[c].plan /\ {} \in SUBSET coll[c].plan  OBVIOUS
    <3> QED BY <2>1, <3>1 DEF Space!Next1, Space!Moves
  <2>4. PICK S \in SUBSET coll[c].plan :
           coll' = [coll EXCEPT ![c] = [coll[c] EXCEPT !.plan = S]]
        \/ (~Space!Active(i) /\ Kinds[i] = "build"
             /\ coll' = [coll EXCEPT ![c] = [coll[c] EXCEPT !.plan = coll[c].plan \ {i}, !.pc = "unlink", !.at = i]])
    BY <2>3
  <2>5. disk' \in Disks /\ \A j \in 1..Stored : Kinds[j] = "build" => disk'[j] = disk[j]
    <3>1. Space!Gone \in [used : Nat, bytes : Nat]  BY DEF Space!Gone
    <3>2. disk' = disk \/ (disk' = [disk EXCEPT ![i] = Space!Gone] /\ Kinds[i] # "build")
      BY <2>1 DEF Space!Next1
    <3> QED BY <1>0, <2>2, <3>1, <3>2 DEF Disks
  <2>6. coll[c].pc = "remove"  BY <2>1 DEF Space!Next1
  <2>7. CASE coll' = [coll EXCEPT ![c] = [coll[c] EXCEPT !.plan = S]]
    <3> DEFINE o == [coll[c] EXCEPT !.plan = S]
    <3>1. o \in Collections /\ Careful(o) /\ ~Unlinks(o)
      BY <1>0, <2>6 DEF Collections, Careful, Unlinks
    <3>2. coll' = [coll EXCEPT ![c] = o]  BY <2>7
    <3> HIDE DEF o
    <3> QED BY <1>0, <2>2, <2>5, <3>1, <3>2, SpaceMoves
  <2>8. CASE /\ ~Space!Active(i) /\ Kinds[i] = "build"
             /\ coll' = [coll EXCEPT ![c] = [coll[c] EXCEPT !.plan = coll[c].plan \ {i}, !.pc = "unlink", !.at = i]]
    <3> DEFINE left == coll[c].plan \ {i}
               o == [coll[c] EXCEPT !.plan = left, !.pc = "unlink", !.at = i]
    <3>6. left \in SUBSET (1..Stored) /\ i \in Nat  BY <1>0, <2>2 DEF Collections
    <3>2. coll' = [coll EXCEPT ![c] = o]  BY <2>8
    <3> HIDE DEF left
    <3>1. o \in Collections  BY <1>0, <3>6 DEF Collections
    <3>4. o.at = i /\ o.plan = left /\ o.protect = coll[c].protect
      BY <1>0 DEF Collections
    <3>3. i \in busy => i \in crossed  BY <1>0, <2>8 DEF Space!Active
    <3> HIDE DEF o
    <3>5. Careful(o)
      <4>1. i # coll[c].protect  BY <1>0, <2>8 DEF Careful
      <4> QED BY <1>0, <2>2, <3>4, <4>1 DEF Careful, left
    <3> QED BY <3>4, <3>5, <1>0, <2>2, <2>5, <3>1, <3>2, <3>3, SpaceMoves
  <2> QED BY <2>4, <2>5, <2>7, <2>8
<1>4. CASE Space!Release(c) \/ Space!Crash(c)
  <2>1. /\ coll' = [coll EXCEPT ![c] = Space!Resting] /\ gclock' \in {gclock, "nobody"}
        /\ UNCHANGED <<disk, busy, lost, cap, crossed>>
    BY <1>4 DEF Space!Release, Space!Crash, Space!Ends, Space!Moves
  <2> QED BY <1>0, <2>1, RestingIsOne, SpaceMoves
<1> QED BY <1>1, <1>2, <1>3, <1>4

(* The files of a volume go one by one.                                    *)
LEMMA SpaceUnlinks ==
  ASSUME SpaceInv, NEW c \in Sweepers,
         Space!UnlinkVolume(c) \/ Space!UnlinkLock(c) \/ Space!UnlinkFails(c)
  PROVE  /\ SpaceInv'
         /\ \A i \in 1..Stored : disk[i] # Space!Gone /\ disk'[i] = Space!Gone => (i \in busy => i \in crossed)
<1>0. /\ coll \in [Sweepers -> Collections] /\ coll[c] \in Collections /\ Careful(coll[c]) /\ disk \in Disks
      /\ lost \subseteq busy /\ lost \subseteq crossed /\ gclock \in Sweepers \union {"nobody"}
  BY DEF SpaceInv, SpaceShape, Crossings
<1> DEFINE i == coll[c].at
<1>1. /\ Unlinks(coll[c]) /\ i \in 1..Stored /\ i # coll[c].protect /\ (i \in busy => i \in crossed)
      /\ UNCHANGED <<busy, cap, gclock, crossed>>
  <2>1. Unlinks(coll[c]) /\ UNCHANGED <<busy, cap, gclock, crossed>>
    BY DEF Space!UnlinkVolume, Space!UnlinkLock, Space!UnlinkFails, Unlinks
  <2> QED BY <1>0, <2>1 DEF Careful, SpaceInv, Crossings
<1>2. CASE Space!UnlinkVolume(c)
  <2> DEFINE o == [coll[c] EXCEPT !.pc = "unlock"]
  <2>1. coll' = [coll EXCEPT ![c] = o] /\ disk' = [disk EXCEPT ![i] = Space!Gone] /\ lost' = lost
    BY <1>2 DEF Space!UnlinkVolume, Space!Moves
  <2>2. o \in Collections /\ Careful(o) /\ o.at = i  BY <1>0, <1>1 DEF Collections, Careful, Unlinks
  <2>3. disk' \in Disks  BY <1>0, <2>1 DEF Disks, Space!Gone
  <2> HIDE DEF o
  <2>4. SpaceInv'  BY <1>0, <1>1, <2>1, <2>2, <2>3, SpaceMoves
  <2>5. \A j \in 1..Stored : disk[j] # Space!Gone /\ disk'[j] = Space!Gone => j = i
    BY <1>0, <2>1 DEF Disks
  <2> QED BY <1>1, <2>4, <2>5
<1>3. CASE Space!UnlinkLock(c)
  <2> DEFINE o == [coll[c] EXCEPT !.pc = "remove", !.at = 0]
  <2>1. coll' = [coll EXCEPT ![c] = o] /\ disk' = disk /\ lost' = lost \union ({i} \intersect busy)
    BY <1>3 DEF Space!UnlinkLock, Space!Moves
  <2>2. o \in Collections /\ Careful(o) /\ ~Unlinks(o)  BY <1>0 DEF Collections, Careful, Unlinks
  <2> HIDE DEF o
  <2>3. lost' \subseteq busy /\ lost' \subseteq crossed  BY <1>0, <1>1, <2>1
  <2>4. SpaceInv'  BY <1>0, <1>1, <2>1, <2>2, <2>3, SpaceMoves
  <2> QED BY <2>1, <2>4
<1>4. CASE Space!UnlinkFails(c)
  <2>1. PICK S \in SUBSET coll[c].plan :
          coll' = [coll EXCEPT ![c] = [coll[c] EXCEPT !.pc = "remove", !.at = 0, !.plan = S]]
    <3>1. coll[c].plan \in SUBSET coll[c].plan /\ {} \in SUBSET coll[c].plan  OBVIOUS
    <3> QED BY <1>0, <1>4, <3>1 DEF Space!UnlinkFails, Space!Moves, Collections
  <2> DEFINE o == [coll[c] EXCEPT !.pc = "remove", !.at = 0, !.plan = S]
  <2>2. coll' = [coll EXCEPT ![c] = o] /\ disk' = disk /\ lost' = lost
    BY <1>4, <2>1 DEF Space!UnlinkFails
  <2>3. o \in Collections /\ Careful(o) /\ ~Unlinks(o)
    BY <1>0 DEF Collections, Careful, Unlinks
  <2> HIDE DEF o
  <2>4. SpaceInv'  BY <1>0, <1>1, <2>2, <2>3, SpaceMoves
  <2> QED BY <2>2, <2>4
<1> QED BY <1>2, <1>3, <1>4

(* Somebody takes a volume or an overlay into use, or gives it back.       *)
LEMMA SpaceUses ==
  ASSUME SpaceInv, NEW i \in 1..Stored, Space!Take(i) \/ Space!GiveBack(i)
  PROVE  /\ SpaceInv'
         /\ \A j \in 1..Stored : Kinds[j] = "build" /\ disk[j] # Space!Gone => disk'[j] # Space!Gone
<1>0. /\ disk \in Disks /\ disk[i] \in [used : Nat, bytes : Nat] /\ busy \subseteq 1..Stored
      /\ coll \in [Sweepers -> Collections]
  BY DEF SpaceInv, SpaceShape, Disks
<1>1. UNCHANGED <<cap, gclock, coll>> /\ busy' \subseteq 1..Stored
  BY <1>0 DEF Space!Take, Space!GiveBack
<1>2. PICK d \in [used : Nat, bytes : Nat] : /\ disk' = [disk EXCEPT ![i] = d]
                                             /\ Kinds[i] = "build" => d = disk[i] \/ d # Space!Gone
  <2>1. CASE Space!Take(i)
    <3> DEFINE d == IF Kinds[i] = "overlays" \/ disk[i] = Space!Gone
                    THEN [used |-> 3, bytes |-> 1] ELSE [disk[i] EXCEPT !.used = 3]
    <3>1. d \in [used : Nat, bytes : Nat] /\ d.used = 3  BY <1>0
    <3>2. disk' = [disk EXCEPT ![i] = d]  BY <2>1 DEF Space!Take
    <3>3. Space!Gone.used = 0  BY DEF Space!Gone
    <3> HIDE DEF d
    <3>4. d # Space!Gone  BY <3>1, <3>3
    <3> QED BY <3>1, <3>2, <3>4
  <2>2. CASE Space!GiveBack(i)
    <3> DEFINE d == IF Kinds[i] = "overlays" THEN Space!Gone ELSE disk[i]
    <3>1. d \in [used : Nat, bytes : Nat] /\ (Kinds[i] = "build" => d = disk[i])  BY <1>0 DEF Space!Gone
    <3>2. disk' = [disk EXCEPT ![i] = d]  BY <2>2 DEF Space!GiveBack
    <3> HIDE DEF d
    <3> QED BY <3>1, <3>2
  <2> QED BY <2>1, <2>2
<1>3. disk' \in Disks  BY <1>0, <1>2 DEF Disks
<1>4. \A j \in 1..Stored : Kinds[j] = "build" /\ disk[j] # Space!Gone => disk'[j] # Space!Gone
  BY <1>0, <1>2 DEF Disks
<1>5. SpaceShape'  BY <1>1, <1>3 DEF SpaceInv, SpaceShape
<1>6. Crossings'
  <2>1. CASE Space!Take(i)
    <3>1. /\ busy' = busy \union {i} /\ lost' = lost
          /\ crossed' = IF \E c \in Sweepers : coll[c].at = i THEN crossed \union {i} ELSE crossed
      BY <2>1 DEF Space!Take
    <3> QED BY <1>1, <3>1 DEF SpaceInv, Crossings
  <2>2. CASE Space!GiveBack(i)
    <3>1. busy' = busy \ {i} /\ lost' = lost \ {i} /\ crossed' = crossed \ {i}  BY <2>2 DEF Space!GiveBack
    <3> QED BY <1>1, <3>1 DEF SpaceInv, Crossings
  <2> QED BY <2>1, <2>2
<1> QED BY <1>1, <1>4, <1>5, <1>6 DEF SpaceInv, Careful, Unlinks

(* A step keeps it, and no volume in use goes with it, but of a build that *)
(* took the lock after the look.                                           *)
LEMMA SpaceStep ==
  SpaceInv /\ (Space!Next \/ UNCHANGED Space!vars) => SpaceInv' /\ Space!SparesInUse
<1> SUFFICES ASSUME SpaceInv, Space!Next \/ UNCHANGED Space!vars
             PROVE  SpaceInv' /\ Space!SparesInUse
  OBVIOUS
<1> DEFINE Spares == \A i \in 1..Stored : Kinds[i] = "build" /\ disk[i] # Space!Gone /\ disk'[i] = Space!Gone =>
                                            (i \in busy => i \in crossed)
<1>1. ASSUME UNCHANGED Space!vars PROVE SpaceInv' /\ Spares
  <2>1. SpaceInv'  BY <1>1 DEF Space!vars, SpaceInv, SpaceShape, Crossings, Careful, Unlinks
  <2> QED BY <1>1, <2>1 DEF Space!vars
<1>2. ASSUME Space!SetPolicy PROVE SpaceInv' /\ Spares
  <2>1. SpaceInv'  BY <1>2 DEF Space!SetPolicy, SpaceInv, SpaceShape, Crossings, Careful, Unlinks
  <2> QED BY <1>2, <2>1 DEF Space!SetPolicy
<1>3. ASSUME NEW c \in Sweepers, Space!Collect(c) \/ Space!Crash(c) PROVE SpaceInv' /\ Spares
  <2>1. CASE Space!UnlinkVolume(c) \/ Space!UnlinkLock(c) \/ Space!UnlinkFails(c)
    BY <2>1, SpaceUnlinks
  <2>2. CASE \/ Space!Acquire(c) \/ Space!ScanAndPlan(c) \/ Space!CleanBuild(c) \/ Space!RemoveOne(c)
             \/ (\E i \in 1..Stored : Space!Reset(c, i)) \/ Space!Release(c) \/ Space!Crash(c)
    BY <2>2, SpaceCollects
  <2> QED BY <1>3, <2>1, <2>2 DEF Space!Collect, Space!Items
<1>4. ASSUME NEW c \in Sweepers, NEW cat \in {"download", "overlays", "logs"}, Space!Clean(c, cat)
      PROVE  SpaceInv' /\ Spares
  <2>1. /\ UNCHANGED <<busy, lost, cap, gclock, coll, crossed>>
        /\ disk' = [i \in 1..Stored |->
             IF i \in Space!Of(cat) /\ ~Space!Active(i) /\ (cat = "logs" => Space!Aged(i))
             THEN Space!Gone ELSE disk[i]]
    BY <1>4 DEF Space!Clean, Space!Items
  <2>2. disk' \in Disks  BY <2>1 DEF SpaceInv, SpaceShape, Disks, Space!Gone
  <2>3. SpaceInv'  BY <2>1, <2>2 DEF SpaceInv, SpaceShape, Crossings, Careful, Unlinks
  <2>4. \A i \in 1..Stored : Kinds[i] = "build" => disk'[i] = disk[i]
    BY <2>1 DEF Space!Of
  <2> QED BY <2>3, <2>4
<1>5. ASSUME NEW i \in 1..Stored, Space!Take(i) \/ Space!GiveBack(i) PROVE SpaceInv' /\ Spares
  BY <1>5, SpaceUses
<1>6. SpaceInv' /\ Spares
  <2> HIDE DEF Spares
  <2> QED BY <1>1, <1>2, <1>3, <1>4, <1>5 DEF Space!Next, Space!Items
<1>7. lost' \subseteq crossed'  BY <1>6 DEF SpaceInv, Crossings
<1>8. \A c \in Sweepers : coll[c].pc = "unlink" => coll[c].at # coll[c].protect
  BY DEF SpaceInv, Careful, Unlinks
<1> QED BY <1>6, <1>7, <1>8 DEF Space!SparesInUse, Space!Items

(* In every such state a plan is enough.                                   *)
LEMMA SpaceMeans == SpaceInv => Space!PlanSuffices /\ Space!TypeOK
<1> SUFFICES ASSUME SpaceInv PROVE Space!PlanSuffices /\ Space!TypeOK  OBVIOUS
<1>1. disk \in Disks /\ cap \in Nat  BY HostAssumption DEF SpaceInv, SpaceShape
<1>2. Space!TypeOK
  <2>1. \A c \in Sweepers : coll[c].plan \subseteq 1..Stored
    BY DEF SpaceInv, SpaceShape, Collections
  <2> QED BY <2>1 DEF SpaceInv, SpaceShape, Crossings, Space!TypeOK, Space!Items
<1> QED BY <1>1, <1>2, PlanIsEnough

-----------------------------------------------------------------------------
(* What is fetched: a part is the beginning of what the noted source has,  *)
(* and only the whole of it lands in the cache.                            *)
Pieces == [src : Sources \union {None}, edition : Nat, place : Nat]
Begun(s, n, e) ==
  {f \in [1..n -> Pieces] :
     /\ \A i \in 1..n : f[i] = Free!Chunk(s, f[i].edition, i) /\ f[i].edition \in 1..e
     /\ \A i, j \in 1..n : i <= j => f[i].edition <= f[j].edition}
Thread == fetching[1]
Stations == {"idle", "settle", "mark", "request", "read", "unmark", "verify", "install"}
Threads == [pc : Stations, src : Sources \union {None}, ed : Nat, fd : 0..3, pos : Nat, at : Nat]

DownShape ==
  /\ DOMAIN data = 1..3 /\ part \in 0..3 /\ cache \in 0..3 /\ marker \in Sources \union {None}
  /\ fetching \in [{1} -> Threads] /\ edition \in [Sources -> Nat \ {0}]

(* A part may be joined by the thread that has its source.                 *)
Joins(f, s) == \E n \in Nat : n <= Chunks /\ data[f] \in Begun(s, n, edition[s]) /\ Thread.pos = n

PartIsNoted ==
  part # 0 => /\ part # cache /\ marker \in Sources
              /\ \E n \in Nat : n <= Chunks /\ data[part] \in Begun(marker, n, edition[marker])

ThreadStands ==
  /\ Thread.pc \in {"settle", "mark", "request", "read"} => Thread.src \in Sources
  /\ Thread.pc \in {"mark", "request"} =>
       /\ part = 0 => Thread.pos = 0
       /\ part # 0 => marker = Thread.src /\ Joins(part, marker)
  /\ Thread.pc \in {"request", "read"} => marker = Thread.src
  /\ Thread.pc = "read" =>
       /\ part # 0 /\ Thread.fd = part /\ Thread.pos >= 1 /\ Thread.pos <= Chunks + 1
       /\ data[part] \in Begun(marker, Thread.pos - 1, Thread.ed) /\ Thread.ed \in 1..edition[marker]
       /\ Thread.at \in {0, Thread.pos}
  /\ Thread.pc = "unmark" => part = 0

FreeInv == DownShape /\ PartIsNoted /\ ThreadStands /\ Free!CacheIsWhole /\ Free!InstalledIsWhole

(* What has been verified is the pinned asset until it is installed.       *)
Fields == {"pc", "src", "ed", "fd", "pos", "at"}
PinnedInv ==
  /\ DOMAIN data = 1..3 /\ part \in 0..3 /\ cache \in 0..3 /\ marker \in Sources \union {None}
  /\ DOMAIN fetching = {1} /\ DOMAIN Thread = Fields /\ edition \in [Sources -> Nat \ {0}]
  /\ Thread.pc \in Stations /\ Thread.src \in Sources \union {None} /\ Thread.fd \in 0..3
  /\ Pinned!InstalledIsWhole
  /\ Thread.pc = "install" /\ cache # 0 => data[cache] = Pinned!Asset(up)

(* The files of one download.                                              *)
LEMMA InodesAre == Free!Inodes = 1..3 /\ Pinned!Inodes = 1..3
<1>1. Cardinality({1}) = 1  BY FS_Singleton
<1>2. Free!Cardinality({1}) = Cardinality({1}) /\ Pinned!Cardinality({1}) = Cardinality({1})
  BY DEF Free!Cardinality, Pinned!Cardinality, Cardinality
<1> QED BY <1>1, <1>2 DEF Free!Inodes, Pinned!Inodes

(* There is always a file that nothing names.                              *)
LEMMA UnusedIs ==
  ASSUME part = 0, cache \in 0..3, Thread.fd \in 0..3
  PROVE  /\ Free!Unused \in 1..3 /\ Free!Unused # cache
         /\ Pinned!Unused \in 1..3 /\ Pinned!Unused # cache
<1>1. {fetching[r].fd : r \in {1}} = {Thread.fd}  BY DEF Thread
<1>3. PICK i \in 1..3 : i # cache /\ i # Thread.fd  OBVIOUS
<1>4. i \notin Free!Held /\ i \notin Pinned!Held  BY <1>1, <1>3 DEF Free!Held, Pinned!Held
<1>5. Free!Unused \in 1..3 /\ Free!Unused \notin Free!Held  BY <1>3, <1>4, InodesAre DEF Free!Unused
<1>6. Pinned!Unused \in 1..3 /\ Pinned!Unused \notin Pinned!Held  BY <1>3, <1>4, InodesAre DEF Pinned!Unused
<1> QED BY <1>5, <1>6 DEF Free!Held, Pinned!Held

(* A beginning, one chunk longer.                                          *)
LEMMA BegunGrows ==
  ASSUME NEW s \in Sources, NEW n \in Nat, NEW e \in Nat \ {0}, NEW f \in Begun(s, n, e)
  PROVE  /\ Len(f) = n
         /\ Append(f, Free!Chunk(s, e, n + 1)) \in Begun(s, n + 1, e)
         /\ Free!Written(f, n + 1, Free!Chunk(s, e, n + 1)) \in Begun(s, n + 1, e)
<1> DEFINE c == Free!Chunk(s, e, n + 1)
<1>1. f \in [1..n -> Pieces] /\ f \in Seq(Pieces) /\ Len(f) = n  BY DEF Begun
<1>2. c \in Pieces /\ c.edition = e /\ c.src = s /\ c.place = n + 1  BY DEF Pieces, Free!Chunk
<1>3. /\ \A i \in 1..n : f[i] = Free!Chunk(s, f[i].edition, i) /\ f[i].edition \in 1..e
      /\ \A i, j \in 1..n : i <= j => f[i].edition <= f[j].edition
  BY DEF Begun
<1>4. ASSUME NEW g \in [1..(n + 1) -> Pieces], \A i \in 1..n : g[i] = f[i], g[n + 1] = c
      PROVE  g \in Begun(s, n + 1, e)
  <2>1. \A i \in 1..(n + 1) : i = n + 1 \/ i \in 1..n  OBVIOUS
  <2>2. \A i \in 1..(n + 1) : g[i].edition \in 1..e
    BY <1>2, <1>3, <1>4, <2>1
  <2>3. \A i \in 1..(n + 1) : g[i] = Free!Chunk(s, g[i].edition, i)
    BY <1>2, <1>3, <1>4, <2>1 DEF c
  <2>4. \A i, j \in 1..(n + 1) : i <= j => g[i].edition <= g[j].edition
    <3> SUFFICES ASSUME NEW i \in 1..(n + 1), NEW j \in 1..(n + 1), i <= j PROVE g[i].edition <= g[j].edition
      OBVIOUS
    <3>1. CASE j = n + 1
      <4>1. g[j].edition = e /\ g[i].edition \in 1..e  BY <1>2, <1>4, <2>2, <3>1
      <4> QED BY <4>1
    <3>2. CASE j # n + 1
      <4>1. i \in 1..n /\ j \in 1..n  BY <3>2
      <4> QED BY <1>3, <1>4, <4>1
    <3> QED BY <3>1, <3>2
  <2> QED BY <2>2, <2>3, <2>4 DEF Begun
<1> HIDE DEF c
<1>5. Append(f, c) \in Begun(s, n + 1, e)
  <2> DEFINE g == Append(f, c)
  <2>2. g \in Seq(Pieces) /\ Len(g) = n + 1 /\ g[n + 1] = c /\ \A i \in 1..n : g[i] = f[i]
    BY <1>1, <1>2
  <2> HIDE DEF g
  <2>1. g \in [1..(n + 1) -> Pieces] /\ g[n + 1] = c /\ \A i \in 1..n : g[i] = f[i]
    BY <2>2
  <2>3. g \in Begun(s, n + 1, e)  BY <1>4, <2>1
  <2> QED BY <2>3 DEF g
<1>6. Free!Written(f, n + 1, c) \in Begun(s, n + 1, e)
  <2> DEFINE g == [i \in 1..(n + 1) |-> IF i = n + 1 THEN c ELSE IF i <= n THEN f[i] ELSE Free!Chunk(None, 0, i)]
  <2>1. Free!Written(f, n + 1, c) = g
    <3>1. n + 1 > n /\ n + 1 # 0  OBVIOUS
    <3> QED BY <1>1, <3>1 DEF Free!Written
  <2>2. g[n + 1] = c /\ (\A i \in 1..n : g[i] = f[i])  OBVIOUS
  <2>3. g \in [1..(n + 1) -> Pieces]
    <3>1. \A i \in 1..(n + 1) : i = n + 1 \/ i \in 1..n  OBVIOUS
    <3> QED BY <1>1, <1>2, <3>1
  <2> HIDE DEF g
  <2> QED BY <1>4, <2>1, <2>2, <2>3
<1> QED BY <1>1, <1>5, <1>6 DEF c

(* A beginning stays one when the source has a later edition.              *)
LEMMA BegunLater ==
  ASSUME NEW s, NEW n, NEW e \in Nat, NEW d \in Nat, e <= d
  PROVE  Begun(s, n, e) \subseteq Begun(s, n, d)
<1>1. 1..e \subseteq 1..d  OBVIOUS
<1> QED BY <1>1 DEF Begun

(* Nothing is the beginning of everything.                                 *)
LEMMA BegunNone ==
  ASSUME NEW s, NEW e
  PROVE  <<>> \in Begun(s, 0, e)
<1>1. <<>> \in [1..0 -> Pieces] /\ 1..0 = {}  OBVIOUS
<1> QED BY <1>1 DEF Begun


(* Nothing has been fetched yet.                                           *)
LEMMA DownStarts == Free!Init => FreeInv /\ PinnedInv
<1> SUFFICES ASSUME Free!Init PROVE FreeInv /\ PinnedInv  OBVIOUS
<1>1. fetching = [r \in {1} |-> Free!Idle] /\ part = 0 /\ marker = None /\ cache = 0 /\ installed = <<>>
      /\ DOMAIN data = 1..3 /\ edition \in [Sources -> Nat \ {0}]
  BY InodesAre DEF Free!Init
<1>2. Free!Idle \in Threads /\ Free!Idle.pc = "idle"  BY DEF Free!Idle, Threads, Stations
<1>3. DownShape /\ Thread.pc = "idle" /\ Thread = Free!Idle  BY <1>1, <1>2 DEF DownShape, Thread
<1>4. DOMAIN Free!Idle = Fields /\ Free!Idle.fd = 0 /\ Free!Idle.src = None  BY DEF Free!Idle, Fields
<1>5. 0 \in 0..3  OBVIOUS
<1> QED BY <1>1, <1>3, <1>4, <1>5 DEF Stations, FreeInv, PinnedInv, PartIsNoted, ThreadStands, Free!CacheIsWhole, Free!InstalledIsWhole,
     Pinned!InstalledIsWhole

(* A thread that gives up leaves its part beside the note.                 *)
LEMMA FreeGivesUp ==
  ASSUME FreeInv, fetching' = [fetching EXCEPT ![1] = Free!Idle],
         UNCHANGED <<data, part, marker, cache, installed, edition>>
  PROVE  FreeInv'
<1>1. Free!Idle \in Threads /\ Free!Idle.pc = "idle"  BY DEF Free!Idle, Threads, Stations
<1>2. fetching' \in [{1} -> Threads] /\ Thread'.pc = "idle"  BY <1>1 DEF FreeInv, DownShape, Thread
<1>3. ThreadStands'  BY <1>2 DEF ThreadStands
<1> QED BY <1>2, <1>3 DEF FreeInv, DownShape, PartIsNoted, Free!CacheIsWhole, Free!InstalledIsWhole, Free!Whole

(* What a step of the thread makes of where it stands.                     *)
LEMMA FreeGoes ==
  ASSUME FreeInv,
         Free!Begin(1) \/ Free!Settle(1) \/ Free!Mark(1) \/ Free!Unmark(1) \/ Free!Verify(1) \/ Free!Install(1)
  PROVE  FreeInv'
<1>0. fetching \in [{1} -> Threads] /\ Thread \in Threads  BY DEF FreeInv, DownShape, Thread
<1>1. CASE Free!Begin(1) /\ cache # 0
  <2>1. /\ fetching' \in [{1} -> Threads] /\ Thread'.pc = "verify" /\ UNCHANGED <<data, part, marker, cache, installed, edition>>
    BY <1>0, <1>1 DEF Free!Begin, Free!Goto, Thread, Threads, Stations
  <2> QED BY <2>1 DEF FreeInv, DownShape, PartIsNoted, ThreadStands, Free!CacheIsWhole, Free!InstalledIsWhole, Free!Whole
<1>2. CASE Free!Begin(1) /\ cache = 0
  <2>1. PICK s \in Sources : fetching' = [fetching EXCEPT ![1].pc = "settle", ![1].src = s]
    BY <1>2 DEF Free!Begin
  <2>2. /\ fetching' \in [{1} -> Threads] /\ Thread'.pc = "settle" /\ Thread'.src = s
        /\ UNCHANGED <<data, part, marker, cache, installed, edition>>
    BY <1>0, <1>2, <2>1 DEF Free!Begin, Thread, Threads, Stations
  <2> QED BY <2>2 DEF FreeInv, DownShape, PartIsNoted, ThreadStands, Free!CacheIsWhole, Free!InstalledIsWhole, Free!Whole
<1>3. CASE Free!Settle(1)
  <2>1. /\ part' = (IF marker = Thread.src THEN part ELSE 0) /\ UNCHANGED <<data, marker, cache, installed, edition>>
        /\ fetching' = [fetching EXCEPT ![1].pc = "mark", ![1].pos = IF part' = 0 THEN 0 ELSE Len(data[part])]
        /\ Thread.pc = "settle"
    BY <1>3 DEF Free!Settle, Thread
  <2>2. Thread.src \in Sources  BY <2>1 DEF FreeInv, ThreadStands
  <2>3. CASE part' = 0
    <3>1. fetching' \in [{1} -> Threads] /\ Thread'.pc = "mark" /\ Thread'.src = Thread.src /\ Thread'.pos = 0
      BY <1>0, <2>1, <2>3 DEF Thread, Threads, Stations
    <3>2. DownShape'  BY <2>1, <2>3, <3>1 DEF FreeInv, DownShape
    <3> QED BY <2>1, <2>2, <2>3, <3>1, <3>2 DEF FreeInv, PartIsNoted, ThreadStands, Free!CacheIsWhole, Free!InstalledIsWhole, Free!Whole
  <2>4. CASE part' # 0
    <3>1. part' = part /\ marker = Thread.src /\ part # 0  BY <2>1, <2>4
    <3>2. PICK n \in Nat : n <= Chunks /\ data[part] \in Begun(marker, n, edition[marker])
      BY <3>1 DEF FreeInv, PartIsNoted
    <3>8. edition[marker] \in Nat \ {0} /\ marker \in Sources  BY <2>2, <3>1 DEF FreeInv, DownShape
    <3>3. Len(data[part]) = n  BY <3>2, <3>8, BegunGrows
    <3>4. fetching' \in [{1} -> Threads] /\ Thread'.pc = "mark" /\ Thread'.src = Thread.src /\ Thread'.pos = n
      BY <1>0, <2>1, <2>4, <3>3 DEF Thread, Threads, Stations
    <3>5. Joins(part, marker)'  BY <2>1, <3>1, <3>2, <3>4 DEF Joins
    <3>6. DownShape' /\ PartIsNoted'  BY <2>1, <3>1, <3>4 DEF FreeInv, DownShape, PartIsNoted
    <3>7. ThreadStands'  BY <2>1, <2>2, <3>1, <3>4, <3>5 DEF ThreadStands
    <3> QED BY <2>1, <3>6, <3>7 DEF FreeInv, Free!CacheIsWhole, Free!InstalledIsWhole, Free!Whole
  <2> QED BY <2>3, <2>4
<1>4. CASE Free!Mark(1)
  <2>1. /\ fetching' \in [{1} -> Threads] /\ Thread.pc = "mark" /\ Thread'.pc = "request" /\ Thread'.src = Thread.src
        /\ Thread'.pos = Thread.pos /\ marker' = Thread.src /\ UNCHANGED <<data, part, cache, installed, edition>>
    BY <1>0, <1>4 DEF Free!Mark, Free!Goto, Thread, Threads, Stations
  <2>2. Thread.src \in Sources /\ (part = 0 => Thread.pos = 0)
        /\ (part # 0 => marker = Thread.src /\ Joins(part, marker))
    BY <2>1 DEF FreeInv, ThreadStands
  <2>3. part # 0 => marker' = marker /\ Joins(part, marker)'  BY <2>1, <2>2 DEF Joins
  <2>4. ThreadStands'  BY <2>1, <2>2, <2>3 DEF ThreadStands
  <2>5. DownShape' /\ PartIsNoted'  BY <2>1, <2>2, <2>3 DEF FreeInv, DownShape, PartIsNoted
  <2> QED BY <2>1, <2>4, <2>5 DEF FreeInv, Free!CacheIsWhole, Free!InstalledIsWhole, Free!Whole
<1>5. CASE Free!Unmark(1)
  <2>1. /\ fetching' \in [{1} -> Threads] /\ Thread.pc = "unmark" /\ Thread'.pc = "verify"
        /\ marker' = None /\ UNCHANGED <<data, part, cache, installed, edition>>
    BY <1>0, <1>5 DEF Free!Unmark, Free!Goto, Thread, Threads, Stations
  <2>2. part = 0  BY <2>1 DEF FreeInv, ThreadStands
  <2> QED BY <2>1, <2>2 DEF FreeInv, DownShape, PartIsNoted, ThreadStands, Free!CacheIsWhole, Free!InstalledIsWhole, Free!Whole
<1>6. CASE Free!Verify(1)
  <2>1. CASE fetching' = [fetching EXCEPT ![1] = Free!Idle]
    BY <1>6, <2>1, FreeGivesUp DEF Free!Verify
  <2>2. CASE fetching' = [fetching EXCEPT ![1].pc = "install"]
    <3>1. fetching' \in [{1} -> Threads] /\ Thread'.pc = "install" /\ UNCHANGED <<data, part, marker, cache, installed, edition>>
      BY <1>0, <1>6, <2>2 DEF Free!Verify, Thread, Threads, Stations
    <3> QED BY <3>1 DEF FreeInv, DownShape, PartIsNoted, ThreadStands, Free!CacheIsWhole, Free!InstalledIsWhole, Free!Whole
  <2> QED BY <1>6, <2>1, <2>2 DEF Free!Verify, Free!Goto, Free!GiveUp
<1>7. CASE Free!Install(1)
  <2>1. /\ fetching' = [fetching EXCEPT ![1] = Free!Idle] /\ UNCHANGED <<data, part, marker, cache, edition>>
        /\ installed' = IF cache # 0 THEN data[cache] ELSE installed
    BY <1>7 DEF Free!Install, Free!GiveUp
  <2>2. Free!InstalledIsWhole'  BY <2>1 DEF FreeInv, Free!CacheIsWhole, Free!InstalledIsWhole, Free!Whole
  <2>3. Free!Idle \in Threads /\ Free!Idle.pc = "idle"  BY DEF Free!Idle, Threads, Stations
  <2>4. fetching' \in [{1} -> Threads] /\ Thread'.pc = "idle"  BY <1>0, <2>1, <2>3 DEF Thread
  <2> QED BY <2>1, <2>2, <2>4 DEF FreeInv, DownShape, PartIsNoted, ThreadStands, Free!CacheIsWhole, Free!Whole
<1> QED BY <1>1, <1>2, <1>3, <1>4, <1>5, <1>6, <1>7 DEF Free!Begin

(* The server goes on where the part ends, or begins again.                *)
LEMMA FreeRequests ==
  ASSUME FreeInv, Free!Request(1)
  PROVE  FreeInv'
<1>0. /\ fetching \in [{1} -> Threads] /\ Thread \in Threads /\ Thread.pc = "request" /\ Thread.src \in Sources
      /\ marker = Thread.src /\ UNCHANGED <<marker, cache, installed, edition>>
      /\ DOMAIN data = 1..3 /\ part \in 0..3 /\ cache \in 0..3
      /\ edition \in [Sources -> Nat \ {0}] /\ edition[marker] \in Nat \ {0}
  BY DEF FreeInv, DownShape, Thread, Free!Request, ThreadStands
<1> DEFINE f == IF part # 0 THEN part ELSE Free!Unused
<1>1. f \in 1..3 /\ f # 0 /\ f # cache
  <2>1. Thread.fd \in 0..3  BY <1>0 DEF Threads, Stations
  <2> QED BY <1>0, <2>1, UnusedIs DEF FreeInv, PartIsNoted
<1> HIDE DEF f
<1>2. CASE Thread.pos \in 1..(Chunks - 1) /\ Free!Opened(1, "kept", Thread.pos + 1, 0)
  <2>1. part # 0 /\ f = part /\ Joins(part, marker)  BY <1>0, <1>2 DEF FreeInv, ThreadStands, f
  <2>2. /\ part' = part /\ data' = [data EXCEPT ![part] = data[part]]
        /\ fetching' = [fetching EXCEPT ![1].pc = "read", ![1].fd = part, ![1].ed = edition[marker],
                                        ![1].pos = Thread.pos + 1, ![1].at = 0]
    BY <1>0, <1>2, <2>1 DEF Free!Opened, Thread
  <2>3. PICK n \in Nat : n <= Chunks /\ data[part] \in Begun(marker, n, edition[marker]) /\ Thread.pos = n
    BY <2>1 DEF Joins
  <2>4. DOMAIN data' = 1..3 /\ data'[part] \in Begun(marker, n, edition[marker]) /\ \A i \in 1..3 : data'[i] = data[i]
    BY <1>0, <2>1, <2>2, <2>3
  <2>5. /\ fetching' \in [{1} -> Threads] /\ Thread'.pc = "read" /\ Thread'.fd = part /\ Thread'.pos = n + 1
        /\ Thread'.at = 0 /\ Thread'.src = Thread.src /\ Thread'.ed = edition[marker]
    <3>1. n \in Nat /\ n + 1 \in Nat /\ part \in 0..3 /\ 0 \in Nat  BY <1>0
    <3> DEFINE e == edition[marker]
               t == [Thread EXCEPT !.pc = "read", !.ed = e, !.fd = part, !.pos = n + 1, !.at = 0]
    <3>5. e \in Nat  BY <1>0
    <3>3. fetching' = [fetching EXCEPT ![1] = t]  BY <1>0, <2>2, <2>3 DEF Thread
    <3> HIDE DEF e
    <3>2. t \in Threads /\ t.pc = "read" /\ t.ed = e /\ t.fd = part /\ t.pos = n + 1 /\ t.at = 0 /\ t.src = Thread.src
      BY <1>0, <3>1, <3>5 DEF Threads, Stations
    <3> HIDE DEF t
    <3>4. fetching' \in [{1} -> Threads] /\ Thread' = t  BY <1>0, <3>2, <3>3 DEF Thread
    <3> QED BY <3>2, <3>4 DEF e
  <2>6. DownShape'  BY <1>0, <2>2, <2>4, <2>5 DEF DownShape
  <2>7. PartIsNoted'  BY <1>0, <1>1, <2>1, <2>2, <2>3, <2>4 DEF PartIsNoted
  <2>8. n + 1 >= 1 /\ n + 1 <= Chunks + 1 /\ n + 1 - 1 = n  BY <2>3, HostAssumption
  <2>9. ThreadStands'  BY <1>0, <2>1, <2>2, <2>4, <2>5, <2>8 DEF ThreadStands
  <2>10. Free!CacheIsWhole'  BY <1>0, <2>4 DEF FreeInv, Free!CacheIsWhole, Free!Whole
  <2> QED BY <1>0, <2>6, <2>7, <2>9, <2>10 DEF FreeInv, Free!InstalledIsWhole, Free!Whole
<1>3. CASE Free!Opened(1, "truncated", 1, 1)
  <2>2. /\ part' = f /\ data' = [data EXCEPT ![f] = <<>>]
        /\ fetching' = [fetching EXCEPT ![1].pc = "read", ![1].fd = f, ![1].ed = edition[marker], ![1].pos = 1, ![1].at = 1]
    BY <1>0, <1>3 DEF Free!Opened, f, Thread
  <2>3. <<>> \in Begun(marker, 0, edition[marker])  BY BegunNone
  <2>4. DOMAIN data' = 1..3 /\ data'[f] \in Begun(marker, 0, edition[marker]) /\ \A i \in 1..3 : i # f => data'[i] = data[i]
    BY <1>0, <1>1, <2>2, <2>3
  <2>5. /\ fetching' \in [{1} -> Threads] /\ Thread'.pc = "read" /\ Thread'.fd = f /\ Thread'.pos = 1
        /\ Thread'.at = 1 /\ Thread'.src = Thread.src /\ Thread'.ed = edition[marker]
    <3>1. f \in 0..3 /\ 1 \in Nat  BY <1>1
    <3> DEFINE e == edition[marker]
               t == [Thread EXCEPT !.pc = "read", !.ed = e, !.fd = f, !.pos = 1, !.at = 1]
    <3>5. e \in Nat  BY <1>0
    <3>3. fetching' = [fetching EXCEPT ![1] = t]  BY <1>0, <2>2 DEF Thread
    <3> HIDE DEF e
    <3>2. t \in Threads /\ t.pc = "read" /\ t.ed = e /\ t.fd = f /\ t.pos = 1 /\ t.at = 1 /\ t.src = Thread.src
      BY <1>0, <3>1, <3>5 DEF Threads, Stations
    <3> HIDE DEF t
    <3>4. fetching' \in [{1} -> Threads] /\ Thread' = t  BY <1>0, <3>2, <3>3 DEF Thread
    <3> QED BY <3>2, <3>4 DEF e
  <2>6. DownShape'  BY <1>0, <1>1, <2>2, <2>4, <2>5 DEF DownShape
  <2>7. 0 <= Chunks /\ 0 \in Nat /\ 1 <= Chunks + 1 /\ 1 >= 1 /\ 1 - 1 = 0  BY HostAssumption
  <2>8. PartIsNoted'  BY <1>0, <1>1, <2>2, <2>4, <2>7 DEF PartIsNoted
  <2>9. ThreadStands'  BY <1>0, <1>1, <2>2, <2>4, <2>5, <2>7 DEF ThreadStands
  <2>10. Free!CacheIsWhole'  BY <1>0, <1>1, <2>4 DEF FreeInv, Free!CacheIsWhole, Free!Whole
  <2> QED BY <1>0, <2>6, <2>8, <2>9, <2>10 DEF FreeInv, Free!InstalledIsWhole, Free!Whole
<1>4. CASE Free!GiveUp(1) /\ UNCHANGED <<part, data>>
  BY <1>0, <1>4, FreeGivesUp DEF Free!GiveUp
<1> QED BY <1>2, <1>3, <1>4 DEF Free!Request, Thread

(* A chunk arrives, and at the end the part lands in the cache.            *)
LEMMA FreeReads ==
  ASSUME FreeInv, Free!Read(1) \/ Free!Land(1)
  PROVE  FreeInv'
<1>0. /\ fetching \in [{1} -> Threads] /\ Thread \in Threads /\ Thread.pc = "read" /\ Thread.src \in Sources
      /\ marker = Thread.src /\ UNCHANGED <<marker, installed, edition>>
      /\ DOMAIN data = 1..3 /\ part \in 0..3 /\ cache \in 0..3 /\ part # cache
      /\ part # 0 /\ Thread.fd = part /\ data[part] \in Begun(marker, Thread.pos - 1, Thread.ed)
      /\ Thread.at \in {0, Thread.pos} /\ Thread.ed \in 1..edition[marker]
      /\ edition \in [Sources -> Nat \ {0}] /\ edition[marker] \in Nat \ {0} /\ Thread.ed \in Nat \ {0}
  BY DEF FreeInv, DownShape, Thread, Free!Read, Free!Land, ThreadStands, PartIsNoted
<1>1. PICK n \in Nat : n <= Chunks /\ Thread.pos = n + 1 /\ data[part] \in Begun(marker, n, Thread.ed)
  <2>1. Thread.pos \in Nat /\ Thread.pos >= 1 /\ Thread.pos <= Chunks + 1
    BY <1>0 DEF FreeInv, ThreadStands, Threads
  <2>2. Thread.pos - 1 \in Nat /\ Thread.pos - 1 <= Chunks /\ Thread.pos = (Thread.pos - 1) + 1  BY <2>1, HostAssumption
  <2> QED BY <1>0, <2>2
<1>2. CASE Free!Read(1) /\ Free!GiveUp(1) /\ UNCHANGED data
  BY <1>0, <1>2, FreeGivesUp DEF Free!GiveUp, Free!Read
<1>3. CASE Free!Read(1) /\ ~(Free!GiveUp(1) /\ UNCHANGED data)
  <2> DEFINE c == Free!Chunk(marker, Thread.ed, n + 1)
  <2>1. /\ n + 1 <= Chunks /\ UNCHANGED <<part, cache, edition>>
        /\ data' = [data EXCEPT ![part] = Free!Written(data[part], Thread.at, c)]
        /\ fetching' = [fetching EXCEPT ![1].pos = Thread.pos + 1,
                                        ![1].at = IF Thread.at = 0 THEN 0 ELSE Thread.at + 1]
    BY <1>0, <1>1, <1>3 DEF Free!Read, Thread
  <2> HIDE DEF c
  <2>2. Free!Written(data[part], Thread.at, c) \in Begun(marker, n + 1, Thread.ed)
    <3> DEFINE d == data[part]
               e == Thread.ed
    <3>3. d \in Begun(marker, n, e) /\ e \in Nat \ {0} /\ marker \in Sources  BY <1>0, <1>1
    <3> HIDE DEF d, e
    <3>4. Append(d, Free!Chunk(marker, e, n + 1)) \in Begun(marker, n + 1, e)
          /\ Free!Written(d, n + 1, Free!Chunk(marker, e, n + 1)) \in Begun(marker, n + 1, e)
      BY <3>3, BegunGrows
    <3>1. CASE Thread.at = 0
      <4>1. Free!Written(d, 0, c) = Append(d, c)  BY DEF Free!Written
      <4> QED BY <3>1, <3>4, <4>1 DEF c, d, e
    <3>2. CASE Thread.at = n + 1  BY <3>2, <3>4 DEF c, d, e
    <3> QED BY <1>0, <1>1, <3>1, <3>2
  <2>3. DOMAIN data' = 1..3 /\ data'[part] \in Begun(marker, n + 1, Thread.ed) /\ \A i \in 1..3 : i # part => data'[i] = data[i]
    BY <1>0, <2>1, <2>2
  <2>4. n + 2 \in Nat /\ n + 2 >= 1 /\ n + 2 <= Chunks + 1 /\ (n + 2) - 1 = n + 1 /\ n + 1 \in Nat
        /\ (n + 1) + 1 = n + 2 /\ 0 \in Nat
    BY <2>1, HostAssumption
  <2>5. /\ fetching' \in [{1} -> Threads] /\ Thread'.pc = "read" /\ Thread'.fd = part /\ Thread'.pos = n + 2
        /\ Thread'.at \in {0, n + 2} /\ Thread'.src = Thread.src /\ Thread'.ed = Thread.ed
    BY <1>0, <1>1, <2>1, <2>4 DEF Thread, Threads, Stations
  <2>6. DownShape'  BY <1>0, <2>1, <2>3, <2>5 DEF DownShape
  <2>7. data'[part] \in Begun(marker, n + 1, edition[marker])
    <3> DEFINE e == Thread.ed
               d == edition[marker]
    <3>1. e \in Nat /\ d \in Nat /\ e <= d /\ data'[part] \in Begun(marker, n + 1, e)  BY <1>0, <2>3
    <3> HIDE DEF e, d
    <3>2. data'[part] \in Begun(marker, n + 1, d)  BY <3>1, BegunLater
    <3> QED BY <3>2 DEF d
  <2>8. PartIsNoted'  BY <1>0, <2>1, <2>3, <2>4, <2>7 DEF PartIsNoted
  <2>9. ThreadStands'  BY <1>0, <2>1, <2>3, <2>4, <2>5 DEF ThreadStands
  <2>10. Free!CacheIsWhole'  BY <1>0, <2>1, <2>3 DEF FreeInv, Free!CacheIsWhole, Free!Whole
  <2> QED BY <1>0, <2>6, <2>8, <2>9, <2>10 DEF FreeInv, Free!InstalledIsWhole, Free!Whole
<1>4. CASE Free!Land(1)
  <2>1. /\ n + 1 > Chunks /\ cache' = part /\ part' = 0 /\ data' = data
        /\ fetching' = [fetching EXCEPT ![1].pc = "unmark", ![1].fd = 0]
    BY <1>0, <1>1, <1>4 DEF Free!Land, Thread
  <2>2. n = Chunks  BY <1>1, <2>1, HostAssumption
  <2>3. Free!Whole(data[part])
    <3>1. /\ DOMAIN data[part] = 1..Chunks
          /\ \A i \in 1..Chunks : data[part][i] = Free!Chunk(marker, data[part][i].edition, i)
                                  /\ data[part][i].edition \in 1..Thread.ed
          /\ \A i, j \in 1..Chunks : i <= j => data[part][i].edition <= data[part][j].edition
      BY <1>1, <2>2 DEF Begun
    <3>2. 1..Thread.ed \subseteq 1..edition[marker]  BY <1>0
    <3>3. \A i \in 1..Chunks : data[part][i].edition \in 1..edition[marker]  BY <3>1, <3>2
    <3> QED BY <1>0, <3>1, <3>3 DEF Free!Whole
  <2>4. Free!CacheIsWhole'  BY <1>0, <2>1, <2>3 DEF Free!CacheIsWhole, Free!Whole
  <2>5. fetching' \in [{1} -> Threads] /\ Thread'.pc = "unmark"  BY <1>0, <2>1 DEF Thread, Threads, Stations
  <2> QED BY <1>0, <2>1, <2>4, <2>5 DEF FreeInv, DownShape, PartIsNoted, ThreadStands, Free!InstalledIsWhole, Free!Whole
<1> QED BY <1>2, <1>3, <1>4

(* Whatever the thread does, or the user, or a crash.                      *)
LEMMA FreeStep == FreeInv /\ (Free!Next \/ UNCHANGED Free!vars) => FreeInv'
<1> SUFFICES ASSUME FreeInv, Free!Next \/ UNCHANGED Free!vars PROVE FreeInv'  OBVIOUS
<1>0. fetching \in [{1} -> Threads]  BY DEF FreeInv, DownShape
<1>1. CASE Free!Step(1)
  BY <1>1, FreeGoes, FreeRequests, FreeReads DEF Free!Step
<1>2. CASE Free!EmptyCache
  <2>1. Thread.pc = "idle" /\ part' = 0 /\ marker' = None /\ cache' = 0 /\ UNCHANGED <<data, fetching, installed, edition>>
    BY <1>2 DEF Free!EmptyCache, Thread
  <2>2. Thread' = Thread  BY <2>1 DEF Thread
  <2> QED BY <2>1, <2>2 DEF FreeInv, DownShape, PartIsNoted, ThreadStands, Free!CacheIsWhole, Free!InstalledIsWhole, Free!Whole
<1>3. CASE Free!Crash
  <2>1. fetching' = [r \in {1} |-> Free!Idle] /\ UNCHANGED <<data, part, marker, cache, installed, edition>>
    BY <1>3 DEF Free!Crash
  <2>2. fetching' = [fetching EXCEPT ![1] = Free!Idle]  BY <1>0, <2>1
  <2> QED BY <2>1, <2>2, FreeGivesUp
<1>4. CASE UNCHANGED Free!vars
  <2>1. UNCHANGED <<data, part, marker, cache, fetching, installed, edition>>  BY <1>4 DEF Free!vars
  <2>2. Thread' = Thread  BY <2>1 DEF Thread
  <2> QED BY <2>1, <2>2 DEF FreeInv, DownShape, PartIsNoted, ThreadStands, Joins, Free!CacheIsWhole, Free!InstalledIsWhole, Free!Whole
<1>5. CASE \E s \in Sources : Free!Change(s)
  <2>1. PICK s \in Sources : edition' = [edition EXCEPT ![s] = edition[s] + 1]  BY <1>5 DEF Free!Change
  <2>2. UNCHANGED <<data, part, marker, cache, fetching, installed>>  BY <1>5 DEF Free!Change
  <2>3. Thread' = Thread  BY <2>2 DEF Thread
  <2>4. /\ edition \in [Sources -> Nat \ {0}] /\ edition' \in [Sources -> Nat \ {0}]
        /\ \A u \in Sources : edition[u] <= edition'[u]
    BY <2>1 DEF FreeInv, DownShape
  <2>5. \A u \in Sources : \A n \in Nat : Begun(u, n, edition[u]) \subseteq Begun(u, n, edition'[u])
    <3> SUFFICES ASSUME NEW u \in Sources, NEW n \in Nat
                 PROVE  Begun(u, n, edition[u]) \subseteq Begun(u, n, edition'[u])
      OBVIOUS
    <3>1. edition[u] \in Nat /\ edition'[u] \in Nat /\ edition[u] <= edition'[u]  BY <2>4
    <3> QED BY <3>1, BegunLater
  <2>6. DownShape'  BY <2>2, <2>4 DEF FreeInv, DownShape
  <2>7. PartIsNoted'  BY <2>2, <2>5 DEF FreeInv, PartIsNoted
  <2>8. ThreadStands'
    <3>1. part # 0 /\ marker = Thread.src /\ Thread.src \in Sources /\ Joins(part, marker) => Joins(part, marker)'
      BY <2>2, <2>3, <2>5 DEF Joins
    <3>2. Thread.src \in Sources => 1..edition[Thread.src] \subseteq 1..edition'[Thread.src]  BY <2>4
    <3> QED BY <2>2, <2>3, <3>1, <3>2 DEF FreeInv, ThreadStands
  <2>9. Free!CacheIsWhole' /\ Free!InstalledIsWhole'
    <3>1. \A u \in Sources : 1..edition[u] \subseteq 1..edition'[u]  BY <2>4
    <3>2. \A g : Free!Whole(g) =>
            \E u \in Sources : /\ DOMAIN g = 1..Chunks
                               /\ \A i \in 1..Chunks : g[i] = Free!Chunk(u, g[i].edition, i) /\ g[i].edition \in 1..edition'[u]
                               /\ \A i, j \in 1..Chunks : i <= j => g[i].edition <= g[j].edition
      BY <3>1 DEF Free!Whole
    <3> QED BY <2>2, <3>2 DEF FreeInv, Free!CacheIsWhole, Free!InstalledIsWhole, Free!Whole
  <2> QED BY <2>6, <2>7, <2>8, <2>9 DEF FreeInv
<1> QED BY <1>1, <1>2, <1>3, <1>4, <1>5 DEF Free!Next, Free!Evict

(* Where a thread is put.                                                  *)
Put(pc, src, ed, fd, pos, at0) ==
  [Thread EXCEPT !.pc = pc, !.src = src, !.ed = ed, !.fd = fd, !.pos = pos, !.at = at0]

(* A thread is put where a step sends it.                                  *)
LEMMA PinnedGoes ==
  ASSUME PinnedInv, NEW t, DOMAIN t = Fields, t.pc \in Stations, t.src \in Sources \union {None}, t.fd \in 0..3,
         fetching' = [fetching EXCEPT ![1] = t],
         DOMAIN data' = 1..3, part' \in 0..3, cache' \in {0, cache, part}, marker' \in Sources \union {None},
         installed' = installed, edition' = edition,
         t.pc = "install" => cache # 0 /\ cache' = cache /\ data' = data /\ data[cache] = Pinned!Asset(up)
  PROVE  PinnedInv'
<1>1. DOMAIN fetching' = {1} /\ Thread' = t  BY DEF PinnedInv, Thread
<1>2. cache' \in 0..3  BY DEF PinnedInv
<1>3. Thread'.pc = "install" /\ cache' # 0 => data'[cache'] = Pinned!Asset(up)  BY <1>1
<1>4. Pinned!InstalledIsWhole'  BY DEF PinnedInv, Pinned!InstalledIsWhole, Pinned!Whole
<1> QED BY <1>1, <1>2, <1>3, <1>4 DEF PinnedInv

(* Where storage collects: what was verified is installed, or nothing.     *)
LEMMA PinnedStep == PinnedInv /\ (Pinned!Next \/ UNCHANGED Pinned!vars) => PinnedInv'
<1> SUFFICES ASSUME PinnedInv, Pinned!Next \/ UNCHANGED Pinned!vars PROVE PinnedInv'  OBVIOUS
<1>0. /\ DOMAIN data = 1..3 /\ part \in 0..3 /\ cache \in 0..3 /\ marker \in Sources \union {None}
      /\ Thread = fetching[1] /\ DOMAIN fetching = {1} /\ DOMAIN Thread = Fields
      /\ Thread.pc \in Stations /\ Thread.src \in Sources \union {None} /\ Thread.fd \in 0..3
  BY DEF PinnedInv, Thread, Fields
<1>1. /\ DOMAIN Pinned!Idle = Fields /\ Pinned!Idle.pc = "idle" /\ Pinned!Idle.src = None /\ Pinned!Idle.fd = 0
      /\ Pinned!Idle.pc \in Stations /\ 0 \in 0..3
  BY DEF Pinned!Idle, Fields, Stations
<1>2. ASSUME Pinned!GiveUp(1), UNCHANGED <<data, part, marker, cache, installed, edition>> PROVE PinnedInv'
  BY <1>0, <1>1, <1>2, PinnedGoes DEF Pinned!GiveUp
<1>3. ASSUME NEW pc \in Stations, NEW src \in Sources \union {None}, NEW ed, NEW fd \in 0..3, NEW pos, NEW at0,
             fetching' = [fetching EXCEPT ![1] = Put(pc, src, ed, fd, pos, at0)],
             DOMAIN data' = 1..3, part' \in 0..3, cache' \in {0, cache, part}, marker' \in Sources \union {None},
             installed' = installed, edition' = edition,
             pc = "install" => cache # 0 /\ cache' = cache /\ data' = data /\ data[cache] = Pinned!Asset(up)
      PROVE  PinnedInv'
  <2> DEFINE t == Put(pc, src, ed, fd, pos, at0)
  <2>1. DOMAIN t = Fields /\ t.pc = pc /\ t.src = src /\ t.fd = fd  BY <1>0 DEF Fields, Put
  <2> QED BY <1>3, <2>1, PinnedGoes
<1>4. CASE Pinned!Begin(1)
  <2>1. CASE fetching' = [fetching EXCEPT ![1].pc = "verify"]
    <3>1. fetching' = [fetching EXCEPT ![1] = Put("verify", Thread.src, Thread.ed, Thread.fd, Thread.pos, Thread.at)]
      BY <1>0, <2>1 DEF Put
    <3> QED BY <1>0, <1>3, <1>4, <3>1 DEF Pinned!Begin, Stations
  <2>2. CASE \E s \in Sources : fetching' = [fetching EXCEPT ![1].pc = "settle", ![1].src = s]
    <3>1. PICK s \in Sources : fetching' = [fetching EXCEPT ![1].pc = "settle", ![1].src = s]  BY <2>2
    <3>2. fetching' = [fetching EXCEPT ![1] = Put("settle", s, Thread.ed, Thread.fd, Thread.pos, Thread.at)]
      BY <1>0, <3>1 DEF Put
    <3> QED BY <1>0, <1>3, <1>4, <3>2 DEF Pinned!Begin, Stations
  <2> QED BY <1>4, <2>1, <2>2 DEF Pinned!Begin, Pinned!Goto
<1>5. CASE Pinned!Settle(1)
  <2>1. PICK p : fetching' = [fetching EXCEPT ![1].pc = "mark", ![1].pos = p]  BY <1>5 DEF Pinned!Settle
  <2>2. fetching' = [fetching EXCEPT ![1] = Put("mark", Thread.src, Thread.ed, Thread.fd, p, Thread.at)]
    BY <1>0, <2>1 DEF Put
  <2>3. part' \in 0..3 /\ UNCHANGED <<data, marker, cache, installed, edition>>  BY <1>0, <1>5 DEF Pinned!Settle
  <2> QED BY <1>0, <1>3, <2>2, <2>3 DEF Stations
<1>6. ASSUME NEW pc \in Stations, Pinned!Goto(1, pc), UNCHANGED <<data, part, cache, installed, edition>>,
             marker' \in Sources \union {None},
             pc = "install" => cache # 0 /\ data[cache] = Pinned!Asset(up)
      PROVE  PinnedInv'
  <2>1. fetching' = [fetching EXCEPT ![1] = Put(pc, Thread.src, Thread.ed, Thread.fd, Thread.pos, Thread.at)]
    BY <1>0, <1>6 DEF Pinned!Goto, Put
  <2> QED BY <1>0, <1>3, <1>6, <2>1
<1>7. CASE Pinned!Mark(1) \/ Pinned!Unmark(1)
  <2>1. marker' \in Sources \union {None} /\ UNCHANGED <<data, part, cache, installed, edition>>
        /\ \E pc \in {"request", "verify"} : Pinned!Goto(1, pc)
    BY <1>0, <1>7 DEF Pinned!Mark, Pinned!Unmark
  <2> QED BY <1>6, <2>1 DEF Stations
<1>8. ASSUME NEW d, NEW first, NEW at0, Pinned!Opened(1, d, first, at0), UNCHANGED <<marker, cache, installed, edition>>
      PROVE  PinnedInv'
  <2> DEFINE f == IF part # 0 THEN part ELSE Pinned!Unused
  <2>1. f \in 0..3  BY <1>0, UnusedIs
  <2>2. /\ part' = f /\ \E c : data' = [data EXCEPT ![f] = c]
        /\ fetching' = [fetching EXCEPT ![1].pc = "read", ![1].fd = f, ![1].ed = edition[Thread.src],
                                        ![1].pos = first, ![1].at = at0]
    BY <1>0, <1>8 DEF Pinned!Opened
  <2> HIDE DEF f
  <2>3. fetching' = [fetching EXCEPT ![1] = Put("read", Thread.src, edition[Thread.src], f, first, at0)]
    BY <1>0, <2>2 DEF Put
  <2>4. DOMAIN data' = 1..3  BY <1>0, <2>2
  <2>5. "read" \in Stations /\ part' \in 0..3 /\ cache' \in {0, cache, part} /\ installed' = installed /\ edition' = edition
        /\ marker' \in Sources \union {None} /\ "read" # "install"
    BY <1>0, <1>8, <2>1, <2>2 DEF Stations
  <2>6. Thread.src \in Sources \union {None}  BY <1>0
  <2> QED BY <1>3, <2>1, <2>3, <2>4, <2>5, <2>6
<1>9. CASE Pinned!Request(1)
  BY <1>2, <1>8, <1>9 DEF Pinned!Request
<1>10. CASE Pinned!Read(1)
  <2>1. CASE Pinned!GiveUp(1) /\ UNCHANGED data  BY <1>2, <1>10, <2>1 DEF Pinned!Read
  <2>2. CASE ~(Pinned!GiveUp(1) /\ UNCHANGED data)
    <3> DEFINE p == Thread.pos + 1
               a == IF Thread.at = 0 THEN 0 ELSE Thread.at + 1
               c == Pinned!Written(data[Thread.fd], Thread.at, Pinned!Chunk(Thread.src, Thread.ed, Thread.pos))
    <3>1. data' = [data EXCEPT ![Thread.fd] = c]  BY <1>0, <1>10, <2>2 DEF Pinned!Read
    <3>2. fetching' = [fetching EXCEPT ![1].pos = p, ![1].at = a]  BY <1>0, <1>10, <2>2 DEF Pinned!Read
    <3> HIDE DEF p, a, c
    <3>3. fetching' = [fetching EXCEPT ![1] = Put(Thread.pc, Thread.src, Thread.ed, Thread.fd, p, a)]
      BY <1>0, <3>2 DEF Put
    <3>4. DOMAIN data' = 1..3 /\ Thread.pc # "install" /\ UNCHANGED <<part, marker, cache, installed, edition>>
      BY <1>0, <1>10, <3>1 DEF Pinned!Read
    <3> QED BY <1>0, <1>3, <3>3, <3>4
  <2> QED BY <2>1, <2>2
<1>11. CASE Pinned!Land(1)
  <2>1. CASE part = 0  BY <1>2, <1>11, <2>1 DEF Pinned!Land
  <2>2. CASE part # 0
    <3>1. /\ cache' = part /\ part' = 0 /\ UNCHANGED <<data, marker, installed, edition>>
          /\ fetching' = [fetching EXCEPT ![1].pc = "unmark", ![1].fd = 0]
      BY <1>11, <2>2 DEF Pinned!Land
    <3>2. fetching' = [fetching EXCEPT ![1] = Put("unmark", Thread.src, Thread.ed, 0, Thread.pos, Thread.at)]
      BY <1>0, <3>1 DEF Put
    <3>3. "unmark" \in Stations /\ part' \in 0..3 /\ cache' \in {0, cache, part} /\ installed' = installed /\ edition' = edition
          /\ marker' \in Sources \union {None} /\ "unmark" # "install" /\ DOMAIN data' = 1..3
      BY <1>0, <3>1 DEF Stations
    <3>4. Thread.src \in Sources \union {None} /\ 0 \in 0..3  BY <1>0
    <3> QED BY <1>3, <3>2, <3>3, <3>4
  <2> QED BY <2>1, <2>2
<1>12. CASE Pinned!Verify(1)
  BY <1>0, <1>2, <1>6, <1>12 DEF Pinned!Verify, Stations
<1>13. CASE Pinned!Install(1)
  <2>1. Thread.pc = "install" /\ fetching' = [fetching EXCEPT ![1] = Pinned!Idle] /\ UNCHANGED <<data, part, marker, cache, edition>>
        /\ installed' = IF cache # 0 THEN data[cache] ELSE installed
    BY <1>0, <1>13 DEF Pinned!Install, Pinned!GiveUp
  <2>2. Pinned!InstalledIsWhole'
    <3>1. up \in Sources  BY HostAssumption
    <3>2. installed' = Pinned!Asset(up) \/ installed' = installed  BY <2>1 DEF PinnedInv
    <3>3. edition' = edition /\ edition[up] \in Nat \ {0}  BY <2>1, <3>1 DEF PinnedInv
    <3>4. Pinned!Whole(Pinned!Asset(up))
      <4>1. 1 \in 1..edition[up]  BY <3>3
      <4> QED BY <3>1, <4>1 DEF Pinned!Whole, Pinned!Asset, Pinned!Chunk
    <3> QED BY <3>2, <3>3, <3>4 DEF PinnedInv, Pinned!InstalledIsWhole, Pinned!Whole
  <2>3. DOMAIN fetching' = {1} /\ Thread' = Pinned!Idle  BY <1>0, <2>1 DEF Thread
  <2> QED BY <1>0, <1>1, <2>1, <2>2, <2>3 DEF PinnedInv
<1>14. CASE Pinned!EmptyCache
  <2>1. Thread.pc = "idle" /\ part' = 0 /\ marker' = None /\ cache' = 0 /\ UNCHANGED <<data, fetching, installed, edition>>
    BY <1>14 DEF Pinned!EmptyCache, Thread
  <2>2. Thread' = Thread  BY <2>1 DEF Thread
  <2> QED BY <2>1, <2>2 DEF PinnedInv, Pinned!InstalledIsWhole, Pinned!Whole
<1>15. CASE Pinned!Evict \/ UNCHANGED Pinned!vars
  <2>1. part' \in {0, part} /\ marker' \in {None, marker} /\ cache' \in {0, cache} /\ UNCHANGED <<data, fetching, installed, edition>>
    BY <1>15 DEF Pinned!Evict, Pinned!vars
  <2>2. Thread' = Thread  BY <2>1 DEF Thread
  <2> QED BY <1>0, <2>1, <2>2 DEF PinnedInv, Pinned!InstalledIsWhole, Pinned!Whole
<1>16. CASE Pinned!Crash
  <2>1. fetching' = [r \in {1} |-> Pinned!Idle] /\ UNCHANGED <<data, part, marker, cache, installed, edition>>
    BY <1>16 DEF Pinned!Crash
  <2>2. DOMAIN fetching' = {1} /\ Thread' = Pinned!Idle  BY <2>1 DEF Thread
  <2> QED BY <1>0, <1>1, <2>1, <2>2 DEF PinnedInv, Pinned!InstalledIsWhole, Pinned!Whole
<1>17. CASE \E s \in Sources : Pinned!Change(s)
  <2>1. PICK s \in Sources : edition' = [edition EXCEPT ![s] = edition[s] + 1]  BY <1>17 DEF Pinned!Change
  <2>2. UNCHANGED <<data, part, marker, cache, fetching, installed>>  BY <1>17 DEF Pinned!Change
  <2>3. Thread' = Thread  BY <2>2 DEF Thread
  <2>4. /\ edition' \in [Sources -> Nat \ {0}] /\ \A u \in Sources : 1..edition[u] \subseteq 1..edition'[u]
    BY <2>1 DEF PinnedInv
  <2>5. Pinned!InstalledIsWhole'  BY <2>2, <2>4 DEF PinnedInv, Pinned!InstalledIsWhole, Pinned!Whole
  <2> QED BY <1>0, <2>2, <2>3, <2>4, <2>5 DEF PinnedInv
<1> QED BY <1>4, <1>5, <1>7, <1>9, <1>10, <1>11, <1>12, <1>13, <1>14, <1>15, <1>16, <1>17 DEF Pinned!Next, Pinned!Step

(* What the downloads keep is of its type.                                 *)
LEMMA DownMeans == FreeInv \/ PinnedInv => Free!TypeOK
<1> SUFFICES ASSUME FreeInv \/ PinnedInv PROVE Free!TypeOK  OBVIOUS
<1>1. /\ DOMAIN data = 1..3 /\ part \in 0..3 /\ cache \in 0..3 /\ marker \in Sources \union {None}
      /\ fetching[1].pc \in Stations /\ fetching[1].fd \in 0..3
  BY DEF FreeInv, PinnedInv, DownShape, Threads, Thread
<1>2. 0..3 = (1..3) \union {0}  OBVIOUS
<1> QED BY <1>1, <1>2, InodesAre DEF Free!TypeOK, Stations

-----------------------------------------------------------------------------
(* The base of a guest: what each step of the chain has before it.         *)
Chain == {"idle", "carve", "carving", "clear", "extract", "extracting", "attrs", "kernel", "agent", "initrd", "yaml",
          "pack", "purge", "restore", "agreed", "boot", "proven", "declared"}

BaseInv ==
  /\ step \in Chain /\ restore \subseteq {"attrs"}
  /\ partition \subseteq Base!Files /\ tree \subseteq Base!Parts \ {"nested"}
  /\ image = {"none"} \/ (image \subseteq Base!Parts \ {"nested"} /\ {"kernel", "agent", "initrd"} \subseteq image)
  /\ yaml \in {"none", "bare", "proven"} /\ marks \subseteq {"qga-ready", "runtimes-ready"}
  /\ step \in {"agent", "initrd", "yaml", "pack"} => "kernel" \in tree
  /\ step \in {"initrd", "yaml", "pack"} => "agent" \in tree
  /\ step \in {"yaml", "pack"} => "initrd" \in tree
  /\ step \in {"extract", "extracting", "attrs", "kernel", "agent", "initrd", "yaml", "pack"} => image = {"none"}
  /\ step \in {"purge", "restore", "agreed"} => image # {"none"}

(* The chain has not begun.                                                *)
LEMMA BaseStarts == Base!Init => BaseInv
BY DEF Base!Init, Base!NoImage, BaseInv, Chain

(* Wherever the chain breaks off.                                          *)
LEMMA BaseStep == BaseInv /\ (Base!Next \/ UNCHANGED Base!vars) => BaseInv'
<1> SUFFICES ASSUME BaseInv, Base!Next \/ UNCHANGED Base!vars PROVE BaseInv'  OBVIOUS
<1> USE DEF Base!Then, Base!NoImage
<1>1. CASE Base!EnsureRootfs \/ (\E named \in BOOLEAN : Base!EnsureRuntime(named)) \/ Base!Stops \/ UNCHANGED Base!vars
  BY <1>1 DEF Base!EnsureRootfs, Base!EnsureRuntime, Base!Stops, Base!vars, BaseInv, Chain
<1>2. CASE Base!Carve \/ Base!Carved
  BY <1>2 DEF Base!Carve, Base!Carved, BaseInv, Chain, Base!Files
<1>3. CASE Base!ClearImage \/ Base!WriteYaml \/ Base!ReadAttrs
  BY <1>3 DEF Base!ClearImage, Base!WriteYaml, Base!ReadAttrs, BaseInv, Chain
<1>4. CASE Base!Extract \/ Base!Extracted
  BY <1>4 DEF Base!Extract, Base!Extracted, BaseInv, Chain, Base!Files, Base!Parts
<1>5. CASE Base!Furnish("kernel", "kernel", "agent")
  BY <1>5 DEF Base!Furnish, BaseInv, Chain, Base!Parts
<1>6. CASE Base!Furnish("agent", "agent", "initrd")
  BY <1>6 DEF Base!Furnish, BaseInv, Chain, Base!Parts
<1>7. CASE Base!Furnish("initrd", "initrd", "yaml")
  BY <1>7 DEF Base!Furnish, BaseInv, Chain, Base!Parts
<1>8. CASE Base!Pack
  <2>1. image' = tree /\ {"kernel", "agent", "initrd"} \subseteq tree /\ tree \subseteq Base!Parts \ {"nested"}
        /\ step' = "purge" /\ UNCHANGED <<partition, tree, yaml, marks, restore>>
    BY <1>8 DEF Base!Pack, BaseInv
  <2>2. "kernel" \notin {"none"}  OBVIOUS
  <2> QED BY <2>1, <2>2 DEF BaseInv, Chain
<1>9. CASE Base!Purge
  BY <1>9 DEF Base!Purge, BaseInv, Chain
<1>10. CASE Base!RestoreAttrs
  <2>1. /\ image' = image \union restore /\ step = "restore" /\ step' = "agreed"
        /\ UNCHANGED <<partition, tree, yaml, marks, restore>>
    BY <1>10 DEF Base!RestoreAttrs
  <2>2. image \subseteq Base!Parts \ {"nested"} /\ {"kernel", "agent", "initrd"} \subseteq image /\ "kernel" \notin {"none"}
    BY <2>1 DEF BaseInv
  <2>3. image' \subseteq Base!Parts \ {"nested"} /\ {"kernel", "agent", "initrd"} \subseteq image' /\ image' # {"none"}
    BY <2>1, <2>2 DEF BaseInv, Base!Parts
  <2> QED BY <2>1, <2>3 DEF BaseInv, Chain
<1>11. CASE Base!MarkAgent \/ Base!DeclareRuntimes \/ Base!MarkRuntimes
  BY <1>11 DEF Base!MarkAgent, Base!DeclareRuntimes, Base!MarkRuntimes, BaseInv, Chain
<1>12. CASE Base!Boot
  BY <1>12 DEF Base!Boot, BaseInv, Chain, Base!Tools, Base!Parts
<1> QED BY <1>1, <1>2, <1>3, <1>4, <1>5, <1>6, <1>7, <1>8, <1>9, <1>10, <1>11, <1>12 DEF Base!Next, Base!Build

(* So an image that may be booted has all it needs.                        *)
LEMMA BaseMeans == BaseInv => Base!ImageBoots /\ Base!TypeOK
BY DEF BaseInv, Base!ImageBoots, Base!TypeOK, Base!NoImage, Base!Parts

-----------------------------------------------------------------------------
(* The register: four files, one of which a change touches.                *)
FileNames == {"providers", "models", "settings", "agents"}
Registers == [providers : Served, models : Catalog, settings : Setup, agents : Staff]
Disked == [providers : Served \union {Bad}, models : Catalog \union {Bad},
           settings : Setup \union {Bad}, agents : Staff \union {Bad}]
Drafted == [id : Models, provider : Providers, tools : Ways, levels : SUBSET Levels, default : Levels \union {None}]
Filled(f) == \/ f = [what |-> "idle"]
             \/ f \in [what : {"try", "model"}, with : Drafted]
             \/ f \in [what : {"settings"}, with : Setup]

(* What is registered refers to what is registered.                        *)
CleanCard(r, e) ==
  /\ r.providers[e.provider] # None
  /\ e.levels \subseteq r.settings.levels /\ (e.default = None \/ e.default \in e.levels)
Clean(r) ==
  /\ \A m \in Models : r.models.entries[m] # None => CleanCard(r, r.models.entries[m])
  /\ r.models.core # None => r.models.entries[r.models.core] # None
  /\ r.settings.compact # None => r.models.entries[r.settings.compact] # None

RegShape ==
  /\ reg \in Registers /\ saved \in Registers /\ files \in Disked
  /\ form = [c \in Clients |-> form[c]] /\ \A c \in Clients : Filled(form[c])
  /\ alive \in BOOLEAN /\ failed \in BOOLEAN /\ mixed \in BOOLEAN /\ writes \in 0..MaxWrites

Current == alive /\ ~failed => files = reg /\ saved = reg /\ choice = Reg!Chosen(reg)
CleanAll == (~mixed => Clean(reg)) /\ (~mixed /\ ~failed => Clean(saved))
OneOfTwo == ~alive /\ ~failed /\ ~mixed => files = saved \/ files = reg
RegInv == RegShape /\ Current /\ CleanAll /\ OneOfTwo /\ Reg!ListIsSound

(* The files by their names.                                               *)
LEMMA FilesAre ==
  /\ Reg!Files = <<"providers", "models", "settings", "agents">>
  /\ \A r \in Registers : DOMAIN r = FileNames
  /\ \A r \in Disked : DOMAIN r = FileNames
  /\ \A i \in 1..4 : Reg!Files[i] \in FileNames
  /\ \A i, j \in 1..4 : i # j => Reg!Files[i] # Reg!Files[j]
  /\ \A f \in FileNames : \E i \in 1..4 : Reg!Files[i] = f
<1>1. Reg!Files = <<"providers", "models", "settings", "agents">>  BY DEF Reg!Files
<1>2. \A i \in 1..4 : i = 1 \/ i = 2 \/ i = 3 \/ i = 4  OBVIOUS
<1>3. \A i, j \in 1..4 : i # j => Reg!Files[i] # Reg!Files[j]  BY <1>1, <1>2
<1>4. \A f \in FileNames : \E i \in 1..4 : Reg!Files[i] = f
  <2>1. 1 \in 1..4 /\ 2 \in 1..4 /\ 3 \in 1..4 /\ 4 \in 1..4  OBVIOUS
  <2> QED BY <1>1, <2>1 DEF FileNames
<1> QED BY <1>1, <1>2, <1>3, <1>4 DEF FileNames, Registers, Disked

(* A register is what its files are.                                       *)
LEMMA SameFiles ==
  ASSUME NEW r \in Disked, NEW g, g = [f \in FileNames |-> g[f]], \A f \in FileNames : g[f] = r[f]
  PROVE  g = r
BY DEF Disked, FileNames

(* The values of files are those of a register.                            *)
LEMMA DiskedFiles ==
  ASSUME NEW g, g = [f \in FileNames |-> g[f]], NEW r \in Disked, NEW s \in Disked,
         \A f \in FileNames : g[f] = r[f] \/ g[f] = s[f]
  PROVE  g \in Disked
BY DEF Disked, FileNames

(* A register has no file that does not parse.                             *)
LEMMA RegistersAreRead ==
  /\ \A r \in Registers : r \in Disked
  /\ \A r \in Registers : \A f \in FileNames : r[f] # Bad
  /\ \A r \in Disked : (\A f \in FileNames : r[f] # Bad) => r \in Registers
<1>1. \A r \in Registers : r \in Disked  BY DEF Registers, Disked
<1>2. ASSUME NEW r \in Registers, NEW f \in FileNames PROVE r[f] # Bad
  <2>1. r["providers"] \in Served /\ r["models"] \in Catalog /\ r["settings"] \in Setup /\ r["agents"] \in Staff
    BY DEF Registers
  <2> QED BY <2>1, RegisterAssumption DEF FileNames
<1>3. ASSUME NEW r \in Disked, \A f \in FileNames : r[f] # Bad PROVE r \in Registers
  BY <1>3 DEF Registers, Disked, FileNames
<1> QED BY <1>1, <1>2, <1>3

(* What has been written of a change to one file is all of it or nothing.  *)
OneFile(r, s) == \E k \in 1..4 : \A f \in FileNames : f # Reg!Files[k] => r[f] = s[f]
Upto(r, n) == [f \in DOMAIN files |-> IF \E k \in 1..n : Reg!Files[k] = f THEN r[f] ELSE files[f]]

LEMMA AllOrNothing ==
  ASSUME NEW r \in Registers, files \in Registers, OneFile(r, files), NEW n \in 0..3
  PROVE  Upto(r, n) = r \/ Upto(r, n) = files
<1>1. PICK k \in 1..4 : \A f \in FileNames : f # Reg!Files[k] => r[f] = files[f]  BY DEF OneFile
<1> DEFINE g == Upto(r, n)
<1>2. DOMAIN files = FileNames /\ r \in Disked /\ files \in Disked  BY FilesAre, RegistersAreRead
<1>3. g = [f \in FileNames |-> g[f]]
      /\ \A f \in FileNames : g[f] = IF \E i \in 1..n : Reg!Files[i] = f THEN r[f] ELSE files[f]
  BY <1>2 DEF Upto
<1> SUFFICES g = r \/ g = files  OBVIOUS
<1> HIDE DEF g
<1>4. CASE k =< n
  <2>1. k \in 1..n  BY <1>4
  <2>2. \A f \in FileNames : g[f] = r[f]
    <3> SUFFICES ASSUME NEW f \in FileNames PROVE g[f] = r[f]  OBVIOUS
    <3>1. CASE f = Reg!Files[k]  BY <1>3, <2>1, <3>1
    <3>2. CASE f # Reg!Files[k]  BY <1>1, <1>3, <3>2
    <3> QED BY <3>1, <3>2
  <2> QED BY <1>2, <1>3, <2>2, SameFiles
<1>5. CASE ~(k =< n)
  <2>1. \A i \in 1..n : i # k /\ i \in 1..4  BY <1>5
  <2>2. \A f \in FileNames : g[f] = files[f]
    <3> SUFFICES ASSUME NEW f \in FileNames PROVE g[f] = files[f]  OBVIOUS
    <3>1. CASE f = Reg!Files[k]
      <4>1. ~\E i \in 1..n : Reg!Files[i] = f  BY <2>1, <3>1, FilesAre
      <4> QED BY <1>3, <4>1
    <3>2. CASE f # Reg!Files[k]  BY <1>1, <1>3, <3>2
    <3> QED BY <3>1, <3>2
  <2> QED BY <1>2, <1>3, <2>2, SameFiles
<1> QED BY <1>4, <1>5

(* What a cut leaves of a file.                                            *)
LEMMA EmptyIsOne == Reg!Empty \in Registers /\ Clean(Reg!Empty)
<1>1. [p \in Providers |-> None] \in Served /\ [m \in Models |-> None] \in [Models -> Cards \union {None}]
      /\ [a \in Agents |-> None] \in Staff
  BY DEF Served, Staff
<1>2. Reg!Defaults \in Setup /\ Reg!Defaults.compact = None  BY DEF Reg!Defaults, Setup
<1>3. [entries |-> [m \in Models |-> None], core |-> None] \in Catalog  BY <1>1 DEF Catalog
<1>4. Reg!Empty = [providers |-> [p \in Providers |-> None],
                   models |-> [entries |-> [m \in Models |-> None], core |-> None],
                   settings |-> Reg!Defaults, agents |-> [a \in Agents |-> None]]
  BY DEF Reg!Empty, Reg!Absent
<1>5. Reg!Empty \in Registers  BY <1>1, <1>2, <1>3, <1>4 DEF Registers
<1>6. Reg!Empty.models.entries = [m \in Models |-> None] /\ Reg!Empty.models.core = None /\ Reg!Empty.settings.compact = None
  BY <1>2, <1>4
<1> QED BY <1>5, <1>6 DEF Clean

(* Whatever part of a change is written, or cut, the files stay files.     *)
LEMMA WrittenFiles ==
  ASSUME files \in Disked, NEW r \in Registers, NEW n \in 0..3, NEW t, t \in Reg!CutFile(Reg!Files[n + 1])
  PROVE  Upto(r, n) \in Disked /\ [Upto(r, n) EXCEPT ![Reg!Files[n + 1]] = t] \in Disked
<1>1. DOMAIN files = FileNames /\ r \in Disked /\ Reg!Empty \in Disked  BY FilesAre, RegistersAreRead, EmptyIsOne
<1> DEFINE g == Upto(r, n)
<1>2. g = [f \in FileNames |-> g[f]] /\ \A f \in FileNames : g[f] = r[f] \/ g[f] = files[f]
  BY <1>1 DEF Upto
<1> SUFFICES g \in Disked /\ [g EXCEPT ![Reg!Files[n + 1]] = t] \in Disked  OBVIOUS
<1> HIDE DEF g
<1>3. g \in Disked  BY <1>1, <1>2, DiskedFiles
<1> DEFINE f0 == Reg!Files[n + 1]
           h == [g EXCEPT ![f0] = t]
<1>4. f0 \in FileNames
  <2>1. n + 1 \in 1..4  OBVIOUS
  <2> QED BY <2>1, FilesAre
<1>5. t = Bad \/ t = Reg!Empty[f0]  BY DEF Reg!CutFile
<1> HIDE DEF f0
<1>6. h = [f \in FileNames |-> h[f]] /\ h[f0] = t /\ \A f \in FileNames : f # f0 => h[f] = g[f]
  BY <1>2, <1>4
<1> SUFFICES h \in Disked  BY <1>3 DEF f0
<1> HIDE DEF h
<1>7. CASE t = Reg!Empty[f0]
  <2>1. \A f \in FileNames : h[f] = g[f] \/ h[f] = Reg!Empty[f]  BY <1>6, <1>7
  <2> QED BY <1>1, <1>3, <1>6, <2>1, DiskedFiles
<1>8. CASE t = Bad
  <2> DEFINE b == [providers |-> Bad, models |-> Bad, settings |-> Bad, agents |-> Bad]
  <2>1. b \in Disked /\ \A f \in FileNames : b[f] = Bad  BY DEF Disked, FileNames
  <2> HIDE DEF b
  <2>2. \A f \in FileNames : h[f] = g[f] \/ h[f] = b[f]  BY <1>6, <1>8, <2>1
  <2> QED BY <1>3, <1>6, <2>1, <2>2, DiskedFiles
<1> QED BY <1>5, <1>7, <1>8

(* A change that keeps the register clean, and the choice where it is not  *)
(* made anew, keeps all of it, however far the writing comes.              *)
LEMMA SaveKeeps ==
  ASSUME RegInv, alive, NEW r \in Registers, NEW syncs \in BOOLEAN, Reg!Save(r, syncs), listed' = listed,
         form' = [c \in Clients |-> form'[c]], \A c \in Clients : Filled(form'[c]),
         OneFile(r, reg), ~mixed => Clean(r), ~syncs => Reg!Chosen(r) = Reg!Chosen(reg)
  PROVE  RegInv'
<1>0. /\ reg' = r /\ writes' = writes + 1 /\ writes < MaxWrites /\ writes \in 0..MaxWrites /\ MaxWrites \in Nat
      /\ files \in Disked /\ saved \in Registers
  BY RegisterAssumption DEF Reg!Save, RegInv, RegShape
<1>1. writes' \in 0..MaxWrites  BY <1>0
<1>2. Reg!ListIsSound'  BY DEF RegInv, Reg!ListIsSound
<1>3. CASE /\ files' = r /\ saved' = r /\ choice' = (IF syncs THEN Reg!Chosen(r) ELSE choice)
           /\ failed' = (failed /\ ~syncs) /\ UNCHANGED <<alive, mixed>>
  <2>1. failed' \in BOOLEAN /\ alive' \in BOOLEAN /\ mixed' \in BOOLEAN  BY <1>3, Zenon DEF RegInv, RegShape
  <2>2. RegShape'  BY <1>0, <1>1, <1>3, <2>1, RegistersAreRead DEF RegShape
  <2>3. ~failed' => choice' = Reg!Chosen(r)
    <3>1. CASE syncs  BY <1>3, <3>1
    <3>2. CASE ~syncs
      <4>1. failed' = failed  BY <1>3, <3>2 DEF RegInv, RegShape
      <4>2. choice' = choice  BY <1>3, <3>2
      <4> QED BY <3>2, <4>1, <4>2 DEF RegInv, Current
    <3> QED BY <3>1, <3>2
  <2>4. Current'  BY <1>0, <1>3, <2>3 DEF Current, Reg!Chosen, Reg!Channel
  <2>5. CleanAll' /\ OneOfTwo'  BY <1>0, <1>3 DEF CleanAll, OneOfTwo
  <2> QED BY <1>2, <2>2, <2>4, <2>5 DEF RegInv
<1>4. CASE /\ \E n \in 0..3 : \/ files' = Upto(r, n) /\ mixed' = mixed
                              \/ \E t \in Reg!CutFile(Reg!Files[n + 1]) :
                                   files' = [Upto(r, n) EXCEPT ![Reg!Files[n + 1]] = t] /\ mixed' = TRUE
           /\ (failed' = TRUE /\ alive' = alive) \/ (alive' = FALSE /\ failed' = failed)
           /\ UNCHANGED <<choice, saved>>
  <2>1. PICK n \in 0..3 : \/ files' = Upto(r, n) /\ mixed' = mixed
                          \/ \E t \in Reg!CutFile(Reg!Files[n + 1]) :
                               files' = [Upto(r, n) EXCEPT ![Reg!Files[n + 1]] = t] /\ mixed' = TRUE
    BY <1>4
  <2>2. failed' \in BOOLEAN /\ alive' \in BOOLEAN /\ mixed' \in BOOLEAN  BY <1>4, <2>1, Zenon DEF RegInv, RegShape
  <2>3. files' \in Disked
    <3>1. Bad \in Reg!CutFile(Reg!Files[n + 1])  BY DEF Reg!CutFile
    <3>2. Upto(r, n) \in Disked  BY <1>0, <3>1, WrittenFiles
    <3>3. CASE \E t \in Reg!CutFile(Reg!Files[n + 1]) : files' = [Upto(r, n) EXCEPT ![Reg!Files[n + 1]] = t]
      <4>1. PICK t \in Reg!CutFile(Reg!Files[n + 1]) : files' = [Upto(r, n) EXCEPT ![Reg!Files[n + 1]] = t]  BY <3>3
      <4>2. [Upto(r, n) EXCEPT ![Reg!Files[n + 1]] = t] \in Disked  BY <1>0, <4>1, WrittenFiles
      <4> QED BY <4>1, <4>2, Zenon
    <3> QED BY <2>1, <3>2, <3>3
  <2>4. RegShape'  BY <1>0, <1>1, <1>4, <2>2, <2>3 DEF RegShape
  <2>5. ~mixed' => ~mixed /\ files' = Upto(r, n)  BY <2>1
  <2>6. ~failed' => ~alive' /\ ~failed  BY <1>4, Zenon
  <2>7. Current'  BY <2>6 DEF Current
  <2>8. CleanAll'  BY <1>0, <1>4, <2>5, <2>6 DEF RegInv, CleanAll
  <2>9. OneOfTwo'
    <3> SUFFICES ASSUME ~failed', ~mixed' PROVE files' = saved' \/ files' = reg'  BY DEF OneOfTwo
    <3>1. files = reg /\ saved = reg  BY <2>6 DEF RegInv, Current
    <3>2. Upto(r, n) = r \/ Upto(r, n) = files  BY <1>0, <3>1, AllOrNothing
    <3> QED BY <1>0, <1>4, <2>5, <3>1, <3>2
  <2> QED BY <1>2, <2>4, <2>7, <2>8, <2>9 DEF RegInv
<1> QED BY <1>3, <1>4 DEF Reg!Save, Upto

(* A change of one file is a change of one file.                           *)
LEMMA OneFileOf ==
  ASSUME NEW r \in Registers, NEW s \in Registers, NEW g \in FileNames, \A f \in FileNames : f # g => r[f] = s[f]
  PROVE  OneFile(r, s)
<1>1. PICK k \in 1..4 : Reg!Files[k] = g  BY FilesAre
<1> QED BY <1>1 DEF OneFile

(* The parts of a register.                                                *)
LEMMA RegisterParts ==
  ASSUME NEW s \in Registers
  PROVE  /\ s.providers \in [Providers -> Deals \union {None}]
         /\ s.models \in Catalog /\ s.models.entries \in [Models -> Cards \union {None}] /\ s.models.core \in Models \union {None}
         /\ s.settings \in Setup /\ s.agents \in [Agents -> Hired \union {None}]
         /\ \A p \in Served : [s EXCEPT !.providers = p] \in Registers /\ OneFile([s EXCEPT !.providers = p], s)
         /\ \A m \in Catalog : [s EXCEPT !.models = m] \in Registers /\ OneFile([s EXCEPT !.models = m], s)
         /\ \A t \in Setup : [s EXCEPT !.settings = t] \in Registers /\ OneFile([s EXCEPT !.settings = t], s)
         /\ \A a \in Staff : [s EXCEPT !.agents = a] \in Registers /\ OneFile([s EXCEPT !.agents = a], s)
<1>1. /\ s.providers \in Served /\ s.models \in Catalog /\ s.settings \in Setup /\ s.agents \in Staff
  BY DEF Registers
<1>2. \A p \in Served : [s EXCEPT !.providers = p] \in Registers /\ OneFile([s EXCEPT !.providers = p], s)
  <2> SUFFICES ASSUME NEW p \in Served
               PROVE  [s EXCEPT !.providers = p] \in Registers /\ OneFile([s EXCEPT !.providers = p], s)  OBVIOUS
  <2>1. [s EXCEPT !.providers = p] \in Registers  BY DEF Registers
  <2>2. \A f \in FileNames : f # "providers" => [s EXCEPT !.providers = p][f] = s[f]  BY DEF Registers, FileNames
  <2> QED BY <2>1, <2>2, OneFileOf DEF FileNames
<1>3. \A m \in Catalog : [s EXCEPT !.models = m] \in Registers /\ OneFile([s EXCEPT !.models = m], s)
  <2> SUFFICES ASSUME NEW m \in Catalog
               PROVE  [s EXCEPT !.models = m] \in Registers /\ OneFile([s EXCEPT !.models = m], s)  OBVIOUS
  <2>1. [s EXCEPT !.models = m] \in Registers  BY DEF Registers
  <2>2. \A f \in FileNames : f # "models" => [s EXCEPT !.models = m][f] = s[f]  BY DEF Registers, FileNames
  <2> QED BY <2>1, <2>2, OneFileOf DEF FileNames
<1>4. \A t \in Setup : [s EXCEPT !.settings = t] \in Registers /\ OneFile([s EXCEPT !.settings = t], s)
  <2> SUFFICES ASSUME NEW t \in Setup
               PROVE  [s EXCEPT !.settings = t] \in Registers /\ OneFile([s EXCEPT !.settings = t], s)  OBVIOUS
  <2>1. [s EXCEPT !.settings = t] \in Registers  BY DEF Registers
  <2>2. \A f \in FileNames : f # "settings" => [s EXCEPT !.settings = t][f] = s[f]  BY DEF Registers, FileNames
  <2> QED BY <2>1, <2>2, OneFileOf DEF FileNames
<1>5. \A a \in Staff : [s EXCEPT !.agents = a] \in Registers /\ OneFile([s EXCEPT !.agents = a], s)
  <2> SUFFICES ASSUME NEW a \in Staff
               PROVE  [s EXCEPT !.agents = a] \in Registers /\ OneFile([s EXCEPT !.agents = a], s)  OBVIOUS
  <2>1. [s EXCEPT !.agents = a] \in Registers  BY DEF Registers
  <2>2. \A f \in FileNames : f # "agents" => [s EXCEPT !.agents = a][f] = s[f]  BY DEF Registers, FileNames
  <2> QED BY <2>1, <2>2, OneFileOf DEF FileNames
<1> QED BY <1>1, <1>2, <1>3, <1>4, <1>5 DEF Served, Catalog, Staff

(* A change is sound if it goes from a register to one that differs in one *)
(* file, keeps what is clean, and the choice that is not made anew.        *)
Sound(r, syncs) ==
  /\ r \in Registers /\ OneFile(r, reg)
  /\ Clean(reg) => Clean(r)
  /\ ~syncs => Reg!Chosen(r) = Reg!Chosen(reg)

(* Changes to providers.                                                   *)
LEMMA ProvidersSound ==
  ASSUME RegInv, NEW p \in Providers, NEW e \in Deals \union {None},
         e = None => \A m \in Models : reg.models.entries[m] # None => reg.models.entries[m].provider # p
  PROVE  Sound([reg EXCEPT !.providers = [reg.providers EXCEPT ![p] = e]], TRUE)
<1> DEFINE r == [reg EXCEPT !.providers = [reg.providers EXCEPT ![p] = e]]
<1>1. reg \in Registers /\ reg.providers \in [Providers -> Deals \union {None}]
      /\ reg.models.entries \in [Models -> Cards \union {None}]
  BY RegisterParts DEF RegInv, RegShape
<1>2. r \in Registers /\ OneFile(r, reg)  BY <1>1, RegisterParts DEF Served
<1>3. r.models = reg.models /\ r.settings = reg.settings /\ r.providers = [reg.providers EXCEPT ![p] = e]
  BY <1>1 DEF Registers
<1> HIDE DEF r
<1>4. ASSUME Clean(reg) PROVE Clean(r)
  <2>1. ASSUME NEW m \in Models, reg.models.entries[m] # None PROVE CleanCard(r, reg.models.entries[m])
    <3> DEFINE q == reg.models.entries[m].provider
    <3>1. q \in Providers  BY <1>1, <2>1 DEF Cards
    <3>2. CleanCard(reg, reg.models.entries[m])  BY <1>4, <2>1 DEF Clean
    <3>3. reg.providers[q] # None  BY <3>2 DEF CleanCard
    <3>4. e # None \/ q # p  BY <2>1
    <3>5. None \notin Deals  BY RegisterAssumption
    <3>6. r.providers[q] # None  BY <1>1, <1>3, <3>1, <3>3, <3>4
    <3> QED BY <1>3, <3>2, <3>6 DEF CleanCard
  <2> QED BY <1>3, <1>4, <2>1 DEF Clean
<1> QED BY <1>2, <1>4 DEF Sound, r

(* Changes to models.                                                      *)
LEMMA ModelsSound ==
  ASSUME RegInv, NEW m \in Models, NEW e \in Cards \union {None},
         e = None => m # reg.models.core /\ m # reg.settings.compact,
         e # None => CleanCard(reg, e) \/ ~Clean(reg)
  PROVE  Sound([reg EXCEPT !.models = [reg.models EXCEPT !.entries = [reg.models.entries EXCEPT ![m] = e]]], TRUE)
<1> DEFINE c == [reg.models EXCEPT !.entries = [reg.models.entries EXCEPT ![m] = e]]
           r == [reg EXCEPT !.models = c]
<1>1. reg \in Registers /\ reg.models \in Catalog /\ reg.models.entries \in [Models -> Cards \union {None}]
      /\ reg.models.core \in Models \union {None} /\ reg.settings \in Setup
  BY RegisterParts DEF RegInv, RegShape
<1>2. c \in Catalog /\ c.core = reg.models.core /\ c.entries = [reg.models.entries EXCEPT ![m] = e]
  BY <1>1 DEF Catalog
<1> HIDE DEF c
<1>3. r \in Registers /\ OneFile(r, reg)  BY <1>1, <1>2, RegisterParts
<1>4. r.models = c /\ r.settings = reg.settings /\ r.providers = reg.providers  BY <1>1 DEF Registers
<1> HIDE DEF r
<1>5. ASSUME Clean(reg) PROVE Clean(r)
  <2>1. ASSUME NEW n \in Models, c.entries[n] # None PROVE CleanCard(r, c.entries[n])
    <3>1. c.entries[n] = e \/ (c.entries[n] = reg.models.entries[n])  BY <1>1, <1>2
    <3>2. CleanCard(reg, c.entries[n])  BY <1>5, <2>1, <3>1 DEF Clean
    <3> QED BY <1>4, <3>2 DEF CleanCard
  <2>2. ASSUME NEW n \in Models, reg.models.entries[n] # None, n = reg.models.core \/ n = reg.settings.compact
        PROVE  c.entries[n] # None
    BY <1>1, <1>2, <2>2
  <2>3. reg.settings.compact \in Models \union {None}  BY <1>1 DEF Setup
  <2> QED BY <1>1, <1>2, <1>4, <1>5, <2>1, <2>2, <2>3 DEF Clean
<1> QED BY <1>3, <1>5 DEF Sound, r, c

(* The model of the core.                                                  *)
LEMMA CoreSound ==
  ASSUME RegInv, NEW m \in Models, reg.models.entries[m] # None
  PROVE  Sound([reg EXCEPT !.models = [reg.models EXCEPT !.core = m]], FALSE)
<1> DEFINE c == [reg.models EXCEPT !.core = m]
           r == [reg EXCEPT !.models = c]
<1>1. reg \in Registers /\ reg.models \in Catalog  BY RegisterParts DEF RegInv, RegShape
<1>2. c \in Catalog /\ c.core = m /\ c.entries = reg.models.entries  BY <1>1 DEF Catalog
<1> HIDE DEF c
<1>3. r \in Registers /\ OneFile(r, reg)  BY <1>1, <1>2, RegisterParts
<1>4. r.models = c /\ r.settings = reg.settings /\ r.providers = reg.providers  BY <1>1 DEF Registers
<1> HIDE DEF r
<1>5. Clean(reg) => Clean(r)  BY <1>2, <1>4 DEF Clean, CleanCard
<1>6. Reg!Chosen(r) = Reg!Chosen(reg)  BY <1>2, <1>4 DEF Reg!Chosen, Reg!Channel
<1> QED BY <1>3, <1>5, <1>6 DEF Sound, r, c

(* The way of a model.                                                     *)
LEMMA WaySound ==
  ASSUME RegInv, NEW m \in Models, reg.models.entries[m] # None, NEW t \in Ways
  PROVE  Sound([reg EXCEPT !.models = [reg.models EXCEPT !.entries =
                  [reg.models.entries EXCEPT ![m] = [reg.models.entries[m] EXCEPT !.tools = t]]]], FALSE)
<1> DEFINE e == [reg.models.entries[m] EXCEPT !.tools = t]
           c == [reg.models EXCEPT !.entries = [reg.models.entries EXCEPT ![m] = e]]
           r == [reg EXCEPT !.models = c]
<1>1. reg \in Registers /\ reg.models \in Catalog /\ reg.models.entries \in [Models -> Cards \union {None}]
      /\ reg.models.core \in Models \union {None} /\ reg.settings \in Setup
  BY RegisterParts DEF RegInv, RegShape
<1>2. e \in Cards /\ e.provider = reg.models.entries[m].provider /\ e.levels = reg.models.entries[m].levels
      /\ e.default = reg.models.entries[m].default
  BY <1>1 DEF Cards
<1>3. e # None  BY <1>2, RegisterAssumption
<1> HIDE DEF e
<1>4. CleanCard(reg, reg.models.entries[m]) => CleanCard(reg, e)  BY <1>2 DEF CleanCard
<1>5. Sound(r, TRUE)  BY <1>2, <1>3, <1>4, ModelsSound DEF Clean
<1>6. c.entries = [reg.models.entries EXCEPT ![m] = e]  BY <1>1 DEF Catalog
<1>7. r.models = c /\ r.settings = reg.settings /\ r.providers = reg.providers  BY <1>1 DEF Registers
<1>8. Reg!Chosen(r) = Reg!Chosen(reg)
  <2> HIDE DEF r, c
  <2>1. ASSUME NEW n \in Models PROVE (r.models.entries[n] = None <=> reg.models.entries[n] = None)
               /\ (reg.models.entries[n] # None => r.models.entries[n].provider = reg.models.entries[n].provider)
    BY <1>1, <1>2, <1>3, <1>6, <1>7
  <2> QED BY <1>7, <2>1 DEF Reg!Chosen, Reg!Channel
<1> QED BY <1>5, <1>8 DEF Sound, r, c, e

(* The settings.                                                           *)
LEMMA SettingsSound ==
  ASSUME RegInv, NEW t \in Setup, t.compact # None => reg.models.entries[t.compact] # None,
         \A m \in Models : reg.models.entries[m] # None => reg.models.entries[m].levels \subseteq t.levels
  PROVE  Sound([reg EXCEPT !.settings = t], TRUE)
<1> DEFINE r == [reg EXCEPT !.settings = t]
<1>1. reg \in Registers  BY DEF RegInv, RegShape
<1>2. r \in Registers /\ OneFile(r, reg)  BY <1>1, RegisterParts
<1>3. r.models = reg.models /\ r.settings = t /\ r.providers = reg.providers  BY <1>1 DEF Registers
<1> HIDE DEF r
<1>4. Clean(reg) => Clean(r)  BY <1>3 DEF Clean, CleanCard
<1> QED BY <1>2, <1>4 DEF Sound, r

(* The agents.                                                             *)
LEMMA AgentsSound ==
  ASSUME RegInv, NEW a \in Agents, NEW e \in Hired \union {None}
  PROVE  Sound([reg EXCEPT !.agents = [reg.agents EXCEPT ![a] = e]], FALSE)
<1> DEFINE r == [reg EXCEPT !.agents = [reg.agents EXCEPT ![a] = e]]
<1>1. reg \in Registers /\ reg.agents \in [Agents -> Hired \union {None}]  BY RegisterParts DEF RegInv, RegShape
<1>2. r \in Registers /\ OneFile(r, reg)  BY <1>1, RegisterParts DEF Staff
<1>3. r.models = reg.models /\ r.settings = reg.settings /\ r.providers = reg.providers  BY <1>1 DEF Registers
<1> HIDE DEF r
<1>4. Clean(reg) => Clean(r)  BY <1>3 DEF Clean, CleanCard
<1>5. Reg!Chosen(r) = Reg!Chosen(reg)  BY <1>3 DEF Reg!Chosen, Reg!Channel
<1> QED BY <1>2, <1>4, <1>5 DEF Sound, r

(* A sound change, written as far as it may be, keeps all of it.           *)
LEMMA SoundKeeps ==
  ASSUME RegInv, NEW r, NEW syncs \in BOOLEAN, Sound(r, syncs), Reg!Writes(r, syncs),
         form' = [c \in Clients |-> form'[c]], \A c \in Clients : Filled(form'[c])
  PROVE  RegInv'
<1>1. alive /\ Reg!Save(r, syncs) /\ listed' = listed  BY DEF Reg!Writes
<1>2. r \in Registers /\ OneFile(r, reg) /\ (~syncs => Reg!Chosen(r) = Reg!Chosen(reg))  BY DEF Sound
<1>3. ~mixed => Clean(r)  BY DEF Sound, RegInv, CleanAll
<1> QED BY <1>1, <1>2, <1>3, SaveKeeps

(* Forms that are filled in, and one that is put away.                     *)
LEMMA FormsKept ==
  ASSUME RegInv
  PROVE  /\ form' = form => form' = [c \in Clients |-> form'[c]] /\ \A c \in Clients : Filled(form'[c])
         /\ \A c \in Clients : \A x : form' = [form EXCEPT ![c] = x] /\ Filled(x) =>
              form' = [d \in Clients |-> form'[d]] /\ \A d \in Clients : Filled(form'[d])
<1>1. form = [c \in Clients |-> form[c]] /\ \A c \in Clients : Filled(form[c])  BY DEF RegInv, RegShape
<1>2. form' = form => form' = [c \in Clients |-> form'[c]] /\ \A c \in Clients : Filled(form'[c])  BY <1>1, Zenon
<1>3. ASSUME NEW c \in Clients, NEW x, form' = [form EXCEPT ![c] = x], Filled(x)
      PROVE  form' = [d \in Clients |-> form'[d]] /\ \A d \in Clients : Filled(form'[d])
  <2>1. form' = [d \in Clients |-> form'[d]]  BY <1>1, <1>3
  <2>2. \A d \in Clients : form'[d] = IF d = c THEN x ELSE form[d]  BY <1>1, <1>3
  <2>3. ASSUME NEW d \in Clients PROVE Filled(form'[d])
    <3>1. CASE d = c  BY <1>3, <2>2, <3>1
    <3>2. CASE d # c  BY <1>1, <2>2, <3>2
    <3> QED BY <3>1, <3>2
  <2> QED BY <2>1, <2>3
<1> QED BY <1>2, <1>3

(* Filling in a form keeps the register as it is.                          *)
LEMMA OnlyForms ==
  ASSUME RegInv, NEW c \in Clients, NEW x, form' = [form EXCEPT ![c] = x], Filled(x),
         UNCHANGED <<reg, files, choice, alive, listed, writes, saved, failed, mixed>>
  PROVE  RegInv'
<1>1. form' = [d \in Clients |-> form'[d]] /\ \A d \in Clients : Filled(form'[d])  BY FormsKept
<1>2. RegShape'  BY <1>1 DEF RegInv, RegShape
<1>3. Current' /\ CleanAll' /\ OneOfTwo' /\ Reg!ListIsSound'
  BY DEF RegInv, Current, CleanAll, OneOfTwo, Reg!ListIsSound, Reg!Chosen, Reg!Channel
<1> QED BY <1>2, <1>3 DEF RegInv

(* The form of a model holds what a model may hold.                        *)
LEMMA FormOfModel ==
  ASSUME RegInv, NEW c \in Clients, form[c].what \in {"try", "model"}
  PROVE  form[c] \in [what : {"try", "model"}, with : Drafted]
BY DEF RegInv, RegShape, Filled

(* The form of the settings holds what settings may hold.                  *)
LEMMA FormOfSettings ==
  ASSUME RegInv, NEW c \in Clients, form[c].what = "settings"
  PROVE  form[c].with \in Setup
BY DEF RegInv, RegShape, Filled

(* A change to the providers keeps the register (providers_upsert, remove).*)
LEMMA ProviderSteps ==
  ASSUME RegInv, NEW p \in Providers,
         Reg!ProviderRemove(p) \/ \E u \in Urls, k \in {"", "k1"} : Reg!ProviderUpsert(p, u, k)
  PROVE  RegInv'
<1>1. reg.providers \in [Providers -> Deals \union {None}] /\ reg.models.entries \in [Models -> Cards \union {None}]
  BY RegisterParts DEF RegInv, RegShape
<1>2. CASE Reg!ProviderRemove(p)
  <2>1. \A m \in Models : reg.models.entries[m] # None => reg.models.entries[m].provider # p
    BY <1>2 DEF Reg!ProviderRemove, Reg!Has, Reg!Entry
  <2>2. Sound([reg EXCEPT !.providers = [reg.providers EXCEPT ![p] = None]], TRUE)  BY <2>1, ProvidersSound
  <2>3. Reg!Writes([reg EXCEPT !.providers = [reg.providers EXCEPT ![p] = None]], TRUE) /\ form' = form
    BY <1>2 DEF Reg!ProviderRemove
  <2> QED BY <2>2, <2>3, FormsKept, SoundKeeps
<1>3. ASSUME NEW u \in Urls, NEW k \in {"", "k1"}, Reg!ProviderUpsert(p, u, k) PROVE RegInv'
  <2> DEFINE e == [url |-> u, key |-> IF k = "" THEN reg.providers[p].key ELSE k]
  <2>1. e \in Deals
    <3>1. k # "" \/ reg.providers[p] # None  BY <1>3 DEF Reg!ProviderUpsert
    <3>2. reg.providers[p] # None => reg.providers[p].key \in {"", "k1"}  BY <1>1 DEF Deals
    <3> QED BY <3>1, <3>2 DEF Deals
  <2>2. Reg!Writes([reg EXCEPT !.providers = [reg.providers EXCEPT ![p] = e]], TRUE) /\ form' = form
    BY <1>3 DEF Reg!ProviderUpsert
  <2> HIDE DEF e
  <2>3. e # None  BY <2>1, RegisterAssumption
  <2>4. Sound([reg EXCEPT !.providers = [reg.providers EXCEPT ![p] = e]], TRUE)  BY <2>1, <2>3, ProvidersSound
  <2> QED BY <2>2, <2>4, FormsKept, SoundKeeps
<1> QED BY <1>2, <1>3

(* A change to a model that is registered keeps the register               *)
(* (models_remove, core_set_model, probe_model_tools).                     *)
LEMMA ModelSteps ==
  ASSUME RegInv, NEW m \in Models, Reg!ModelRemove(m) \/ Reg!CoreSetModel(m) \/ Reg!ProbeModelTools(m)
  PROVE  RegInv'
<1>1. CASE Reg!ModelRemove(m)
  <2> DEFINE r == [reg EXCEPT !.models = [reg.models EXCEPT !.entries = [reg.models.entries EXCEPT ![m] = None]]]
  <2>1. m # reg.models.core /\ m # reg.settings.compact  BY <1>1 DEF Reg!ModelRemove, Reg!Used, Reg!Core
  <2>2. Sound(r, TRUE)  BY <2>1, ModelsSound
  <2>3. Reg!Writes(r, TRUE) /\ form' = form  BY <1>1 DEF Reg!ModelRemove
  <2> QED BY <2>2, <2>3, FormsKept, SoundKeeps
<1>2. CASE Reg!CoreSetModel(m)
  <2> DEFINE r == [reg EXCEPT !.models = [reg.models EXCEPT !.core = m]]
  <2>1. reg.models.entries[m] # None  BY <1>2 DEF Reg!CoreSetModel, Reg!Has, Reg!Entry
  <2>2. Sound(r, FALSE)  BY <2>1, CoreSound
  <2>3. Reg!Writes(r, FALSE) /\ form' = form  BY <1>2 DEF Reg!CoreSetModel
  <2> QED BY <2>2, <2>3, FormsKept, SoundKeeps
<1>3. CASE Reg!ProbeModelTools(m)
  <2>1. reg.models.entries[m] # None  BY <1>3 DEF Reg!ProbeModelTools, Reg!Channel
  <2>2. PICK t \in Reg!Told(Reg!Channel(reg, m).url) \ {"unknown", reg.models.entries[m].tools} :
          Reg!Writes([reg EXCEPT !.models = [reg.models EXCEPT !.entries =
                       [reg.models.entries EXCEPT ![m] = [reg.models.entries[m] EXCEPT !.tools = t]]]], FALSE)
    BY <1>3 DEF Reg!ProbeModelTools, Reg!Entry
  <2>3. t \in Ways  BY DEF Reg!Told, Ways
  <2> DEFINE r == [reg EXCEPT !.models = [reg.models EXCEPT !.entries =
                     [reg.models.entries EXCEPT ![m] = [reg.models.entries[m] EXCEPT !.tools = t]]]]
  <2>4. Sound(r, FALSE)  BY <2>1, <2>3, WaySound
  <2>5. form' = form  BY <1>3 DEF Reg!ProbeModelTools
  <2>6. Reg!Writes(r, FALSE)  BY <2>2
  <2> QED BY <2>4, <2>5, <2>6, FormsKept, SoundKeeps
<1> QED BY <1>1, <1>2, <1>3

(* The modules there are, in a row.                                        *)
LEMMA RowOfKnown == Reg!SetToSeq(Known) \in Seq(Known)
<1>1. Cardinality(Known) \in Nat /\ ExistsBijection(1..Cardinality(Known), Known)
  BY RegisterAssumption, FS_CardinalityType
<1>2. Reg!Cardinality(Known) = Cardinality(Known)  BY DEF Reg!Cardinality, Cardinality
<1>3. PICK s : s \in Bijection(1..Cardinality(Known), Known)  BY <1>1 DEF ExistsBijection
<1>4. s \in [1..Reg!Cardinality(Known) -> Known] /\ \A i, j \in DOMAIN s : s[i] = s[j] => i = j
  BY <1>2, <1>3 DEF Bijection, Injection, IsInjective
<1>5. Reg!SetToSeq(Known) \in [1..Reg!Cardinality(Known) -> Known]  BY <1>4, Zenon DEF Reg!SetToSeq
<1> QED BY <1>1, <1>2, <1>5

(* A change to the agents keeps the register (agents_upsert, remove).      *)
LEMMA AgentSteps ==
  ASSUME RegInv, NEW a \in Agents,
         Reg!AgentRemove(a) \/ \E m \in Models \union {None}, s \in {<<>>, Reg!SetToSeq(Known)} : Reg!AgentUpsert(a, s, m)
  PROVE  RegInv'
<1>1. CASE Reg!AgentRemove(a)
  <2> DEFINE r == [reg EXCEPT !.agents = [reg.agents EXCEPT ![a] = None]]
  <2>1. Sound(r, FALSE)  BY AgentsSound
  <2>2. Reg!Writes(r, FALSE) /\ form' = form  BY <1>1 DEF Reg!AgentRemove
  <2> QED BY <2>1, <2>2, FormsKept, SoundKeeps
<1>2. ASSUME NEW m \in Models \union {None}, NEW s \in {<<>>, Reg!SetToSeq(Known)}, Reg!AgentUpsert(a, s, m)
      PROVE  RegInv'
  <2> DEFINE e == [modules |-> s, model |-> m]
             r == [reg EXCEPT !.agents = [reg.agents EXCEPT ![a] = e]]
  <2>1. s \in Seq(Known)
    <3>1. <<>> \in Seq(Known)  OBVIOUS
    <3> QED BY <3>1, RowOfKnown
  <2>2. e \in Hired  BY <2>1 DEF Hired
  <2>3. Reg!Writes(r, FALSE) /\ form' = form  BY <1>2 DEF Reg!AgentUpsert
  <2> HIDE DEF e
  <2>4. Sound(r, FALSE)  BY <2>2, AgentsSound
  <2> QED BY <2>3, <2>4, FormsKept, SoundKeeps
<1> QED BY <1>1, <1>2

(* Opening and trying a form keeps the register.                           *)
LEMMA FillSteps ==
  ASSUME RegInv, NEW c \in Clients,
         Reg!Try(c) \/ (\E d \in Drafts : Reg!OpenModel(c, d)) \/ \E e \in Edits : Reg!OpenSettings(c, e)
  PROVE  RegInv'
<1>0. reg \in Registers /\ reg.models.entries \in [Models -> Cards \union {None}] /\ reg.settings \in Setup
  BY RegisterParts DEF RegInv, RegShape
<1>1. CASE Reg!Try(c)
  <2>1. form[c] \in [what : {"try", "model"}, with : Drafted]  BY <1>1, FormOfModel DEF Reg!Try
  <2>2. Filled(Reg!Idle) /\ Filled([form[c] EXCEPT !.what = "model"])
    <3>1. [form[c] EXCEPT !.what = "model"] \in [what : {"try", "model"}, with : Drafted]  BY <2>1
    <3> QED BY <3>1 DEF Filled, Reg!Idle
  <2>3. PICK x : form' = [form EXCEPT ![c] = x] /\ Filled(x)
    <3> DEFINE y == [form[c] EXCEPT !.what = "model"]
    <3>1. form' = [form EXCEPT ![c] = Reg!Idle] \/ form' = [form EXCEPT ![c] = y]
      BY <1>1 DEF Reg!Try
    <3> HIDE DEF y
    <3>2. Filled(Reg!Idle) /\ Filled(y)  BY <2>2 DEF y
    <3> QED BY <3>1, <3>2
  <2> QED BY <1>1, <2>3, OnlyForms DEF Reg!Try
<1>2. ASSUME NEW d \in Drafts, Reg!OpenModel(c, d) PROVE RegInv'
  <2> DEFINE old == IF Reg!Has(d.id) THEN Reg!Entry(d.id)
                    ELSE [provider |-> None, tools |-> "native", levels |-> {}, default |-> None]
             draft == [id |-> d.id, provider |-> d.provider, tools |-> Reg!Or(d.tools, old.tools),
                       levels |-> Reg!Or(d.levels, old.levels),
                       default |-> IF d.levels = Blank THEN old.default ELSE d.default]
             x == [what |-> IF draft.tools = "native" THEN "try" ELSE "model", with |-> draft]
  <2>1. old.tools \in Ways /\ old.levels \in SUBSET Levels /\ old.default \in Levels \union {None}
    <3>1. CASE Reg!Has(d.id)
      <4>1. reg.models.entries[d.id] \in Cards  BY <1>0, <3>1 DEF Reg!Has, Reg!Entry
      <4>2. old = reg.models.entries[d.id]  BY <3>1 DEF Reg!Entry
      <4> QED BY <4>1, <4>2 DEF Cards
    <3>2. CASE ~Reg!Has(d.id)  BY <3>2 DEF Ways
    <3> QED BY <3>1, <3>2
  <2>2. form' = [form EXCEPT ![c] = x]  BY <1>2 DEF Reg!OpenModel
  <2> HIDE DEF old
  <2>3. d.id \in Models /\ d.provider \in Providers /\ d.default \in Levels \union {None}
        /\ d.tools \in Ways \union {Blank} /\ d.levels \in (SUBSET Levels) \union {Blank}
    BY RegisterAssumption
  <2>4. Reg!Or(d.tools, old.tools) \in Ways /\ Reg!Or(d.levels, old.levels) \in SUBSET Levels
    BY <2>1, <2>3 DEF Reg!Or
  <2>5. draft \in Drafted  BY <2>1, <2>3, <2>4 DEF Drafted
  <2> HIDE DEF draft
  <2>6. Filled(x)  BY <2>5 DEF Filled
  <2> HIDE DEF x
  <2> QED BY <1>2, <2>2, <2>6, OnlyForms DEF Reg!OpenModel
<1>3. ASSUME NEW e \in Edits, Reg!OpenSettings(c, e) PROVE RegInv'
  <2> DEFINE s == [levels |-> Reg!Or(e.levels, reg.settings.levels),
                   compact |-> Reg!Or(e.compact, reg.settings.compact),
                   cap |-> Reg!Or(e.cap, reg.settings.cap)]
             x == [what |-> "settings", with |-> s]
  <2>1. form' = [form EXCEPT ![c] = x]  BY <1>3 DEF Reg!OpenSettings
  <2>2. e.levels \in (SUBSET Levels) \union {Blank} /\ e.cap \in Nat \union {Blank}
        /\ e.compact \in Models \union {None, Blank}
    BY RegisterAssumption
  <2>3. s \in Setup  BY <1>0, <2>2 DEF Setup, Reg!Or
  <2> HIDE DEF s
  <2>4. Filled(x)  BY <2>3 DEF Filled
  <2> HIDE DEF x
  <2> QED BY <1>3, <2>1, <2>4, OnlyForms DEF Reg!OpenSettings
<1> QED BY <1>1, <1>2, <1>3

(* Sending a form keeps the register, whatever changed since it was opened *)
(* (models_upsert, set_app_settings).                                      *)
LEMMA SendSteps ==
  ASSUME RegInv, NEW c \in Clients, Reg!ModelUpsert(c) \/ Reg!SetAppSettings(c)
  PROVE  RegInv'
<1>0. form' = [form EXCEPT ![c] = Reg!Idle] /\ Filled(Reg!Idle)
  BY DEF Reg!ModelUpsert, Reg!SetAppSettings, Filled, Reg!Idle
<1>1. form' = [d \in Clients |-> form'[d]] /\ \A d \in Clients : Filled(form'[d])  BY <1>0, FormsKept
<1>2. CASE UNCHANGED <<reg, files, choice, alive, listed, writes, saved, failed, mixed>>
  BY <1>0, <1>2, OnlyForms
<1>3. CASE Reg!ModelUpsert(c) /\ ~UNCHANGED <<reg, files, choice, alive, listed, writes, saved, failed, mixed>>
  <2> DEFINE d == form[c].with
             e == [provider |-> d.provider, tools |-> d.tools, levels |-> d.levels, default |-> d.default]
             r == [reg EXCEPT !.models = [reg.models EXCEPT !.entries = [reg.models.entries EXCEPT ![d.id] = e]]]
  <2>1. d \in Drafted
    <3>1. form[c] \in [what : {"try", "model"}, with : Drafted]  BY <1>3, FormOfModel DEF Reg!ModelUpsert
    <3> QED BY <3>1
  <2>2. reg.providers[d.provider] # None /\ Reg!InCatalog(d) /\ Reg!Writes(r, TRUE)
    BY <1>3 DEF Reg!ModelUpsert
  <2> HIDE DEF d
  <2>3. e \in Cards /\ d.id \in Models  BY <2>1 DEF Drafted, Cards
  <2>4. CleanCard(reg, e)  BY <2>2 DEF CleanCard, Reg!InCatalog
  <2> HIDE DEF e
  <2>5. e # None  BY <2>3, RegisterAssumption
  <2>6. Sound(r, TRUE)  BY <2>3, <2>4, <2>5, ModelsSound
  <2> HIDE DEF r
  <2> QED BY <1>1, <2>2, <2>6, SoundKeeps
<1>4. CASE Reg!SetAppSettings(c) /\ ~UNCHANGED <<reg, files, choice, alive, listed, writes, saved, failed, mixed>>
  <2> DEFINE t == form[c].with
             r == [reg EXCEPT !.settings = t]
  <2>1. t \in Setup  BY <1>4, FormOfSettings DEF Reg!SetAppSettings
  <2>2. Reg!Allowed(t) /\ Reg!Writes(r, TRUE)  BY <1>4 DEF Reg!SetAppSettings
  <2> HIDE DEF t
  <2>3. /\ t.compact # None => reg.models.entries[t.compact] # None
        /\ \A m \in Models : reg.models.entries[m] # None => reg.models.entries[m].levels \subseteq t.levels
    BY <2>2 DEF Reg!Allowed, Reg!Sound, Reg!Has, Reg!Entry
  <2>4. Sound(r, TRUE)  BY <2>1, <2>3, SettingsSound
  <2> HIDE DEF r
  <2> QED BY <1>1, <2>2, <2>4, SoundKeeps
<1> QED BY <1>2, <1>3, <1>4

(* A stop keeps the register; a start reads it from its files.             *)
LEMMA StopStart ==
  ASSUME RegInv, Reg!Stop \/ Reg!Start
  PROVE  RegInv'
<1>1. CASE Reg!Stop
  <2>1. RegShape'  BY <1>1 DEF Reg!Stop, RegInv, RegShape
  <2>2. Current' /\ CleanAll' /\ Reg!ListIsSound'
    BY <1>1 DEF Reg!Stop, RegInv, Current, CleanAll, Reg!ListIsSound
  <2>3. ~failed' => files' = reg'  BY <1>1 DEF Reg!Stop, RegInv, Current
  <2> QED BY <2>1, <2>2, <2>3 DEF RegInv, OneOfTwo
<1>2. CASE Reg!Start
  <2>1. /\ reg' = files /\ files' = files /\ saved' = files /\ choice' = Reg!Chosen(files) /\ alive' = TRUE
        /\ failed' = FALSE /\ mixed' = (mixed \/ failed) /\ writes' = writes /\ listed' = <<>> /\ ~alive
        /\ form' = [c \in Clients |-> Reg!Idle] /\ \A f \in DOMAIN files : files[f] # Bad
    <3>1. reg' = files  BY <1>2 DEF Reg!Start, Reg!ReadBack
    <3>2. choice' = Reg!Chosen(files)  BY <1>2, <3>1 DEF Reg!Start
    <3> QED BY <1>2, <3>1, <3>2 DEF Reg!Start, Reg!Loads
  <2>2. files \in Registers  BY <2>1, FilesAre, RegistersAreRead DEF RegInv, RegShape
  <2>3. mixed' \in BOOLEAN /\ writes' \in 0..MaxWrites  BY <2>1, Zenon DEF RegInv, RegShape
  <2>4. form' = [c \in Clients |-> form'[c]] /\ \A c \in Clients : Filled(form'[c])
    BY <2>1 DEF Filled, Reg!Idle
  <2>5. RegShape'  BY <2>1, <2>2, <2>3, <2>4, RegistersAreRead DEF RegShape
  <2>6. Current'  BY <2>1 DEF Current, Reg!Chosen, Reg!Channel
  <2>7. ~mixed' => Clean(files)
    <3> SUFFICES ASSUME ~mixed' PROVE Clean(files)  OBVIOUS
    <3>1. ~mixed /\ ~failed  BY <2>1, Zenon
    <3> QED BY <2>1, <3>1 DEF RegInv, OneOfTwo, CleanAll
  <2>8. CleanAll' /\ OneOfTwo'  BY <2>1, <2>7 DEF CleanAll, OneOfTwo
  <2>9. Reg!ListIsSound'  BY <2>1 DEF Reg!ListIsSound
  <2> QED BY <2>5, <2>6, <2>8, <2>9 DEF RegInv
<1> QED BY <1>1, <1>2

(* A register begins empty, or with one of everything.                     *)
LEMMA RegStarts == Reg!Init => RegInv
<1> SUFFICES ASSUME Reg!Init PROVE RegInv  OBVIOUS
<1> DEFINE p0 == CHOOSE p \in Providers : TRUE
           m0 == CHOOSE m \in Models : TRUE
           u0 == CHOOSE u \in Urls : TRUE
           e0 == [provider |-> p0, tools |-> "envelope", levels |-> Levels, default |-> None]
           d0 == [url |-> u0, key |-> "k1"]
           a0 == [modules |-> <<>>, model |-> m0]
           s0 == [Reg!Defaults EXCEPT !.compact = m0]
           c0 == [entries |-> [m \in Models |-> e0], core |-> m0]
           r0 == [providers |-> [p \in Providers |-> d0], models |-> c0, settings |-> s0,
                  agents |-> [a \in Agents |-> a0]]
<1>1. reg = Reg!Empty \/ reg = r0  BY DEF Reg!Init
<1>2. p0 \in Providers /\ m0 \in Models /\ u0 \in Urls  BY RegisterAssumption
<1> HIDE DEF p0, m0, u0
<1>3. e0 \in Cards /\ d0 \in Deals /\ a0 \in Hired
  <2>1. <<>> \in Seq(Known)  OBVIOUS
  <2> QED BY <1>2, <2>1 DEF Cards, Deals, Hired, Ways
<1>4. s0 \in Setup /\ s0.compact = m0 /\ s0.levels = Levels  BY <1>2 DEF Reg!Defaults, Setup
<1>5. e0.provider = p0 /\ e0.levels = Levels /\ e0.default = None  OBVIOUS
<1>6. e0 # None /\ d0 # None  BY <1>3, RegisterAssumption
<1> HIDE DEF e0, d0, a0, s0
<1>7. c0 \in Catalog /\ c0.entries = [m \in Models |-> e0] /\ c0.core = m0  BY <1>2, <1>3 DEF Catalog
<1>8. [p \in Providers |-> d0] \in Served /\ [a \in Agents |-> a0] \in Staff  BY <1>3 DEF Served, Staff
<1> HIDE DEF c0
<1>9. r0 \in Registers  BY <1>4, <1>7, <1>8 DEF Registers
<1>10. r0.providers = [p \in Providers |-> d0] /\ r0.models = c0 /\ r0.settings = s0  OBVIOUS
<1> HIDE DEF r0
<1>11. Clean(r0)
  <2>1. \A m \in Models : r0.models.entries[m] = e0  BY <1>7, <1>10
  <2>2. CleanCard(r0, e0)  BY <1>2, <1>4, <1>5, <1>6, <1>10 DEF CleanCard
  <2>3. r0.models.core = m0 /\ r0.settings.compact = m0  BY <1>4, <1>7, <1>10
  <2> QED BY <1>2, <1>6, <2>1, <2>2, <2>3 DEF Clean
<1>12. reg \in Registers /\ Clean(reg)  BY <1>1, <1>9, <1>11, EmptyIsOne
<1>13. RegShape
  <2>1. /\ files = reg /\ saved = reg /\ alive = TRUE /\ failed = FALSE /\ mixed = FALSE /\ writes = 0
        /\ form = [c \in Clients |-> Reg!Idle]
    BY DEF Reg!Init
  <2>2. form = [c \in Clients |-> form[c]] /\ \A c \in Clients : Filled(form[c])  BY <2>1 DEF Filled, Reg!Idle
  <2>3. 0 \in 0..MaxWrites  BY RegisterAssumption
  <2> QED BY <1>12, <2>1, <2>2, <2>3, RegistersAreRead DEF RegShape
<1>14. Current  BY DEF Reg!Init, Current
<1>15. CleanAll /\ OneOfTwo  BY <1>12 DEF Reg!Init, CleanAll, OneOfTwo
<1>16. Reg!ListIsSound  BY DEF Reg!Init, Reg!ListIsSound
<1> QED BY <1>13, <1>14, <1>15, <1>16 DEF RegInv

-----------------------------------------------------------------------------
(* The list of agents that the core drafts.                                *)

(* The courses of a loop, of n steps that stay in a set; there is one.     *)
Loops(n, X, base, turn) ==
  {f \in [0..n -> X] : f[0] = base /\ \A k \in 1..n : f[k] = turn[<<f[k - 1], k>>]}

(* A loop has a course.                                                    *)
LEMMA LoopRuns ==
  ASSUME NEW n \in Nat, NEW X, NEW base \in X, NEW turn \in [X \X (1..n) -> X]
  PROVE  \E f : f \in Loops(n, X, base, turn)
<1> DEFINE Goes(m) == \E f \in [0..m -> X] : f[0] = base /\ \A k \in 1..m : f[k] = turn[<<f[k - 1], k>>]
           Off == {m \in 0..n : ~Goes(m)}
<1> SUFFICES Goes(n)  BY DEF Loops
<1> SUFFICES ASSUME Off # {} PROVE FALSE
  <2>1. n \in 0..n  OBVIOUS
  <2> HIDE DEF Goes
  <2> QED BY <2>1
<1>1. PICK m \in Off : \A k \in Off : m =< k
  <2>1. Off \in SUBSET Nat  OBVIOUS
  <2> HIDE DEF Off
  <2> QED BY <2>1, LeastOf
<1>2. m \in 0..n /\ ~Goes(m)  OBVIOUS
<1>3. m # 0
  <2>1. [k \in 0..0 |-> base] \in [0..0 -> X] /\ [k \in 0..0 |-> base][0] = base  OBVIOUS
  <2>2. 1..0 = {}  OBVIOUS
  <2> QED BY <1>2, <2>1, <2>2
<1>4. m - 1 \in 0..n /\ ~(m =< m - 1) /\ m \in 1..n  BY <1>2, <1>3
<1>5. Goes(m - 1)  BY <1>1, <1>4
<1>6. PICK g \in [0..m - 1 -> X] : g[0] = base /\ \A k \in 1..m - 1 : g[k] = turn[<<g[k - 1], k>>]
  BY <1>5
<1> DEFINE f == [k \in 0..m |-> IF k = m THEN turn[<<g[m - 1], m>>] ELSE g[k]]
<1>7. f \in [0..m -> X]
  <2>1. \A k \in 0..m : k # m => k \in 0..m - 1  BY <1>2
  <2>2. g[m - 1] \in X  BY <1>4, <1>6
  <2>3. turn[<<g[m - 1], m>>] \in X  BY <1>4, <2>2
  <2> QED BY <1>6, <2>1, <2>3
<1>8. f[0] = base  BY <1>2, <1>3, <1>6
<1>9. ASSUME NEW k \in 1..m PROVE f[k] = turn[<<f[k - 1], k>>]
  <2>1. k - 1 \in 0..m /\ k - 1 # m /\ k \in 0..m  BY <1>2
  <2>2. CASE k = m  BY <2>1, <2>2
  <2>3. CASE k # m
    <3>1. k \in 1..m - 1  BY <1>2, <2>3
    <3> QED BY <1>6, <2>1, <2>3, <3>1
  <2> QED BY <2>2, <2>3
<1> HIDE DEF f
<1>10. Goes(m)  BY <1>7, <1>8, <1>9
<1> QED BY <1>2, <1>10

(* What a loop keeps at each step it keeps to the end.                     *)
LEMMA LoopStays ==
  ASSUME NEW n \in Nat, NEW X, NEW h, h[0] \in X, \A k \in 1..n : h[k - 1] \in X => h[k] \in X
  PROVE  \A k \in 0..n : h[k] \in X
<1> DEFINE Off == {k \in 0..n : h[k] \notin X}
<1> SUFFICES ASSUME Off # {} PROVE FALSE  OBVIOUS
<1>1. PICK m \in Off : \A k \in Off : m =< k
  <2>1. Off \in SUBSET Nat  OBVIOUS
  <2> HIDE DEF Off
  <2> QED BY <2>1, LeastOf
<1>2. m \in 0..n /\ h[m] \notin X  OBVIOUS
<1>3. m \in 1..n /\ m - 1 \in 0..n /\ ~(m =< m - 1)  BY <1>2
<1>4. h[m - 1] \in X  BY <1>1, <1>3
<1> QED BY <1>2, <1>3, <1>4

(* A list is a sequence of what is in it.                                  *)
LEMMA ListIsSeq ==
  ASSUME NEW s, IsList(s)
  PROVE  /\ s \in Seq({s[k] : k \in 1..Len(s)}) /\ DOMAIN s = 1..Len(s) /\ Len(s) \in Nat
         /\ s # <<>> => Len(s) # 0
<1>1. Len(s) \in Nat /\ s = [k \in 1..Len(s) |-> s[k]]  BY DEF IsList
<1> DEFINE n == Len(s)
           t == [k \in 1..n |-> s[k]]
<1>2. t \in [1..n -> {s[k] : k \in 1..n}]  OBVIOUS
<1>3. t \in Seq({s[k] : k \in 1..n})  BY <1>1, <1>2
<1>4. n = 0 => t = <<>>  OBVIOUS
<1> QED BY <1>1, <1>3, <1>4

(* Each module once: of what is in a list, and of something if it has any. *)
LEMMA OnceOf ==
  ASSUME NEW s, IsList(s), s # <<>>, Reg!ToSet(s) \subseteq Known
  PROVE  Reg!Once(s) \in Seq(Known) /\ Reg!Once(s) # <<>>
<1> DEFINE n == Len(s)
           X == Seq(Known)
           join(t, x) == IF x \in Reg!ToSet(t) THEN t ELSE Append(t, x)
           turn == [p \in X \X (1..n) |-> join(p[1], s[p[2]])]
           Fold(g) == g = [k \in 0..Len(s) |-> IF k = 0 THEN <<>> ELSE join(g[k - 1], s[k])]
           h == CHOOSE g : Fold(g)
<1>1. n \in Nat /\ n # 0 /\ DOMAIN s = 1..n  BY ListIsSeq
<1>2. \A k \in 1..n : s[k] \in Known  BY <1>1 DEF Reg!ToSet
<1>3. \A t \in X, k \in 1..n : join(t, s[k]) \in X /\ join(t, s[k]) # <<>>
  <2> SUFFICES ASSUME NEW t \in X, NEW k \in 1..n PROVE join(t, s[k]) \in X /\ join(t, s[k]) # <<>>  OBVIOUS
  <2>1. s[k] \in Known  BY <1>2
  <2>2. CASE s[k] \in Reg!ToSet(t)
    <3>1. t # <<>>  BY <2>2 DEF Reg!ToSet
    <3> QED BY <2>2, <3>1
  <2>3. CASE s[k] \notin Reg!ToSet(t)
    <3>1. Append(t, s[k]) \in Seq(Known) /\ Len(Append(t, s[k])) = Len(t) + 1 /\ Len(t) \in Nat  BY <2>1
    <3>2. Append(t, s[k]) # <<>>
      <4>1. Len(<<>>) = 0  OBVIOUS
      <4> QED BY <3>1, <4>1
    <3> QED BY <2>3, <3>1, <3>2
  <2> QED BY <2>2, <2>3
<1>4. turn \in [X \X (1..n) -> X] /\ \A t \in X, k \in 1..n : turn[<<t, k>>] = join(t, s[k])
  <2> HIDE DEF join
  <2> QED BY <1>3
<1>5. <<>> \in X  OBVIOUS
<1> HIDE DEF n, X, turn, join
<1>15. PICK f : f \in Loops(n, X, <<>>, turn)  BY <1>1, <1>4, <1>5, LoopRuns
<1>6. f \in [0..n -> X] /\ f[0] = <<>> /\ \A k \in 1..n : f[k] = turn[<<f[k - 1], k>>]
  BY <1>15 DEF Loops
<1>7. Fold(f)
  <2>1. f = [k \in 0..n |-> f[k]]  BY <1>6
  <2>2. \A k \in 0..n : f[k] = IF k = 0 THEN <<>> ELSE join(f[k - 1], s[k])
    <3> SUFFICES ASSUME NEW k \in 0..n, k # 0 PROVE f[k] = join(f[k - 1], s[k])  BY <1>6
    <3>1. k \in 1..n /\ k - 1 \in 0..n  BY <1>1
    <3>2. f[k - 1] \in X  BY <1>6, <3>1
    <3> QED BY <1>4, <1>6, <3>1, <3>2
  <2> QED BY <2>1, <2>2 DEF n
<1>8. Fold(h)  BY <1>7
<1>9. Reg!Once(s) = h[n]  BY DEF Reg!Once, Reg!FoldLeft, join, n
<1>10. h = [k \in 0..n |-> IF k = 0 THEN <<>> ELSE join(h[k - 1], s[k])]  BY <1>8 DEF n
<1> HIDE DEF h
<1>11. h[0] = <<>> /\ \A k \in 1..n : h[k] = join(h[k - 1], s[k])  BY <1>1, <1>10
<1>12. h[0] \in X /\ \A k \in 1..n : h[k - 1] \in X => h[k] \in X  BY <1>3, <1>5, <1>11
<1>13. \A k \in 0..n : h[k] \in X  BY <1>1, <1>12, LoopStays
<1>14. n \in 1..n /\ n - 1 \in 0..n /\ n \in 0..n  BY <1>1
<1> QED BY <1>3, <1>9, <1>11, <1>13, <1>14 DEF X

(* A name with a number is not the name with another.                      *)
LEMMA NumberedNames ==
  ASSUME NEW base, IsList(base)
  PROVE  \A i, j \in Nat : Append(base, i) = Append(base, j) => i = j
<1> SUFFICES ASSUME NEW i \in Nat, NEW j \in Nat, Append(base, i) = Append(base, j) PROVE i = j  OBVIOUS
<1> DEFINE S == {base[k] : k \in 1..Len(base)} \union Nat
<1>1. base \in Seq(S) /\ Len(base) \in Nat
  <2>1. Len(base) \in Nat /\ base = [k \in 1..Len(base) |-> base[k]]  BY DEF IsList
  <2>2. \A k \in 1..Len(base) : base[k] \in S  OBVIOUS
  <2> HIDE DEF S
  <2>3. [k \in 1..Len(base) |-> base[k]] \in Seq(S)  BY <2>1, <2>2
  <2> QED BY <2>1, <2>3
<1>2. i \in S /\ j \in S  OBVIOUS
<1> HIDE DEF S
<1>3. Append(base, i)[Len(base) + 1] = i /\ Append(base, j)[Len(base) + 1] = j  BY <1>1, <1>2
<1> QED BY <1>3

(* The name that is found is not taken.                                    *)
LEMMA NameIsFree ==
  ASSUME NEW base, IsList(base), NEW names, IsFiniteSet(names)
  PROVE  /\ Reg!UniqueName(base, names) \notin names
         /\ Reg!UniqueName(base, names) \in {base} \union {Append(base, k) : k \in Nat}
<1>1. CASE base \notin names  BY <1>1 DEF Reg!UniqueName
<1>2. CASE base \in names
  <2> DEFINE c == Cardinality(names)
             Free0 == {k \in 2..(c + 2) : Append(base, k) \notin names}
             n == CHOOSE k \in 2..(c + 2) :
                    Append(base, k) \notin names /\ \A j \in 2..(k - 1) : Append(base, j) \in names
  <2>1. c \in Nat  BY FS_CardinalityType
  <2>2. Reg!Cardinality(names) = c  BY DEF Reg!Cardinality, Cardinality
  <2> HIDE DEF c
  <2>3. Free0 # {}
    <3> SUFFICES ASSUME Free0 = {} PROVE FALSE  OBVIOUS
    <3> DEFINE f == [k \in 2..(c + 2) |-> Append(base, k)]
    <3>1. \A k \in 2..(c + 2) : Append(base, k) \in names  OBVIOUS
    <3>2. f \in Injection(2..(c + 2), names)
      <4>1. f \in [2..(c + 2) -> names]  BY <3>1
      <4>2. \A i, j \in 2..(c + 2) : i \in Nat /\ j \in Nat  BY <2>1
      <4>3. \A i, j \in 2..(c + 2) : f[i] = f[j] => i = j  BY <4>2, NumberedNames
      <4> QED BY <4>1, <4>3 DEF Injection, IsInjective
    <3>3. Cardinality(2..(c + 2)) =< c  BY <3>2, FS_Injection DEF c
    <3> DEFINE d == c + 2
    <3>4. 2 \in Int /\ d \in Int /\ ~(2 > d) /\ d - 2 + 1 = c + 1  BY <2>1
    <3>5. Cardinality(2..d) =< c  BY <3>3
    <3> HIDE DEF d
    <3>6. Cardinality(2..d) = IF 2 > d THEN 0 ELSE d - 2 + 1  BY <3>4, FS_Interval
    <3> QED BY <2>1, <3>4, <3>5, <3>6
  <2>4. PICK m \in Free0 : \A k \in Free0 : m =< k
    <3>1. Free0 \in SUBSET Nat  BY <2>1
    <3> HIDE DEF Free0
    <3> QED BY <2>3, <3>1, LeastOf
  <2>5. m \in 2..(c + 2) /\ Append(base, m) \notin names /\ \A j \in 2..(m - 1) : Append(base, j) \in names
    <3>1. \A j \in 2..(m - 1) : j \in 2..(c + 2) /\ ~(m =< j)  BY <2>1
    <3> QED BY <2>4, <3>1
  <2>6. n \in 2..(c + 2) /\ Append(base, n) \notin names  BY <2>5
  <2>7. Reg!UniqueName(base, names) = Append(base, n)  BY <1>2, <2>2 DEF Reg!UniqueName
  <2> HIDE DEF n
  <2>8. n \in Nat  BY <2>1, <2>6
  <2> QED BY <2>6, <2>7, <2>8
<1> QED BY <1>1, <1>2

(* What is added to a list for a pick; a list that may be drafted, of      *)
(* entries out of a set.                                                   *)
Adds(out, p) ==
  IF ~Reg!Taken(p) THEN out
  ELSE Append(out, [name |-> Reg!UniqueName(Reg!Base(p), {out[k].name : k \in DOMAIN out}),
                    modules |-> Reg!Once(Reg!Wants(p).modules), model |-> Reg!Wants(p).model])
Draftable(l) ==
  /\ \A i, j \in DOMAIN l : i # j => l[i].name # l[j].name
  /\ \A i \in DOMAIN l : l[i].modules # <<>> /\ Reg!ToSet(l[i].modules) \subseteq Known
NamedAs(p) ==
  {[name |-> x, modules |-> Reg!Once(Reg!Wants(p).modules), model |-> Reg!Wants(p).model] :
     x \in {Reg!Base(p)} \union {Append(Reg!Base(p), k) : k \in Nat}}
EntriesOf(picks) == UNION {NamedAs(picks[i]) : i \in 1..Len(picks)}

(* A pick that is taken has a name that is a list, and modules.            *)
LEMMA TakenPicks ==
  ASSUME RegInv, NEW picks \in Picks, NEW i \in 1..Len(picks), Reg!Taken(picks[i])
  PROVE  /\ IsList(Reg!Base(picks[i]))
         /\ Reg!Once(Reg!Wants(picks[i]).modules) \in Seq(Known)
         /\ Reg!Once(Reg!Wants(picks[i]).modules) # <<>>
<1> DEFINE p == picks[i]
           w == Reg!Wants(p)
<1>1. IsList(picks)
      /\ \A j \in DOMAIN picks : "agent" \in DOMAIN picks[j] \/ (IsList(picks[j].name) /\ IsList(picks[j].modules))
  BY RegisterAssumption
<1>2. "agent" \in DOMAIN p \/ (IsList(p.name) /\ IsList(p.modules))  BY <1>1, ListIsSeq
<1>3. reg.agents \in [Agents -> Hired \union {None}]  BY RegisterParts DEF RegInv, RegShape
<1>4. Reg!Taken(p)  OBVIOUS
<1> HIDE DEF p
<1>5. w.modules # <<>> /\ Reg!ToSet(w.modules) \subseteq Known  BY <1>4 DEF Reg!Taken
<1>6. IsList(w.modules)
  <2>1. CASE Reg!Suggested(p)
    <3>1. reg.agents[p.agent] \in Hired /\ w = reg.agents[p.agent]
      BY <1>3, <1>4, <2>1 DEF Reg!Taken, Reg!Wants
    <3>2. w.modules \in Seq(Known)  BY <3>1 DEF Hired
    <3> HIDE DEF w
    <3> QED BY <3>2 DEF IsList
  <2>2. CASE ~Reg!Suggested(p)
    <3>1. w.modules = p.modules  BY <2>2 DEF Reg!Wants
    <3> QED BY <1>2, <2>2, <3>1 DEF Reg!Suggested
  <2> QED BY <2>1, <2>2
<1>7. \A x : IsList(<<x>>)
  <2> TAKE x
  <2>1. Len(<<x>>) = 1 /\ <<x>> = [k \in 1..1 |-> <<x>>[k]]  OBVIOUS
  <2> QED BY <2>1 DEF IsList
<1>8. IsList(Reg!Base(p))
  <2>1. CASE Reg!Suggested(p)
    <3>1. Reg!Base(p) = <<p.agent>> \/ Reg!Base(p) = <<w.modules[1]>>  BY <2>1 DEF Reg!Base
    <3> QED BY <1>7, <3>1
  <2>2. CASE ~Reg!Suggested(p)
    <3>1. Reg!Base(p) = p.name \/ Reg!Base(p) = <<w.modules[1]>>  BY <2>2 DEF Reg!Base
    <3> QED BY <1>2, <1>7, <2>2, <3>1 DEF Reg!Suggested
  <2> QED BY <2>1, <2>2
<1> HIDE DEF w
<1>9. Reg!Once(w.modules) \in Seq(Known) /\ Reg!Once(w.modules) # <<>>  BY <1>5, <1>6, OnceOf
<1> QED BY <1>8, <1>9 DEF p, w

(* The names of a list are finite in number.                               *)
LEMMA NamesFinite ==
  ASSUME NEW S, NEW out \in Seq(S)
  PROVE  IsFiniteSet({out[k].name : k \in DOMAIN out})
<1> DEFINE n == Len(out)
           T == {out[k].name : k \in DOMAIN out}
           f == [k \in 1..n |-> out[k].name]
<1>1. n \in Nat /\ DOMAIN out = 1..n  OBVIOUS
<1> HIDE DEF n
<1>2. f \in Surjection(1..n, T)
  <2>1. f \in [1..n -> T]  BY <1>1
  <2>2. \A t \in T : \E k \in 1..n : f[k] = t  BY <1>1
  <2> QED BY <2>1, <2>2 DEF Surjection
<1>3. IsFiniteSet(1..n)
  <2>1. 1 \in Int /\ n \in Int  BY <1>1
  <2> QED BY <2>1, FS_Interval
<1> HIDE DEF f, T
<1>4. IsFiniteSet(T)  BY <1>2, <1>3, FS_Surjection
<1> QED BY <1>4 DEF T

(* A list stays one that may be drafted when a pick is added.              *)
LEMMA AddsKeeps ==
  ASSUME RegInv, NEW picks \in Picks, NEW i \in 1..Len(picks),
         NEW out \in Seq(EntriesOf(picks)), Draftable(out)
  PROVE  Adds(out, picks[i]) \in Seq(EntriesOf(picks)) /\ Draftable(Adds(out, picks[i]))
<1> DEFINE p == picks[i]
           names == {out[k].name : k \in DOMAIN out}
           x == Reg!UniqueName(Reg!Base(p), names)
           ms == Reg!Once(Reg!Wants(p).modules)
           e == [name |-> x, modules |-> ms, model |-> Reg!Wants(p).model]
<1>1. CASE ~Reg!Taken(p)  BY <1>1 DEF Adds
<1>2. CASE Reg!Taken(p)
  <2>1. Adds(out, p) = Append(out, e)  BY <1>2 DEF Adds
  <2>2. IsList(Reg!Base(p)) /\ ms \in Seq(Known) /\ ms # <<>>  BY <1>2, TakenPicks
  <2>3. IsFiniteSet(names)  BY NamesFinite
  <2>4. x \notin names /\ x \in {Reg!Base(p)} \union {Append(Reg!Base(p), k) : k \in Nat}
    <3> HIDE DEF names, p
    <3> QED BY <2>2, <2>3, NameIsFree
  <2>5. e \in EntriesOf(picks)
    <3> HIDE DEF x, p
    <3>1. e \in NamedAs(p)  BY <2>4 DEF NamedAs
    <3> HIDE DEF e
    <3> QED BY <3>1 DEF EntriesOf, p
  <2>6. e.name = x /\ e.modules = ms  OBVIOUS
  <2>7. Reg!ToSet(ms) \subseteq Known
    <3> HIDE DEF ms
    <3> QED BY <2>2 DEF Reg!ToSet
  <2>8. \A k \in DOMAIN out : out[k].name # x  BY <2>4
  <2> HIDE DEF e, x, ms, names
  <2> DEFINE l == Append(out, e)
  <2>9. /\ l \in Seq(EntriesOf(picks)) /\ DOMAIN l = 1..Len(out) + 1 /\ DOMAIN out = 1..Len(out) /\ Len(out) \in Nat
        /\ \A k \in 1..Len(out) + 1 : l[k] = IF k = Len(out) + 1 THEN e ELSE out[k]
    BY <2>5
  <2> HIDE DEF l
  <2>10. Draftable(l)
    <3>1. \A k \in DOMAIN l : (k \in DOMAIN out /\ l[k] = out[k]) \/ (k = Len(out) + 1 /\ l[k] = e)  BY <2>9
    <3>2. \A j, k \in DOMAIN l : j # k => l[j].name # l[k].name
      <4> SUFFICES ASSUME NEW j \in DOMAIN l, NEW k \in DOMAIN l, j # k PROVE l[j].name # l[k].name  OBVIOUS
      <4>1. CASE j \in DOMAIN out /\ l[j] = out[j] /\ k \in DOMAIN out /\ l[k] = out[k]  BY <4>1 DEF Draftable
      <4>2. CASE j \in DOMAIN out /\ l[j] = out[j] /\ l[k] = e  BY <2>6, <2>8, <4>2
      <4>3. CASE k \in DOMAIN out /\ l[k] = out[k] /\ l[j] = e  BY <2>6, <2>8, <4>3
      <4> QED BY <3>1, <4>1, <4>2, <4>3
    <3>3. ASSUME NEW k \in DOMAIN l PROVE l[k].modules # <<>> /\ Reg!ToSet(l[k].modules) \subseteq Known
      <4>1. CASE k \in DOMAIN out /\ l[k] = out[k]  BY <4>1 DEF Draftable
      <4>2. CASE l[k] = e  BY <2>2, <2>6, <2>7, <4>2
      <4> QED BY <3>1, <4>1, <4>2
    <3> QED BY <3>2, <3>3 DEF Draftable
  <2> QED BY <2>1, <2>9, <2>10 DEF l
<1> QED BY <1>1, <1>2

(* The list the core drafts may be drafted.                                *)
LEMMA PicksDrafted ==
  ASSUME RegInv, NEW picks \in Picks, Reg!ResolvePicks(picks)
  PROVE  Draftable(listed')
<1> DEFINE n == Len(picks)
           X == {l \in Seq(EntriesOf(picks)) : Draftable(l)}
           turn == [q \in X \X (1..n) |-> Adds(q[1], picks[q[2]])]
           Fold(g) == g = [k \in 0..Len(picks) |-> IF k = 0 THEN <<>> ELSE Adds(g[k - 1], picks[k])]
           h == CHOOSE g : Fold(g)
<1>1. n \in Nat
  <2>1. IsList(picks)  BY RegisterAssumption
  <2> QED BY <2>1, ListIsSeq
<1>2. \A l \in X, k \in 1..n : Adds(l, picks[k]) \in X  BY AddsKeeps
<1>3. turn \in [X \X (1..n) -> X] /\ \A l \in X, k \in 1..n : turn[<<l, k>>] = Adds(l, picks[k])
  <2> HIDE DEF X
  <2> QED BY <1>2
<1>4. <<>> \in X
  <2>1. <<>> \in Seq(EntriesOf(picks))  OBVIOUS
  <2>2. Draftable(<<>>)  BY DEF Draftable
  <2> QED BY <2>1, <2>2
<1>5. \A l \in X : Draftable(l)  OBVIOUS
<1> HIDE DEF n, X, turn
<1>6. PICK f : f \in Loops(n, X, <<>>, turn)  BY <1>1, <1>3, <1>4, LoopRuns
<1>7. f \in [0..n -> X] /\ f[0] = <<>> /\ \A k \in 1..n : f[k] = turn[<<f[k - 1], k>>]
  BY <1>6 DEF Loops
<1>8. Fold(f)
  <2>1. f = [k \in 0..n |-> f[k]]  BY <1>7
  <2>2. \A k \in 0..n : f[k] = IF k = 0 THEN <<>> ELSE Adds(f[k - 1], picks[k])
    <3> SUFFICES ASSUME NEW k \in 0..n, k # 0 PROVE f[k] = Adds(f[k - 1], picks[k])  BY <1>7
    <3>1. k \in 1..n /\ k - 1 \in 0..n  BY <1>1
    <3>2. f[k - 1] \in X  BY <1>7, <3>1
    <3> QED BY <1>3, <1>7, <3>1, <3>2
  <2> QED BY <2>1, <2>2 DEF n
<1>9. Fold(h)  BY <1>8
<1>10. listed' = h[n]  BY DEF Reg!ResolvePicks, Reg!FoldLeft, Adds, n
<1>11. h = [k \in 0..n |-> IF k = 0 THEN <<>> ELSE Adds(h[k - 1], picks[k])]  BY <1>9 DEF n
<1> HIDE DEF h
<1>12. h[0] = <<>> /\ \A k \in 1..n : h[k] = Adds(h[k - 1], picks[k])  BY <1>1, <1>11
<1>13. h[0] \in X /\ \A k \in 1..n : h[k - 1] \in X => h[k] \in X  BY <1>2, <1>4, <1>12
<1>14. \A k \in 0..n : h[k] \in X  BY <1>1, <1>13, LoopStays
<1>15. n \in 0..n  BY <1>1
<1> QED BY <1>5, <1>10, <1>14, <1>15

(* Drafting a list keeps the register.                                     *)
LEMMA PickSteps ==
  ASSUME RegInv, NEW picks \in Picks, Reg!ResolvePicks(picks)
  PROVE  RegInv'
<1>1. Draftable(listed')  BY PicksDrafted
<1>2. UNCHANGED <<reg, files, form, choice, alive, writes, saved, failed, mixed>>  BY DEF Reg!ResolvePicks
<1>3. RegShape'  BY <1>2 DEF RegInv, RegShape
<1>4. Current' /\ CleanAll' /\ OneOfTwo'
  BY <1>2 DEF RegInv, Current, CleanAll, OneOfTwo, Reg!Chosen, Reg!Channel
<1>5. Reg!ListIsSound'
  <2> DEFINE l == listed'
  <2> SUFFICES Draftable(l)  BY DEF Reg!ListIsSound, Draftable, Reg!ToSet
  <2> QED BY <1>1
<1> QED BY <1>3, <1>4, <1>5 DEF RegInv

(* Every step keeps the register.                                          *)
LEMMA RegStep == RegInv /\ (Reg!Next \/ UNCHANGED Reg!vars) => RegInv'
<1> SUFFICES ASSUME RegInv, Reg!Next \/ UNCHANGED Reg!vars PROVE RegInv'  OBVIOUS
<1>1. CASE Reg!Change
  BY <1>1, ProviderSteps, ModelSteps, AgentSteps, SendSteps DEF Reg!Change
<1>2. CASE Reg!Fill  BY <1>2, FillSteps DEF Reg!Fill
<1>3. CASE Reg!Start \/ Reg!Stop  BY <1>3, StopStart
<1>4. CASE \E picks \in Picks : Reg!ResolvePicks(picks)  BY <1>4, PickSteps
<1>5. CASE UNCHANGED Reg!vars
  BY <1>5 DEF Reg!vars, RegInv, RegShape, Current, CleanAll, OneOfTwo, Reg!ListIsSound, Reg!Chosen, Reg!Channel
<1> QED BY <1>1, <1>2, <1>3, <1>4, <1>5 DEF Reg!Next

(* A level that is offered is one each session of the work may call at.    *)
LEMMA LevelsSent ==
  ASSUME RegInv
  PROVE  Reg!OfferedIsSent
<1> SUFFICES ASSUME NEW work \in OpenWorks, NEW l \in Reg!Offered(work)
             PROVE  Reg!Accepted(work, l) /\ \A k \in DOMAIN work : Reg!Fragment(work[k], l) \in {l, None}
  BY DEF Reg!OfferedIsSent
<1>1. l \in reg.settings.levels /\ \A m \in Reg!InTree(work) : Reg!Supports(m, l)  BY DEF Reg!Offered
<1>2. Reg!Accepted(work, l)  BY <1>1 DEF Reg!Accepted
<1>3. reg.settings \in Setup  BY RegisterParts DEF RegInv, RegShape
<1>4. l # None  BY <1>1, <1>3, RegisterAssumption DEF Setup
<1>5. ASSUME NEW k \in DOMAIN work PROVE Reg!Fragment(work[k], l) \in {l, None}
  <2> DEFINE s == work[k]
             m == IF s = <<>> THEN Reg!Core ELSE Reg!Own(s[1])
  <2>1. CASE ~Reg!Has(m)  BY <2>1 DEF Reg!Fragment
  <2>2. CASE Reg!Has(m)
    <3>1. m # None  BY <2>2, RegisterAssumption DEF Reg!Has
    <3>2. m \in Reg!ModelsOf(s)
      <4>1. CASE s = <<>>  BY <4>1 DEF Reg!ModelsOf
      <4>2. CASE s # <<>>
        <5>1. IsList(s)  BY RegisterAssumption
        <5> HIDE DEF s
        <5>2. DOMAIN s = 1..Len(s) /\ Len(s) \in Nat /\ Len(s) # 0  BY <4>2, <5>1, ListIsSeq
        <5>3. 1 \in DOMAIN s  BY <5>2
        <5> QED BY <4>2, <5>3 DEF Reg!ModelsOf
      <4> QED BY <4>1, <4>2
    <3>3. m \in Reg!InTree(work)
      <4> HIDE DEF m
      <4> QED BY <3>1, <3>2 DEF Reg!InTree
    <3>4. l \in Reg!Entry(m).levels  BY <1>1, <3>3 DEF Reg!Supports
    <3> QED BY <1>4, <2>2, <3>4 DEF Reg!Fragment
  <2> QED BY <2>1, <2>2
<1> QED BY <1>2, <1>5

(* So nothing that is registered dangles, summaries are written with what  *)
(* is chosen, and a stop leaves the register as it was or as it is.        *)
LEMMA RegMeans ==
  RegInv => /\ Reg!NothingDangles /\ Reg!ChoiceIsCurrent /\ Reg!LoadsWhole
            /\ Reg!ListIsSound /\ Reg!OfferedIsSent /\ Reg!TypeOK
<1> SUFFICES ASSUME RegInv
             PROVE  /\ Reg!NothingDangles /\ Reg!ChoiceIsCurrent /\ Reg!LoadsWhole
                    /\ Reg!ListIsSound /\ Reg!OfferedIsSent /\ Reg!TypeOK
  OBVIOUS
<1>1. /\ reg \in Registers /\ reg.providers \in [Providers -> Deals \union {None}]
      /\ reg.models.entries \in [Models -> Cards \union {None}] /\ reg.models.core \in Models \union {None}
      /\ reg.settings \in Setup
  BY RegisterParts DEF RegInv, RegShape
<1>2. ASSUME Clean(reg), NEW m \in Models, reg.models.entries[m] # None
      PROVE  Reg!Channel(reg, m) # None /\ CleanCard(reg, reg.models.entries[m])
  <2>1. CleanCard(reg, reg.models.entries[m])  BY <1>2 DEF Clean
  <2> DEFINE p == reg.models.entries[m].provider
  <2>2. p \in Providers  BY <1>1, <1>2 DEF Cards
  <2>3. reg.providers[p] # None  BY <2>1 DEF CleanCard
  <2>4. reg.providers[p] \in Deals  BY <1>1, <2>2, <2>3
  <2>5. reg.providers[p].url \in Urls  BY <2>4 DEF Deals
  <2>6. Reg!Channel(reg, m) = [model |-> m, url |-> reg.providers[p].url]
    BY <1>2, <2>3 DEF Reg!Channel
  <2>7. [model |-> m, url |-> reg.providers[p].url] \in [model : Models, url : Urls]  BY <2>5
  <2> QED BY <2>1, <2>6, <2>7, RegisterAssumption
<1>3. Reg!NothingDangles
  <2> SUFFICES ASSUME Clean(reg)
               PROVE  /\ \A m \in Models : Reg!Has(m) =>
                           /\ Reg!Channel(reg, m) # None
                           /\ Reg!Entry(m).levels \subseteq reg.settings.levels
                           /\ Reg!Entry(m).default = None \/ Reg!Entry(m).default \in Reg!Entry(m).levels
                      /\ Reg!Core = None \/ Reg!Has(Reg!Core)
                      /\ reg.settings.compact = None \/ Reg!Channel(reg, reg.settings.compact) # None
    BY DEF Reg!NothingDangles, RegInv, CleanAll
  <2>1. \A m \in Models : Reg!Has(m) =>
          /\ Reg!Channel(reg, m) # None
          /\ Reg!Entry(m).levels \subseteq reg.settings.levels
          /\ Reg!Entry(m).default = None \/ Reg!Entry(m).default \in Reg!Entry(m).levels
    BY <1>2 DEF Reg!Has, Reg!Entry, CleanCard
  <2>2. Reg!Core = None \/ Reg!Has(Reg!Core)  BY <1>1 DEF Clean, Reg!Core, Reg!Has, Reg!Entry
  <2>3. reg.settings.compact \in Models \union {None}  BY <1>1 DEF Setup
  <2>4. reg.settings.compact = None \/ Reg!Channel(reg, reg.settings.compact) # None
    BY <1>2, <2>3 DEF Clean
  <2> QED BY <2>1, <2>2, <2>4
<1>4. Reg!ChoiceIsCurrent  BY DEF RegInv, Current, Reg!ChoiceIsCurrent
<1>5. Reg!LoadsWhole
  <2> SUFFICES ASSUME ~alive, ~failed, ~mixed PROVE Reg!Loads /\ Reg!ReadBack \in {saved, reg}
    BY DEF Reg!LoadsWhole
  <2>1. (files = saved \/ files = reg) /\ saved \in Registers /\ Clean(reg) /\ Clean(saved)
    BY DEF RegInv, OneOfTwo, RegShape, CleanAll
  <2>2. files \in Registers /\ Clean(files)  BY <1>1, <2>1
  <2>3. \A f \in DOMAIN files : files[f] # Bad  BY <2>2, FilesAre, RegistersAreRead
  <2>4. Reg!Loads  BY <2>2, <2>3 DEF Reg!Loads, Clean, CleanCard
  <2> QED BY <2>1, <2>4 DEF Reg!ReadBack
<1>6. Reg!ListIsSound  BY DEF RegInv
<1>7. Reg!OfferedIsSent  BY LevelsSent
<1>8. Reg!TypeOK
  <2>1. DOMAIN reg = FileNames /\ DOMAIN files = FileNames  BY FilesAre DEF RegInv, RegShape
  <2>2. Reg!ToSet(Reg!Files) = FileNames
    <3>1. DOMAIN Reg!Files = 1..4  BY FilesAre
    <3> QED BY <3>1, FilesAre DEF Reg!ToSet
  <2>3. \A c \in Clients : form[c].what \in {"idle", "try", "model", "settings"}
    BY DEF RegInv, RegShape, Filled
  <2>4. alive \in BOOLEAN /\ failed \in BOOLEAN /\ mixed \in BOOLEAN /\ writes \in 0..MaxWrites
    BY DEF RegInv, RegShape
  <2> QED BY <2>1, <2>2, <2>3, <2>4 DEF Reg!TypeOK
<1> QED BY <1>3, <1>4, <1>5, <1>6, <1>7, <1>8

-----------------------------------------------------------------------------
(* The packages of a session: what a request is answered with.             *)
Finds(c) == Plan!Answer(c).found
Answered(c) == Plan!Answer(c).by # "nobody"

\* Of one id and version there is one; only a session fixes versions.
PlanInputs ==
  /\ use \in {"session", "once", "guest", "build"}
  /\ lib \subseteq Packs /\ \A p, q \in lib : p.id = q.id /\ p.version = q.version => p = q
  /\ wants \in Seq([module : {wants[k].module : k \in DOMAIN wants}, cap : {wants[k].cap : k \in DOMAIN wants}])
  /\ use \notin {"session", "guest"} => pins = <<>>
Tickets == [module : Plan!Modules, cap : Plan!Caps]

(* The first of some packages is one of them.                              *)
LEMMA FirstOf ==
  ASSUME NEW ps \in SUBSET Packs, ps # {}
  PROVE  Plan!First(ps) \in ps
<1> DEFINE V == {p.version : p \in ps}
<1>1. V \in SUBSET Nat /\ V # {}  BY PackageAssumption
<1>2. PICK n \in V : \A m \in V : n =< m
  <2> HIDE DEF V
  <2> QED BY <1>1, LeastOf
<1>3. PICK p \in ps : p.version = n  OBVIOUS
<1>4. \A q \in ps : p.version <= q.version  BY <1>2, <1>3
<1> HIDE DEF V
<1> QED BY <1>4 DEF Plan!First

(* An answer is one package of that id, of the version that was fixed, or  *)
(* somebody else who provides it, or a problem.                            *)
LEMMA AnswerIs ==
  ASSUME PlanInputs, NEW c
  PROVE  /\ Finds(c) \subseteq lib /\ \A p \in Finds(c) : p.id = c /\ (c \in DOMAIN pins => p.version = pins[c])
         /\ Finds(c) = {} \/ \E p : Finds(c) = {p}
         /\ Answered(c) <=> Plan!Answer(c).problem = "none"
<1> DEFINE Good(a) == /\ a.found \subseteq lib
                      /\ \A p \in a.found : p.id = c /\ (c \in DOMAIN pins => p.version = pins[c])
                      /\ a.found = {} \/ \E p : a.found = {p}
                      /\ a.by # "nobody" <=> a.problem = "none"
           vs == Plan!Versions(Plan!Eligible, c)
<1>1. \A who : who # "nobody" => Good(Plan!By(who))  BY DEF Plan!By, Plan!Nobody
<1>2. \A what : what # "none" => Good(Plan!Problem(what))  BY DEF Plan!Problem, Plan!Nobody
<1>3. ASSUME NEW p \in lib, p.id = c, c \in DOMAIN pins => p.version = pins[c] PROVE Good(Plan!Chosen(p))
  <2>1. Plan!Chosen(p).found = {p} /\ Plan!Chosen(p).by = "package" /\ Plan!Chosen(p).problem = "none"
    BY DEF Plan!Chosen, Plan!Nobody
  <2> QED BY <1>3, <2>1
<1>4. vs \subseteq lib /\ \A p \in vs : p.id = c
  BY DEF Plan!Versions, Plan!Eligible, Plan!ForTarget
<1>5. lib \subseteq Packs  BY DEF PlanInputs
<1>6. Good(Plan!FromHost(c))
  <2> HIDE DEF Good
  <2> QED BY <1>1, <1>2 DEF Plan!FromHost
<1>7. vs # {} => Good(Plan!Picked(c))
  <2> SUFFICES ASSUME vs # {} PROVE Good(Plan!Picked(c))  OBVIOUS
  <2> DEFINE fixed == {p \in vs : p.version = pins[c]}
  <2>1. CASE c \in DOMAIN pins
    <3>1. fixed # {} => Plan!First(fixed) \in fixed
      <4>1. fixed \in SUBSET Packs  BY <1>4, <1>5
      <4> HIDE DEF fixed
      <4> QED BY <4>1, FirstOf
    <3>2. fixed # {} => Good(Plan!Chosen(Plan!First(fixed)))
      <4> SUFFICES ASSUME fixed # {} PROVE Good(Plan!Chosen(Plan!First(fixed)))  OBVIOUS
      <4>1. Plan!First(fixed) \in lib /\ Plan!First(fixed).id = c /\ Plan!First(fixed).version = pins[c]
        BY <1>4, <3>1
      <4> HIDE DEF Good, fixed
      <4> QED BY <1>3, <4>1
    <3>3. (Plan!Picked(c) = Plan!Chosen(Plan!First(fixed)) /\ fixed # {})
            \/ Plan!Picked(c) = Plan!Problem("target") \/ Plan!Picked(c) = Plan!Problem("pin")
      BY <2>1 DEF Plan!Picked
    <3> HIDE DEF Good, fixed
    <3> QED BY <1>2, <3>2, <3>3
  <2>2. CASE c \notin DOMAIN pins
    <3>1. Plan!First(vs) \in vs
      <4> HIDE DEF vs
      <4> QED BY <1>4, <1>5, FirstOf
    <3>2. Good(Plan!Chosen(Plan!First(vs)))
      <4>1. Plan!First(vs) \in lib /\ Plan!First(vs).id = c  BY <1>4, <3>1
      <4> HIDE DEF Good, vs
      <4> QED BY <1>3, <2>2, <4>1
    <3>3. Plan!Picked(c) = Plan!Chosen(Plan!First(vs)) \/ Plan!Picked(c) = Plan!Problem("ambiguous")
      BY <2>2 DEF Plan!Picked
    <3> HIDE DEF Good, vs
    <3> QED BY <1>2, <3>2, <3>3
  <2> QED BY <2>1, <2>2
<1>8. Good(Plan!OnTheHost(c))
  <2>1. Plan!OnTheHost(c) = Plan!FromHost(c) \/ Plan!OnTheHost(c) = Plan!Problem("bin")
          \/ (vs # {} /\ Plan!OnTheHost(c) = Plan!Picked(c))
    BY DEF Plan!OnTheHost
  <2> HIDE DEF Good, vs
  <2> QED BY <1>2, <1>6, <1>7, <2>1
<1>9. Good(Plan!InTheGuest(c))
  <2>1. Plan!InTheGuest(c) = Plan!By("image") \/ Plan!InTheGuest(c) = Plan!Problem("missing")
          \/ (vs # {} /\ Plan!InTheGuest(c) = Plan!Picked(c))
    BY DEF Plan!InTheGuest
  <2> HIDE DEF Good, vs
  <2> QED BY <1>1, <1>2, <1>7, <2>1
<1>10. use \notin {"session", "guest"} => Good(Plan!InABuild(c))
  <2> SUFFICES ASSUME use \notin {"session", "guest"} PROVE Good(Plan!InABuild(c))  OBVIOUS
  <2>1. c \notin DOMAIN pins  BY DEF PlanInputs
  <2>2. Plan!InABuild(c) = Plan!By("image") \/ Plan!InABuild(c) = Plan!Problem("missing")
          \/ (vs # {} /\ Plan!InABuild(c) = Plan!Chosen(Plan!First(vs)))
    BY DEF Plan!InABuild
  <2>3. vs # {} => Plan!First(vs) \in vs
    <3> HIDE DEF vs
    <3> QED BY <1>4, <1>5, FirstOf
  <2>4. vs # {} => Good(Plan!Chosen(Plan!First(vs)))
    <3> SUFFICES ASSUME vs # {} PROVE Good(Plan!Chosen(Plan!First(vs)))  OBVIOUS
    <3>1. Plan!First(vs) \in lib /\ Plan!First(vs).id = c  BY <1>4, <2>3
    <3> HIDE DEF Good, vs
    <3> QED BY <1>3, <2>1, <3>1
  <2> HIDE DEF Good, vs
  <2> QED BY <1>1, <1>2, <2>2, <2>4
<1>11. Good(Plan!Answer(c))
  <2> HIDE DEF Good
  <2> QED BY <1>8, <1>9, <1>10 DEF Plan!Answer, Plan!OnHost, PlanInputs
<1> QED BY <1>11 DEF Finds, Answered

(* In a guest the walk that makes the plan finds what the walk before it   *)
(* was answered with.                                                      *)
LEMMA AssembledIs ==
  ASSUME PlanInputs, use = "guest", NEW c, Answered(c)
  PROVE  Plan!Assembled(c) = Finds(c)
<1> DEFINE vs == Plan!Versions(Plan!Eligible, c)
           fixed == {p \in vs : p.version = pins[c]}
<1>0. Plan!Answer(c) = Plan!InTheGuest(c) /\ Plan!InTheGuest(c).by # "nobody"
  BY DEF Plan!Answer, Plan!OnHost, Answered
<1>1. \A what : Plan!Problem(what).by = "nobody" /\ Plan!By(what).found = {}
  BY DEF Plan!Problem, Plan!By, Plan!Nobody
<1>2. \A p : Plan!Chosen(p).found = {p}  BY DEF Plan!Chosen, Plan!Nobody
<1>3. vs \subseteq lib /\ lib \subseteq Packs /\ \A p \in vs : p.id = c
  BY DEF Plan!Versions, Plan!Eligible, Plan!ForTarget, PlanInputs
<1>4. CASE vs = {}
  <2>1. Plan!InTheGuest(c) = Plan!By("image") \/ Plan!InTheGuest(c) = Plan!Problem("missing")
    BY <1>4 DEF Plan!InTheGuest
  <2>2. Finds(c) = {}  BY <1>0, <1>1, <2>1 DEF Finds
  <2>3. Plan!Assembled(c) = {}  BY <1>4 DEF Plan!Assembled
  <2> QED BY <2>2, <2>3
<1>5. CASE vs # {} /\ c \in DOMAIN pins
  <2>1. Plan!Answer(c) = Plan!Picked(c) /\ Plan!Answer(c).by # "nobody"  BY <1>0, <1>5 DEF Plan!InTheGuest
  <2>2. (Plan!Picked(c) = Plan!Chosen(Plan!First(fixed)) /\ fixed # {})
          \/ Plan!Picked(c) = Plan!Problem("target") \/ Plan!Picked(c) = Plan!Problem("pin")
    BY <1>5 DEF Plan!Picked
  <2>3. Plan!Assembled(c) = fixed  BY <1>5 DEF Plan!Assembled
  <2>4. fixed \in SUBSET Packs /\ \A p, q \in fixed : p = q  BY <1>3 DEF PlanInputs
  <2> HIDE DEF vs, fixed
  <2>5. Plan!Answer(c) = Plan!Chosen(Plan!First(fixed)) /\ fixed # {}  BY <1>1, <2>1, <2>2
  <2>6. Plan!First(fixed) \in fixed  BY <2>4, <2>5, FirstOf
  <2>7. fixed = {Plan!First(fixed)}  BY <2>4, <2>6
  <2> QED BY <1>2, <2>3, <2>5, <2>7 DEF Finds
<1>6. CASE vs # {} /\ c \notin DOMAIN pins
  <2>1. Plan!Answer(c) = Plan!Picked(c) /\ Plan!Answer(c).by # "nobody"  BY <1>0, <1>6 DEF Plan!InTheGuest
  <2>2. Plan!Picked(c) = Plan!Chosen(Plan!First(vs)) \/ Plan!Picked(c) = Plan!Problem("ambiguous")
    BY <1>6 DEF Plan!Picked
  <2>3. Plan!Assembled(c) = {Plan!First(vs)}  BY <1>6 DEF Plan!Assembled
  <2> HIDE DEF vs
  <2> QED BY <1>1, <1>2, <2>1, <2>2, <2>3 DEF Finds
<1> QED BY <1>4, <1>5, <1>6

(* The elements of a finite set, in a row.                                 *)
LEMMA RowOf ==
  ASSUME NEW S, IsFiniteSet(S)
  PROVE  Plan!SetToSeq(S) \in Seq(S) /\ Plan!ToSet(Plan!SetToSeq(S)) = S
<1> DEFINE n == Cardinality(S)
           s == Plan!SetToSeq(S)
<1>1. n \in Nat /\ ExistsBijection(1..n, S)  BY FS_CardinalityType
<1>2. Plan!Cardinality(S) = n  BY DEF Plan!Cardinality, Cardinality
<1> HIDE DEF n
<1>3. PICK t : t \in Bijection(1..n, S)  BY <1>1 DEF ExistsBijection
<1>4. t \in [1..n -> S] /\ \A i, j \in DOMAIN t : t[i] = t[j] => i = j
  BY <1>3 DEF Bijection, Injection, IsInjective
<1>5. s \in [1..n -> S] /\ \A i, j \in DOMAIN s : s[i] = s[j] => i = j
  BY <1>2, <1>4, Zenon DEF Plan!SetToSeq
<1> HIDE DEF s
<1>6. s \in Injection(1..n, S)  BY <1>5 DEF Injection, IsInjective
<1>7. Cardinality(1..n) = n
  <2>1. 1 \in Int /\ n \in Int  BY <1>1
  <2>2. Cardinality(1..n) = IF 1 > n THEN 0 ELSE n - 1 + 1  BY <2>1, FS_Interval
  <2> QED BY <1>1, <2>2
<1>8. s \in Surjection(1..n, S)  BY <1>6, <1>7, FS_Injection DEF n
<1>9. \A x \in S : \E i \in 1..n : s[i] = x  BY <1>8 DEF Surjection
<1>10. s \in Seq(S) /\ DOMAIN s = 1..n  BY <1>1, <1>5
<1> QED BY <1>5, <1>9, <1>10 DEF Plan!ToSet, s

(* What a package needs is asked for on behalf of who asked for it.        *)
AsksOf(found, m) == {[module |-> m, cap |-> c] : c \in UNION {p.requires : p \in found}}
Follow(found, m) == Plan!FoldLeft(LAMBDA s, p : s \o Plan!Requests(p, m), <<>>, Plan!SetToSeq(found))

LEMMA FollowIs ==
  ASSUME NEW found \in SUBSET Packs, found = {} \/ \E p : found = {p}, NEW m
  PROVE  Follow(found, m) \in Seq(AsksOf(found, m)) /\ Plan!ToSet(Follow(found, m)) = AsksOf(found, m)
<1> SUFFICES \E S : /\ S = {[module |-> m, cap |-> c] : c \in UNION {p.requires : p \in found}}
                   /\ Follow(found, m) \in Seq(S) /\ Plan!ToSet(Follow(found, m)) = S
  BY DEF AsksOf
<1>1. IsFiniteSet(found)
  <2>1. IsFiniteSet({})  BY FS_EmptySet
  <2> QED BY <2>1, FS_Singleton
<1> DEFINE row == Plan!SetToSeq(found)
           join(s, p) == s \o Plan!Requests(p, m)
           Fold(g) == g = [n \in 0..Len(row) |-> IF n = 0 THEN <<>> ELSE join(g[n - 1], row[n])]
           h == CHOOSE g : Fold(g)
<1>2. row \in Seq(found) /\ Plan!ToSet(row) = found  BY <1>1, RowOf
<1>3. Follow(found, m) = h[Len(row)]  BY DEF Follow, Plan!FoldLeft, join
<1>4. CASE found = {}
  <2>1. Len(row) = 0  BY <1>2, <1>4
  <2> HIDE DEF row, join
  <2>2. Fold([n \in 0..0 |-> <<>>])  BY <2>1
  <2>3. Fold(h)  BY <2>2
  <2>4. h = [n \in 0..0 |-> IF n = 0 THEN <<>> ELSE join(h[n - 1], row[n])]  BY <2>1, <2>3
  <2> HIDE DEF h
  <2>5. h[0] = <<>>  BY <2>4
  <2>6. {[module |-> m, cap |-> c] : c \in UNION {p.requires : p \in found}} = {}  BY <1>4
  <2>7. <<>> \in Seq({}) /\ Plan!ToSet(<<>>) = {}  BY DEF Plan!ToSet
  <2> QED BY <1>3, <2>1, <2>5, <2>6, <2>7
<1>5. ASSUME NEW p, found = {p} PROVE \E S : /\ S = {[module |-> m, cap |-> c] : c \in UNION {q.requires : q \in found}}
                                            /\ Follow(found, m) \in Seq(S) /\ Plan!ToSet(Follow(found, m)) = S
  <2> DEFINE S == {[module |-> m, cap |-> c] : c \in p.requires}
  <2>1. Cardinality(found) = 1 /\ Plan!Cardinality(found) = 1
    <3>1. Cardinality(found) = 1  BY <1>5, FS_Singleton
    <3> QED BY <3>1 DEF Plan!Cardinality, Cardinality
  <2>2. Len(row) = 1 /\ row[1] = p
    <3>1. [i \in 1..1 |-> p] \in [1..Plan!Cardinality(found) -> found]
          /\ \A i, j \in DOMAIN [k \in 1..1 |-> p] : [k \in 1..1 |-> p][i] = [k \in 1..1 |-> p][j] => i = j
      BY <1>5, <2>1
    <3>2. row \in [1..Plan!Cardinality(found) -> found]  BY <3>1, Zenon DEF Plan!SetToSeq
    <3>3. row \in [1..1 -> {p}]  BY <1>5, <2>1, <3>2
    <3> HIDE DEF row
    <3> QED BY <1>2, <3>3
  <2>3. Plan!Requests(p, m) \in Seq(S) /\ Plan!ToSet(Plan!Requests(p, m)) = S
    <3>1. IsFiniteSet(p.requires)  BY <1>5, PackageAssumption
    <3>2. IsFiniteSet(S)
      <4> DEFINE f == [c \in p.requires |-> [module |-> m, cap |-> c]]
      <4>1. f \in Surjection(p.requires, S)
        <5>1. f \in [p.requires -> S]  OBVIOUS
        <5>2. \A t \in S : \E c \in p.requires : f[c] = t  OBVIOUS
        <5> QED BY <5>1, <5>2 DEF Surjection
      <4> HIDE DEF f, S
      <4> QED BY <3>1, <4>1, FS_Surjection
    <3> HIDE DEF S
    <3>3. Plan!SetToSeq(S) \in Seq(S) /\ Plan!ToSet(Plan!SetToSeq(S)) = S  BY <3>2, RowOf
    <3> QED BY <3>3 DEF Plan!Requests, S
  <2>4. <<>> \o Plan!Requests(p, m) = Plan!Requests(p, m)  BY <2>3
  <2> HIDE DEF row
  <2> DEFINE g1 == [n \in 0..1 |-> IF n = 0 THEN <<>> ELSE Plan!Requests(p, m)]
  <2>5. Fold(g1)
    <3>1. \A n \in 0..1 : n = 0 \/ n = 1  OBVIOUS
    <3>2. g1[0] = <<>> /\ g1[1] = Plan!Requests(p, m)  OBVIOUS
    <3>3. join(<<>>, p) = Plan!Requests(p, m)  BY <2>4
    <3> HIDE DEF join
    <3>4. \A n \in 0..1 : g1[n] = IF n = 0 THEN <<>> ELSE join(g1[n - 1], row[n])  BY <2>2, <3>1, <3>2, <3>3
    <3>5. g1 = [n \in 0..1 |-> g1[n]]  OBVIOUS
    <3> HIDE DEF g1
    <3> QED BY <2>2, <3>4, <3>5
  <2>6. Fold(h)  BY <2>5
  <2>7. h = [n \in 0..1 |-> IF n = 0 THEN <<>> ELSE join(h[n - 1], row[n])]  BY <2>2, <2>6
  <2> HIDE DEF h
  <2>8. h[0] = <<>> /\ h[1] = join(h[0], row[1])  BY <2>7
  <2>9. h[1] = Plan!Requests(p, m)  BY <2>2, <2>4, <2>8
  <2>10. S = {[module |-> m, cap |-> c] : c \in UNION {q.requires : q \in found}}  BY <1>5
  <2> QED BY <1>3, <2>2, <2>3, <2>9, <2>10
<1> QED BY <1>4, <1>5

-----------------------------------------------------------------------------
(* The two walks over what is needed.                                      *)
Open == seen \union Plan!ToSet(queue)
Noted(m, c) == IF use = "build" THEN \E q \in Open : q.cap = c ELSE [module |-> m, cap |-> c] \in Open
OwnCaps(m) == {wants[k].cap : k \in {j \in DOMAIN wants : wants[j].module = m}}
ClosedFor(ch, m) ==
  {s \in SUBSET Plan!Caps : OwnCaps(m) \subseteq s /\ \A p \in ch : p.id \in s => p.requires \subseteq s}
Needed(ch, m) == {c \in Plan!Caps : \A s \in ClosedFor(ch, m) : c \in s}
Complaint(r) == [what |-> Plan!Answer(r.cap).problem, module |-> r.module, cap |-> r.cap]

\* What is asked is needed; what was asked is answered, and what the answer needs
\* is asked in turn.
WalkShape == queue \in Seq(Tickets) /\ seen \subseteq Tickets /\ \A r \in Open : r.cap \in Needed(picked, r.module)
WalkAsks ==
  /\ \A w \in Plan!ToSet(wants) : Noted(w.module, w.cap)
  /\ \A r \in seen : \A p \in Finds(r.cap) : \A c \in p.requires : Noted(r.module, c)
WalkKeeps ==
  /\ \A r \in seen : /\ Finds(r.cap) \subseteq picked
                     /\ Answered(r.cap) => r.cap \in served
                     /\ ~Answered(r.cap) => Complaint(r) \in told
  /\ \A p \in picked : \E r \in seen : p \in Finds(r.cap)
  /\ \A c \in served : Answered(c) /\ \E r \in seen : r.cap = c
  /\ \A t \in told : \E r \in seen : ~Answered(r.cap) /\ t = Complaint(r)
WalkInv == WalkShape /\ WalkAsks /\ WalkKeeps

\* In a guest nothing is told before the second walk, which finds the same.
GuestClosed ==
  /\ \A c \in served : Answered(c) /\ \A p \in Finds(c) : p.requires \subseteq served
  /\ \A w \in Plan!ToSet(wants) : w.cap \in served
  /\ \A c, d \in served : \A p \in Finds(c), q \in Finds(d) : ~Plan!Clash(p, q)
GuestShape == queue \in Seq(Tickets) /\ seen \subseteq Tickets /\ \A r \in Open : r.cap \in served
GuestWalk ==
  /\ \A w \in Plan!ToSet(wants) : \E q \in Open : q.cap = w.cap
  /\ \A r \in seen : Finds(r.cap) \subseteq picked /\ \A p \in Finds(r.cap) : \A c \in p.requires : \E q \in Open : q.cap = c
  /\ \A p \in picked : \E r \in seen : p \in Finds(r.cap)
GuestInv ==
  /\ told # {} => stage = "done" /\ picked = {} /\ seen = {} /\ queue = <<>>
  /\ told = {} => GuestClosed /\ GuestShape /\ GuestWalk
PlanInv ==
  /\ PlanInputs
  /\ stage \in {"choose", "assemble", "done"} /\ (stage = "assemble" => use = "guest") /\ (stage = "done" => queue = <<>>)
  /\ IF use = "guest" /\ stage # "choose" THEN GuestInv ELSE WalkInv

(* What is asked for last, and what before it.                             *)
LEMMA LastOff ==
  ASSUME NEW T, NEW q \in Seq(T), q # <<>>
  PROVE  /\ Plan!Last(q) \in T /\ Plan!Front(q) \in Seq(T)
         /\ Plan!ToSet(q) = Plan!ToSet(Plan!Front(q)) \union {Plan!Last(q)}
<1> DEFINE n == Len(q)
<1>1. n \in Nat /\ n # 0 /\ DOMAIN q = 1..n /\ \A i \in 1..n : q[i] \in T  OBVIOUS
<1>2. Plan!Last(q) = q[n] /\ Plan!Last(q) \in T  BY <1>1 DEF Plan!Last
<1>3. Plan!Front(q) \in Seq(T) /\ Len(Plan!Front(q)) = n - 1 /\ DOMAIN Plan!Front(q) = 1..(n - 1)
      /\ \A i \in 1..(n - 1) : Plan!Front(q)[i] = q[i]
  BY <1>1 DEF Plan!Front
<1> HIDE DEF n
<1>4. \A i \in 1..n : i = n \/ i \in 1..(n - 1)  BY <1>1
<1>5. n \in 1..n /\ \A i \in 1..(n - 1) : i \in 1..n  BY <1>1
<1>6. \A x \in Plan!ToSet(q) : x \in Plan!ToSet(Plan!Front(q)) \union {Plan!Last(q)}
  BY <1>1, <1>2, <1>3, <1>4 DEF Plan!ToSet
<1>7. \A x \in Plan!ToSet(Plan!Front(q)) \union {Plan!Last(q)} : x \in Plan!ToSet(q)
  BY <1>1, <1>2, <1>3, <1>5 DEF Plan!ToSet
<1> QED BY <1>2, <1>3, <1>6, <1>7

(* What is in two lists that are joined.                                   *)
LEMMA JoinOf ==
  ASSUME NEW T, NEW s \in Seq(T), NEW t \in Seq(T)
  PROVE  s \o t \in Seq(T) /\ Plan!ToSet(s \o t) = Plan!ToSet(s) \union Plan!ToSet(t)
<1> DEFINE u == s \o t
           n == Len(s)
           m == Len(t)
<1>1. /\ n \in Nat /\ m \in Nat /\ u \in Seq(T) /\ DOMAIN s = 1..n /\ DOMAIN t = 1..m /\ DOMAIN u = 1..(n + m)
      /\ \A i \in 1..(n + m) : u[i] = IF i <= n THEN s[i] ELSE t[i - n]
  OBVIOUS
<1> HIDE DEF u, n, m
<1>2. \A i \in 1..(n + m) : i \in 1..n \/ i - n \in 1..m  BY <1>1
<1>3. \A i \in 1..n : i \in 1..(n + m) /\ i <= n  BY <1>1
<1>4. \A i \in 1..m : i + n \in 1..(n + m) /\ ~(i + n <= n) /\ i + n - n = i  BY <1>1
<1>5. \A x \in Plan!ToSet(u) : x \in Plan!ToSet(s) \union Plan!ToSet(t)
  <2> SUFFICES ASSUME NEW i \in 1..(n + m) PROVE u[i] \in Plan!ToSet(s) \union Plan!ToSet(t)
    BY <1>1 DEF Plan!ToSet
  <2>1. CASE i <= n
    <3>1. i \in 1..n  BY <1>1, <2>1
    <3> QED BY <1>1, <2>1, <3>1 DEF Plan!ToSet
  <2>2. CASE ~(i <= n)
    <3>1. i - n \in 1..m  BY <1>1, <2>2
    <3> QED BY <1>1, <2>2, <3>1 DEF Plan!ToSet
  <2> QED BY <2>1, <2>2
<1>6. \A x \in Plan!ToSet(s) : x \in Plan!ToSet(u)  BY <1>1, <1>3 DEF Plan!ToSet
<1>7. \A x \in Plan!ToSet(t) : x \in Plan!ToSet(u)
  <2> SUFFICES ASSUME NEW i \in 1..m PROVE t[i] \in Plan!ToSet(u)  BY <1>1 DEF Plan!ToSet
  <2>1. u[i + n] = t[i]  BY <1>1, <1>4
  <2> QED BY <1>1, <1>4, <2>1 DEF Plan!ToSet
<1>8. Plan!ToSet(u) = Plan!ToSet(s) \union Plan!ToSet(t)  BY <1>5, <1>6, <1>7
<1> QED BY <1>1, <1>8 DEF u

(* What the walks go by does not change under them.                        *)
LEMMA InputsSame ==
  ASSUME UNCHANGED Plan!inputs
  PROVE  /\ \A c : Plan!Answer(c)' = Plan!Answer(c)
         /\ \A c : Finds(c)' = Finds(c)
         /\ \A c : Answered(c)' <=> Answered(c)
         /\ Tickets' = Tickets /\ (PlanInputs <=> PlanInputs')
<1>1. use' = use /\ lib' = lib /\ wants' = wants /\ pins' = pins /\ host' = host /\ native' = native
  BY DEF Plan!inputs
<1>2. \A c : Plan!Answer(c)' = Plan!Answer(c)
  BY <1>1 DEF Plan!Answer, Plan!OnHost, Plan!OnTheHost, Plan!InTheGuest, Plan!InABuild, Plan!Picked, Plan!FromHost,
       Plan!Versions, Plan!Eligible, Plan!ForTarget, Plan!First, Plan!By, Plan!Problem, Plan!Chosen, Plan!Nobody
<1>3. \A c : Finds(c)' = Finds(c)
  BY <1>1 DEF Finds, Plan!Answer, Plan!OnHost, Plan!OnTheHost, Plan!InTheGuest, Plan!InABuild, Plan!Picked, Plan!FromHost,
       Plan!Versions, Plan!Eligible, Plan!ForTarget, Plan!First, Plan!By, Plan!Problem, Plan!Chosen, Plan!Nobody
<1>4. \A c : Answered(c)' <=> Answered(c)
  BY <1>1 DEF Answered, Plan!Answer, Plan!OnHost, Plan!OnTheHost, Plan!InTheGuest, Plan!InABuild, Plan!Picked, Plan!FromHost,
       Plan!Versions, Plan!Eligible, Plan!ForTarget, Plan!First, Plan!By, Plan!Problem, Plan!Chosen, Plan!Nobody
<1>5. Tickets' = Tickets  BY <1>1 DEF Tickets, Plan!Modules, Plan!Caps
<1>6. PlanInputs <=> PlanInputs'  BY <1>1 DEF PlanInputs
<1> QED BY <1>2, <1>3, <1>4, <1>5, <1>6

(* What is needed is wanted, or needed by what is chosen.                  *)
LEMMA NeededIs ==
  ASSUME NEW ch, NEW m
  PROVE  /\ Plan!Needs(m) = Needed(picked, m) /\ Needed(ch, m) \subseteq Plan!Caps
         /\ \A k \in DOMAIN wants : wants[k].module = m => wants[k].cap \in Needed(ch, m)
         /\ \A p \in ch : p.id \in Needed(ch, m) => \A c \in p.requires \intersect Plan!Caps : c \in Needed(ch, m)
         /\ \A more : ch \subseteq more => Needed(ch, m) \subseteq Needed(more, m)
         /\ \A s \in ClosedFor(ch, m) : Needed(ch, m) \subseteq s
<1>1. Plan!Needs(m) = Needed(picked, m)  BY DEF Plan!Needs, Needed, ClosedFor, OwnCaps
<1>2. Needed(ch, m) \subseteq Plan!Caps /\ \A s \in ClosedFor(ch, m) : Needed(ch, m) \subseteq s  BY DEF Needed
<1>3. \A k \in DOMAIN wants : wants[k].module = m => wants[k].cap \in Needed(ch, m)
  <2> SUFFICES ASSUME NEW k \in DOMAIN wants, wants[k].module = m PROVE wants[k].cap \in Needed(ch, m)  OBVIOUS
  <2>1. wants[k].cap \in OwnCaps(m) /\ wants[k].cap \in Plan!Caps  BY DEF OwnCaps, Plan!Caps
  <2> QED BY <2>1 DEF Needed, ClosedFor
<1>4. \A p \in ch : p.id \in Needed(ch, m) => \A c \in p.requires \intersect Plan!Caps : c \in Needed(ch, m)
  BY DEF Needed, ClosedFor
<1>5. ASSUME NEW more, ch \subseteq more PROVE Needed(ch, m) \subseteq Needed(more, m)
  <2>1. ClosedFor(more, m) \subseteq ClosedFor(ch, m)  BY <1>5 DEF ClosedFor
  <2> QED BY <2>1 DEF Needed
<1> QED BY <1>1, <1>2, <1>3, <1>4, <1>5

(* The plan begins with what the modules want.                             *)
LEMMA PlanStarts == Plan!Init => PlanInv
<1> SUFFICES ASSUME Plan!Init PROVE PlanInv  OBVIOUS
<1>1. /\ use \in {"session", "once", "guest", "build"} /\ wants \in Wishes
      /\ use \notin {"session", "guest"} => pins = <<>>
      /\ queue = wants /\ seen = {} /\ picked = {} /\ served = {} /\ told = {} /\ stage = "choose"
  BY DEF Plan!Init, Plan!Uses
<1>2. PICK found \in SUBSET Packs : lib \in Plan!Library(found)  BY DEF Plan!Init
<1>3. lib \subseteq Packs /\ \A p, q \in lib : p.id = q.id /\ p.version = q.version => p = q
  <2>1. lib \subseteq found /\ \A p \in lib : p \in found /\ p.legal  BY <1>2 DEF Plan!Library
  <2>2. ASSUME NEW p \in lib, NEW q \in lib, p.id = q.id, p.version = q.version PROVE p = q
    <3> DEFINE same == {x \in lib : x.id = p.id /\ x.version = p.version}
    <3>1. Plan!Cardinality(same) = 1  BY <1>2, <2>1 DEF Plan!Library
    <3>2. Cardinality(same) = 1  BY <3>1 DEF Plan!Cardinality, Cardinality
    <3>3. same \in SUBSET Packs  BY <2>1
    <3>4. p \in same /\ q \in same  BY <2>2
    <3> HIDE DEF same
    <3>5. IsFiniteSet(same)  BY <3>3, PackageAssumption, FS_Subset
    <3>6. \E x : same = {x}  BY <3>2, <3>5, FS_Singleton
    <3> QED BY <3>4, <3>6
  <2> QED BY <2>1, <2>2
<1>4. wants \in Seq([module : {wants[k].module : k \in DOMAIN wants}, cap : {wants[k].cap : k \in DOMAIN wants}])
  BY <1>1, PackageAssumption
<1>5. PlanInputs  BY <1>1, <1>3, <1>4 DEF PlanInputs
<1>6. wants \in Seq(Tickets)
  <2> DEFINE T == [module : {wants[k].module : k \in DOMAIN wants}, cap : {wants[k].cap : k \in DOMAIN wants}]
  <2>1. T \subseteq Tickets  BY DEF Tickets, Plan!Modules, Plan!Caps
  <2>2. wants \in Seq(T)  BY <1>4
  <2> HIDE DEF T
  <2> QED BY <2>1, <2>2
<1>7. Open = Plan!ToSet(wants) /\ \A k \in DOMAIN wants : wants[k] \in Open
  BY <1>1 DEF Open, Plan!ToSet
<1>8. WalkShape
  <2>1. \A r \in Open : r.cap \in Needed(picked, r.module)
    <3> SUFFICES ASSUME NEW r \in Open PROVE r.cap \in Needed(picked, r.module)  OBVIOUS
    <3>1. PICK k \in DOMAIN wants : r = wants[k]  BY <1>7 DEF Plan!ToSet
    <3> QED BY <3>1, NeededIs
  <2> QED BY <1>1, <1>6, <2>1 DEF WalkShape
<1>9. WalkAsks
  <2>1. \A w \in Plan!ToSet(wants) : w \in Tickets
    <3> HIDE DEF Tickets
    <3> QED BY <1>6 DEF Plan!ToSet
  <2>2. \A w \in Plan!ToSet(wants) : w = [module |-> w.module, cap |-> w.cap]  BY <2>1 DEF Tickets
  <2> QED BY <1>1, <1>7, <2>2 DEF WalkAsks, Noted
<1>10. WalkKeeps  BY <1>1 DEF WalkKeeps
<1> QED BY <1>1, <1>5, <1>8, <1>9, <1>10 DEF PlanInv, WalkInv

(* A request of the first walk.                                            *)
LEMMA ChooseKeeps == PlanInv /\ Plan!Choose => PlanInv'
<1> SUFFICES ASSUME PlanInv, Plan!Choose PROVE PlanInv'  OBVIOUS
<1>0. PICK r : r = Plan!Last(queue)  OBVIOUS
<1> DEFINE a == Plan!Answer(r.cap)
           F == Follow(a.found, r.module)
<1>1. stage = "choose" /\ queue # <<>> /\ UNCHANGED Plan!inputs /\ stage' = stage /\ use' = use /\ wants' = wants
  BY DEF Plan!Choose, Plan!inputs
<1>2. PlanInputs /\ WalkInv  BY <1>1 DEF PlanInv
<1>3. /\ \A c : Plan!Answer(c)' = Plan!Answer(c)
      /\ \A c : Finds(c)' = Finds(c)
      /\ \A c : Answered(c)' <=> Answered(c)
      /\ Tickets' = Tickets /\ PlanInputs'
  BY <1>1, <1>2, InputsSame
<1>4. /\ r \in Tickets /\ Plan!Front(queue) \in Seq(Tickets)
      /\ Plan!ToSet(queue) = Plan!ToSet(Plan!Front(queue)) \union {r}
  BY <1>0, <1>1, <1>2, LastOff DEF WalkInv, WalkShape
<1>5. \A m : Needed(picked, m)' = Needed(picked', m)
  BY <1>1 DEF Needed, ClosedFor, OwnCaps, Plan!Caps, Plan!inputs
<1>6. \A rr : Complaint(rr)' = Complaint(rr)  BY <1>3 DEF Complaint
<1>7. CASE Plan!Seen(r)
  <2>1. queue' = Plan!Front(queue) /\ UNCHANGED <<seen, picked, served, told>>
    BY <1>0, <1>7 DEF Plan!Choose
  <2>2. Open' \subseteq Open  BY <1>4, <2>1 DEF Open
  <2>3. \A m, c : Noted(m, c) => Noted(m, c)'
    <3> SUFFICES ASSUME NEW m, NEW c, Noted(m, c) PROVE Noted(m, c)'  OBVIOUS
    <3>1. CASE use = "build"
      <4>1. \E q \in seen : q.cap = r.cap  BY <1>7, <3>1 DEF Plan!Seen, Plan!Looked
      <4>2. PICK q \in Open : q.cap = c  BY <3>1 DEF Noted
      <4>3. \E q1 \in Open' : q1.cap = c  BY <1>4, <2>1, <4>1, <4>2 DEF Open
      <4> QED BY <1>1, <3>1, <4>3 DEF Noted
    <3>2. CASE use # "build"
      <4>1. r \in seen  BY <1>7, <3>2 DEF Plan!Seen
      <4>2. Open' = Open  BY <1>4, <2>1, <4>1 DEF Open
      <4> QED BY <1>1, <3>2, <4>2 DEF Noted
    <3> QED BY <3>1, <3>2
  <2>4. WalkShape'
    <3>1. \A q \in Open' : q.cap \in Needed(picked', q.module)  BY <1>2, <2>1, <2>2 DEF WalkInv, WalkShape
    <3> QED BY <1>2, <1>3, <1>4, <1>5, <2>1, <3>1 DEF WalkInv, WalkShape
  <2>5. WalkAsks'  BY <1>1, <1>2, <1>3, <2>1, <2>3 DEF WalkInv, WalkAsks, Plan!ToSet
  <2>6. WalkKeeps'  BY <1>2, <1>3, <1>6, <2>1 DEF WalkInv, WalkKeeps
  <2> QED BY <1>1, <1>3, <2>4, <2>5, <2>6 DEF PlanInv, WalkInv
<1>8. CASE ~Plan!Seen(r)
  <2>1. /\ seen' = seen \union {r} /\ picked' = picked \union a.found
        /\ served' = (IF a.by = "nobody" THEN served ELSE served \union {r.cap})
        /\ told' = (IF a.problem = "none" THEN told
                    ELSE told \union {[what |-> a.problem, module |-> r.module, cap |-> r.cap]})
    BY <1>0, <1>8 DEF Plan!Choose
  <2>2. queue' = Plan!Front(queue) \o F
    <3> DEFINE r0 == Plan!Last(queue)
    <3>1. ~Plan!Seen(Plan!Last(queue))  BY <1>0, <1>8
    <3>2. queue' = Plan!Front(queue) \o Follow(Plan!Answer(r0.cap).found, r0.module)
      BY <3>1 DEF Plan!Choose, Follow, Plan!FoldLeft
    <3> QED BY <1>0, <3>2
  <2>3. /\ Finds(r.cap) \subseteq lib /\ \A p \in Finds(r.cap) : p.id = r.cap
        /\ Finds(r.cap) = {} \/ \E p : Finds(r.cap) = {p}
        /\ Answered(r.cap) <=> Plan!Answer(r.cap).problem = "none"
    BY <1>2, AnswerIs
  <2>4. a.found = Finds(r.cap)  BY DEF Finds
  <2>5. Finds(r.cap) \in SUBSET Packs  BY <1>2, <2>3 DEF PlanInputs
  <2>6. PICK S : /\ S = {[module |-> r.module, cap |-> c] : c \in UNION {p.requires : p \in Finds(r.cap)}}
                 /\ F \in Seq(S) /\ Plan!ToSet(F) = S
    <3> DEFINE found == Finds(r.cap)
    <3>1. F = Follow(found, r.module)  BY <2>4
    <3>2. found \in SUBSET Packs /\ (found = {} \/ \E p : found = {p})  BY <2>3, <2>5
    <3> HIDE DEF found
    <3>3. Follow(found, r.module) \in Seq(AsksOf(found, r.module))
          /\ Plan!ToSet(Follow(found, r.module)) = AsksOf(found, r.module)
      BY <3>2, FollowIs
    <3> HIDE DEF F
    <3> QED BY <3>1, <3>3 DEF AsksOf, found
  <2>7. \A c \in UNION {p.requires : p \in Finds(r.cap)} : c \in Plan!Caps  BY <2>3 DEF Plan!Caps
  <2>8. r.module \in Plan!Modules /\ r = [module |-> r.module, cap |-> r.cap]  BY <1>4 DEF Tickets
  <2>9. S \subseteq Tickets  BY <2>6, <2>7, <2>8 DEF Tickets
  <2> HIDE DEF a, F
  <2>10. F \in Seq(Tickets)  BY <2>6, <2>9
  <2>11. queue' \in Seq(Tickets) /\ Plan!ToSet(queue') = Plan!ToSet(Plan!Front(queue)) \union S
    BY <1>4, <2>2, <2>6, <2>10, JoinOf
  <2>12. Open' = Open \union S
    <3>1. Open' = seen' \union Plan!ToSet(queue')  BY DEF Open, Plan!ToSet
    <3> QED BY <1>4, <2>1, <2>11, <3>1 DEF Open
  <2>13. \A m, c : Noted(m, c) => Noted(m, c)'  BY <1>1, <2>12 DEF Noted
  <2>14. \A c \in UNION {p.requires : p \in Finds(r.cap)} : Noted(r.module, c)'
    <3> SUFFICES ASSUME NEW c \in UNION {p.requires : p \in Finds(r.cap)} PROVE Noted(r.module, c)'  OBVIOUS
    <3> DEFINE q == [module |-> r.module, cap |-> c]
    <3>1. q \in Open' /\ q.cap = c  BY <2>6, <2>12
    <3>2. (use = "build" => \E x \in Open' : x.cap = c) /\ (use # "build" => q \in Open')  BY <3>1
    <3> QED BY <1>1, <3>2 DEF Noted
  <2>15. \A q \in Open' : q.cap \in Needed(picked', q.module)
    <3>1. \A m : Needed(picked, m) \subseteq Needed(picked', m)  BY <2>1, NeededIs
    <3>2. \A q \in Open : q.cap \in Needed(picked', q.module)  BY <1>2, <3>1 DEF WalkInv, WalkShape
    <3>3. r \in Open  BY <1>4 DEF Open
    <3>4. r.cap \in Needed(picked', r.module)  BY <3>2, <3>3
    <3>5. ASSUME NEW q \in S PROVE q.cap \in Needed(picked', q.module)
      <4>0. PICK c : (\E p \in Finds(r.cap) : c \in p.requires) /\ q = [module |-> r.module, cap |-> c]  BY <2>6
      <4>1. PICK p \in Finds(r.cap) : c \in p.requires /\ q = [module |-> r.module, cap |-> c]  BY <4>0
      <4>2. p \in picked' /\ p.id = r.cap /\ c \in Plan!Caps  BY <2>1, <2>3, <2>4, <2>7, <4>1
      <4>3. c \in Needed(picked', r.module)  BY <3>4, <4>1, <4>2, NeededIs
      <4> QED BY <4>1, <4>3
    <3> QED BY <2>12, <3>2, <3>5
  <2>16. WalkShape'
    <3>1. seen' \subseteq Tickets  BY <1>2, <1>4, <2>1 DEF WalkInv, WalkShape
    <3> QED BY <1>3, <1>5, <2>11, <2>15, <3>1 DEF WalkShape
  <2>17. WalkAsks'
    <3>1. \A w \in Plan!ToSet(wants) : Noted(w.module, w.cap)'
      BY <1>2, <2>13 DEF WalkInv, WalkAsks
    <3>2. \A x \in seen' : \A p \in Finds(x.cap) : \A c \in p.requires : Noted(x.module, c)'
      <4> SUFFICES ASSUME NEW x \in seen', NEW p \in Finds(x.cap), NEW c \in p.requires PROVE Noted(x.module, c)'
        OBVIOUS
      <4>1. CASE x \in seen  BY <1>2, <2>13, <4>1 DEF WalkInv, WalkAsks
      <4>2. CASE x = r
        <5>1. Noted(r.module, c)'  BY <2>14, <4>2
        <5> QED BY <4>2, <5>1
      <4> QED BY <2>1, <4>1, <4>2
    <3> QED BY <1>1, <1>3, <3>1, <3>2 DEF WalkAsks, Plan!ToSet
  <2>18. WalkKeeps'
    <3>1. Answered(r.cap) <=> a.by # "nobody"  BY DEF Answered, a
    <3>2. Complaint(r) = [what |-> a.problem, module |-> r.module, cap |-> r.cap]  BY DEF Complaint, a
    <3>3. a.problem = "none" <=> Answered(r.cap)  BY <2>3 DEF a
    <3>4. \A x \in seen' : /\ Finds(x.cap) \subseteq picked'
                           /\ Answered(x.cap) => x.cap \in served'
                           /\ ~Answered(x.cap) => Complaint(x) \in told'
      <4> SUFFICES ASSUME NEW x \in seen' PROVE /\ Finds(x.cap) \subseteq picked'
                                                /\ Answered(x.cap) => x.cap \in served'
                                                /\ ~Answered(x.cap) => Complaint(x) \in told'
        OBVIOUS
      <4>1. CASE x \in seen  BY <1>2, <2>1, <4>1 DEF WalkInv, WalkKeeps
      <4>2. CASE x = r  BY <2>1, <2>4, <3>1, <3>2, <3>3, <4>2
      <4> QED BY <2>1, <4>1, <4>2
    <3>5. \A p \in picked' : \E x \in seen' : p \in Finds(x.cap)  BY <1>2, <2>1, <2>4 DEF WalkInv, WalkKeeps
    <3>6. \A c \in served' : Answered(c) /\ \E x \in seen' : x.cap = c
      BY <1>2, <2>1, <3>1 DEF WalkInv, WalkKeeps
    <3>7. \A t \in told' : \E x \in seen' : ~Answered(x.cap) /\ t = Complaint(x)
      BY <1>2, <2>1, <3>2, <3>3 DEF WalkInv, WalkKeeps
    <3> QED BY <1>3, <1>6, <3>4, <3>5, <3>6, <3>7 DEF WalkKeeps
  <2> QED BY <1>1, <1>3, <2>16, <2>17, <2>18 DEF PlanInv, WalkInv
<1> QED BY <1>7, <1>8

(* Where nothing is told and nothing clashes, the second walk has all that *)
(* it may ask for.                                                         *)
LEMMA JudgedWhole ==
  ASSUME PlanInputs, WalkInv, use = "guest", queue = <<>>, told = {}, Plan!Conflicts = {}
  PROVE  GuestClosed
<1>1. Open = seen  BY DEF Open, Plan!ToSet
<1>2. \A r \in seen : Answered(r.cap) /\ r.cap \in served /\ Finds(r.cap) \subseteq picked
  BY DEF WalkInv, WalkKeeps
<1>3. \A c \in served : Answered(c) /\ \E r \in seen : r.cap = c  BY DEF WalkInv, WalkKeeps
<1>4. ASSUME NEW c \in served, NEW p \in Finds(c), NEW d \in p.requires PROVE d \in served
  <2>1. PICK r \in seen : r.cap = c  BY <1>3
  <2>2. Noted(r.module, d)  BY <1>4, <2>1 DEF WalkInv, WalkAsks
  <2>3. \E q \in seen : q.cap = d
    <3>1. [module |-> r.module, cap |-> d] \in seen  BY <1>1, <2>2 DEF Noted
    <3> QED BY <3>1
  <2> QED BY <1>2, <2>3
<1>5. ASSUME NEW w \in Plan!ToSet(wants) PROVE w.cap \in served
  <2>1. Noted(w.module, w.cap)  BY <1>5 DEF WalkInv, WalkAsks
  <2>2. [module |-> w.module, cap |-> w.cap] \in seen  BY <1>1, <2>1 DEF Noted
  <2> QED BY <1>2, <2>2
<1>6. ASSUME NEW c \in served, NEW d \in served, NEW p \in Finds(c), NEW q \in Finds(d) PROVE ~Plan!Clash(p, q)
  <2>1. p \in picked /\ q \in picked  BY <1>2, <1>3
  <2> QED BY <2>1 DEF Plan!Conflicts
<1> QED BY <1>3, <1>4, <1>5, <1>6 DEF GuestClosed

(* What is wanted are tickets.                                             *)
LEMMA WantsAreTickets ==
  ASSUME PlanInputs
  PROVE  wants \in Seq(Tickets) /\ Plan!ToSet(wants) \subseteq Tickets
<1> DEFINE T == [module : {wants[k].module : k \in DOMAIN wants}, cap : {wants[k].cap : k \in DOMAIN wants}]
<1>1. T \subseteq Tickets  BY DEF Tickets, Plan!Modules, Plan!Caps
<1>2. wants \in Seq(T)  BY DEF PlanInputs
<1> HIDE DEF T
<1>3. wants \in Seq(Tickets)  BY <1>1, <1>2
<1> QED BY <1>3 DEF Plan!ToSet

(* The end of the first walk.                                              *)
LEMMA JudgeKeeps == PlanInv /\ Plan!Judge => PlanInv'
<1> SUFFICES ASSUME PlanInv, Plan!Judge PROVE PlanInv'  OBVIOUS
<1>1. /\ stage = "choose" /\ queue = <<>> /\ UNCHANGED Plan!inputs /\ use' = use /\ wants' = wants /\ served' = served
  BY DEF Plan!Judge, Plan!inputs
<1>2. PlanInputs /\ WalkInv  BY <1>1 DEF PlanInv
<1>3. /\ \A c : Plan!Answer(c)' = Plan!Answer(c)
      /\ \A c : Finds(c)' = Finds(c)
      /\ \A c : Answered(c)' <=> Answered(c)
      /\ Tickets' = Tickets /\ PlanInputs'
  BY <1>1, <1>2, InputsSame
<1>4. CASE use # "guest"
  <2>1. stage' = "done" /\ UNCHANGED <<told, picked, seen, queue>>  BY <1>4 DEF Plan!Judge
  <2>2. \A m : Needed(picked, m)' = Needed(picked, m)
    BY <1>1, <2>1 DEF Needed, ClosedFor, OwnCaps, Plan!Caps, Plan!inputs
  <2>3. Open' = Open  BY <2>1 DEF Open
  <2>4. \A rr : Complaint(rr)' = Complaint(rr)  BY <1>3 DEF Complaint
  <2>5. \A m, c : Noted(m, c)' <=> Noted(m, c)  BY <1>1, <2>3 DEF Noted
  <2>6. WalkShape'  BY <1>2, <1>3, <2>1, <2>2, <2>3 DEF WalkInv, WalkShape
  <2>7. WalkAsks'  BY <1>1, <1>2, <1>3, <2>1, <2>5 DEF WalkInv, WalkAsks, Plan!ToSet
  <2>8. WalkKeeps'  BY <1>1, <1>2, <1>3, <2>1, <2>4 DEF WalkInv, WalkKeeps
  <2> QED BY <1>1, <1>3, <1>4, <2>1, <2>6, <2>7, <2>8 DEF PlanInv, WalkInv
<1>5. CASE use = "guest"
  <2> DEFINE all == told \union Plan!Conflicts
  <2>1. told' = all /\ picked' = {} /\ seen' = {}
        /\ (IF all = {} THEN stage' = "assemble" /\ queue' = wants ELSE stage' = "done" /\ queue' = <<>>)
    BY <1>5 DEF Plan!Judge
  <2>2. CASE all # {}
    <3>1. told' # {} /\ stage' = "done" /\ queue' = <<>>  BY <2>1, <2>2
    <3>2. GuestInv'  BY <2>1, <3>1 DEF GuestInv
    <3> QED BY <1>1, <1>3, <1>5, <3>1, <3>2 DEF PlanInv
  <2>3. CASE all = {}
    <3>1. told' = {} /\ told = {} /\ Plan!Conflicts = {} /\ stage' = "assemble" /\ queue' = wants
          /\ picked' = {} /\ seen' = {}
      BY <2>1, <2>3
    <3> HIDE DEF all
    <3>2. GuestClosed  BY <1>1, <1>2, <1>5, <3>1, JudgedWhole
    <3>3. GuestClosed'
      BY <1>1, <1>3, <3>2 DEF GuestClosed, Plan!ToSet, Plan!Clash, Plan!Overlap
    <3>4. Open' = Plan!ToSet(wants)  BY <3>1 DEF Open, Plan!ToSet
    <3>5. wants \in Seq(Tickets)  BY <1>2, WantsAreTickets
    <3>6. GuestShape'
      <4>1. \A w \in Plan!ToSet(wants) : w.cap \in served  BY <3>2 DEF GuestClosed
      <4> QED BY <1>1, <1>3, <3>1, <3>4, <3>5, <4>1 DEF GuestShape
    <3>7. GuestWalk'
      <4>1. Plan!ToSet(wants)' = Plan!ToSet(wants)  BY <1>1 DEF Plan!ToSet
      <4> QED BY <3>1, <3>4, <4>1 DEF GuestWalk
    <3> QED BY <1>1, <1>3, <1>5, <3>1, <3>3, <3>6, <3>7 DEF PlanInv, GuestInv
  <2> QED BY <2>2, <2>3
<1> QED BY <1>4, <1>5

(* A request of the second walk.                                           *)
LEMMA AssembleKeeps == PlanInv /\ Plan!Assemble => PlanInv'
<1> SUFFICES ASSUME PlanInv, Plan!Assemble PROVE PlanInv'  OBVIOUS
<1>1. stage = "assemble" /\ UNCHANGED <<Plan!inputs, served, told>> /\ use' = use /\ wants' = wants
  BY DEF Plan!Assemble, Plan!inputs
<1>2. PlanInputs /\ use = "guest" /\ told = {} /\ GuestClosed /\ GuestShape /\ GuestWalk
  BY <1>1 DEF PlanInv, GuestInv
<1>3. /\ \A c : Plan!Answer(c)' = Plan!Answer(c)
      /\ \A c : Finds(c)' = Finds(c)
      /\ \A c : Answered(c)' <=> Answered(c)
      /\ Tickets' = Tickets /\ PlanInputs'
  BY <1>1, <1>2, InputsSame
<1>4. GuestClosed'
  BY <1>1, <1>2, <1>3 DEF GuestClosed, Plan!ToSet, Plan!Clash, Plan!Overlap
<1>5. Plan!ToSet(wants)' = Plan!ToSet(wants)  BY <1>1 DEF Plan!ToSet
<1>6. SUFFICES GuestShape' /\ GuestWalk' /\ stage' \in {"assemble", "done"} /\ (stage' = "done" => queue' = <<>>)
  BY <1>1, <1>2, <1>3, <1>4 DEF PlanInv, GuestInv
<1>7. CASE queue = <<>>
  <2>1. stage' = "done" /\ UNCHANGED <<queue, seen, picked>>  BY <1>7 DEF Plan!Assemble
  <2>2. Open' = Open  BY <2>1 DEF Open
  <2> QED BY <1>1, <1>2, <1>3, <1>5, <1>7, <2>1, <2>2 DEF GuestShape, GuestWalk
<1>8. CASE queue # <<>>
  <2>1. PICK r : r = Plan!Last(queue)  OBVIOUS
  <2>2. /\ r \in Tickets /\ Plan!Front(queue) \in Seq(Tickets)
        /\ Plan!ToSet(queue) = Plan!ToSet(Plan!Front(queue)) \union {r}
    BY <1>2, <1>8, <2>1, LastOff DEF GuestShape
  <2>3. stage' = stage  BY <1>8 DEF Plan!Assemble
  <2>4. CASE \E q \in seen : q.cap = r.cap
    <3>1. queue' = Plan!Front(queue) /\ UNCHANGED <<seen, picked>>
      BY <1>8, <2>1, <2>4 DEF Plan!Assemble
    <3>2. Open' \subseteq Open  BY <2>2, <3>1 DEF Open
    <3>3. \A c : (\E q \in Open : q.cap = c) => \E q \in Open' : q.cap = c
      BY <2>2, <2>4, <3>1 DEF Open
    <3>4. GuestShape'  BY <1>1, <1>2, <1>3, <2>2, <3>1, <3>2 DEF GuestShape
    <3>5. GuestWalk'  BY <1>2, <1>3, <1>5, <3>1, <3>3 DEF GuestWalk
    <3> QED BY <1>1, <2>3, <3>4, <3>5
  <2>5. CASE ~\E q \in seen : q.cap = r.cap
    <3> DEFINE found == Finds(r.cap)
               F == Follow(found, r.module)
    <3>1. r \in Open /\ r.cap \in served /\ Answered(r.cap)
      BY <1>2, <2>2 DEF Open, GuestShape, GuestClosed
    <3>2. Plan!Assembled(r.cap) = found  BY <1>2, <3>1, AssembledIs
    <3>3. seen' = seen \union {r} /\ picked' = picked \union found
      <4>1. seen' = seen \union {r} /\ picked' = picked \union Plan!Assembled(r.cap)
        BY <1>8, <2>1, <2>5 DEF Plan!Assemble
      <4> QED BY <3>2, <4>1
    <3>4. queue' = Plan!Front(queue) \o F
      <4> DEFINE r0 == Plan!Last(queue)
      <4>1. ~\E q \in seen : q.cap = Plan!Last(queue).cap  BY <2>1, <2>5
      <4>2. queue' = Plan!Front(queue) \o Follow(Plan!Assembled(r0.cap), r0.module)
        BY <1>8, <4>1 DEF Plan!Assemble, Follow, Plan!FoldLeft
      <4> QED BY <2>1, <3>2, <4>2
    <3>5. found \subseteq lib /\ found \in SUBSET Packs /\ (found = {} \/ \E p : found = {p})
      BY <1>2, AnswerIs DEF PlanInputs
    <3>6. F \in Seq(AsksOf(found, r.module)) /\ Plan!ToSet(F) = AsksOf(found, r.module)
      <4> HIDE DEF found
      <4> QED BY <3>5, FollowIs
    <3>7. AsksOf(found, r.module) \subseteq Tickets
      <4>1. \A c \in UNION {p.requires : p \in found} : c \in Plan!Caps  BY <3>5 DEF Plan!Caps
      <4>2. r.module \in Plan!Modules  BY <2>2 DEF Tickets
      <4> QED BY <4>1, <4>2 DEF AsksOf, Tickets
    <3>8. \A p \in found : p.requires \subseteq served  BY <1>2, <3>1 DEF GuestClosed
    <3> HIDE DEF found, F
    <3>9. F \in Seq(Tickets)  BY <3>6, <3>7
    <3>10. queue' \in Seq(Tickets) /\ Plan!ToSet(queue') = Plan!ToSet(Plan!Front(queue)) \union AsksOf(found, r.module)
      BY <2>2, <3>4, <3>6, <3>9, JoinOf
    <3>11. Open' = Open \union AsksOf(found, r.module)
      <4>1. Open' = seen' \union Plan!ToSet(queue')  BY DEF Open, Plan!ToSet
      <4> QED BY <2>2, <3>3, <3>10, <4>1 DEF Open
    <3>12. \A q \in AsksOf(found, r.module) : q.cap \in served  BY <3>8 DEF AsksOf
    <3>13. \A p \in found : \A c \in p.requires : \E q \in Open' : q.cap = c
      <4> SUFFICES ASSUME NEW p \in found, NEW c \in p.requires PROVE \E q \in Open' : q.cap = c  OBVIOUS
      <4> DEFINE q0 == [module |-> r.module, cap |-> c]
      <4>1. q0 \in AsksOf(found, r.module) /\ q0.cap = c  BY DEF AsksOf
      <4> QED BY <3>11, <4>1
    <3>14. GuestShape'
      <4>1. seen' \subseteq Tickets  BY <1>2, <2>2, <3>3 DEF GuestShape
      <4>2. \A q \in Open' : q.cap \in served  BY <1>2, <3>11, <3>12 DEF GuestShape
      <4> QED BY <1>1, <1>3, <3>10, <4>1, <4>2 DEF GuestShape
    <3>15. GuestWalk'
      <4>1. \A w \in Plan!ToSet(wants) : \E q \in Open' : q.cap = w.cap  BY <1>2, <3>11 DEF GuestWalk
      <4>2. \A x \in seen' : Finds(x.cap) \subseteq picked' /\ \A p \in Finds(x.cap) : \A c \in p.requires : \E q \in Open' : q.cap = c
        <5> SUFFICES ASSUME NEW x \in seen'
                     PROVE  Finds(x.cap) \subseteq picked' /\ \A p \in Finds(x.cap) : \A c \in p.requires : \E q \in Open' : q.cap = c
          OBVIOUS
        <5>1. CASE x \in seen  BY <1>2, <3>3, <3>11, <5>1 DEF GuestWalk
        <5>2. CASE x = r  BY <3>3, <3>13, <5>2 DEF found
        <5> QED BY <3>3, <5>1, <5>2
      <4>3. \A p \in picked' : \E x \in seen' : p \in Finds(x.cap)  BY <1>2, <3>3 DEF GuestWalk, found
      <4> QED BY <1>3, <1>5, <4>1, <4>2, <4>3 DEF GuestWalk
    <3> QED BY <1>1, <2>3, <3>14, <3>15
  <2> QED BY <2>4, <2>5
<1> QED BY <1>7, <1>8

(* Every step keeps the plan.                                              *)
LEMMA PlanStep == PlanInv /\ (Plan!Next \/ UNCHANGED Plan!vars) => PlanInv'
<1> SUFFICES ASSUME PlanInv, Plan!Next \/ UNCHANGED Plan!vars PROVE PlanInv'  OBVIOUS
<1>1. CASE Plan!Next  BY <1>1, ChooseKeeps, JudgeKeeps, AssembleKeeps DEF Plan!Next
<1>2. CASE UNCHANGED Plan!vars
  <2>1. UNCHANGED Plan!inputs /\ UNCHANGED <<queue, seen, picked, served, told, stage>> /\ use' = use /\ wants' = wants
    BY <1>2 DEF Plan!vars, Plan!inputs
  <2>2. /\ \A c : Finds(c)' = Finds(c)
        /\ \A c : Answered(c)' <=> Answered(c)
        /\ \A c : Plan!Answer(c)' = Plan!Answer(c)
        /\ Tickets' = Tickets /\ PlanInputs'
    BY <2>1, InputsSame DEF PlanInv
  <2>3. \A m : Needed(picked, m)' = Needed(picked, m)
    BY <2>1 DEF Needed, ClosedFor, OwnCaps, Plan!Caps, Plan!inputs
  <2>4. Open' = Open  BY <2>1 DEF Open
  <2>5. \A rr : Complaint(rr)' = Complaint(rr)  BY <2>2 DEF Complaint
  <2>6. \A m, c : Noted(m, c)' <=> Noted(m, c)  BY <2>1, <2>4 DEF Noted
  <2>7. WalkShape => WalkShape'  BY <2>1, <2>2, <2>3, <2>4 DEF WalkShape
  <2>8. WalkAsks => WalkAsks'  BY <2>1, <2>2, <2>6 DEF WalkAsks, Plan!ToSet
  <2>9. WalkKeeps => WalkKeeps'  BY <2>1, <2>2, <2>5 DEF WalkKeeps
  <2>10. GuestClosed => GuestClosed'  BY <2>1, <2>2 DEF GuestClosed, Plan!ToSet, Plan!Clash, Plan!Overlap
  <2>11. GuestShape => GuestShape'  BY <2>1, <2>2, <2>4 DEF GuestShape
  <2>12. GuestWalk => GuestWalk'  BY <2>1, <2>2, <2>4 DEF GuestWalk, Plan!ToSet
  <2> QED BY <2>1, <2>2, <2>7, <2>8, <2>9, <2>10, <2>11, <2>12 DEF PlanInv, WalkInv, GuestInv
<1> QED BY <1>1, <1>2

(* Whoever may run has all it needs.                                       *)
LEMMA PlanRuns == PlanInv => Plan!RunsWithAllItNeeds
<1> SUFFICES ASSUME PlanInv, stage = "done", NEW m \in Plan!Modules, Plan!MayRun(m), NEW c \in Plan!Needs(m)
             PROVE  /\ c \in served
                    /\ Plan!Cardinality(Plan!Versions(picked, c)) <= 1
                    /\ \A p \in Plan!Versions(picked, c) : c \in DOMAIN pins => p.version = pins[c]
  BY DEF Plan!RunsWithAllItNeeds
<1>1. PlanInputs /\ queue = <<>> /\ c \in Needed(picked, m)  BY NeededIs DEF PlanInv
<1>2. Open = seen  BY <1>1 DEF Open, Plan!ToSet
<1>3. c \in served /\ \A p \in picked : p.id = c => p \in Finds(c)
  <2>1. CASE use = "guest"
    <3>1. told = {}  BY <2>1 DEF Plan!MayRun
    <3>2. GuestClosed /\ GuestShape /\ GuestWalk  BY <2>1, <3>1 DEF PlanInv, GuestInv
    <3> DEFINE s == {r.cap : r \in seen}
    <3>3. s \in ClosedFor(picked, m)
      <4>1. s \subseteq Plan!Caps  BY <3>2 DEF GuestShape, Tickets
      <4>2. OwnCaps(m) \subseteq s
        <5>1. \A k \in DOMAIN wants : wants[k] \in Plan!ToSet(wants)  BY DEF Plan!ToSet
        <5>2. \A k \in DOMAIN wants : \E q \in seen : q.cap = wants[k].cap  BY <1>2, <3>2, <5>1 DEF GuestWalk
        <5> QED BY <5>2 DEF OwnCaps
      <4>3. ASSUME NEW p \in picked, p.id \in s, NEW d \in p.requires PROVE d \in s
        <5>1. PICK r \in seen : p \in Finds(r.cap)  BY <3>2 DEF GuestWalk
        <5> QED BY <1>2, <3>2, <4>3, <5>1 DEF GuestWalk
      <4> QED BY <4>1, <4>2, <4>3 DEF ClosedFor
    <3>4. c \in s
      <4> HIDE DEF s
      <4> QED BY <1>1, <3>3, NeededIs
    <3>5. c \in served  BY <1>2, <3>2, <3>4 DEF GuestShape
    <3>6. \A p \in picked : p.id = c => p \in Finds(c)
      <4> SUFFICES ASSUME NEW p \in picked, p.id = c PROVE p \in Finds(c)  OBVIOUS
      <4>1. PICK r \in seen : p \in Finds(r.cap)  BY <3>2 DEF GuestWalk
      <4>2. p.id = r.cap  BY <1>1, <4>1, AnswerIs
      <4> QED BY <4>1, <4>2
    <3> QED BY <3>5, <3>6
  <2>2. CASE use # "guest"
    <3>1. WalkInv  BY <2>2 DEF PlanInv
    <3> DEFINE ours == IF use = "session" THEN {r \in seen : r.module = m} ELSE seen
               s == {r.cap : r \in ours}
    <3>2. ours \subseteq seen  OBVIOUS
    <3>3. \A r \in ours : Answered(r.cap)
      <4> SUFFICES ASSUME NEW r \in ours, ~Answered(r.cap) PROVE FALSE  OBVIOUS
      <4>1. Complaint(r) \in told /\ Complaint(r).module = r.module  BY <3>1, <3>2 DEF WalkInv, WalkKeeps, Complaint
      <4>2. CASE use = "session"
        <5>1. r.module = m  BY <4>2
        <5> QED BY <4>1, <4>2, <5>1 DEF Plan!MayRun, Plan!Unusable
      <4>3. CASE use # "session"  BY <4>1, <4>3 DEF Plan!MayRun
      <4> QED BY <4>2, <4>3
    <3>4. \A d : Noted(m, d) => d \in s
      <4> SUFFICES ASSUME NEW d, Noted(m, d) PROVE d \in s  OBVIOUS
      <4>1. CASE use = "build"  BY <1>2, <4>1 DEF Noted
      <4>2. CASE use # "build"
        <5> DEFINE q == [module |-> m, cap |-> d]
        <5>1. q \in seen /\ q.module = m /\ q.cap = d  BY <1>2, <4>2 DEF Noted
        <5> HIDE DEF q
        <5> QED BY <5>1
      <4> QED BY <4>1, <4>2
    <3>5. \A n, d : use # "session" /\ Noted(n, d) => d \in s
      <4> SUFFICES ASSUME use # "session", NEW n, NEW d, Noted(n, d) PROVE d \in s  OBVIOUS
      <4>1. CASE use = "build"  BY <1>2, <4>1 DEF Noted
      <4>2. CASE use # "build"
        <5> DEFINE q == [module |-> n, cap |-> d]
        <5>1. q \in seen /\ q.cap = d  BY <1>2, <4>2 DEF Noted
        <5> HIDE DEF q
        <5> QED BY <5>1
      <4> QED BY <4>1, <4>2
    <3>6. s \in ClosedFor(picked, m)
      <4>1. s \subseteq Plan!Caps  BY <3>1, <3>2 DEF WalkInv, WalkShape, Tickets
      <4>2. OwnCaps(m) \subseteq s
        <5> SUFFICES ASSUME NEW k \in DOMAIN wants, wants[k].module = m PROVE wants[k].cap \in s  BY DEF OwnCaps
        <5>1. PICK w : w = wants[k] /\ w \in Plan!ToSet(wants)  BY DEF Plan!ToSet
        <5>2. Noted(w.module, w.cap)  BY <3>1, <5>1 DEF WalkInv, WalkAsks
        <5>3. w.module = m /\ w.cap = wants[k].cap  BY <5>1
        <5>4. Noted(m, w.cap)  BY <5>2, <5>3
        <5> HIDE DEF s
        <5> QED BY <3>4, <5>3, <5>4
      <4>3. ASSUME NEW p \in picked, p.id \in s, NEW d \in p.requires PROVE d \in s
        <5>1. PICK r0 \in seen : p \in Finds(r0.cap)  BY <3>1 DEF WalkInv, WalkKeeps
        <5>2. PICK r \in ours : r.cap = p.id  BY <4>3
        <5>3. r.cap = r0.cap  BY <1>1, <5>1, <5>2, AnswerIs
        <5>4. Noted(r.module, d)  BY <3>1, <3>2, <4>3, <5>1, <5>2, <5>3 DEF WalkInv, WalkAsks
        <5>5. use = "session" => r.module = m  BY <5>2
        <5> HIDE DEF s, ours
        <5> QED BY <3>4, <3>5, <5>4, <5>5
      <4> QED BY <4>1, <4>2, <4>3 DEF ClosedFor
    <3>7. c \in s
      <4> HIDE DEF s
      <4> QED BY <1>1, <3>6, NeededIs
    <3>8. c \in served  BY <3>1, <3>2, <3>3, <3>7 DEF WalkInv, WalkKeeps
    <3>9. \A p \in picked : p.id = c => p \in Finds(c)
      <4> SUFFICES ASSUME NEW p \in picked, p.id = c PROVE p \in Finds(c)  OBVIOUS
      <4>1. PICK r \in seen : p \in Finds(r.cap)  BY <3>1 DEF WalkInv, WalkKeeps
      <4>2. p.id = r.cap  BY <1>1, <4>1, AnswerIs
      <4> QED BY <4>1, <4>2
    <3> QED BY <3>8, <3>9
  <2> QED BY <2>1, <2>2
<1>4. Plan!Versions(picked, c) \subseteq Finds(c)  BY <1>3 DEF Plan!Versions
<1>5. \A p \in Plan!Versions(picked, c) : c \in DOMAIN pins => p.version = pins[c]  BY <1>1, <1>4, AnswerIs
<1>6. Plan!Cardinality(Plan!Versions(picked, c)) <= 1
  <2> DEFINE v == Plan!Versions(picked, c)
  <2>1. Finds(c) = {} \/ \E p : Finds(c) = {p}  BY <1>1, AnswerIs
  <2>2. v = {} \/ \E p : v = {p}  BY <1>4, <2>1
  <2> HIDE DEF v
  <2>3. Cardinality(v) = 0 \/ Cardinality(v) = 1  BY <2>2, FS_EmptySet, FS_Singleton
  <2>4. Plan!Cardinality(v) = Cardinality(v)  BY DEF Plan!Cardinality, Cardinality
  <2> QED BY <2>3, <2>4 DEF v
<1> QED BY <1>3, <1>5, <1>6

(* Who is refused is refused for a reason.                                 *)
LEMMA PlanRefuses == PlanInv => Plan!RefusedWithReason
<1> SUFFICES ASSUME PlanInv, stage = "done", use = "session", NEW m \in Plan!Modules, ~Plan!MayRun(m)
             PROVE  (\E c \in Plan!Needs(m) : c \notin served) \/ \E t \in told : t.what # "missing"
  BY DEF Plan!RefusedWithReason
<1>1. WalkInv  BY DEF PlanInv
<1>2. m \in Plan!Unusable  BY DEF Plan!MayRun
<1>3. PICK t \in told : t.what # "missing" \/ t.module = m  BY <1>2 DEF Plan!Unusable
<1>4. PICK r \in seen : ~Answered(r.cap) /\ t = Complaint(r)  BY <1>1 DEF WalkInv, WalkKeeps
<1>5. CASE t.what # "missing"  BY <1>5
<1>6. CASE t.module = m
  <2>1. r.module = m  BY <1>4, <1>6 DEF Complaint
  <2>2. r.cap \in Needed(picked, m)  BY <1>1, <2>1 DEF WalkInv, WalkShape, Open
  <2>3. r.cap \in Plan!Needs(m)  BY <2>2, NeededIs
  <2>4. r.cap \notin served  BY <1>1, <1>4 DEF WalkInv, WalkKeeps
  <2> QED BY <2>3, <2>4
<1> QED BY <1>3, <1>5, <1>6

(* Nothing is written in two places of a guest.                            *)
LEMMA PlanApart == PlanInv => Plan!NothingOverwritten
<1> SUFFICES ASSUME PlanInv, stage = "done", use = "guest", NEW p \in picked, NEW q \in picked, p.id # q.id,
                    NEW a \in p.places, NEW b \in q.places
             PROVE  ~Plan!IsPrefix(a, b)
  BY DEF Plan!NothingOverwritten
<1>1. GuestInv /\ picked # {}  BY DEF PlanInv
<1>2. GuestClosed /\ GuestShape /\ GuestWalk  BY <1>1 DEF GuestInv
<1>3. \A x \in picked : \E r \in seen : x \in Finds(r.cap) /\ r.cap \in served
  BY <1>2 DEF GuestWalk, GuestShape, Open
<1>4. ~Plan!Clash(p, q)  BY <1>2, <1>3 DEF GuestClosed
<1> QED BY <1>4 DEF Plan!Clash, Plan!Overlap

(* The types of the plan.                                                  *)
LEMMA PlanTyped == PlanInv => Plan!TypeOK
<1> SUFFICES ASSUME PlanInv PROVE Plan!TypeOK  OBVIOUS
<1>1. use \in Plan!Uses /\ stage \in {"choose", "assemble", "done"} /\ lib \subseteq Packs
  BY DEF PlanInv, PlanInputs, Plan!Uses
<1>2. seen \subseteq Tickets  BY DEF PlanInv, GuestInv, GuestShape, WalkInv, WalkShape
<1>3. picked \subseteq lib
  <2>1. \A p \in picked : \E r \in seen : p \in Finds(r.cap)
    BY DEF PlanInv, GuestInv, GuestWalk, WalkInv, WalkKeeps
  <2>2. \A c : Finds(c) \subseteq lib  BY AnswerIs DEF PlanInv
  <2> QED BY <2>1, <2>2
<1>4. Plan!Caps \subseteq {p.id : p \in Packs} \union (UNION {p.requires : p \in Packs}) \union {wants[k].cap : k \in DOMAIN wants}
  BY <1>1 DEF Plan!Caps
<1> QED BY <1>1, <1>2, <1>3, <1>4 DEF Plan!TypeOK, Tickets

-----------------------------------------------------------------------------
(* The parts together: one goes its way, the others rest.                  *)
HostInv ==
  /\ IF which = "faulty" THEN Faulty!LedgerInv ELSE Fence!LedgerInv
  /\ IF which = "pair" THEN PairInv ELSE LoneInv
  /\ IF which = "pinned" THEN PinnedInv ELSE FreeInv
  /\ BookInv /\ ToolInv /\ SpaceInv /\ BaseInv /\ RegInv
  /\ which = "plan" => PlanInv

(* Every behaviour begins with all of it.                                  *)
LEMMA InitHost == Init => HostInv
<1> SUFFICES ASSUME Init PROVE HostInv  OBVIOUS
<1>1. IF which = "faulty" THEN Faulty!LedgerInv ELSE Fence!LedgerInv
  BY Faulty!InitLedger, Fence!InitLedger DEF Init
<1>2. IF which = "pair" THEN PairInv ELSE LoneInv  BY PairStarts, LoneStarts DEF Init
<1>3. BookInv  BY BookStarts DEF Init
<1>4. ToolInv  BY ToolStarts DEF Init
<1>5. SpaceInv  BY SpaceStarts DEF Init
<1>6. FreeInv /\ PinnedInv /\ BaseInv  BY DownStarts, BaseStarts DEF Init
<1>7. RegInv  BY RegStarts DEF Init
<1>8. which = "plan" => PlanInv  BY PlanStarts DEF Init
<1> QED BY <1>1, <1>2, <1>3, <1>4, <1>5, <1>6, <1>7, <1>8 DEF HostInv

(* A step of the whole is a step of one part and none of the others.       *)
LEMMA PartsStep ==
  ASSUME [Next]_vars
  PROVE  /\ which' = which
         /\ which = "faulty" => Faulty!Next \/ UNCHANGED Faulty!vars
         /\ which # "faulty" => Fence!Next \/ UNCHANGED Fence!vars
         /\ which = "pair" => Pair!Next \/ UNCHANGED Pair!vars
         /\ which # "pair" => Lone!Next \/ UNCHANGED Lone!vars
         /\ Book!Next \/ UNCHANGED Book!vars
         /\ Tool!Next \/ UNCHANGED Tool!vars
         /\ Space!Next \/ UNCHANGED Space!vars
         /\ which = "pinned" => Pinned!Next \/ UNCHANGED Pinned!vars
         /\ which # "pinned" => Free!Next \/ UNCHANGED Free!vars
         /\ Base!Next \/ UNCHANGED Base!vars
         /\ Reg!Next \/ UNCHANGED Reg!vars
         /\ which = "plan" => Plan!Next \/ UNCHANGED Plan!vars
<1>1. /\ UNCHANGED Fence!vars <=> UNCHANGED vF
      /\ UNCHANGED Faulty!vars <=> UNCHANGED vF
      /\ UNCHANGED Pair!vars <=> UNCHANGED vB
      /\ UNCHANGED Lone!vars <=> UNCHANGED vB
      /\ UNCHANGED Book!vars <=> UNCHANGED vK
      /\ UNCHANGED Tool!vars <=> UNCHANGED vT
      /\ UNCHANGED Space!vars <=> UNCHANGED vS
      /\ UNCHANGED Free!vars <=> UNCHANGED vD
      /\ UNCHANGED Pinned!vars <=> UNCHANGED vD
      /\ UNCHANGED Base!vars <=> UNCHANGED vG
      /\ UNCHANGED Reg!vars <=> UNCHANGED vR
      /\ UNCHANGED Plan!vars <=> UNCHANGED vL
  BY DEF vF, vB, vK, vT, vS, vD, vG, vR, vL, Plan!vars, Reg!vars, Free!vars, Pinned!vars, Base!vars, Space!vars, Fence!vars, Faulty!vars, Pair!vars, Lone!vars, Book!vars, Tool!vars
<1>2. CASE UNCHANGED vars  BY <1>1, <1>2 DEF vars
<1>3. CASE Next
  <2>1. which' = which  BY <1>3 DEF Next
  <2>2. (which = "fence" /\ Fence!Next) \/ (which = "faulty" /\ Faulty!Next) \/ UNCHANGED vF
    BY <1>3 DEF Next
  <2>3. (which = "pair" /\ Pair!Next) \/ (which = "lone" /\ Lone!Next) \/ UNCHANGED vB
    BY <1>3 DEF Next
  <2>4. Book!Next \/ UNCHANGED vK  BY <1>3 DEF Next
  <2>5. Tool!Next \/ UNCHANGED vT  BY <1>3 DEF Next
  <2>6. Space!Next \/ UNCHANGED vS  BY <1>3 DEF Next
  <2>7. (which = "free" /\ Free!Next) \/ (which = "pinned" /\ Pinned!Next) \/ UNCHANGED vD
    BY <1>3 DEF Next
  <2>8. Base!Next \/ UNCHANGED vG  BY <1>3 DEF Next
  <2>9. Reg!Next \/ UNCHANGED vR  BY <1>3 DEF Next
  <2>10. which = "plan" => Plan!Next \/ UNCHANGED vL  BY <1>3 DEF Next
  <2> QED BY <1>1, <2>1, <2>2, <2>3, <2>4, <2>5, <2>6, <2>7, <2>8, <2>9, <2>10
<1> QED BY <1>2, <1>3

(* Every step keeps all of it.                                             *)
LEMMA StepHost == HostInv /\ [Next]_vars => HostInv'
<1> SUFFICES ASSUME HostInv, [Next]_vars PROVE HostInv'  OBVIOUS
<1>1. IF which' = "faulty" THEN Faulty!LedgerInv' ELSE Fence!LedgerInv'
  BY PartsStep, Faulty!StepLedger, Fence!StepLedger DEF HostInv
<1>2. IF which' = "pair" THEN PairInv' ELSE LoneInv'  BY PartsStep, PairStep, LoneStep DEF HostInv
<1>3. BookInv'  BY PartsStep, BookStep DEF HostInv
<1>4. ToolInv'  BY PartsStep, ToolStep DEF HostInv
<1>5. SpaceInv'  BY PartsStep, SpaceStep DEF HostInv
<1>6. IF which' = "pinned" THEN PinnedInv' ELSE FreeInv'  BY PartsStep, PinnedStep, FreeStep DEF HostInv
<1>7. BaseInv'  BY PartsStep, BaseStep DEF HostInv
<1>8. RegInv'  BY PartsStep, RegStep DEF HostInv
<1>9. which' = "plan" => PlanInv'  BY PartsStep, PlanStep DEF HostInv
<1> QED BY <1>1, <1>2, <1>3, <1>4, <1>5, <1>6, <1>7, <1>8, <1>9 DEF HostInv

(* The parts keep their invariants in every behaviour.                     *)
THEOREM HostHolds == Spec => []HostInv
<1> QED BY InitHost, StepHost, PTL DEF Spec

(* What is cached, installed, booted, chosen and registered is whole: no   *)
(* half-written file and no two sources in the cache, of a pinned asset    *)
(* the pinned bytes, every package a module needs, and a register that     *)
(* refers to nothing that is not there, whatever is interrupted.           *)
THEOREM PartsAreKept == Spec => []PartsKept
<1>1. HostInv => PartsKept
  <2> SUFFICES ASSUME HostInv PROVE PartsKept  OBVIOUS
  <2>1. which # "pinned" => Free!CacheIsWhole /\ Free!InstalledIsWhole  BY DEF HostInv, FreeInv
  <2>2. which = "pinned" => Pinned!InstalledIsWhole  BY DEF HostInv, PinnedInv
  <2>3. Base!ImageBoots  BY BaseMeans DEF HostInv
  <2>4. which = "plan" => Plan!RunsWithAllItNeeds /\ Plan!RefusedWithReason /\ Plan!NothingOverwritten
    BY PlanRuns, PlanRefuses, PlanApart DEF HostInv
  <2>5. /\ Reg!NothingDangles /\ Reg!ChoiceIsCurrent /\ Reg!LoadsWhole
        /\ Reg!ListIsSound /\ Reg!OfferedIsSent
    BY RegMeans DEF HostInv
  <2> QED BY <2>1, <2>2, <2>3, <2>4, <2>5 DEF PartsKept
<1> QED BY <1>1, HostHolds, PTL

(* The access a living process is recorded for stays until it gives it     *)
(* back, every entry on disk is in the ledger or the residue of a write    *)
(* that failed, and a call runs under the fence that is asked of it and    *)
(* ends with all it started (confine).  An entry for all package processes *)
(* that was found there is not recorded for who finds it.                  *)
THEOREM FencesAlwaysHold == Spec => []FencesHold
<1>1. HostInv => FencesHold  BY Faulty!LedgerMeans, Fence!LedgerMeans DEF HostInv, FencesHold, ToolInv
<1> QED BY <1>1, HostHolds, PTL

(* A start takes back every entry that the dead are recorded for, and ends *)
(* the children of ours whose own run is gone, no others (reconcile).      *)
THEOREM LeftoversAreReclaimed == Spec => LeftoversReclaimed
<1>1. HostInv /\ [Next]_vars => (which = "fence" => Fence!Reclaimed)
  <2> SUFFICES ASSUME HostInv, [Next]_vars, which = "fence" PROVE Fence!Reclaimed  OBVIOUS
  <2>1. HostInv'  BY StepHost
  <2> QED BY <2>1, PartsStep, Fence!StepReclaims DEF HostInv
<1>2. HostInv /\ [Next]_vars => [Book!EndsOrphans]_(Book!vars) /\ [Book!StaysBooked]_(Book!vars)
  BY PartsStep, BookEnds, BookKeeps DEF HostInv
<1> QED BY <1>1, <1>2, HostHolds, PTL
        DEF Spec, LeftoversReclaimed, Book!OrphansOnly, Book!OrphansAreBooked

(* Two builders that live are not in one volume together, whatever ages,   *)
(* dies or is cleaned up, but where a lock was taken between the look and  *)
(* the removal of one who took its file for a dead one; and a call         *)
(* answered from the cache is answered truly (VolumeLock, build state).    *)
THEOREM BuildsAreAlwaysSound == Spec => BuildsAreSound
<1>1. HostInv => (which = "pair" => Pair!VolumeIsOwned)  BY PairMeans DEF HostInv
<1>2. HostInv /\ [Next]_vars => (which = "lone" => Lone!TrueHit)
  BY PartsStep, LoneHits DEF HostInv
<1> QED BY <1>1, <1>2, HostHolds, PTL DEF Spec, BuildsAreSound

(* No volume in use is deleted and no build loses its lock file, but one   *)
(* that took the lock between the look and the last unlink of a removal;   *)
(* nor does the volume of the build a collection makes room for go; what   *)
(* is planned is enough and takes what is least recently used (gc_with,    *)
(* plan, remove_one, clean), for any items, sizes and caps.                *)
THEOREM CollectsAlwaysWithCare == Spec => CollectsWithCare
<1>1. HostInv => (which = "space" => Space!PlanSuffices)  BY SpaceMeans DEF HostInv
<1>2. HostInv /\ [Next]_vars => [Space!SparesInUse]_(Space!vars)
  BY PartsStep, SpaceStep DEF HostInv
<1> QED BY <1>1, <1>2, HostHolds, PTL DEF Spec, CollectsWithCare, Space!VolumesInUseStay
=============================================================================
