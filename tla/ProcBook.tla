------------------------------ MODULE ProcBook ------------------------------
(***************************************************************************)
(* The book of long-lived children (.home/processes.json): guests, share   *)
(* helpers, resident services.  Each opened book is a copy in memory that  *)
(* is written over the file at every change; a program that starts goes    *)
(* through the file and ends what an earlier run left.                     *)
(***************************************************************************)
EXTENDS Naturals, FiniteSets

CONSTANTS
  Books,      \* runs of the program that may be there at once
  Pids,       \* process numbers, used again after an exit
  MaxSerial   \* bound: children started in all

VARIABLES
  phase,    \* of each run: "off", "reconcile", "on"
  mem,      \* the book in its memory
  todo,     \* the entries it has still to go through
  fresh,    \* the child that is started and not booked yet
  disk,     \* the file
  proc,     \* who has a process number
  serial    \* children started so far

vars == <<phase, mem, todo, fresh, disk, proc, serial>>

\* A child's serial is what its marker or its creation time proves.
Free == [kind |-> "free", serial |-> 0, parent |-> "nobody", guarded |-> FALSE]
Foreign == [Free EXCEPT !.kind = "foreign"]
Entry(pid) == [pid |-> pid, serial |-> proc[pid].serial]
NoEntry == [pid |-> "none", serial |-> 0]
IsIt(e) == proc[e.pid].kind = "child" /\ proc[e.pid].serial = e.serial

Init ==
  /\ phase = [b \in Books |-> "off"]
  /\ mem = [b \in Books |-> {}] /\ todo = [b \in Books |-> {}]
  /\ fresh = [b \in Books |-> NoEntry]
  /\ disk = {} /\ serial = 0
  /\ proc = [p \in Pids |-> Free]

\* open: the file is read once.
Open(b) ==
  /\ phase[b] = "off"
  /\ phase' = [phase EXCEPT ![b] = "reconcile"]
  /\ mem' = [mem EXCEPT ![b] = disk] /\ todo' = [todo EXCEPT ![b] = disk]
  /\ UNCHANGED <<fresh, disk, proc, serial>>

\* record and forget: the copy changes and is written over the file.
Saved(b, book) == mem' = [mem EXCEPT ![b] = book] /\ disk' = book

(***************************************************************************)
(* reconcile.  Who is gone is struck out; whose identity is proved is      *)
(* ended; a number that somebody else has now is struck out and left alone.*)
(***************************************************************************)
DropEach(b, e) ==         \* mutant: the file is cleared of an entry before its child is ended
  /\ phase[b] = "reconcile" /\ e \in todo[b]
  /\ todo' = [todo EXCEPT ![b] = @ \ {e}]
  /\ Saved(b, mem[b] \ {e})
  /\ UNCHANGED <<phase, fresh, proc, serial>>

Drop(b, e) ==
  /\ phase[b] = "reconcile" /\ e \in todo[b] /\ ~IsIt(e)
  /\ todo' = [todo EXCEPT ![b] = @ \ {e}]
  /\ Saved(b, mem[b] \ {e})
  /\ UNCHANGED <<phase, fresh, proc, serial>>

KillAnyway(b, e) ==       \* mutant: whoever has the number now is ended
  /\ phase[b] = "reconcile" /\ e \in todo[b] /\ proc[e.pid] # Free
  /\ todo' = [todo EXCEPT ![b] = @ \ {e}]
  /\ proc' = [proc EXCEPT ![e.pid] = Free] /\ Saved(b, mem[b] \ {e})
  /\ UNCHANGED <<phase, fresh, serial>>

Kill(b, e) ==
  /\ phase[b] = "reconcile" /\ e \in todo[b] /\ IsIt(e)
  /\ todo' = [todo EXCEPT ![b] = @ \ {e}]
  /\ \/ proc' = [proc EXCEPT ![e.pid] = Free] /\ Saved(b, mem[b] \ {e})
     \/ UNCHANGED <<proc, mem, disk>>       \* terminate failed: reported
  /\ UNCHANGED <<phase, fresh, serial>>

Ready(b) ==
  /\ phase[b] = "reconcile" /\ todo[b] = {}
  /\ phase' = [phase EXCEPT ![b] = "on"]
  /\ UNCHANGED <<mem, todo, fresh, disk, proc, serial>>

\* spawn and attach; the guard that ends a child with its parent may not hold.
Spawn(b, pid) ==
  /\ phase[b] = "on" /\ fresh[b] = NoEntry /\ proc[pid] = Free /\ serial < MaxSerial
  /\ serial' = serial + 1
  /\ \E g \in BOOLEAN :
       proc' = [proc EXCEPT ![pid] = [kind |-> "child", serial |-> serial', parent |-> b, guarded |-> g]]
  /\ fresh' = [fresh EXCEPT ![b] = [pid |-> pid, serial |-> serial']]
  /\ UNCHANGED <<phase, mem, todo, disk>>

Record(b) ==
  /\ fresh[b] # NoEntry
  /\ Saved(b, {e \in mem[b] : e.pid # fresh[b].pid} \union {fresh[b]})
  /\ fresh' = [fresh EXCEPT ![b] = NoEntry]
  /\ UNCHANGED <<phase, todo, proc, serial>>

\* A child that its run stopped, or found exited, is forgotten.
Exit(pid) ==
  /\ proc[pid] # Free
  /\ proc' = [proc EXCEPT ![pid] = Free]
  /\ UNCHANGED <<phase, mem, todo, fresh, disk, serial>>

Forget(b, e) ==
  /\ phase[b] = "on" /\ e \in mem[b] /\ ~IsIt(e)
  /\ Saved(b, {f \in mem[b] : f.pid # e.pid})
  /\ UNCHANGED <<phase, todo, fresh, proc, serial>>

\* A run ends, by itself or by a kill: guarded children go with it.
Die(b) ==
  /\ phase[b] # "off"
  /\ phase' = [phase EXCEPT ![b] = "off"]
  /\ mem' = [mem EXCEPT ![b] = {}] /\ todo' = [todo EXCEPT ![b] = {}]
  /\ fresh' = [fresh EXCEPT ![b] = NoEntry]
  /\ proc' = [p \in Pids |->
       IF proc[p].parent # b THEN proc[p]
       ELSE IF proc[p].guarded THEN Free ELSE [proc[p] EXCEPT !.parent = "nobody"]]
  /\ UNCHANGED <<disk, serial>>

\* Somebody else's process takes a number that is free.
Reused(pid) ==
  /\ proc[pid] = Free
  /\ proc' = [proc EXCEPT ![pid] = Foreign]
  /\ UNCHANGED <<phase, mem, todo, fresh, disk, serial>>

Next ==
  \/ \E b \in Books : Open(b) \/ Ready(b) \/ Record(b) \/ Die(b)
  \/ \E b \in Books : \E e \in mem[b] \union todo[b] : Drop(b, e) \/ Kill(b, e) \/ Forget(b, e)
  \/ \E p \in Pids : Exit(p) \/ Reused(p) \/ (\E b \in Books : Spawn(b, p))

Spec == Init /\ [][Next]_vars

-----------------------------------------------------------------------------
TypeOK ==
  /\ serial \in 0..MaxSerial
  /\ \A b \in Books : todo[b] \subseteq mem[b] /\ phase[b] \in {"off", "reconcile", "on"}
  /\ \A p \in Pids : proc[p].kind \in {"free", "child", "foreign"}

(***************************************************************************)
(* "It ends the orphans the last run left" (main.rs), and "to end somebody *)
(* else's process by mistake is a hard wound" (reconcile): a start ends    *)
(* only children of ours whose own run is gone.                            *)
(***************************************************************************)
EndsOrphans ==
  \A p \in Pids :
    todo' # todo /\ phase' = phase /\ proc[p] # Free /\ proc'[p] = Free =>
      proc[p].kind = "child" /\ proc[p].parent = "nobody"

OrphansOnly == [][EndsOrphans]_vars

(***************************************************************************)
(* A child that was booked stays on the file until it is gone, through the *)
(* end of its run, the next start and a failing end: somebody finds it.    *)
(***************************************************************************)
StaysBooked ==
  \A p \in Pids :
    proc[p].kind = "child" /\ Entry(p) \in disk /\ proc'[p].serial = proc[p].serial =>
      Entry(p) \in disk'

OrphansAreBooked == [][StaysBooked]_vars
=============================================================================
