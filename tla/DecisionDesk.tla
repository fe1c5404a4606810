---------------------------- MODULE DecisionDesk ----------------------------
(***************************************************************************)
(* The decisions a session waits for: one queue, first come first served,  *)
(* of which the user sees and answers the head.  A card of a tool has a    *)
(* slot, on which a thread of the generation sleeps; a card of a gate has  *)
(* none.  What was asked, answered and voided goes to the transcript, from *)
(* which the queue is rebuilt.                                             *)
(***************************************************************************)
EXTENDS Integers, Lists

CONSTANTS
  Branches,   \* threads of one generation (tools that run side by side)
  MaxCards    \* bound: cards numbered

VARIABLES
  queue,      \* the open cards: number, and who waits for the answer
  issued,     \* the highest number given
  slot,       \* of each thread: the answer, and whether it was released and why
  pc,         \* of each thread: "idle", "emit", "wait", "looks", "asleep"
  news,       \* the announcement a thread has yet to emit
  got,        \* how the last question of each thread ended
  told,       \* what happened to its card
  gen,        \* a generation has the session out
  run,        \* the run state of the session on disk
  cancelled,  \* the cancel flag of the generation
  stopper,    \* the step a stop has reached
  voided,     \* the cards a stop has yet to write down
  log         \* the transcript: heads, waiting and voided cards, open gates

vars == <<queue, issued, slot, pc, news, got, told, gen, run, cancelled, stopper, voided, log>>
thread == <<slot, pc, news, got, told>>

Gate == "gate"
Empty == [option |-> FALSE, released |-> FALSE, stopped |-> FALSE]
Ids(q) == {q[i].id : i \in DOMAIN q}
Waiters(q) == {q[i].who : i \in DOMAIN q} \ {Gate}
NoNews == [head |-> 0, rest |-> {}, gates |-> {}]
NoLog == [heads |-> {}, waiting |-> {}, voids |-> {}, open |-> {}]

\* announce: the head and those behind it.
Shape(q) ==
  IF q = <<>> THEN NoNews
  ELSE [head |-> q[1].id, rest |-> Ids(Tail(q)), gates |-> {q[i].id : i \in {j \in DOMAIN q : q[j].who = Gate}}]

Written(l, n) ==
  IF n = NoNews THEN l
  ELSE [l EXCEPT !.heads = @ \union {n.head}, !.waiting = @ \union n.rest, !.open = @ \union n.gates]

\* issued_in: the highest number the transcript knows, of cards that were seen
\* at the head, behind it, or voided.
IssuedInHeads(l) == Max(l.heads \union {0})       \* mutant: counts the heads alone
IssuedIn(l) == Max(l.heads \union l.waiting \union l.voids \union {0})

Init ==
  /\ queue = <<>> /\ issued = 0
  /\ slot = [t \in Branches |-> Empty] /\ pc = [t \in Branches |-> "idle"]
  /\ news = [t \in Branches |-> NoNews]
  /\ got = [t \in Branches |-> "none"] /\ told = [t \in Branches |-> "none"]
  /\ gen = FALSE /\ run = "active" /\ cancelled = FALSE
  /\ stopper = "none" /\ voided = {} /\ log = NoLog

-----------------------------------------------------------------------------
(***************************************************************************)
(* The generation.                                                         *)
(***************************************************************************)
Begin ==
  /\ ~gen /\ run = "active"
  /\ gen' = TRUE /\ cancelled' = FALSE
  /\ UNCHANGED <<queue, issued, thread, run, stopper, voided, log>>

\* A thread asks: the card is in the queue before anybody is told of it.
Push(t, who) ==
  /\ gen /\ ~cancelled /\ pc[t] = "idle" /\ issued < MaxCards
  /\ issued' = issued + 1
  /\ queue' = Append(queue, [id |-> issued', who |-> who])
  /\ news' = [news EXCEPT ![t] = Shape(queue')]
  /\ pc' = [pc EXCEPT ![t] = "emit"]

Ask(t) ==
  /\ Push(t, t)
  /\ slot' = [slot EXCEPT ![t] = Empty]
  /\ got' = [got EXCEPT ![t] = "none"] /\ told' = [told EXCEPT ![t] = "none"]
  /\ UNCHANGED <<gen, run, cancelled, stopper, voided, log>>

AskGate(t) ==
  /\ Push(t, Gate)
  /\ UNCHANGED <<slot, got, told, gen, run, cancelled, stopper, voided, log>>

Emit(t) ==
  /\ pc[t] = "emit"
  /\ log' = Written(log, news[t])
  /\ news' = [news EXCEPT ![t] = NoNews]
  /\ pc' = [pc EXCEPT ![t] = IF told[t] # "none" \/ t \in Waiters(queue) THEN "wait" ELSE "idle"]
  /\ UNCHANGED <<queue, issued, slot, got, told, gen, run, cancelled, stopper, voided>>

\* AnswerSlot::wait: the flags are read with the lock of the slot held, which
\* going to sleep gives back.
Look(t) ==
  /\ pc[t] = "wait"
  /\ pc' = [pc EXCEPT ![t] = "looks"]
  /\ got' = [got EXCEPT ![t] = IF slot[t].option THEN "chosen"
                               ELSE IF ~slot[t].released THEN "none"
                               ELSE IF slot[t].stopped THEN "refused" ELSE "default"]
  /\ UNCHANGED <<queue, issued, slot, news, told, gen, run, cancelled, stopper, voided, log>>

Sleep(t) ==
  /\ pc[t] = "looks"
  /\ pc' = [pc EXCEPT ![t] = IF got[t] = "none" THEN "asleep" ELSE "idle"]
  /\ told' = [told EXCEPT ![t] = IF got[t] = "none" THEN @ ELSE "none"]
  /\ UNCHANGED <<queue, issued, slot, news, got, gen, run, cancelled, stopper, voided, log>>

UnlockedAlways(t) == TRUE        \* mutant: the flags are atomics beside the lock
Unlocked(t) == pc[t] # "looks"

\* Wakes those who sleep; the others will find the flag.
Notified(ts) == [t \in Branches |-> IF t \in ts /\ pc[t] = "asleep" THEN "wait" ELSE pc[t]]

\* put_single leaves the queue alone; put_collab voids that of a session that was
\* stopped meanwhile.
GiveBack ==
  /\ gen /\ \A t \in Branches : pc[t] = "idle"
  /\ gen' = FALSE
  /\ \/ UNCHANGED <<queue, log>>
     \/ /\ run = "stopped" /\ queue # <<>>
        /\ queue' = <<>>
        /\ log' = [log EXCEPT !.voids = @ \union Ids(queue), !.open = @ \ Ids(queue)]
  /\ UNCHANGED <<issued, thread, run, cancelled, stopper, voided>>

\* resume() drops the card of the rejected nodes and tells nobody.
DropHead ==
  /\ gen /\ ~cancelled /\ queue # <<>> /\ queue[1].who = Gate
  /\ queue' = Tail(queue)
  /\ UNCHANGED <<issued, thread, gen, run, cancelled, stopper, voided, log>>

-----------------------------------------------------------------------------
(***************************************************************************)
(* The user.                                                               *)
(***************************************************************************)
\* answer: the head, and no other card.
Answer ==
  /\ queue # <<>>
  /\ LET c == queue[1]
     IN  /\ queue' = Tail(queue)
         /\ log' = Written([log EXCEPT !.open = @ \ {c.id}], Shape(queue'))
         /\ IF c.who = Gate THEN UNCHANGED <<slot, pc, told>>
            ELSE /\ Unlocked(c.who)
                 /\ slot' = [slot EXCEPT ![c.who].option = TRUE]
                 /\ told' = [told EXCEPT ![c.who] = "answered"]
                 /\ pc' = Notified({c.who})
  /\ UNCHANGED <<issued, news, got, gen, run, cancelled, stopper, voided>>

\* stop: the state first, then the queue, then what was voided is written down,
\* then the flags of what still runs.
Freeze ==
  /\ stopper = "none" /\ run = "active"
  /\ run' = "stopped" /\ stopper' = "void"
  /\ UNCHANGED <<queue, issued, thread, gen, cancelled, voided, log>>

ReleasedSoftly(s) == [s EXCEPT !.released = TRUE]      \* mutant: forgets why
Released(s) == [s EXCEPT !.released = TRUE, !.stopped = TRUE]

Void ==
  /\ stopper = "void" /\ \A t \in Waiters(queue) : Unlocked(t)
  /\ slot' = [t \in Branches |-> IF t \in Waiters(queue) THEN Released(slot[t]) ELSE slot[t]]
  /\ told' = [t \in Branches |-> IF t \in Waiters(queue) THEN "stopped" ELSE told[t]]
  /\ pc' = Notified(Waiters(queue))
  /\ queue' = <<>> /\ voided' = Ids(queue)
  /\ stopper' = "persist"
  /\ UNCHANGED <<issued, news, got, gen, run, cancelled, log>>

Persist ==
  /\ stopper = "persist"
  /\ log' = [log EXCEPT !.voids = @ \union voided, !.open = @ \ voided]
  /\ voided' = {} /\ stopper' = "cancel"
  /\ UNCHANGED <<queue, issued, thread, gen, run, cancelled>>

Cancel ==
  /\ stopper = "cancel"
  /\ cancelled' = TRUE /\ stopper' = "none"
  /\ UNCHANGED <<queue, issued, thread, gen, run, voided, log>>

Continue ==
  /\ run = "stopped" /\ stopper = "none"
  /\ run' = "active"
  /\ UNCHANGED <<queue, issued, thread, gen, cancelled, stopper, voided, log>>

-----------------------------------------------------------------------------
\* Open gates come back with their numbers, in their order.
Reopened == [i \in 1..Cardinality(log.open) |->
               [id |-> CHOOSE c \in log.open : Cardinality({d \in log.open : d < c}) = i - 1, who |-> Gate]]

\* rebuild_session: the transcript decides, and numbers go on from it.
Rebuild ==
  /\ ~gen
  /\ issued' = Max({issued, IssuedIn(log)})
  /\ queue' = Reopened
  /\ UNCHANGED <<thread, gen, run, cancelled, stopper, voided, log>>

\* The program dies and is started again.
Restart ==
  /\ queue' = Reopened /\ issued' = Max({IssuedIn(log)} \union log.open)
  /\ slot' = [t \in Branches |-> Empty] /\ pc' = [t \in Branches |-> "idle"]
  /\ news' = [t \in Branches |-> NoNews]
  /\ got' = [t \in Branches |-> "none"] /\ told' = [t \in Branches |-> "none"]
  /\ gen' = FALSE /\ cancelled' = FALSE /\ stopper' = "none" /\ voided' = {}
  /\ UNCHANGED <<run, log>>

Waits(t) == Emit(t) \/ Look(t) \/ Sleep(t)
Next ==
  \/ \E t \in Branches : Ask(t) \/ AskGate(t) \/ Waits(t)
  \/ Begin \/ GiveBack \/ DropHead
  \/ Answer \/ Freeze \/ Void \/ Persist \/ Cancel \/ Continue
  \/ Rebuild \/ Restart

\* Threads that can go on do; nobody has to ask, answer or stop.
Fairness == \A t \in Branches : WF_vars(Waits(t))
Spec == Init /\ [][Next]_vars /\ Fairness

-----------------------------------------------------------------------------
TypeOK ==
  /\ issued \in 0..MaxCards /\ Ids(queue) \subseteq 1..issued
  /\ \A t \in Branches : pc[t] \in {"idle", "emit", "wait", "looks", "asleep"}
  /\ stopper \in {"none", "void", "persist", "cancel"}

(***************************************************************************)
(* "A stop is never taken for a consent" (SlotWake): what a thread is told *)
(* is what happened to its card, however answer, stop and rebuild cross.   *)
(***************************************************************************)
OutcomeIsTheUsers ==
  \A t \in Branches : pc[t] = "looks" =>
    /\ got[t] = "chosen" => told[t] = "answered"
    /\ got[t] = "refused" => told[t] = "stopped"
    /\ got[t] # "default"

\* A card is answered or voided at any moment of its wait: its thread goes on
\* (the comment on SlotState tells of the wake-up that was lost).
Wakes(t) == told[t] # "none" ~> told[t] = "none"

\* A new card never has the number of one that the transcript knows.
NewNumber == issued' > issued /\ Len(queue') > Len(queue) /\ queue'[Len(queue')].id = issued' /\ gen =>
               issued' \notin log.heads \union log.waiting \union log.voids
CardsAreNew == [][NewNumber]_vars
=============================================================================
