----------------------------- MODULE MCSessions -----------------------------
(***************************************************************************)
(* What the sessions of the program go through beside their transcripts    *)
(* and the shared files: small instances of the task chain, the decisions  *)
(* queue, the machines of sessions, their channel and their services, and  *)
(* the calls of models.                                                    *)
(* They share no state at the grain of their modules; a behaviour is one   *)
(* of `which`, and the others rest where they began.                       *)
(***************************************************************************)
EXTENDS Naturals, Sequences, FiniteSets

CONSTANTS
  none,
  Labels,      \* names that a planner writes for the nodes of a chain
  Workers,     \* names it may assign nodes to
  Present,     \* members that are there
  Largest,     \* bound: nodes of a chain
  Threads,     \* tools that run side by side
  Cards,       \* bound: cards asked
  Callers,     \* requests about machines and services
  Homes,       \* work trees
  Machines,    \* bound: guests booted
  Provided,    \* services of a module
  Tenants,     \* leases that services are started for
  Processes,   \* bound: processes started
  Delays,      \* bound: answers over a channel that come late
  Calls,       \* bound: calls over a channel, and of a model
  Offers,      \* endpoints of a provider, in order
  Letters,     \* of a text
  Sayings,     \* what a line of a model may add to one
  Length,      \* bound: letters of a reply
  Enough       \* letters after which a reader has enough

ASSUME SessionsAssumption ==
  /\ "gate" \notin Threads
  /\ Largest \in Nat /\ Cards \in Nat /\ Machines \in Nat /\ Processes \in Nat /\ Calls \in Nat
  /\ Delays \in Nat /\ Length \in Nat
  /\ Sayings \subseteq Seq(Letters) \ {<<>>} /\ \A w \in Sayings : Len(w) <= Length
  /\ Offers \in Seq({Offers[i] : i \in DOMAIN Offers}) \ {<<>>}

VARIABLES
  which,
  draft, chain,
  queue, issued, slot, pc, news, got, told, gen, run, cancelled, stopper, voided, log,
  meta, running, booting, guests, alive, layer, busy, vms, demand,
  module, switch, table, failed, procs, born, lock, req,
  call, at, sent, inner, pid, again, stamp, asks, wire, jobs, late, cancel, cancelSent, overdue, out,
  memo, resolved, answered, style, stage, left, options, half, reply, said, shown, quiet,
  stopped, ended, spent

vC == <<draft, chain>>
vQ == <<queue, issued, slot, pc, news, got, told, gen, run, cancelled, stopper, voided, log>>
vG == <<meta, running, booting, guests, alive, layer, busy, vms, demand>>
vR == <<module, switch, table, failed, procs, born, lock, req>>
vW == <<call, at, sent, inner, pid, again, stamp, asks, wire, jobs, late, cancel, cancelSent, overdue, out>>
vM == <<memo, resolved, answered, style, stage, left, options, half, reply, said, shown, quiet,
        stopped, ended, spent>>
vars == <<which, vC, vQ, vG, vR, vW, vM>>

Chain == INSTANCE MCTaskChain WITH Ids <- Labels, Members <- Workers, Roster <- Present,
           MaxNodes <- Largest
Desk == INSTANCE DecisionDesk WITH Branches <- Threads, MaxCards <- Cards
Guest == INSTANCE Guests WITH Trees <- Homes, Requests <- Callers, Limit <- 1,
           MaxVms <- Machines, table <- guests, req <- demand
Resident == INSTANCE Residents WITH Requests <- Callers, Services <- Provided,
              Leases <- Tenants, MaxProcs <- Processes
Channel == INSTANCE GuestChannel WITH MaxCalls <- Calls, MaxLate <- Delays
\* A model that streams and has slots for calls; and one that does neither.
Model == INSTANCE ModelCall WITH Endpoints <- Offers, Stream <- TRUE, Native <- TRUE,
           Words <- Sayings, MaxText <- Length, MaxStream <- Enough, MaxCalls <- Calls, None <- none
Whole == INSTANCE ModelCall WITH Endpoints <- Offers, Stream <- FALSE, Native <- FALSE,
           Words <- Sayings, MaxText <- Length, MaxStream <- Enough, MaxCalls <- Calls, None <- none

\* Two endpoints; a line adds a letter, or two of them.
TwoEndpoints == <<"u1", "u2">>
OneOrBoth == {<<"a">>, <<"b">>, <<"a", "b">>}

\* A component that is not looked at rests in one of its initial states.
Rest ==
  /\ (which \notin {"guests", "talk"} => meta = [s \in Homes |-> "none"])
  /\ (which # "residents" => switch = [s \in Provided |-> FALSE])
  /\ (which \notin {"model", "whole"} => style = "pieces")

\* Every request is looked at on one tree, the others are gone; conversations on all.
Ground ==
  /\ which = "guests" => \A s \in Homes \ {CHOOSE r \in Homes : TRUE} : meta[s] = "deleted"
  /\ which = "talk" => \A s \in Homes : meta[s] # "deleted"

Init ==
  /\ which \in {"chain", "desk", "guests", "talk", "residents", "channel", "model", "whole"}
  /\ Rest
  /\ IF which = "chain" THEN Chain!Init ELSE draft = <<>> /\ chain = <<>>
  /\ Guest!Init /\ Ground
  /\ Desk!Init /\ Resident!Init /\ Channel!Init /\ Model!Init

Next ==
  /\ UNCHANGED which
  /\ \/ which = "chain" /\ Chain!Next /\ UNCHANGED <<vQ, vG, vR, vW, vM>>
     \/ which = "desk" /\ Desk!Next /\ UNCHANGED <<vC, vG, vR, vW, vM>>
     \/ which = "guests" /\ Guest!Next /\ UNCHANGED <<vC, vQ, vR, vW, vM>>
     \/ which = "talk" /\ Guest!Talk /\ UNCHANGED <<vC, vQ, vR, vW, vM>>
     \/ which = "residents" /\ Resident!Next /\ UNCHANGED <<vC, vQ, vG, vW, vM>>
     \/ which = "channel" /\ Channel!Next /\ UNCHANGED <<vC, vQ, vG, vR, vM>>
     \/ which = "model" /\ Model!Next /\ UNCHANGED <<vC, vQ, vG, vR, vW>>
     \/ which = "whole" /\ Whole!Next /\ UNCHANGED <<vC, vQ, vG, vR, vW>>

\* Threads that can go on do; services answer or end; the agent of a guest answers.
\* Where a component rests, none of its fair actions is enabled.
Fairness == Desk!Fairness /\ Resident!Fairness /\ Channel!Fairness /\ Model!Fairness
Spec == Init /\ [][Next]_vars /\ Fairness

-----------------------------------------------------------------------------
\* Every component keeps its types.
TypesHold ==
  /\ Chain!TypeOK /\ Desk!TypeOK /\ Guest!TypeOK /\ Resident!TypeOK /\ Channel!TypeOK
  /\ IF which = "whole" THEN Whole!TypeOK ELSE Model!TypeOK

\* The check lets a chain through exactly when it can be worked off; in such a
\* chain a stage is the longest way to a node, and naming the nodes by it changes
\* neither the graph nor the stages; what the scheduler dispatches waits for nothing.
ChainIsSound ==
  which = "chain" =>
    /\ Chain!DoorIsExact /\ Chain!StageIsDepth
    /\ Chain!RenamingKeepsTheGraph /\ Chain!ReadyWaitsForNothing

\* A stop is never taken for a consent, nor an answer given to another card.
OutcomeIsTheUsers == Desk!OutcomeIsTheUsers

\* A new card never has the number of one that the transcript knows.
CardsAreNew == Desk!CardsAreNew

\* Machines are in the table or in hand, none is stopped below a call, and
\* conversations alone never boot two on one lease; no process of a service is
\* lost, whatever starts, stops and dies.
NothingIsLost ==
  /\ Guest!NoLostGuests /\ Guest!NotCutOff
  /\ which = "talk" => Guest!OneGuestPerLease
  /\ Resident!NoStrays

\* What a call to a guest reports as its end is its own, however late answers come.
\* A call of a model returns what its provider has said, whole, in whatever pieces it
\* came, and the user has seen the same and nothing twice; after a stop nothing of it
\* is run; and an endpoint is kept only when it has answered.
RightAnswer ==
  /\ Channel!RightAnswer
  /\ which = "model" =>
       /\ Model!ReplyIsWhatWasSaid /\ Model!StoppedRunsNothing
       /\ Model!KeptEndpointsAnswer /\ Model!NothingTakenBack
  /\ which = "whole" =>
       /\ Whole!ReplyIsWhatWasSaid /\ Whole!StoppedRunsNothing /\ Whole!KeptEndpointsAnswer

\* Nobody waits for ever: the thread of an answered or voided card goes on, and
\* requests about services end as long as services answer or end, and a call
\* to a guest ends though its command does not; and a call of a model, unless its
\* provider goes on talking and nobody stops it.  Threads are alike, so that one
\* stands for all.
NobodyHangs ==
  /\ which = "desk" => Desk!Wakes(CHOOSE t \in Threads : TRUE)
  /\ which = "residents" => Resident!RequestEnds(CHOOSE t \in Callers : TRUE)
  /\ which = "channel" => Channel!CallEnds
  /\ which \in {"model", "whole"} => Model!CallEnds
=============================================================================
