------------------------------ MODULE WorkRun ------------------------------
(***************************************************************************)
(* How a collaboration carries out its task chain: the threads around the  *)
(* main session and the sessions of the agents, from the moment the        *)
(* discussion has closed until the work is delivered                       *)
(* (src/capabilities/conductor/api/handle.rs, conductor/service/flow.rs,   *)
(* collab/service/pump.rs, slate.rs, turn_io.rs).                          *)
(*                                                                         *)
(* A session has one owner: it lies in the table of the core, or a thread  *)
(* has taken it out and works on it.  A call is a detached thread that     *)
(* wants the main session (a child woke it, the user continued, an answer  *)
(* is to be carried out); a call that finds it taken or stopped ends       *)
(* without effect.  `holder' is the call that has it.                      *)
(*                                                                         *)
(* A card is a set of nodes: the nodes a review rejected, or {} for the    *)
(* review of the plan.  Texts, reports and events are left out, and so are *)
(* the crash of the program, a stop of one agent alone, and cards of tools *)
(* (they wait in the queue of the agent's own session).                    *)
(***************************************************************************)
EXTENDS TaskChain

CONSTANTS
  Agents,      \* members of the collaboration; each has one session
  Scenarios,   \* what is run: [chain, stage, allowed]
  MaxCalls,    \* detached calls under way at the same time
  MaxThreads,  \* node threads of an agent that wait for its session
  MaxInputs    \* times the user speaks, stops or continues

Slots == 1..MaxCalls
Liberties == {"say", "early", "stop", "continue", "crash", "fail"}

ASSUME ScenariosAreSound ==
  \A s \in Scenarios :
    /\ Consistent(s.chain, Agents) /\ s.stage = Stages(s.chain)
    /\ s.allowed \subseteq Liberties

(***************************************************************************)
(* What the proofs need to know of stages; TaskChain computes them by a    *)
(* fold, and MCTaskChain checks them on every small chain.                 *)
(***************************************************************************)
ASSUME StagesFollowDependencies ==
  \A s \in Scenarios :
    /\ Len(s.chain) \in Nat /\ DOMAIN s.chain = 1..Len(s.chain)
    /\ s.stage \in [DOMAIN s.chain -> DOMAIN s.chain]
    /\ \A i, j \in Positions(s.chain) :
         s.chain[j].id \in s.chain[i].deps => s.stage[j] < s.stage[i]

ASSUME BoundsAreNumbers ==
  MaxCalls \in Nat \ {0} /\ MaxThreads \in Nat \ {0} /\ MaxInputs \in Nat

VARIABLES
  scenario,  \* the task chain the planner will make, with its stages, and
             \* what may happen besides the ordinary course; it stays
  work,      \* talked, planned, approved, done
  status,    \* of each node: pending, running, done
  verdict,   \* of each node: none, pass, fail
  door,      \* the queue of cards of the main session
  frozen,    \* the sessions of the work are stopped (meta.run)
  stopping,  \* the next step of a stop under way: no, void, cancel
  calls,     \* the detached calls, by slot
  holder,    \* the call that holds the main session
  todo,      \* of each agent: node threads that have not taken its session
  out,       \* of each agent: a thread has its session
  inputs     \* times the user spoke, stopped or continued

progress == <<status, verdict>>
vars == <<scenario, work, progress, door, frozen, stopping, calls, holder,
          todo, out, inputs>>

chain == scenario.chain
Stage == scenario.stage
allowed == scenario.allowed
Nodes == Positions(chain)
Current == CurrentStage(Stage, status, verdict)
Passed == AllPassed(Stage, status, verdict)
Waiting == ~Passed /\ ~StageSettled(Stage, status, Current)

NoCall == [by |-> "none", card |-> {}, say |-> FALSE, registered |-> FALSE,
           cancel |-> FALSE]
NoHolder == [by |-> "none", phase |-> "none", card |-> {}, left |-> 0,
             cancel |-> FALSE]

-----------------------------------------------------------------------------
(***************************************************************************)
(* Calls                                                                   *)
(***************************************************************************)
Free == {s \in Slots : calls[s].by = "none"}

(***************************************************************************)
(* A new detached call, in the lowest free slot.                           *)
(***************************************************************************)
Spawned(by, card, say) ==
  [calls EXCEPT ![CHOOSE s \in Free : \A t \in Free : s <= t] =
     [NoCall EXCEPT !.by = by, !.card = card, !.say = say]]

(***************************************************************************)
(* A defect: the end of a child wakes nobody.                              *)
(***************************************************************************)
WokenNot == calls

Woken == Spawned("wake", {}, FALSE)

(***************************************************************************)
(* collab_generation registers its flag before it asks for the session.    *)
(***************************************************************************)
Register(s) ==
  /\ calls[s].by # "none" /\ ~calls[s].registered
  /\ calls' = [calls EXCEPT ![s].registered = TRUE]
  /\ UNCHANGED <<scenario, work, progress, door, frozen, stopping, holder,
                 todo, out, inputs>>

Available == ~frozen /\ holder.phase = "none"

(***************************************************************************)
(* take_collab: dispatch_gate, then the table.                             *)
(***************************************************************************)
Take(s) ==
  /\ calls[s].registered /\ Available
  /\ holder' = [by |-> calls[s].by, card |-> calls[s].card, left |-> 0,
                cancel |-> calls[s].cancel,
                phase |-> IF calls[s].by # "answer" THEN "resume"
                          ELSE IF calls[s].say THEN "judge" ELSE "dispose"]
  /\ calls' = [calls EXCEPT ![s] = NoCall]
  /\ UNCHANGED <<scenario, work, progress, door, frozen, stopping, todo,
                 out, inputs>>

Refused(s) ==
  /\ calls[s].registered /\ ~Available
  /\ calls' = [calls EXCEPT ![s] = NoCall]
  /\ UNCHANGED <<scenario, work, progress, door, frozen, stopping, holder,
                 todo, out, inputs>>

Call(s) == Register(s) \/ Take(s) \/ Refused(s)

-----------------------------------------------------------------------------
(***************************************************************************)
(* The thread that holds the main session                                  *)
(***************************************************************************)

(***************************************************************************)
(* A defect: the old verdict of a node stays.                              *)
(***************************************************************************)
ResetStale(nodes) ==
  /\ status' = [i \in Nodes |-> IF i \in nodes THEN "pending" ELSE status[i]]
  /\ UNCHANGED verdict

ResetNodes(nodes) ==
  /\ status' = [i \in Nodes |-> IF i \in nodes THEN "pending" ELSE status[i]]
  /\ verdict' = [i \in Nodes |-> IF i \in nodes THEN "none" ELSE verdict[i]]

Pumping(left) == [holder EXCEPT !.phase = "pump", !.left = left, !.card = {}]

(***************************************************************************)
(* A defect: the loop does not see that there is nothing left to ask.      *)
(***************************************************************************)
AfterPumpEndless == Pumping(holder.left - 1)

(***************************************************************************)
(* The loop of collab_generation pumps once more after the pump of the     *)
(* call itself; then it unregisters and hands the session back.            *)
(***************************************************************************)
AfterPump == IF holder.left = 2 THEN Pumping(1)
             ELSE [holder EXCEPT !.phase = "put", !.left = 0]

(***************************************************************************)
(* resume() looks at the head of the queue; rejected nodes there are       *)
(* dispatched again, and the card is dropped in a step of its own.         *)
(***************************************************************************)
Resume ==
  /\ holder.phase = "resume"
  /\ holder' = IF work = "done" THEN Pumping(1)
               ELSE IF door # <<>> /\ Head(door) # {}
               THEN [holder EXCEPT !.phase = "drop", !.card = Head(door)]
               ELSE Pumping(2)
  /\ UNCHANGED <<work, progress, door>>

DropAndReset ==
  /\ holder.phase = "drop"
  /\ door' = IF door = <<>> THEN <<>> ELSE Tail(door)
  /\ ResetNodes(holder.card)
  /\ holder' = Pumping(2)
  /\ UNCHANGED work

(***************************************************************************)
(* dispose(): an answer that lets the work go on.  Judge decides whether   *)
(* what the user wrote means that; if not, or if the model failed or was   *)
(* cancelled, the same card goes up again.                                 *)
(***************************************************************************)
Carried ==
  /\ IF holder.card = {}
     THEN work' = (IF work = "planned" THEN "approved" ELSE work) /\ UNCHANGED progress
     ELSE ResetNodes(holder.card) /\ UNCHANGED work
  /\ holder' = [holder EXCEPT !.phase = "resume", !.card = {}]
  /\ UNCHANGED door

Dispose == holder.phase = "dispose" /\ Carried

Judge ==
  /\ holder.phase = "judge"
  /\ \/ ~holder.cancel /\ Carried
     \/ /\ door' = Append(door, holder.card)
        /\ holder' = Pumping(1)
        /\ UNCHANGED <<work, progress>>

(***************************************************************************)
(* pump_with has nothing to do: delivered, a card is open, or nodes of the *)
(* stage are still to run.                                                 *)
(***************************************************************************)
PumpReturns ==
  /\ holder.phase = "pump"
  /\ \/ work = "done"
     \/ door # <<>>
     \/ work = "approved" /\ Waiting
  /\ holder' = AfterPump
  /\ UNCHANGED <<work, progress, door>>

Pumps == holder.phase = "pump" /\ work # "done" /\ door = <<>>

(***************************************************************************)
(* The planner makes the plan and the chain; the plan goes to the user.    *)
(***************************************************************************)
PumpPlans ==
  /\ Pumps
  /\ work = "planned" \/ (work = "talked" /\ ~holder.cancel)
  /\ work' = "planned"
  /\ door' = <<{}>>
  /\ holder' = AfterPump
  /\ UNCHANGED progress

(***************************************************************************)
(* A stage whose nodes are all done is judged node by node: all good, the  *)
(* loop goes on with the next stage; else the bad ones go to the user.     *)
(***************************************************************************)
PumpReviews ==
  /\ Pumps /\ work = "approved" /\ ~Passed /\ ~Waiting /\ ~holder.cancel
  /\ LET stage == StageNodes(Stage, Current)
     IN  \E bad \in SUBSET stage :
           /\ verdict' = [i \in Nodes |-> IF i \notin stage THEN verdict[i]
                                          ELSE IF i \in bad THEN "fail" ELSE "pass"]
           /\ door' = IF bad = {} THEN door ELSE <<bad>>
           /\ holder' = IF bad = {} THEN holder ELSE AfterPump
  /\ UNCHANGED <<work, status>>

(***************************************************************************)
(* The review of the whole: the work is delivered, or nodes go back.       *)
(***************************************************************************)
PumpDelivers ==
  /\ Pumps /\ work = "approved" /\ Passed /\ ~holder.cancel
  /\ \E bad \in SUBSET Nodes :
       /\ work' = IF bad = {} THEN "done" ELSE work
       /\ door' = IF bad = {} THEN door ELSE <<bad>>
  /\ holder' = AfterPump
  /\ UNCHANGED progress

(***************************************************************************)
(* A call to the model that fails or is cancelled leaves all as it was.    *)
(***************************************************************************)
PumpFails ==
  /\ Pumps
  /\ work = "talked" \/ (work = "approved" /\ ~Waiting)
  /\ holder.cancel \/ "fail" \in allowed
  /\ holder' = AfterPump
  /\ UNCHANGED <<work, progress, door>>

Step ==
  /\ \/ Resume \/ DropAndReset \/ Dispose \/ Judge
     \/ PumpReturns \/ PumpPlans \/ PumpReviews \/ PumpDelivers \/ PumpFails
  /\ UNCHANGED <<scenario, frozen, stopping, calls, todo, out, inputs>>

(***************************************************************************)
(* Defects of the dispatch: any pending node starts; every ready node      *)
(* starts, whoever it belongs to.                                          *)
(***************************************************************************)
FreshAnyStage ==
  {i \in Nodes :
     /\ work \in {"approved", "done"} /\ status[i] = "pending"
     /\ \A j \in Nodes : chain[j].assignee = chain[i].assignee =>
          status[j] # "running" /\ (status[j] = "pending" => i <= j)}

FreshBusy ==
  IF work \notin {"approved", "done"} THEN {}
  ELSE StageReady(Stage, status, IF Passed THEN 1 ELSE Current)

(***************************************************************************)
(* spawn_ready_nodes: of the current stage, for each agent that has no     *)
(* node running, the first that is pending.                                *)
(***************************************************************************)
Fresh ==
  LET ready == StageReady(Stage, status, IF Passed THEN 1 ELSE Current)
      mates(i) == {j \in Nodes : chain[j].assignee = chain[i].assignee}
  IN  {i \in ready :
         /\ work \in {"approved", "done"}
         /\ \A j \in mates(i) : status[j] # "running" /\ (j \in ready => i <= j)}

FreshOf(a) == {i \in Fresh : chain[i].assignee = a}

(***************************************************************************)
(* A defect: the cards raised while the session was out stay.              *)
(***************************************************************************)
PutKeeping ==
  /\ holder.phase = "put"
  /\ holder' = NoHolder
  /\ status' = [i \in Nodes |-> IF i \in Fresh THEN "running" ELSE status[i]]
  /\ todo' = [a \in Agents |-> todo[a] + Cardinality(FreshOf(a))]
  /\ \A a \in Agents : FreshOf(a) # {} => todo[a] < MaxThreads
  /\ UNCHANGED <<scenario, work, verdict, door, frozen, stopping, calls, out, inputs>>

(***************************************************************************)
(* put_collab: back in the table, the queue voided if the work was stopped *)
(* meanwhile, the ready nodes marked and a thread started for each.        *)
(***************************************************************************)
Put ==
  /\ holder.phase = "put"
  /\ holder' = NoHolder
  /\ door' = IF frozen THEN <<>> ELSE door
  /\ status' = [i \in Nodes |-> IF i \in Fresh THEN "running" ELSE status[i]]
  /\ todo' = [a \in Agents |-> todo[a] + Cardinality(FreshOf(a))]
  /\ \A a \in Agents : FreshOf(a) # {} => todo[a] < MaxThreads
  /\ UNCHANGED <<scenario, work, verdict, frozen, stopping, calls, out, inputs>>

-----------------------------------------------------------------------------
(***************************************************************************)
(* The sessions of the agents                                              *)
(***************************************************************************)

(***************************************************************************)
(* node_generation: a thread that cannot have the session gives up.        *)
(***************************************************************************)
StartNode(a) ==
  /\ todo[a] > 0
  /\ todo' = [todo EXCEPT ![a] = @ - 1]
  /\ out' = [out EXCEPT ![a] = @ \/ ~frozen]
  /\ UNCHANGED <<scenario, work, progress, door, frozen, stopping, calls,
                 holder, inputs>>

RunningOf(a) == {i \in Nodes : chain[i].assignee = a /\ status[i] = "running"}

(***************************************************************************)
(* put_single: the session comes back, the node that was running in it is  *)
(* done -- if the main session is in the table -- and the parent is woken. *)
(***************************************************************************)
EndChild(a) ==
  /\ out[a] /\ Free # {}
  /\ out' = [out EXCEPT ![a] = FALSE]
  /\ status' = [i \in Nodes |->
                  IF i \in RunningOf(a) /\ holder.phase = "none" THEN "done" ELSE status[i]]
  /\ calls' = Woken
  /\ UNCHANGED <<scenario, work, verdict, door, frozen, stopping, holder, todo, inputs>>

(***************************************************************************)
(* The thread panics: abort_running, and only a proxy would be told.       *)
(***************************************************************************)
CrashChild(a) ==
  /\ "crash" \in allowed /\ out[a]
  /\ out' = [out EXCEPT ![a] = FALSE]
  /\ UNCHANGED <<scenario, work, progress, door, frozen, stopping, calls,
                 holder, todo, inputs>>

-----------------------------------------------------------------------------
(***************************************************************************)
(* The user                                                                *)
(***************************************************************************)

(***************************************************************************)
(* take_card takes the head out; carrying it out is a call of its own.     *)
(* "early": while a thread still has the session.                          *)
(***************************************************************************)
Answer ==
  /\ door # <<>> /\ Free # {}
  /\ "early" \in allowed \/ holder.phase = "none"
  /\ door' = Tail(door)
  /\ \E say \in BOOLEAN :
       calls' = Spawned("answer", Head(door), say)
  /\ UNCHANGED <<scenario, work, progress, frozen, stopping, holder, todo,
                 out, inputs>>

Say(a) ==
  /\ "say" \in allowed /\ inputs < MaxInputs
  /\ ~frozen /\ ~out[a]
  /\ out' = [out EXCEPT ![a] = TRUE]
  /\ inputs' = inputs + 1
  /\ UNCHANGED <<scenario, work, progress, door, frozen, stopping, calls,
                 holder, todo>>

(***************************************************************************)
(* continue_flow: the tree is active again, then a call as after a wake.   *)
(***************************************************************************)
Continue ==
  /\ "continue" \in allowed /\ Free # {} /\ inputs < MaxInputs
  /\ frozen \/ holder.phase = "none"
  /\ frozen' = FALSE
  /\ inputs' = inputs + 1
  /\ calls' = Spawned("continue", {}, FALSE)
  /\ UNCHANGED <<scenario, work, progress, door, stopping, holder, todo, out>>

(***************************************************************************)
(* The flags a stop reaches: the calls that have registered, and the       *)
(* holder until it unregisters.                                            *)
(***************************************************************************)
Cancels ==
  /\ calls' = [s \in Slots |->
                 IF calls[s].registered THEN [calls[s] EXCEPT !.cancel = TRUE]
                 ELSE calls[s]]
  /\ holder' = IF holder.phase \in {"none", "put"} THEN holder
               ELSE [holder EXCEPT !.cancel = TRUE]

(***************************************************************************)
(* A defect: first cancel, then freeze.                                    *)
(***************************************************************************)
StopReversed ==
  /\ "stop" \in allowed
  /\ \/ /\ stopping = "no" /\ ~frozen /\ inputs < MaxInputs
        /\ stopping' = "void" /\ inputs' = inputs + 1 /\ Cancels
        /\ UNCHANGED <<frozen, door>>
     \/ /\ stopping = "void"
        /\ stopping' = "no" /\ frozen' = TRUE /\ door' = <<>>
        /\ UNCHANGED <<calls, holder, inputs>>
  /\ UNCHANGED <<scenario, work, progress, todo, out>>

(***************************************************************************)
(* stop: freeze the tree, void its queues, then cancel what runs; three    *)
(* steps for which "the order must not be reversed".                       *)
(***************************************************************************)
Stop ==
  /\ "stop" \in allowed
  /\ \/ /\ stopping = "no" /\ ~frozen /\ inputs < MaxInputs
        /\ stopping' = "void" /\ frozen' = TRUE /\ inputs' = inputs + 1
        /\ UNCHANGED <<door, calls, holder>>
     \/ /\ stopping = "void"
        /\ stopping' = "cancel" /\ door' = IF frozen THEN <<>> ELSE door
        /\ UNCHANGED <<frozen, calls, holder, inputs>>
     \/ /\ stopping = "cancel"
        /\ stopping' = "no" /\ Cancels
        /\ UNCHANGED <<frozen, door, inputs>>
  /\ UNCHANGED <<scenario, work, progress, todo, out>>

-----------------------------------------------------------------------------
(***************************************************************************)
(* The discussion has just closed, inside the pump of the call that leads  *)
(* it.                                                                     *)
(***************************************************************************)
Init ==
  /\ scenario \in Scenarios
  /\ work = "talked"
  /\ status = [i \in Nodes |-> "pending"]
  /\ verdict = [i \in Nodes |-> "none"]
  /\ door = <<>>
  /\ frozen = FALSE /\ stopping = "no"
  /\ calls = [s \in Slots |-> NoCall]
  /\ holder = [by |-> "answer", phase |-> "pump", card |-> {}, left |-> 2,
               cancel |-> FALSE]
  /\ todo = [a \in Agents |-> 0]
  /\ out = [a \in Agents |-> FALSE]
  /\ inputs = 0

User == Answer \/ Continue \/ Stop \/ \E a \in Agents : Say(a)
Child(a) == StartNode(a) \/ EndChild(a)

Next ==
  \/ \E s \in Slots : Call(s)
  \/ Step \/ Put
  \/ \E a \in Agents : Child(a) \/ CrashChild(a)
  \/ User

(***************************************************************************)
(* Every thread goes on, and every answer of a model comes in the end (a   *)
(* time limit sees to it); what the user does is left to the user.  That   *)
(* an agent waits for the user to answer the card of a tool is left out.   *)
(***************************************************************************)
Fairness ==
  /\ \A s \in Slots : WF_vars(Call(s))
  /\ WF_vars(Step \/ Put)
  /\ \A a \in Agents : WF_vars(StartNode(a)) /\ WF_vars(EndChild(a))

Spec == Init /\ [][Next]_vars /\ Fairness

-----------------------------------------------------------------------------
(***************************************************************************)
(* Properties                                                              *)
(***************************************************************************)
TypeOK ==
  /\ scenario \in Scenarios
  /\ work \in {"talked", "planned", "approved", "done"}
  /\ status \in [Nodes -> {"pending", "running", "done"}]
  /\ verdict \in [Nodes -> {"none", "pass", "fail"}]
  /\ door \in Seq(SUBSET Nodes)
  /\ frozen \in BOOLEAN /\ stopping \in {"no", "void", "cancel"}
  /\ calls \in [Slots -> [by : {"none", "wake", "continue", "answer"},
                          card : SUBSET Nodes, say : BOOLEAN,
                          registered : BOOLEAN, cancel : BOOLEAN]]
  /\ holder \in [by : {"none", "wake", "continue", "answer"},
                 phase : {"none", "resume", "drop", "dispose", "judge", "pump", "put"},
                 card : SUBSET Nodes, left : 0..2, cancel : BOOLEAN]
  /\ todo \in [Agents -> 0..MaxThreads] /\ out \in [Agents -> BOOLEAN]
  /\ inputs \in 0..MaxInputs

(***************************************************************************)
(* A verdict is about what is there: a node that was sent back has lost    *)
(* the verdict on its former result, whatever was answered when            *)
(* (reset_node).                                                           *)
(***************************************************************************)
VerdictIsCurrent == \A i \in Nodes : verdict[i] # "none" => status[i] = "done"

(***************************************************************************)
(* A node starts after the user accepted the plan, with every node it      *)
(* depends on done and accepted at that moment, whatever answers, wakes    *)
(* and late tickets crossed (stage_ready: "no need to look at dependencies *)
(* again").                                                                *)
(***************************************************************************)
StartsInOrder ==
  \A i \in Nodes :
    status[i] # "running" /\ status'[i] = "running" =>
      /\ work \in {"approved", "done"}
      /\ \A j \in Nodes : chain[j].id \in chain[i].deps =>
           status[j] = "done" /\ verdict[j] = "pass"

DispatchInOrder == [][StartsInOrder]_vars

(***************************************************************************)
(* "The session of an agent can only run one round at a time": never two   *)
(* nodes at once in the same session, so that its end tells which node is  *)
(* done (spawn_ready_nodes, running_node_of).                              *)
(***************************************************************************)
OneNodePerAgent == \A a \in Agents : Cardinality(RunningOf(a)) <= 1

(***************************************************************************)
(* Once a stop is through, the thread that holds the main session knows    *)
(* it, until the user continues: a call is either refused at the gate or   *)
(* its flag was there to be set (the order of stop and of register).       *)
(***************************************************************************)
StopReachesMain ==
  frozen /\ stopping = "no" /\ holder.phase \notin {"none", "put"} => holder.cancel

(***************************************************************************)
(* A stopped work asks nothing: no card is left in the queue of a session  *)
(* that lies stopped in the table, whichever thread raised it when.        *)
(***************************************************************************)
StoppedAsksNothing ==
  frozen /\ stopping # "void" /\ holder.phase = "none" => door = <<>>

Unjudged(a) ==
  {i \in Nodes : chain[i].assignee = a /\ status[i] # "pending" /\ verdict[i] = "none"}

(***************************************************************************)
(* In the ordinary course (one node at a time, no stop, no failure) a node *)
(* that was started is judged in the end, or the user is asked something.  *)
(***************************************************************************)
CompletionIsReviewed ==
  \A a \in Agents :
    (allowed = {} /\ Unjudged(a) # {}) ~> (Unjudged(a) = {} \/ door # <<>>)

(***************************************************************************)
(* The end of a child marks its node: docs/collab/task-chain.md says that  *)
(* the child's end reaches the core, which marks the node there and takes  *)
(* the chain one step on.  A node left running is never dispatched again.  *)
(***************************************************************************)
EndMarksTheNode ==
  [][\A a \in Agents : out[a] /\ ~out'[a] => RunningOf(a)' = {}]_vars

(***************************************************************************)
(* Rejected nodes are sent back by the user, not by the end of a child:    *)
(* the comment in resume() says that a wake cannot take this decision.       *)
(***************************************************************************)
ReworkIsTheUsers ==
  [][\A i \in Nodes :
       status[i] = "done" /\ status'[i] = "pending" => holder.by # "wake"]_vars
=============================================================================
