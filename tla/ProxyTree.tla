----------------------------- MODULE ProxyTree -----------------------------
(***************************************************************************)
(* A proxy session and the sessions it makes: the proxy asks for children, *)
(* sends them work and controls them with its tools, each child that ends  *)
(* a turn writes a note to the proxy and wakes it, and the user stops,     *)
(* continues, closes or enables any session of the tree meanwhile.  A turn *)
(* is started by a thread of its own that nobody waits for, and whatever   *)
(* refuses it is told to no one.  A call of the core is one step, and what *)
(* the threads do between two calls is not.                                *)
(***************************************************************************)
EXTENDS Naturals, Sequences, FiniteSets

CONSTANTS
  Kids,      \* names for the children
  Collab,    \* the children that are discussions; the others are one agent's
  Requests,  \* the request ids of the proxy's model
  None,
  MaxCalls,  \* calls of the proxy's tools that change something
  MaxActs,   \* what the user does
  MaxFalls   \* threads that panic

Root == "proxy"
Sessions == {Root} \cup Kids
Works == {"wake", "say", "task", "resume", "answer", "begin"}

VARIABLES
  life,     \* the run state in the session's meta, "none" before it is made
  hand,     \* where the session's object is: in the core's table or with a thread
  flag,     \* the flag of its turn in the registry of jobs
  last,     \* whose row is the last one of its transcript
  card,     \* the discussions that have a card open
  loaded,   \* the proxy's object is in the core's table, or with a thread
  fitted,   \* the object of the proxy has its handler of tools
  ledger,   \* what the handler remembers of the creations it answered
  lit,      \* threads that are about to start a turn
  telling,  \* children that are back and whose proxy is not told yet
  ops,      \* what the proxy's turn and the user are in the middle of
  acts, notes, due, made, missed, still
vars == <<life, hand, flag, last, card, loaded, fitted, ledger, lit, telling, ops,
          acts, notes, due, made, missed, still>>
world == <<life, card, loaded, fitted, ledger, telling, ops, acts, due, made, missed, still>>

Idle == [what |-> "none", s |-> Root, r |-> None, step |-> 0]
Tree(s) == IF s = Root THEN {t \in Sessions : life[t] # "none"} ELSE {s}
Light(s, w) == lit' = [lit EXCEPT ![<<s, w>>] = @ + 1]
Startable(s) == life[s] = "active" /\ hand[s] = "table"

Init ==
  /\ life = [s \in Sessions |-> IF s = Root THEN "active" ELSE "none"]
  /\ hand = [s \in Sessions |-> "table"]
  /\ flag = [s \in Sessions |-> "none"]
  /\ last = [s \in Sessions |-> "ai"]
  /\ card = {} /\ telling = {} /\ notes = {} /\ missed = {}
  /\ loaded = TRUE /\ fitted = FALSE /\ still = FALSE
  /\ ledger = [r \in Requests |-> None]
  /\ lit = [f \in Sessions \X Works |-> 0]
  /\ ops = [p \in {"proxy", "user"} |-> Idle]
  /\ acts = [calls |-> 0, user |-> 0, falls |-> 0]
  /\ due = [k \in Collab |-> "no"]
  /\ made = [r \in Requests |-> {}]
------------------------------------------------------------------------------
(* Turns.                                                                  *)

\* A turn of one agent starts if its session may be driven and no thread has
\* it; a wake and a bare "continue" need a last row that is not the model's.
Start(s, w) ==
  /\ s \notin Collab /\ w \in {"wake", "say", "task"}
  /\ lit[s, w] > 0
  /\ lit' = [lit EXCEPT ![<<s, w>>] = @ - 1]
  /\ loaded' = (loaded \/ s = Root)
  /\ IF Startable(s) /\ (w = "wake" => last[s] = "user")
     THEN /\ hand' = [hand EXCEPT ![s] = "taken"]
          /\ notes' = IF s = Root THEN {} ELSE notes
     ELSE UNCHANGED <<hand, notes>>
  /\ UNCHANGED <<life, flag, last, card, fitted, ledger, telling, ops, acts, due, made, missed, still>>

\* The flag is registered when the session is already away from the table, and
\* the proxy's object gets its handler before that, the first time only.
FittedAnew(l) == [r \in Requests |-> None]  \* mutant: every turn gets a handler of its own
Fitted(l) == IF fitted THEN l ELSE [r \in Requests |-> None]
Register(s) ==
  /\ hand[s] = "taken"
  /\ hand' = [hand EXCEPT ![s] = "working"]
  /\ flag' = [flag EXCEPT ![s] = "up"]
  /\ last' = [last EXCEPT ![s] = "user"]
  /\ IF s = Root THEN fitted' = TRUE /\ ledger' = Fitted(ledger) ELSE UNCHANGED <<fitted, ledger>>
  /\ UNCHANGED <<life, card, loaded, lit, telling, ops, acts, notes, due, made, missed, still>>

\* A discussion's thread registers its flag first and takes the session then:
\* a stop that comes between finds the flag, and the session refuses.
StartPump(k, w) ==
  /\ k \in Collab /\ w \in {"resume", "answer"}
  /\ lit[k, w] > 0
  /\ lit' = [lit EXCEPT ![<<k, w>>] = @ - 1]
  /\ IF Startable(k)
     THEN /\ hand' = [hand EXCEPT ![k] = "working"]
          /\ flag' = [flag EXCEPT ![k] = "up"]
          /\ due' = IF w = "answer" THEN [due EXCEPT ![k] = "no"] ELSE due
     ELSE UNCHANGED <<hand, flag, due>>
  /\ UNCHANGED <<life, last, card, loaded, fitted, ledger, telling, ops, acts, notes, made, missed, still>>

\* A discussion that needs the user puts a card up while its thread still has it.
RaiseCard(k) ==
  /\ k \in Collab \ card /\ hand[k] = "working"
  /\ card' = card \cup {k}
  /\ UNCHANGED <<life, hand, flag, last, loaded, fitted, ledger, lit, telling, ops, acts, notes, due,
                 made, missed, still>>

Busy(s) == s = Root /\ ops["proxy"].what # "none"
\* The thread ends: with an answer, or without one.
Finish(s) ==
  /\ hand[s] = "working" /\ ~Busy(s)
  /\ hand' = [hand EXCEPT ![s] = "ended"]
  /\ flag' = [flag EXCEPT ![s] = "none"]
  /\ \E row \in {"ai", "user"} : last' = [last EXCEPT ![s] = row]
  /\ UNCHANGED <<world, lit, notes>>

\* The thread panics: the object is gone with it, and the transcript is not.
Fall(s) ==
  /\ hand[s] = "working" /\ ~Busy(s) /\ acts.falls < MaxFalls
  /\ hand' = [hand EXCEPT ![s] = "fallen"]
  /\ flag' = [flag EXCEPT ![s] = "none"]
  /\ acts' = [acts EXCEPT !.falls = @ + 1]
  /\ UNCHANGED <<life, last, card, loaded, fitted, ledger, lit, telling, ops, notes, due, made, missed, still>>

\* The note is written only if the proxy's own object can be taken this moment;
\* it is a row that waits for the model.
CanBeTold == Startable(Root) /\ loaded
NotifyQuietly(k) ==  \* mutant: the note is a row like any notice
  IF CanBeTold THEN notes' = notes \cup {k} /\ UNCHANGED last ELSE UNCHANGED <<last, notes>>
Notify(k) ==
  IF CanBeTold
  THEN last' = [last EXCEPT ![Root] = "user"] /\ notes' = notes \cup {k}
  ELSE UNCHANGED <<last, notes>>

PutBack(s) ==
  /\ hand[s] = "ended" /\ s \notin Collab
  /\ hand' = [hand EXCEPT ![s] = "table"]
  /\ IF s = Root THEN UNCHANGED <<last, notes, lit>> ELSE Notify(s) /\ Light(Root, "wake")
  /\ UNCHANGED <<world, flag>>

PutBackPump(k) ==
  /\ hand[k] = "ended" /\ k \in Collab
  /\ hand' = [hand EXCEPT ![k] = "table"]
  /\ card' = IF life[k] = "active" THEN card ELSE card \ {k}
  /\ telling' = telling \cup {k}
  /\ UNCHANGED <<life, flag, last, loaded, fitted, ledger, lit, ops, acts, notes, due, made, missed, still>>

\* After a panic the session is free again; a discussion's proxy is not told.
Abort(s) ==
  /\ hand[s] = "fallen"
  /\ hand' = [hand EXCEPT ![s] = "table"]
  /\ telling' = IF s \in Kids \ Collab THEN telling \cup {s} ELSE telling
  /\ IF s = Root
     THEN /\ loaded' = FALSE /\ fitted' = FALSE
          /\ made' = [r \in Requests |-> {}]
     ELSE UNCHANGED <<loaded, fitted, made>>
  /\ UNCHANGED <<life, flag, last, card, ledger, lit, ops, acts, notes, due, missed, still>>

Tell(k) ==
  /\ k \in telling
  /\ telling' = telling \ {k}
  /\ Notify(k)
  /\ IF CanBeTold THEN Light(Root, "wake") ELSE UNCHANGED lit
  /\ UNCHANGED <<life, hand, flag, card, loaded, fitted, ledger, ops, acts, due, made, missed, still>>
------------------------------------------------------------------------------
(* What the proxy's model and the user ask for.                            *)

Free(p) ==
  /\ ops[p].what = "none"
  /\ IF p = "proxy" THEN hand[Root] = "working" /\ flag[Root] = "up" /\ acts.calls < MaxCalls
                    ELSE acts.user < MaxActs
Spend(p) == acts' = IF p = "proxy" THEN [acts EXCEPT !.calls = @ + 1] ELSE [acts EXCEPT !.user = @ + 1]
Becomes(p, o) == ops' = [ops EXCEPT ![p] = o]

\* An id that was answered is answered the same again, and nothing is made.
AskCreate(r, k) ==
  /\ Free("proxy") /\ Spend("proxy")
  /\ ledger[r] = None /\ life[k] = "none"
  /\ Becomes("proxy", [what |-> "create", s |-> k, r |-> r, step |-> 1])
  /\ UNCHANGED <<life, hand, flag, last, card, loaded, fitted, ledger, lit, telling, notes, due, made,
                 missed, still>>

\* The build and the machine come before the session, and may fail.
CreateFails ==
  /\ ops["proxy"].what = "create" /\ ops["proxy"].step = 1
  /\ Becomes("proxy", Idle)
  /\ UNCHANGED <<life, hand, flag, last, card, loaded, fitted, ledger, lit, telling, acts, notes, due,
                 made, missed, still>>

Commit ==
  LET k == ops["proxy"].s IN
  /\ ops["proxy"].what = "create" /\ ops["proxy"].step = 1
  /\ life' = [life EXCEPT ![k] = "active"]
  /\ card' = IF k \in Collab THEN card \cup {k} ELSE card
  /\ missed' = IF life[Root] = "active" THEN missed ELSE missed \cup {k}
  /\ ops' = [ops EXCEPT !["proxy"].step = 2]
  /\ UNCHANGED <<hand, flag, last, loaded, fitted, ledger, lit, telling, acts, notes, due, made, still>>

\* A child starts at once; when it was stopped meanwhile the call fails, and a
\* call that failed is not remembered.
StartChild ==
  LET o == ops["proxy"] IN
  /\ o.what = "create" /\ o.step = 2
  /\ IF life[o.s] = "active"
     THEN /\ Light(o.s, IF o.s \in Collab THEN "begin" ELSE "task")
          /\ ledger' = [ledger EXCEPT ![o.r] = o.s]
          /\ made' = [made EXCEPT ![o.r] = @ \cup {o.s}]
     ELSE UNCHANGED <<lit, ledger, made>>
  /\ Becomes("proxy", Idle)
  /\ UNCHANGED <<life, hand, flag, last, card, loaded, fitted, telling, acts, notes, due, missed, still>>

\* An answer leaves the queue at once, and a thread is lit to act on it.
Answered(k) ==
  /\ card' = card \ {k}
  /\ Light(k, "answer")
  /\ due' = [due EXCEPT ![k] =
       IF Startable(k) /\ \A w \in Works : lit[k, w] = 0 THEN "due" ELSE "raced"]
\* Another turn of a discussion may take it before the answer does.
Overtaken(k) == [due EXCEPT ![k] = IF @ = "due" THEN "raced" ELSE @]

\* The first card of a child, by a thread of its own.
Begin(k) ==
  /\ lit[k, "begin"] > 0
  /\ IF k \in card
     THEN /\ card' = card \ {k}
          /\ lit' = [lit EXCEPT ![<<k, "begin">>] = @ - 1, ![<<k, "answer">>] = @ + 1]
     ELSE /\ lit' = [lit EXCEPT ![<<k, "begin">>] = @ - 1]
          /\ UNCHANGED card
  /\ UNCHANGED <<life, hand, flag, last, loaded, fitted, ledger, telling, ops, acts, notes, due, made,
                 missed, still>>

\* A discussion with a card open gets an answer only if the proxy named an option.
Send(k) ==
  /\ Free("proxy") /\ Spend("proxy")
  /\ life[k] = "active"
  /\ CASE k \notin Collab -> Light(k, "task") /\ UNCHANGED <<card, due>>
       [] k \in card -> Answered(k)
       [] OTHER -> Light(k, "resume") /\ due' = Overtaken(k) /\ UNCHANGED card
  /\ UNCHANGED <<life, hand, flag, last, loaded, fitted, ledger, telling, ops, notes, made, missed, still>>

UserAnswers(k) ==
  /\ Free("user") /\ Spend("user")
  /\ k \in card /\ Answered(k)
  /\ UNCHANGED <<life, hand, flag, last, loaded, fitted, ledger, telling, ops, notes, made, missed, still>>

UserSays ==
  /\ Free("user") /\ Spend("user")
  /\ Light(Root, "say")
  /\ UNCHANGED <<life, hand, flag, last, card, loaded, fitted, ledger, telling, ops, notes, due, made,
                 missed, still>>

\* A stop freezes the tree, voids its cards and raises its flags, in this order.
StopOrderBackwards == <<"raise", "void", "freeze">>  \* mutant: turns are cancelled before the tree is frozen
StopOrder == <<"freeze", "void", "raise">>

AskStop(p, s) ==
  /\ Free(p) /\ Spend(p) /\ life[s] # "none"
  /\ Becomes(p, [what |-> "stop", s |-> s, r |-> None, step |-> 1])
  /\ UNCHANGED <<life, hand, flag, last, card, loaded, fitted, ledger, lit, telling, notes, due, made,
                 missed, still>>

Stopping(p, what) == ops[p].what = "stop" /\ StopOrder[ops[p].step] = what
NextStep(p) ==
  Becomes(p, IF ops[p].step = Len(StopOrder) THEN Idle ELSE [ops[p] EXCEPT !.step = @ + 1])

Freeze(p) ==
  LET tree == Tree(ops[p].s) IN
  /\ Stopping(p, "freeze")
  /\ life' = [s \in Sessions |-> IF s \in tree THEN "stopped" ELSE life[s]]
  /\ notes' = IF Root \in tree THEN {} ELSE notes
  /\ due' = [k \in Collab |-> IF k \in tree THEN "no" ELSE due[k]]
  /\ still' = (still \/ Root \in tree)
  /\ NextStep(p)
  /\ UNCHANGED <<hand, flag, last, card, loaded, fitted, ledger, lit, telling, acts, made, missed>>

Void(p) ==
  /\ Stopping(p, "void")
  /\ card' = {k \in card : k \notin Tree(ops[p].s) \/ life[k] = "active"}
  /\ NextStep(p)
  /\ UNCHANGED <<life, hand, flag, last, loaded, fitted, ledger, lit, telling, acts, notes, due, made, missed, still>>

RaiseFlags(p) ==
  LET tree == Tree(ops[p].s) IN
  /\ Stopping(p, "raise")
  /\ flag' = [s \in Sessions |-> IF s \in tree /\ flag[s] = "up" THEN "raised" ELSE flag[s]]
  /\ missed' = (missed \ {s \in tree : life[s] = "stopped"}) \cup {s \in tree : hand[s] = "taken"}
  /\ NextStep(p)
  /\ UNCHANGED <<life, hand, last, card, loaded, fitted, ledger, lit, telling, acts, notes, due, made,
                 still>>

\* The tree is walked from its root; a closed session ends the walk with an
\* error, and what was walked before stays resumed.
Resumed(s, on) ==
  LET asleep == {t \in Tree(s) : life[t] = "stopped"}
      closed == {t \in Tree(s) : life[t] = "closed"} IN
  /\ on \subseteq asleep
  /\ IF closed = {} THEN on = asleep
     ELSE IF s \in closed THEN on = {} ELSE s \in asleep => s \in on
  /\ life' = [t \in Sessions |-> IF t \in on THEN "active" ELSE life[t]]
  /\ still' = (still /\ on = {})
Whole(s) == \A t \in Tree(s) : life[t] # "closed"
Asleep(s) == \E t \in Tree(s) : life[t] = "stopped"

\* The user's "continue" speaks for the user when something was resumed; the
\* proxy's starts the turn again only then.
Continue(p, s) ==
  /\ Free(p) /\ Spend(p) /\ life[s] # "none"
  /\ \E on \in SUBSET Sessions : Resumed(s, on)
  /\ CASE ~Whole(s) \/ (p = "proxy" /\ ~Asleep(s)) -> UNCHANGED <<lit, due>>
       [] Whole(s) /\ s \in Collab /\ (p = "user" \/ Asleep(s)) -> Light(s, "resume") /\ due' = Overtaken(s)
       [] OTHER -> Light(s, IF p = "user" /\ Asleep(s) THEN "say" ELSE "wake") /\ UNCHANGED due
  /\ UNCHANGED <<hand, flag, last, card, loaded, fitted, ledger, telling, ops, notes, made, missed>>

\* Enabling resumes and starts nothing.
Activate(s) ==
  /\ Free("user") /\ Spend("user")
  /\ life[s] \in {"active", "stopped"}
  /\ hand[s] = "table"
  /\ \E on \in SUBSET Sessions : Resumed(s, on)
  /\ loaded' = (loaded \/ s = Root)
  /\ UNCHANGED <<hand, flag, last, card, fitted, ledger, lit, telling, ops, notes, due, made, missed>>

\* Only the session itself is marked, and only if no thread has any of its tree.
QuietByFlag(s) == \A t \in Tree(s) : flag[t] = "none"  \* mutant: looks at the registry of jobs
Quiet(s) == \A t \in Tree(s) : hand[t] = "table"
Close(p, s) ==
  /\ Free(p) /\ Spend(p) /\ life[s] # "none"
  /\ Quiet(s)
  /\ life' = [life EXCEPT ![s] = "closed"]
  /\ UNCHANGED <<hand, flag, last, card, loaded, fitted, ledger, lit, telling, ops, notes, due, made,
                 missed, still>>

Next ==
  \/ \E s \in Sessions :
       \/ \E w \in Works : Start(s, w) \/ StartPump(s, w)
       \/ Register(s) \/ Finish(s) \/ Fall(s) \/ PutBack(s) \/ PutBackPump(s) \/ Abort(s)
       \/ Activate(s)
       \/ \E p \in {"proxy", "user"} : AskStop(p, s) \/ Continue(p, s) \/ Close(p, s)
  \/ \E k \in Kids : RaiseCard(k) \/ Tell(k) \/ Begin(k) \/ Send(k) \/ UserAnswers(k)
                     \/ \E r \in Requests : AskCreate(r, k)
  \/ CreateFails \/ Commit \/ StartChild \/ UserSays
  \/ \E p \in {"proxy", "user"} : Freeze(p) \/ Void(p) \/ RaiseFlags(p)
Spec == Init /\ [][Next]_vars
------------------------------------------------------------------------------
TypeOK ==
  /\ life \in [Sessions -> {"none", "active", "stopped", "closed"}]
  /\ hand \in [Sessions -> {"table", "taken", "working", "ended", "fallen"}]
  /\ flag \in [Sessions -> {"none", "up", "raised"}]
  /\ last \in [Sessions -> {"ai", "user"}]
  /\ card \subseteq Collab /\ telling \subseteq Kids /\ notes \subseteq Kids
  /\ ledger \in [Requests -> Kids \cup {None}]

\* While a stopped tree is still, whoever works in it has been told to stop,
\* but for a session that was between the table and its flag, or was made after
\* the tree was frozen.  (The order of SessionOps::stop.)
Stopped == still /\ \A p \in DOMAIN ops : ops[p].what # "stop" \/ ops[p].s # Root
StopReaches ==
  Stopped => \A s \in Sessions : hand[s] = "working" => flag[s] = "raised" \/ s \in missed

\* A closed session is with no thread. (proxy_control, Conductor::running)
ClosedIsQuiet == \A s \in Sessions : life[s] = "closed" => hand[s] = "table"

\* When nothing moves, an active proxy has read every note it was written, and
\* an answer given to a resting discussion that nothing else drove was acted on.
NotesAreHeard ==
  (/\ \A f \in DOMAIN lit : lit[f] = 0
   /\ \A s \in Sessions : hand[s] = "table"
   /\ telling = {})
  => /\ life[Root] = "active" => notes = {}
     /\ \A k \in Collab : life[k] = "active" => due[k] # "due"

\* A creation the proxy was told of is not made again by its id. (ProxyTools::done)
OncePerRequest == \A r \in Requests : Cardinality(made[r]) <= 1
==============================================================================
