----------------------------- MODULE Discussion -----------------------------
(***************************************************************************)
(* A collaboration up to its plan: the task, the list of members that the  *)
(* core may draft and the user confirms, the opening, the rounds in which  *)
(* every member still in and not yet agreed is asked in turn, reminders,   *)
(* questions to the user, the close by consent or at the limit of rounds,  *)
(* and the plan the user reviews.  `live` is the object in memory, gone    *)
(* after a crash; `kept` is what a rebuild reads off the events on disk;   *)
(* `open` is the queue of cards, which the file holds (see DecisionDesk).  *)
(* The pump decides whom to ask and gives way; a turn is one step; what    *)
(* follows from it up to the next question to a member or the user is the  *)
(* same step, as it is one thread.  The rows of the discussion are kept as *)
(* the pump hands them out, by position; notices are left out.             *)
(* Left out: how a plan is worked off (WorkRun), renames and rewinds, and  *)
(* the stop after 500 turns, which the bounds here never reach.            *)
(***************************************************************************)
EXTENDS Naturals, Sequences, FiniteSets, Lists

CONSTANTS
  Seats,         \* the members are 1..Seats, in the order of the list
  Drafts,        \* whether the core may draft the list: a set of booleans
  MaxRounds,     \* rounds after which the discussion is closed
  RemindCap,     \* reminders to one member in one round
  MaxTroubles    \* bound: stops, crashes and agreements taken back, together

VARIABLES live, kept, open, ticket, asked, halt, troubles,
          heard, mute, tookBack, twice
vars == <<live, kept, open, ticket, asked, halt, troubles,
          heard, mute, tookBack, twice>>

Members == 1..Seats
Gone == [here |-> FALSE]
NoTicket == "none"
Verbs == {"say", "agree", "leave", "ask"}

\* What a rebuild knows of a session in which nothing was said.
Untouched(delegated) ==
  [delegated |-> delegated, task |-> FALSE, roster |-> ~delegated, slate |-> FALSE,
   confirmed |-> FALSE, begun |-> FALSE, allow |-> FALSE, round |-> 0, present |-> Members,
   agreed |-> {}, closed |-> FALSE, over |-> FALSE, plan |-> FALSE, approved |-> FALSE,
   ended |-> FALSE]

\* The object without a discussion, as `start` and `restore` make it.
Object(k) ==
  [here |-> TRUE, roster |-> k.roster, picks |-> FALSE, plan |-> k.plan, approved |-> k.approved,
   done |-> k.ended, allow |-> k.allow, disc |-> FALSE, present |-> Members, agreed |-> {},
   round |-> 0, phase |-> "fresh", next |-> 1, closed |-> FALSE, answers |-> 0,
   reminded |-> [m \in Members |-> 0], remindRound |-> 0,
   rows |-> <<>>, handed |-> 0, emitted |-> 0]

Init ==
  /\ kept \in {Untouched(d) : d \in Drafts} /\ live = Object(kept)
  /\ open = <<>> /\ ticket = NoTicket /\ asked = 0 /\ halt = FALSE
  /\ troubles = 0
  /\ heard = {} /\ mute = 0 /\ tookBack = {} /\ twice = FALSE

-----------------------------------------------------------------------------
(* What is on disk, read row by row.                                       *)

Row(verb, arg) == [verb |-> verb, arg |-> arg, out |-> FALSE]

\* What lines of the transcript say to a rebuild, read in their order.
Said(rows, verb) == {rows[i].arg : i \in {j \in DOMAIN rows : rows[j].verb = verb}}
Rounds(rows) == {i \in DOMAIN rows : rows[i].verb = "round"}
DerivedRows(k, rows) == \* mutant: the agreements are of one round
  IF Rounds(rows) = {} THEN [k EXCEPT !.present = @ \ Said(rows, "leave"), !.agreed = @ \cup Said(rows, "agree")]
  ELSE LET from == Max(Rounds(rows))
       IN [k EXCEPT !.present = @ \ Said(rows, "leave"),
                    !.agreed = Said(SubSeq(rows, from, Len(rows)), "agree"),
                    !.round = rows[from].arg, !.closed = FALSE]
ReadRows(k, rows) ==
  [k EXCEPT !.present = @ \ Said(rows, "leave"), !.agreed = @ \cup Said(rows, "agree"),
            !.round = IF Rounds(rows) = {} THEN @ ELSE rows[Max(Rounds(rows))].arg,
            !.closed = @ /\ Rounds(rows) = {}]

\* Who has left is not counted as agreed: only with everybody there the votes alone close.
ClosedByRecord(k) == k.closed \/ (k.begun /\ k.present \cap k.agreed = Members)

\* The queue that is open after a rebuild: the cards of the file, or the gate that
\* the state says the user has not passed.
DerivedGates(k, cards) ==
  IF k.ended THEN <<>>
  ELSE IF cards # <<>> \/ k.begun THEN cards
  ELSE IF k.slate /\ ~k.confirmed THEN <<"slate">>
  ELSE IF k.task THEN <<"begin">> ELSE <<>>

\* The cursor is not kept: a rebuilt discussion starts a round afresh.
Restored(k) ==
  IF ~k.begun THEN Object(k)
  ELSE [Object(k) EXCEPT !.disc = TRUE, !.present = k.present, !.agreed = k.agreed,
          !.round = IF k.round = 0 THEN 1 ELSE k.round, !.closed = ClosedByRecord(k)]

-----------------------------------------------------------------------------
(* The pump works on the state as one value and gives every way it may go. *)

Now == [live |-> live, kept |-> kept, open |-> open, asked |-> 0, twice |-> twice]

\* The rows that both counts have passed are forgotten: nothing reads them.
Trimmed(c) ==
  LET n == IF c.handed < c.emitted THEN c.handed ELSE c.emitted
  IN [c EXCEPT !.rows = SubSeq(@, n + 1, Len(@)), !.handed = @ - n, !.emitted = @ - n]
Becomes(s) ==
  /\ live' = (IF s.live.here THEN Trimmed(s.live) ELSE s.live)
  /\ kept' = s.kept /\ open' = s.open /\ asked' = s.asked /\ twice' = s.twice
  /\ halt' = (halt /\ s.asked # 0)

\* The rows after the first n reach the user and the file.
Sent(s, n) ==
  LET rows == s.live.rows
  IN [s EXCEPT !.live.rows = [i \in DOMAIN rows |-> [rows[i] EXCEPT !.out = @ \/ i > n]],
        !.twice = @ \/ \E i \in n + 1..Len(rows) : rows[i].out,
        !.kept = ReadRows(@, SubSeq(rows, n + 1, Len(rows)))]
Noted(s, row) == [s EXCEPT !.live.rows = Append(@, row)]

\* What was not yet sent by this count.
PushDelta(s) ==
  IF Len(s.live.rows) > s.live.emitted
  THEN [Sent(s, s.live.emitted) EXCEPT !.live.emitted = Len(s.live.rows)] ELSE s

AskUser(s, gate) == [s EXCEPT !.open = Append(@, gate)]

\* A round begins with its marker, and the first answer of the user that waits.
RoundBegun(c) ==
  LET marked == [c EXCEPT !.handed = Len(c.rows), !.rows = Append(@, Row("round", c.round + 1)),
                          !.phase = "at", !.next = 1]
  IN IF c.answers = 0 THEN marked
     ELSE [marked EXCEPT !.answers = @ - 1, !.rows = Append(@, Row("answer", 0))]

Waits(c, m) == m \in c.present \ c.agreed
\* Who is asked from the cursor on; one more than the members if nobody is left.
FirstFrom(c) == \* mutant: the cursor is moved past a member
  LET left == {m \in Members : m > c.next /\ Waits(c, m)}
  IN IF left = {} THEN Seats + 1 ELSE CHOOSE m \in left : \A n \in left : m <= n
NextToAsk(c) ==
  LET left == {m \in Members : m >= c.next /\ Waits(c, m)}
  IN IF left = {} THEN Seats + 1 ELSE CHOOSE m \in left : \A n \in left : m <= n

\* Nobody is left to be asked: the round is over, and the discussion if all agree or
\* the rounds are spent.
EndOfRound(c) == \* mutant: a round in which somebody agreed is enough
  LET closed == c.agreed # {} \/ c.round + 1 > MaxRounds
  IN [c EXCEPT !.round = @ + 1, !.phase = "fresh", !.closed = closed]
RoundOver(c) ==
  LET closed == c.present \subseteq c.agreed \/ c.round + 1 > MaxRounds
  IN [c EXCEPT !.round = @ + 1, !.phase = "fresh", !.closed = closed]

\* One step of the state machine: whom to ask, or how it stands.
Advance(c, stopped) ==
  LET at == IF c.phase = "fresh" THEN RoundBegun(c) ELSE c
      m == NextToAsk(at)
  IN IF c.closed THEN [c |-> c, out |-> "done", m |-> 0]
     ELSE IF stopped THEN [c |-> c, out |-> "stopped", m |-> 0]
     ELSE IF c.phase = "opener" /\ c.next <= Seats THEN [c |-> c, out |-> "ask", m |-> c.next]
     ELSE IF c.phase = "opener"
          THEN [c |-> [c EXCEPT !.round = 1, !.phase = "fresh"], out |-> "again", m |-> 0]
     ELSE IF m > Seats
          THEN LET over == RoundOver(at)
               IN [c |-> over, out |-> IF over.closed THEN "done" ELSE "again", m |-> 0]
     ELSE [c |-> [at EXCEPT !.next = m], out |-> "ask", m |-> m]

\* The plan is made by the core, which may fail, be stopped or give a chain that does
\* not hold together: then nothing is kept, and to continue tries again.
Planned(s, stopped) ==
  IF stopped THEN {s} ELSE {s, [s EXCEPT !.live.plan = TRUE, !.kept.plan = TRUE]}
Settle(s, stopped) ==
  {IF p.live.plan /\ ~p.live.approved THEN AskUser(p, "plan") ELSE p :
     p \in IF s.live.plan THEN {s} ELSE Planned(s, stopped)}

\* After the opening and after a round it goes on to the next, so once is enough.
Pump(s, stopped) ==
  LET first == Advance(s.live, stopped)
      then == IF first.out = "again" THEN Advance(first.c, stopped) ELSE first
      went == [s EXCEPT !.live = then.c]
      done == [went EXCEPT !.kept.closed = TRUE, !.kept.over = then.c.round > MaxRounds]
  IN IF s.live.done \/ ~s.live.disc \/ s.open # <<>> THEN {s}
     ELSE IF s.live.closed THEN Settle(s, stopped)
     ELSE CASE then.out = "ask" -> {[went EXCEPT !.asked = then.m]}
            [] then.out = "done" -> Settle(done, stopped)
            [] OTHER -> {went}

-----------------------------------------------------------------------------
(* Before the discussion.                                                  *)

Ended(s) == [s EXCEPT !.live.done = TRUE, !.kept.ended = TRUE]

\* The core drafts a list: it fails, names nobody, or waits for the user's word.
Drafted(s) ==
  {Ended(s), AskUser([s EXCEPT !.kept.slate = TRUE, !.live.picks = TRUE], "slate")}

TaskSet(s, empty) ==
  IF empty THEN {Ended(s)}
  ELSE LET set == [s EXCEPT !.kept.task = TRUE]
       IN IF s.kept.delegated THEN Drafted(set) ELSE {AskUser(set, "begin")}

\* A list that was not kept is drafted again; one that is confirmed goes to the meta.
SlateConfirmed(s, ok) ==
  LET said == [s EXCEPT !.kept.confirmed = ok]
  IN IF ~ok THEN {Ended(said)}
     ELSE IF ~s.live.picks THEN Drafted(said)
     ELSE {AskUser([said EXCEPT !.live.roster = TRUE, !.kept.roster = TRUE], "begin")}

\* The line is written before the members are put together, which may fail.
BeginSaid(s, allow) ==
  [s EXCEPT !.live.allow = allow, !.kept.begun = TRUE, !.kept.allow = allow,
            !.kept.round = 1, !.kept.closed = FALSE, !.kept.agreed = {}]
Assembled(s) == [s EXCEPT !.live.disc = TRUE, !.live.phase = "opener", !.live.next = 1]
Begun(s, allow, assembles) ==
  IF s.live.done \/ s.live.disc THEN {s}
  ELSE IF ~assembles THEN {BeginSaid(s, allow)}
  ELSE Pump(Assembled(BeginSaid(s, allow)), FALSE)

\* Continue: from where it broke off; the user's gates are put to the user again.
Resumes(s) == \* mutant: a card that was called off is not asked again
  CASE s.live.done -> {s}
    [] s.live.disc -> Pump(s, FALSE)
    [] s.kept.delegated /\ ~s.live.picks /\ ~s.live.roster -> Drafted(s)
    [] OTHER -> {s}
Resumed(s) ==
  CASE s.live.done -> {s}
    [] s.live.disc -> Pump(s, FALSE)
    [] s.kept.delegated /\ ~s.live.picks /\ ~s.live.roster -> Drafted(s)
    [] s.open = <<>> /\ s.live.roster -> {AskUser(s, "begin")}
    [] s.open = <<>> /\ s.live.picks -> {AskUser(s, "slate")}
    [] OTHER -> {s}

\* A session that is not in memory is rebuilt first.
Loaded ==
  IF live.here THEN Now
  ELSE [Now EXCEPT !.live = Restored(kept), !.open = DerivedGates(kept, open)]

Idle == asked = 0 /\ ticket = NoTicket
NewRound == heard' = {} /\ mute' = 0

SetTask ==
  /\ Idle /\ live.here /\ ~kept.task /\ ~live.done
  /\ \E empty \in BOOLEAN : \E s \in TaskSet(Now, empty) : Becomes(s)
  /\ UNCHANGED <<ticket, troubles, heard, mute, tookBack>>

\* The answer is settled on the core's thread; what it brings about comes after, on a
\* thread of its own.
TakeCard ==
  /\ Idle /\ live.here /\ open # <<>>
  /\ ticket' = Head(open) /\ open' = Tail(open)
  /\ UNCHANGED <<live, kept, asked, halt, troubles, heard, mute, tookBack, twice>>

\* The plan is agreed to, and its work begins; or the user has words on it, and is asked again.
Approved(s) == Resumed([s EXCEPT !.live.approved = TRUE, !.kept.approved = TRUE])
Judged(s) == Approved(s) \cup {AskUser(s, "plan")}

\* The answer to a question waits for the next round.
Answered(s) == Pump([s EXCEPT !.live.answers = @ + IF s.live.disc THEN 1 ELSE 0], FALSE)

Disposed(s, gate) ==
  CASE gate = "slate" -> UNION {SlateConfirmed(s, ok) : ok \in BOOLEAN}
    [] gate = "begin" -> UNION {Begun(s, allow, assembles) : allow \in BOOLEAN, assembles \in BOOLEAN}
    [] gate = "ask" -> Answered(s)
    [] gate = "plan" -> Judged(s)

\* Where another thread has the session, the answer is lost.
Dispose ==
  /\ ticket # NoTicket /\ ticket' = NoTicket
  /\ IF asked # 0 THEN UNCHANGED <<live, kept, open, asked, halt, twice, heard, mute>>
     ELSE /\ \E s \in Disposed(Loaded, ticket) :
               \* what the pump does once the answer is disposed of
               \E p \in (IF s.asked = 0 THEN Pump(s, FALSE) ELSE {s}) : Becomes(p)
          /\ IF live.here /\ live'.round = live.round THEN UNCHANGED <<heard, mute>> ELSE NewRound
  /\ UNCHANGED <<troubles, tookBack>>

Continue ==
  /\ asked = 0 /\ kept.task
  /\ \E s \in Resumed(Loaded) : Becomes(s)
  /\ IF live.here /\ live'.round = live.round THEN UNCHANGED <<heard, mute>> ELSE NewRound
  /\ UNCHANGED <<ticket, troubles, tookBack>>

-----------------------------------------------------------------------------
(* The turns.                                                              *)

Moved(c, m) == [c EXCEPT !.next = m + 1]

\* What a member said goes to the record and to the user, with all that was not yet
\* handed out.
Spoken(s, m, verb) ==
  LET said == Noted(s, Row(verb, m))
      sent == Sent(said, s.live.handed)
      n == Len(said.live.rows)
  IN [sent EXCEPT !.live = [Moved(sent.live, m) EXCEPT !.handed = n, !.emitted = @ + n - s.live.handed]]

\* Then it takes effect.
Fed(s, m, verb) ==
  LET out == Spoken(s, m, verb)
  IN CASE verb = "leave" -> [out EXCEPT !.live.present = @ \ {m}]
       [] verb = "agree" -> [out EXCEPT !.live.agreed = @ \cup {m}]
       [] verb = "ask" /\ s.live.phase # "opener" /\ s.live.allow -> Noted(out, Row("autonomy", m))
       [] OTHER -> out

\* A question stops the rounds until it is answered, but in the opening.
Asks(s, verb) == verb = "ask" /\ s.live.phase # "opener" /\ ~s.live.allow

Absorbed(s, m, verb) ==
  LET fed == PushDelta(Fed(s, m, verb))
  IN IF Asks(s, verb) THEN {AskUser(fed, "ask")} ELSE Pump(fed, halt)

\* The count of reminders is of one round.
Counted(c) ==
  IF c.round = c.remindRound THEN c
  ELSE [c EXCEPT !.reminded = [m \in Members |-> 0], !.remindRound = c.round]

\* Nothing was said: the member is reminded and asked again, or passed over.
Recounted(s, m) == \* mutant: the count is kept by nobody
  LET c == [Counted(s.live) EXCEPT !.reminded = [n \in Members |-> 0]]
  IN IF c.reminded[m] < RemindCap THEN [c EXCEPT !.reminded[m] = @ + 1]
     ELSE Moved([c EXCEPT !.reminded[m] = 0], m)
Reminded(s, m) ==
  LET c == Counted(s.live)
  IN IF c.reminded[m] < RemindCap THEN [c EXCEPT !.reminded[m] = @ + 1]
     ELSE Moved([c EXCEPT !.reminded[m] = 0], m)

Unanswered(s, m) ==
  LET c == Reminded(s, m)
      passed == [s EXCEPT !.live = [c EXCEPT !.rows = Append(@, Row("passed", m))]]
  IN IF c.next > m THEN Pump(PushDelta(passed), halt) ELSE Pump([s EXCEPT !.live = c], halt)

\* A turn comes back with a word, which also clears the count of the silent.
Speaks ==
  /\ asked # 0 /\ mute' = 0
  /\ \E verb \in Verbs :
       \E s \in Absorbed([Now EXCEPT !.live = [Counted(live) EXCEPT !.reminded[asked] = 0]], asked, verb) :
         Becomes(s)

\* Without one: where the user stopped the turn, the member is passed by unsaid.
StoppedSilent ==
  /\ asked # 0 /\ halt /\ mute' = 0
  /\ \E s \in Pump([Now EXCEPT !.live = Moved(Counted(live), asked)], TRUE) : Becomes(s)
KeepsSilent ==
  /\ asked # 0 /\ ~halt
  /\ \E s \in Unanswered(Now, asked) : Becomes(s)
  /\ mute' = IF asked' = asked /\ live'.round = live.round THEN mute + 1 ELSE 0

\* Or it breaks off: the model failed, the work could not be had.
BreaksOff == asked # 0 /\ Becomes(Now) /\ mute' = mute

Turn ==
  /\ Speaks \/ StoppedSilent \/ KeepsSilent \/ BreaksOff
  /\ heard' = (IF live'.round # live.round THEN {}
               ELSE IF asked' = asked \/ live'.next = live.next THEN heard ELSE heard \cup {asked})
  /\ UNCHANGED <<ticket, troubles, tookBack>>

\* The user stops who is at work, or calls off the cards that wait.
Stop ==
  /\ troubles < MaxTroubles /\ troubles' = troubles + 1
  /\ \/ asked # 0 /\ ~halt /\ halt' = TRUE /\ UNCHANGED open
     \/ asked = 0 /\ open # <<>> /\ open' = <<>> /\ UNCHANGED halt
  /\ UNCHANGED <<live, kept, ticket, asked, heard, mute, tookBack, twice>>

\* An agreement is taken back while nobody is at work.
Withdraw(m) ==
  /\ troubles < MaxTroubles /\ troubles' = troubles + 1
  /\ asked = 0 /\ m \in kept.agreed
  /\ LET s == Loaded
     IN Becomes([s EXCEPT !.live.agreed = @ \ {m}, !.live.closed = FALSE, !.kept.agreed = @ \ {m}])
  /\ heard' = heard \cup {m}
  /\ tookBack' = IF kept.closed \/ kept.plan THEN tookBack \cup {m} ELSE tookBack
  /\ UNCHANGED <<ticket, mute>>

\* The program ends: with it the object, the turn and the answer on its way.
Crash ==
  /\ live.here /\ troubles < MaxTroubles /\ troubles' = troubles + 1
  /\ live' = Gone /\ asked' = 0 /\ ticket' = NoTicket /\ halt' = FALSE /\ NewRound
  /\ UNCHANGED <<kept, open, tookBack, twice>>

\* The session is opened again.
Open ==
  /\ ~live.here /\ Becomes(Loaded)
  /\ UNCHANGED <<ticket, troubles, heard, mute, tookBack>>

Next == SetTask \/ TakeCard \/ Dispose \/ Continue \/ Turn \/ Stop \/ (\E m \in Members : Withdraw(m))
          \/ Crash \/ Open
Spec == Init /\ [][Next]_vars

-----------------------------------------------------------------------------
TypeOK ==
  /\ kept.agreed \subseteq Members /\ kept.present \subseteq Members
  /\ open \in Seq({"slate", "begin", "ask", "plan"})
  /\ ticket \in {NoTicket, "slate", "begin", "ask", "plan"} /\ asked \in 0..Seats
  /\ live.here => /\ live.phase \in {"fresh", "opener", "at"} /\ live.next \in 1..Seats + 1
                  /\ live.round \in 0..MaxRounds + 2 + MaxTroubles

\* What a rebuild would say of the members - who is in, who has agreed - is what the
\* discussion in memory goes by, in every round; and it never takes an end for open.
\* (Sessions are rebuilt from their transcript after a restart or a rewind.)
VotesAreTheRecord ==
  live.here /\ live.disc =>
    /\ live.present = kept.present /\ live.agreed = kept.agreed
    /\ live.closed => ClosedByRecord(kept)

\* In every step: a round ends only when everybody who is in and has not agreed was heard in it or
\* passed over, whatever was stopped, repeated or taken back in between.
EveryoneIsHeard ==
  live.here /\ live'.here /\ live.disc /\ live'.round > live.round =>
    (live'.present \ live'.agreed) \subseteq heard \cup {asked}

\* A plan is made only of a discussion in which all who stayed agreed, or that was at
\* its limit.  (An agreement taken back after the close counts until a restart.)
PlanByConsent ==
  live.here /\ live.plan => live.present \subseteq live.agreed \cup tookBack \/ kept.over

\* A member that keeps silent is asked again no more often than the setting allows, in
\* each round.
SilenceIsBounded == mute <= RemindCap

\* To continue before the discussion has begun puts a card to the user, whatever was
\* called off, lost or forgotten: there is always a way on.
DoorOpens ==
  Idle /\ kept.task =>
    \A s \in Resumed(Loaded) : s.open # <<>> \/ s.live.disc \/ s.live.done

\* No row of the discussion is handed out a second time.
NoRowTwice == ~twice
=============================================================================
