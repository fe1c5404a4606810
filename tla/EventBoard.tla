----------------------------- MODULE EventBoard -----------------------------
(***************************************************************************)
(* One session as a browser tab sees it: the transcript on disk, the board *)
(* of events that all sessions share, and a tab that joins the two         *)
(* (conductor/api/mod.rs EventBus, the routes "events" and "history.open", *)
(* and the tab's own side in assets/app.js).                               *)
(*                                                                         *)
(* A generation pushes a row to the board and then persists it; a command  *)
(* does both inside the core or, when Late, persists in the core and       *)
(* pushes once it is back in its own thread.  A rewind cuts the file in    *)
(* the core and pushes `rewound` afterwards.  A tab takes the file and     *)
(* what the board has beyond it in one request, remembers the board's head *)
(* as its floor, and drops every later batch at or below the floor.  The   *)
(* session is the one on view: a gap on the board has it take the history  *)
(* again, also while its first answer is still to come.                    *)
(*                                                                         *)
(* Rows are numbers; what passes on the board without being a row of this  *)
(* session (a stream's delta, a batch of another session) is a body of its *)
(* own.  BoardMax and BoardKeep stand for BUS_MAX and BUS_KEEP.            *)
(***************************************************************************)
EXTENDS Naturals, Sequences, Lists

CONSTANTS
  Late,       \* a command pushes after it has left the core
  BoardMax, BoardKeep,   \* with BoardKeep in 1..BoardMax
  MaxRows,    \* bound: rows of the session
  MaxSeq      \* bound: batches on the board

VARIABLES
  file,       \* the transcript on disk: a sequence of rows
  fresh,      \* the next row
  board,      \* [seq, lines, mark]: mark is the number of the last `rewound`
  hold,       \* the row that a generation has pushed and not yet persisted, or 0
  owed,       \* the row that a command has persisted and not yet pushed, or 0
  snap,       \* a rewind that has cut the file and not yet published: its view
  tab,        \* the session in the tab: [view, floor, hydrated, buffer, since, applied]
  ask,        \* the tab's requests for the history, to hydrate and to resync: [pc, rows, live, head]
  poll,       \* the answer of the long poll under way: [lines, head, oldest]
  torn,       \* history: a request of the tab was overtaken between its reads
  crossed     \* history: the tab was resynced before its first answer came

vars == <<file, fresh, board, hold, owed, snap, tab, ask, poll, torn, crossed>>

Absent == [none |-> TRUE]
NoAsk == [pc |-> "none"]
Sent == [pc |-> "sent"]
\* A tab asks as soon as it knows the session.
Opening == [why \in {"hydrate", "resync"} |-> IF why = "hydrate" THEN Sent ELSE NoAsk]
Reading == \E why \in DOMAIN ask : ask[why].pc = "file"
NewTab == [view |-> <<>>, floor |-> 0, hydrated |-> FALSE, buffer |-> <<>>,
           since |-> 0, applied |-> 0]

Row(n) == [kind |-> "row", row |-> n]
Other == [kind |-> "other"]
Rewound(rows) == [kind |-> "rewound", rows |-> rows]

-----------------------------------------------------------------------------
\* The board.

\* One batch more, and the oldest dropped once there are too many.
Appended(b, body) ==
  LET all == Append(b.lines, [seq |-> b.seq + 1, body |-> body])
      n == Len(all)
  IN [b EXCEPT !.seq = @ + 1,
               !.lines = IF n > BoardMax THEN SubSeq(all, n - BoardKeep + 1, n) ELSE all]

AppendedRewound(b, rows) ==
  [Appended(b, Rewound(rows)) EXCEPT !.mark = b.seq + 1]

\* What a long poll is told: the batches after `since`, the head, and the oldest left.
Snapshot(since) ==
  [lines |-> SelectSeq(board.lines, LAMBDA l : l.seq > since),
   head |-> board.seq,
   oldest |-> IF board.lines = <<>> THEN board.seq + 1 ELSE board.lines[1].seq]

\* Of this session, since its last rewind.
AfterRewind ==
  SelectSeq(board.lines, LAMBDA l : l.seq > board.mark /\ l.body.kind # "other")

TailWhole(rows) == AfterRewind \* mutant: rows of the file are given again

\* What the board has beyond a transcript: all after the last batch that is one of its
\* rows.  A row is on the board once, so that equality of events is that of rows.
TailBeyond(rows) ==
  LET on == AfterRewind
      known(i) == on[i].body.kind = "row" /\ Contains(rows, on[i].body.row)
      start == IF \E i \in DOMAIN on : known(i)
               THEN CHOOSE i \in DOMAIN on : known(i) /\ \A j \in i + 1..Len(on) : ~known(j)
               ELSE 0
  IN SubSeq(on, start + 1, Len(on))

\* Whoever reads the board in the middle of a request may miss what a trim drops.
Push(body) ==
  /\ board.seq < MaxSeq
  /\ board' = Appended(board, body)
  /\ torn' = (torn \/ (Len(board.lines) = BoardMax /\ Reading))

-----------------------------------------------------------------------------
\* The sides that produce.

TypeOK ==
  /\ fresh \in 1..MaxRows + 1 /\ hold \in 0..MaxRows /\ owed \in 0..MaxRows
  /\ ToSet(file) \subseteq 1..MaxRows
  /\ board.seq \in 0..MaxSeq /\ board.mark \in 0..board.seq /\ Len(board.lines) <= BoardMax
  /\ tab.since \in 0..board.seq /\ tab.applied \in 0..board.seq
  /\ \A why \in DOMAIN ask : ask[why].pc \in {"none", "sent", "file", "back"}

Init ==
  /\ file = <<>> /\ fresh = 1
  /\ board = [seq |-> 0, lines |-> <<>>, mark |-> 0]
  /\ hold = 0 /\ owed = 0 /\ snap = Absent
  /\ tab = NewTab
  /\ ask = Opening
  /\ poll = Absent
  /\ torn = FALSE /\ crossed = FALSE

\* The rows of a session come from one side at a time.
Quiet == hold = 0 /\ owed = 0 /\ snap = Absent

\* A generation: first the board, then the file.
SinkPush ==
  /\ Quiet /\ fresh <= MaxRows
  /\ Push(Row(fresh))
  /\ hold' = fresh /\ fresh' = fresh + 1
  /\ UNCHANGED <<file, owed, snap, tab, ask, poll>>

SinkPersist ==
  /\ hold # 0
  /\ file' = Append(file, hold) /\ hold' = 0
  /\ UNCHANGED <<fresh, board, owed, snap, tab, ask, poll, torn>>

\* What no view keeps: batches of other sessions, and the deltas of a stream.
\* Bound: they are fewer than BoardKeep between a push and its persist.
OtherSession ==
  /\ hold # 0 => Len(board.lines) < BoardMax
  /\ Push(Other)
  /\ UNCHANGED <<file, fresh, hold, owed, snap, tab, ask, poll>>

\* A command that does both in the core.
CommandRow ==
  /\ ~Late /\ Quiet /\ fresh <= MaxRows
  /\ Push(Row(fresh))
  /\ file' = Append(file, fresh) /\ fresh' = fresh + 1
  /\ UNCHANGED <<hold, owed, snap, tab, ask, poll>>

\* A command that records in the core, and whose caller publishes.
CommandRecord ==
  /\ Late /\ Quiet /\ fresh <= MaxRows
  /\ file' = Append(file, fresh) /\ owed' = fresh /\ fresh' = fresh + 1
  /\ UNCHANGED <<board, hold, snap, tab, ask, poll, torn>>

CommandPublish ==
  /\ owed # 0
  /\ Push(Row(owed))
  /\ owed' = 0
  /\ UNCHANGED <<file, fresh, hold, snap, tab, ask, poll>>

\* A rewind: the core cuts the file ...
RewindCut ==
  /\ Quiet
  /\ \E n \in 0..Len(file) - 1 :
        /\ file' = SubSeq(file, 1, n)
        /\ snap' = [rows |-> SubSeq(file, 1, n)]
  /\ UNCHANGED <<fresh, board, hold, owed, tab, ask, poll, torn>>

\* ... and the board hears of it afterwards.
PublishRewound ==
  /\ snap # Absent /\ board.seq < MaxSeq
  /\ board' = AppendedRewound(board, snap.rows)
  /\ snap' = Absent
  /\ torn' = (torn \/ Reading)
  /\ UNCHANGED <<file, fresh, hold, owed, tab, ask, poll>>

-----------------------------------------------------------------------------
\* history.open: the file is read in the core, the board after it.

ServeFile(why) ==
  /\ ask[why].pc = "sent"
  /\ ask' = [ask EXCEPT ![why] = [pc |-> "file", rows |-> file]]
  /\ UNCHANGED <<file, fresh, board, hold, owed, snap, tab, poll, torn>>

ServeTail(why) ==
  /\ ask[why].pc = "file"
  /\ ask' = [ask EXCEPT ![why] = [pc |-> "back", rows |-> @.rows, live |-> TailBeyond(@.rows),
                                 head |-> board.seq]]
  /\ UNCHANGED <<file, fresh, board, hold, owed, snap, tab, poll, torn>>

\* events: answered as soon as there is something after `since`.
ServePoll ==
  /\ poll = Absent
  /\ Snapshot(tab.since).lines # <<>>
  /\ poll' = Snapshot(tab.since)
  /\ UNCHANGED <<file, fresh, board, hold, owed, snap, tab, ask, torn>>

-----------------------------------------------------------------------------
\* The tab.

\* What an event does to the lines of the view.
Absorb(view, body) ==
  CASE body.kind = "row" -> Append(view, body.row)
    [] body.kind = "rewound" -> body.rows
    [] OTHER -> view

AbsorbAll(view, lines) == FoldLeft(LAMBDA v, l : Absorb(v, l.body), view, lines)

AboveOrAt(lines, floor) == SelectSeq(lines, LAMBDA l : l.seq >= floor) \* mutant: off by one

Above(lines, floor) == SelectSeq(lines, LAMBDA l : l.seq > floor)

\* The answer goes after what the view has; what came meanwhile follows, above the floor.
Hydrated ==
  /\ ask["hydrate"].pc = "back"
  /\ LET got == ask["hydrate"]
     IN tab' = [tab EXCEPT
          !.view = AbsorbAll(AbsorbAll(@ \o got.rows, got.live), Above(tab.buffer, got.head)),
          !.floor = got.head, !.buffer = <<>>, !.hydrated = TRUE]
  /\ ask' = [ask EXCEPT !["hydrate"] = NoAsk]
  /\ UNCHANGED <<file, fresh, board, hold, owed, snap, poll, torn>>

NoGap == FALSE \* mutant: what was trimmed is not noticed

\* There is a gap between what the tab has applied and the oldest batch left.
Gap == poll # Absent /\ poll.oldest > 0 /\ poll.oldest > tab.applied + 1

\* It is closed by taking the history again, whether or not the first answer is there.
PollGap ==
  /\ Gap
  /\ tab' = [tab EXCEPT !.applied = poll.oldest - 1]
  /\ ask' = [ask EXCEPT !["resync"] = Sent]
  /\ UNCHANGED <<file, fresh, board, hold, owed, snap, poll, torn>>

\* The history replaces the view; a first answer that is still to come goes after it.
Resynced ==
  /\ ask["resync"].pc = "back"
  /\ LET got == ask["resync"]
     IN tab' = [tab EXCEPT !.view = AbsorbAll(got.rows, got.live), !.floor = got.head]
  /\ ask' = [ask EXCEPT !["resync"] = NoAsk]
  /\ crossed' = (crossed \/ ~tab.hydrated)
  /\ UNCHANGED <<file, fresh, board, hold, owed, snap, poll, torn>>

\* The batches of a poll, those above the floor.
PollApplied ==
  /\ poll # Absent /\ ~Gap
  /\ ask["resync"] = NoAsk     \* a resync is awaited
  /\ LET own == Above(SelectSeq(poll.lines, LAMBDA l : l.body.kind # "other"), tab.floor)
     IN tab' = [tab EXCEPT
          !.since = poll.head,
          !.applied = IF poll.lines = <<>> THEN @ ELSE Last(poll.lines).seq,
          !.view = IF tab.hydrated THEN AbsorbAll(@, own) ELSE @,
          !.buffer = IF tab.hydrated THEN @ ELSE @ \o own]
  /\ poll' = Absent
  /\ UNCHANGED <<file, fresh, board, hold, owed, snap, ask, torn>>

\* The page is loaded anew: nothing of the tab is left.
Reload ==
  /\ tab.hydrated
  /\ tab' = NewTab
  /\ ask' = Opening
  /\ poll' = Absent
  /\ torn' = FALSE /\ crossed' = FALSE
  /\ UNCHANGED <<file, fresh, board, hold, owed, snap>>

Next ==
  \/ /\ \/ SinkPush \/ SinkPersist \/ OtherSession
        \/ CommandRow \/ CommandRecord \/ CommandPublish
        \/ RewindCut \/ PublishRewound
        \/ \E why \in {"hydrate", "resync"} : ServeFile(why) \/ ServeTail(why)
        \/ ServePoll \/ Hydrated \/ PollGap \/ PollApplied
     /\ UNCHANGED crossed
  \/ Resynced \/ Reload

Spec == Init /\ [][Next]_vars

-----------------------------------------------------------------------------
\* Nothing is under way and the tab has heard all that the board has.
CaughtUp ==
  /\ Quiet /\ tab.hydrated /\ ask["resync"] = NoAsk /\ poll = Absent
  /\ tab.since = board.seq

\* A tab that has caught up shows the transcript: every row once, in its order, and no
\* row that a rewind took away, whichever of file and board it had each row from.  Not
\* so one that a gap resynced before its first answer: the code goes on with that answer
\* after all, and with what was kept for it.
ViewIsTranscript == ~Late /\ ~torn /\ ~crossed /\ CaughtUp => tab.view = file

\* No row is ever shown twice on the way there, but in such a tab.
NoRowTwice ==
  ~Late /\ ~torn /\ ~crossed => \A k, l \in DOMAIN tab.view : tab.view[k] = tab.view[l] => k = l

\* Where commands publish late a row may come twice, but none is missing.
NoRowMissing == ~torn /\ ~crossed /\ CaughtUp => ToSet(file) \subseteq ToSet(tab.view)
=============================================================================
