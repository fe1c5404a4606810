---------------------------- MODULE AgentSession ----------------------------
(***************************************************************************)
(* One single-agent session: the object in memory, its transcript on disk, *)
(* the commits its agent made to the shared area, and the three rewinds.   *)
(*                                                                         *)
(* In memory the session keeps the dialogue it sends to the model and, row *)
(* by row, what it needs to cut it back.  Rows reach the disk as a         *)
(* generation produces them; the bookkeeping of those rows happens when    *)
(* the generation ends.  The transcript is the truth: after a restart the  *)
(* session is whatever Replay makes of it.                                 *)
(***************************************************************************)
EXTENDS Integers, Sequences, FiniteSets, TLC, Lists

CONSTANTS
  MaxRows,      \* bound: transcript rows on disk
  MaxReplies,   \* bound: model replies in one process
  MaxMarks,     \* bound: archive marks on disk
  MaxCommits,   \* bound: commits to the shared area
  MaxTools,     \* bound: calls in one reply
  Scenarios     \* what may happen besides talking: sets of
                \* "think"   the model may give its reasoning without any text
                \* "fail"    a model call may fail
                \* "archive" the user archives and restores
                \* "delete"  the user deletes
                \* "restart" the process may die and come back
                \* "compact" the session is compacted

VARIABLES
  allowed,  \* the scenario: chosen at the start, never changed
  file,     \* the transcript on disk
  live,     \* the session object, if it is loaded
  gen,      \* the generation under way: its phase, next row id and rounds
  commits,  \* the commits of the shared area
  head,     \* the commit the shared area shows, 0 = none
  fresh     \* the next commit number

vars == <<allowed, file, live, gen, commits, head, fresh>>

-----------------------------------------------------------------------------
(***************************************************************************)
(* The transcript of a session: an append-only log of events, of which two *)
(* kinds matter here, the transcript rows and the archive marks, and the   *)
(* pure arithmetic over it that a rewind and a rebuild are made of.        *)
(*                                                                         *)
(* A row is [t |-> "row", id, reply, kind, turn, upto]; the kinds are      *)
(*   "user"      what the user said          (one message)                 *)
(*   "text"      what the model said         (one message, or the opening  *)
(*                                            of the tool reply after it)  *)
(*   "tool"      one tool call and its result                              *)
(*   "notice"    a content notice            (no message)                  *)
(*   "compacted" the record of a compaction: rows before upto are replaced *)
(*               by its summary in what the model is sent                  *)
(* A mark is [t |-> "rewind", mark, before, from, after, ...].             *)
(***************************************************************************)

(* u64::MAX: "keep every row".                                             *)
KeepAll == 1000000

IsRow(e) == e.t = "row"
IsMark(e) == e.t = "rewind"
Rows(es) == SelectSeq(es, IsRow)
Marks(es) == SelectSeq(es, IsMark)
RowIds(es) == {r.id : r \in ToSet(Rows(es))}

(* The turn of the row with this id, 0 when there is none.                 *)
TurnOfLine(es, id) ==
  LET hits == SelectSeq(Rows(es), LAMBDA r : r.id = id)
  IN  IF hits = <<>> THEN 0 ELSE hits[1].turn

(* Where a session that keeps the turns up to t is cut: at its first row   *)
(* of a later turn, or after its last row.                                 *)
LastLineWithin(es, t) ==
  LET rs    == Rows(es)
      later == {i \in DOMAIN rs : rs[i].turn > t}
  IN  IF later # {} THEN rs[Min(later)].id
      ELSE IF rs = <<>> THEN 0 ELSE Last(rs).id + 1

Folded(marks, id) == \E m \in ToSet(marks) : m.before <= id /\ id < m.from

(* What the session consists of: the rows no archive mark folds away.      *)
ActiveView(es) ==
  LET marks == Marks(es)
  IN  SelectSeq(es, LAMBDA e : IsRow(e) => ~Folded(marks, e.id))

NextLineId(es) == IF RowIds(es) = {} THEN 0 ELSE Max(RowIds(es)) + 1
NextMarkId(es) == Max({0} \cup {m.mark : m \in ToSet(Marks(es))}) + 1
MaxReply(es) == Max({0} \cup {r.reply : r \in ToSet(Rows(es))})

(* A row that names no reply (0) is a reply of its own.                    *)
LineReplyOf(r) == IF r.reply # 0 THEN r.reply ELSE r.id

KeepRows(replies, keep) == Min({keep, Len(replies)})

(* Keeping the first `keep` rows, moved back to where the reply of the     *)
(* first lost row begins.                                                  *)
KeepWholeReplies(replies, keep) ==
  LET k == Min({keep, Len(replies)})
  IN  IF 0 < k /\ k < Len(replies)
      THEN Min({j \in 0..k : \A i \in (j + 1)..k : replies[i] = replies[k + 1]})
      ELSE k

(* "Keep the rows with id < keep" at a reply boundary, as an id again.     *)
AlignKeep(es, keep) ==
  LET rs      == Rows(es)
      lost    == {i \in DOMAIN rs : rs[i].id >= keep}
      n       == IF lost = {} THEN Len(rs) ELSE Min(lost) - 1
      aligned == KeepWholeReplies([i \in DOMAIN rs |-> LineReplyOf(rs[i])], n)
  IN  IF aligned < Len(rs) THEN rs[aligned + 1].id ELSE KeepAll

(* The events before the first row that is not kept.                       *)
CutBeforeLine(es, keep) ==
  LET k    == AlignKeep(es, keep)
      lost == {i \in DOMAIN es : IsRow(es[i]) /\ es[i].id >= k}
  IN  IF lost = {} THEN es ELSE SubSeq(es, 1, Min(lost) - 1)

-----------------------------------------------------------------------------
(* Rebuilding the dialogue from the rows.                                  *)

NoRow == [t |-> "row", id |-> 0, reply |-> 0, kind |-> "none", turn |-> 0,
          upto |-> 0]

FirstCompaction(es) ==
  LET cs == SelectSeq(Rows(es), LAMBDA r : r.kind = "compacted" /\ r.upto > 0)
  IN  IF cs = <<>> THEN NoRow ELSE Head(cs)
LastCompaction(es) ==
  LET cs == SelectSeq(Rows(es), LAMBDA r : r.kind = "compacted" /\ r.upto > 0)
  IN  IF cs = <<>> THEN NoRow ELSE Last(cs)

Message(role, of) == [role |-> role, of |-> of]

(* The tool rows of one reply stand together: the first and the last row   *)
(* of the group row i belongs to.                                          *)
SameGroup(rs, i, j) ==
  rs[i].kind = "tool" /\ rs[j].kind = "tool" /\ rs[i].reply = rs[j].reply
GroupStart(rs, i) ==
  Min({j \in 1..i : \A k \in j..i : k = i \/ SameGroup(rs, k, i)})
GroupEnd(rs, i) ==
  Max({j \in i..Len(rs) : \A k \in i..j : k = i \/ SameGroup(rs, i, k)})

(* The messages row i contributes; the rows a compaction summed up         *)
(* contribute none.                                                        *)
Contribution(rs, upto, i) ==
  LET r == rs[i]
  IN  CASE rs[GroupStart(rs, i)].id < upto -> <<>>
        [] r.kind = "user" -> <<Message("user", r.id)>>
        [] r.kind = "tool" ->
             (IF GroupStart(rs, i) = i THEN <<Message("call", r.reply)>> ELSE <<>>)
             \o <<Message("result", r.id)>>
        [] r.kind = "text" ->
             IF i < Len(rs) /\ rs[i + 1].kind = "tool" THEN <<>>
             ELSE <<Message("text", r.id)>>
        [] OTHER -> <<>>

(* The session the active view stands for: the dialogue, and per row its   *)
(* id, its reply and how long the dialogue is once its reply is complete.  *)
Replay(es) ==
  LET rs    == Rows(es)
      last  == LastCompaction(es)
      upto  == last.upto
      lead  == IF upto > 0 THEN <<Message("summary", last.id)>> ELSE <<>>
      parts == [i \in DOMAIN rs |-> Contribution(rs, upto, i)]
      upTo(i) == Len(lead) + Len(FlattenSeq(SubSeq(parts, 1, i)))
  IN  [dialogue  |-> lead \o FlattenSeq(parts),
       marks     |-> [i \in DOMAIN rs |->
                        IF rs[i].kind = "text" THEN upTo(i) ELSE upTo(GroupEnd(rs, i))],
       lineReply |-> [i \in DOMAIN rs |->
                        IF rs[i].kind \in {"tool", "text"} THEN rs[i].reply ELSE rs[i].id],
       lineIds   |-> [i \in DOMAIN rs |-> rs[i].id],
       compactedUpto |-> upto,
       compactedLine |-> last.id]

-----------------------------------------------------------------------------
Row(id, reply, kind) ==
  [t |-> "row", id |-> id, reply |-> reply, kind |-> kind, turn |-> 0, upto |-> 0]

(* AgentSession::restore: rebuilt from the active view; new rows are       *)
(* numbered from the number of rows.                                       *)
Rebuilt(es) ==
  LET s == Replay(es)
      n == Len(s.marks)
  IN  s @@ [loaded |-> TRUE, next |-> n, anchor |-> n, curReply |-> 0,
            replySeq |-> MaxReply(es)]

NotLoaded == [Rebuilt(<<>>) EXCEPT !.loaded = FALSE]
Idle == [phase |-> "idle", next |-> 0, rounds |-> <<>>, protect |-> 0]

RestoreCounting(raw) == Rebuilt(ActiveView(raw))

(* After a rewind the rebuilt session numbers from the whole file.         *)
RestoreSession(raw) == [Rebuilt(ActiveView(raw)) EXCEPT !.next = NextLineId(raw)]

Init ==
  /\ allowed \in Scenarios
  /\ file = <<>>
  /\ live = [Rebuilt(<<>>) EXCEPT !.loaded = TRUE]
  /\ gen = Idle
  /\ commits = {} /\ head = 0 /\ fresh = 1

-----------------------------------------------------------------------------
(* Bookkeeping of one row: its id, its reply, the dialogue's length.       *)
Account(s, row) ==
  [s EXCEPT !.lineReply = Append(@, row.reply),
            !.lineIds = Append(@, row.id),
            !.marks = Append(@, Len(s.dialogue))]

(* `line` and `control_line`: the session's own rows also move the anchor  *)
(* the tools use.                                                          *)
OwnRow(s, row) ==
  [Account(s, row) EXCEPT !.next = s.next + 1, !.anchor = s.next + 1]

Room(n) == Len(Rows(file)) + n <= MaxRows

(* The user speaks, or a task is dispatched: a message, a row that is its  *)
(* own reply, and a generation starts.                                     *)
Say ==
  /\ live.loaded /\ gen.phase = "idle" /\ Room(1)
  /\ LET row == Row(live.next, live.next, "user")
         s   == [live EXCEPT !.dialogue = Append(@, Message("user", row.id)),
                             !.curReply = live.next]
     IN  /\ live' = OwnRow(s, row)
         /\ file' = Append(file, row)
         /\ gen' = [phase |-> "fresh", next |-> live.next + 1, rounds |-> <<>>,
                    protect |-> Len(live.marks) + 1]
  /\ UNCHANGED <<allowed, commits, head, fresh>>

(* "Continue": the model is asked again when the last message is not the   *)
(* model's (a tool result counts as the user's in an envelope).            *)
Continue ==
  /\ live.loaded /\ gen.phase = "idle"
  /\ live.dialogue # <<>> /\ Last(live.dialogue).role \in {"user", "result", "summary"}
  /\ gen' = [phase |-> "fresh", next |-> live.next, rounds |-> <<>>, protect |-> 0]
  /\ UNCHANGED <<allowed, file, live, commits, head, fresh>>

-----------------------------------------------------------------------------
(* Compaction.  The budget decides which split is taken; any split the     *)
(* code can choose is possible here.  `protect` is the position of the row *)
(* that must stay, 0 = none.                                               *)

PlansSplitting(s, protect) ==
  {[upto |-> s.lineIds[k], cut |-> s.marks[k - 1]] :
     k \in {j \in 2..(IF protect > 0 THEN protect ELSE Len(s.marks)) :
              s.marks[j - 1] > (IF s.compactedUpto > 0 THEN 1 ELSE 0)}}
PlansUnprotected(s, protect) ==
  {[upto |-> s.next, cut |-> Len(s.dialogue)] : x \in {y \in {1} : s.dialogue # <<>>}}
PlansOf(s, protect) ==
  LET n == Len(s.marks)
      full == [upto |-> s.next, cut |-> Len(s.dialogue)]
      ok(cut) == /\ cut > 0 /\ cut < Len(s.dialogue)
                 /\ s.compactedUpto > 0 => cut > 1
      \* rows before position k (1-based) are summed up
      before(k) == {[upto |-> s.lineIds[k], cut |-> s.marks[k - 1]] :
                      x \in {y \in {1} : k > 1 /\ ok(s.marks[k - 1])}}
      \* the first row of the reply row k belongs to
      whole(k) == Min({j \in 1..k : \A i \in j..k : s.lineReply[i] = s.lineReply[k]})
      capped(k) == IF protect > 0 THEN Min({k, protect}) ELSE k
  IN  IF s.dialogue = <<>> \/ n = 0 THEN {}
      ELSE (IF protect > 0 THEN before(protect) ELSE {full})
           \cup UNION {before(capped(whole(k))) : k \in 1..n}

(* The summary replaces what came before the cut, and a record row says so.*)
Compacted(s, plan) ==
  LET row == [Row(s.next, s.next, "compacted") EXCEPT !.upto = plan.upto]
      cut == [s EXCEPT
                !.dialogue = <<Message("summary", row.id)>>
                             \o SubSeq(@, plan.cut + 1, Len(@)),
                !.marks = [i \in DOMAIN @ |->
                             (IF @[i] > plan.cut THEN @[i] - plan.cut ELSE 0) + 1],
                !.compactedUpto = plan.upto, !.compactedLine = row.id]
  IN  [session |-> OwnRow(cut, row), row |-> row]

(* At the start of a generation the session compacts itself, keeping the   *)
(* user's row if there is one.                                             *)
AutoCompact ==
  /\ "compact" \in allowed /\ gen.phase = "fresh" /\ Room(1)
  /\ \E plan \in PlansOf(live, gen.protect) :
       LET c == Compacted(live, plan)
       IN  /\ live' = c.session
           /\ file' = Append(file, c.row)
           /\ gen' = [gen EXCEPT !.phase = "rounds", !.next = c.session.next]
  /\ UNCHANGED <<allowed, commits, head, fresh>>

(* The summary could not be had: a notice says so and the generation goes  *)
(* on with everything.                                                     *)
AutoCompactFails ==
  /\ "compact" \in allowed /\ "fail" \in allowed /\ gen.phase = "fresh" /\ Room(1)
  /\ PlansOf(live, gen.protect) # {}
  /\ LET row == Row(live.next, live.next, "notice")
     IN  /\ live' = OwnRow(live, row)
         /\ file' = Append(file, row)
         /\ gen' = [gen EXCEPT !.phase = "rounds", !.next = live.next + 1]
  /\ UNCHANGED <<allowed, commits, head, fresh>>

(* The user asks for it between generations.                               *)
Compact ==
  /\ "compact" \in allowed /\ live.loaded /\ gen.phase = "idle" /\ Room(1)
  /\ \E plan \in PlansOf(live, 0) :
       LET c == Compacted(live, plan)
       IN  live' = c.session /\ file' = Append(file, c.row)
  /\ UNCHANGED <<allowed, gen, commits, head, fresh>>

-----------------------------------------------------------------------------
(* A generation: replies with tool calls, then a last word.                *)

(* One round and the rows it shows: a text row if there is text (without a *)
(* tool also for reasoning alone), then a tool row.                        *)
RoundOf(reply, next, text, think, tool, first) ==
  LET textRow == text \/ (think /\ ~tool)
      rows == (IF textRow THEN <<Row(next, reply, "text")>> ELSE <<>>)
              \o (IF tool THEN <<Row(next + (IF textRow THEN 1 ELSE 0), reply, "tool")>>
                  ELSE <<>>)
  IN  [reply |-> reply, text |-> text, think |-> think, tool |-> tool,
       first |-> first, rows |-> rows]

(* The rounds of one reply with k calls: the text, and the reasoning, go   *)
(* with the first.                                                         *)
CallRounds(reply, next, text, think, k) ==
  LET one == RoundOf(reply, next, text, think, TRUE, TRUE)
  IN  [i \in 1..k |->
         IF i = 1 THEN one
         ELSE RoundOf(reply, next + Len(one.rows) + i - 2, FALSE, FALSE, TRUE, FALSE)]

RowsOf(rounds) == FlattenSeq([i \in DOMAIN rounds |-> rounds[i].rows])
ThinkingSet == IF "think" \in allowed THEN BOOLEAN ELSE {FALSE}

(* A reply with k tool calls.  The tools run, one of them may commit to    *)
(* the shared area under the anchor the session gives it, and the rows are *)
(* shown and saved.                                                        *)
ToolReply ==
  /\ gen.phase \in {"fresh", "rounds"}
  /\ live.replySeq < MaxReplies
  /\ \E text \in BOOLEAN, think \in ThinkingSet, k \in 1..MaxTools, commit \in BOOLEAN :
       LET reply  == live.replySeq + 1
           rounds == CallRounds(reply, gen.next, text, think, k)
           rows   == RowsOf(rounds)
       IN  /\ Room(Len(rows))
           /\ file' = file \o rows
           /\ live' = [live EXCEPT !.replySeq = reply]
           /\ gen' = [gen EXCEPT !.phase = "rounds", !.next = @ + Len(rows),
                                 !.rounds = @ \o rounds]
           /\ IF commit
              THEN /\ fresh <= MaxCommits
                   /\ commits' = commits \cup
                        {[id |-> fresh, parent |-> head, anchor |-> live.anchor,
                          row |-> Last(rows).id]}
                   /\ head' = fresh /\ fresh' = fresh + 1
              ELSE UNCHANGED <<commits, head, fresh>>
  /\ UNCHANGED allowed

BookToolEarly(s, r) ==
  LET msgs == (IF r.first THEN <<Message("call", r.reply)>> ELSE <<>>)
              \o <<Message("result", Last(r.rows).id)>>
      told == [s EXCEPT !.dialogue = @ \o <<Message("text", Last(r.rows).id)>>]
  IN  IF r.tool THEN [FoldLeft(Account, s, r.rows) EXCEPT !.dialogue = @ \o msgs]
      ELSE IF r.text THEN Account(told, Head(r.rows)) ELSE s

(* The rows of a round, accounted for after the fact: the text row before  *)
(* the messages of a call, a tool row after them.                          *)
Book(s, r) ==
  LET said  == r.text \/ r.think
      early == r.tool /\ said /\ r.rows # <<>>
      s1 == IF early THEN Account(s, Head(r.rows)) ELSE s
      rest == IF early THEN Tail(r.rows) ELSE r.rows
      msgs == IF r.tool
              THEN (IF r.first THEN <<Message("call", r.reply)>> ELSE <<>>)
                   \o <<Message("result", Last(r.rows).id)>>
              ELSE IF said THEN <<Message("text", Last(r.rows).id)>> ELSE <<>>
      s2 == [s1 EXCEPT !.dialogue = @ \o msgs, !.curReply = r.reply]
  IN  IF rest # <<>> THEN Account(s2, Head(rest)) ELSE s2

Booked(s, rounds) == FoldLeft(Book, s, rounds)

(* The reply a generation ends with: a last word, or one call that is not  *)
(* run (it came in the wrong slot, or the user stopped it half way).       *)
Ended(text, think, refused) ==
  LET round == RoundOf(live.replySeq + 1, gen.next, text, think, refused, TRUE)
      s == [live EXCEPT !.replySeq = @ + 1, !.next = gen.next + Len(round.rows)]
  IN  [rows |-> round.rows, session |-> Booked(s, Append(gen.rounds, round))]

(* The model's last word.                                                  *)
Answer ==
  /\ gen.phase \in {"fresh", "rounds"} /\ live.replySeq < MaxReplies
  /\ \E text \in BOOLEAN, think \in ThinkingSet, refused \in BOOLEAN :
       LET end == Ended(text, think, refused)
       IN  /\ Room(Len(end.rows))
           /\ file' = file \o end.rows
           /\ live' = end.session
  /\ gen' = Idle
  /\ UNCHANGED <<allowed, commits, head, fresh>>

(* The user stops it: what was said so far is kept, and a notice row       *)
(* closes it.                                                              *)
Stop ==
  /\ gen.phase \in {"fresh", "rounds"} /\ live.replySeq < MaxReplies
  /\ \E text \in BOOLEAN, think \in ThinkingSet, refused \in BOOLEAN :
       LET end == Ended(text, think, refused)
           row == Row(end.session.next, end.session.next, "notice")
       IN  /\ Room(Len(end.rows) + 1)
           /\ live' = OwnRow(end.session, row)
           /\ file' = file \o Append(end.rows, row)
  /\ gen' = Idle
  /\ UNCHANGED <<allowed, commits, head, fresh>>

(* A model call fails: the bookkeeping loop leaves at its first round when *)
(* an error was noted, and a notice row tells the user.                    *)
FailCall ==
  /\ "fail" \in allowed /\ gen.phase \in {"fresh", "rounds"} /\ Room(1)
  /\ live.replySeq < MaxReplies
  /\ LET s   == [live EXCEPT !.next = gen.next, !.replySeq = @ + 1]
         row == Row(s.next, s.next, "notice")
     IN  live' = OwnRow(s, row) /\ file' = Append(file, row)
  /\ gen' = Idle
  /\ UNCHANGED <<allowed, commits, head, fresh>>

-----------------------------------------------------------------------------
(* The process dies, at any moment; the session is loaded again when       *)
(* something needs it.                                                     *)
Crash ==
  /\ "restart" \in allowed /\ live.loaded
  /\ live' = NotLoaded /\ gen' = Idle
  /\ UNCHANGED <<allowed, file, commits, head, fresh>>

EnsureSession ==
  /\ ~live.loaded
  /\ live' = Rebuilt(ActiveView(file))
  /\ UNCHANGED <<allowed, file, gen, commits, head, fresh>>

-----------------------------------------------------------------------------
(* The shared area under a rewind (see WorkStore for how it gets there).   *)

CommitOf(i) == CHOOSE c \in commits : c.id = i
Stored == {c.id : c \in commits}
Ancestors(i) ==
  LET up[n \in 0..MaxCommits, S \in SUBSET (0..MaxCommits)] ==
        IF n = 0 THEN S
        ELSE up[n - 1, S \cup {CommitOf(j).parent : j \in S \cap Stored}]
  IN  up[MaxCommits, {i}] \ {0}

(* The last commit of the current line whose anchor is not past `keep`.    *)
RewindPointEarly(keep) ==
  Max({0} \cup {i \in Ancestors(head) : CommitOf(i).anchor + 1 < keep})
RewindPoint(keep) ==
  Max({0} \cup {i \in Ancestors(head) : CommitOf(i).anchor <= keep})

(* work_discard_after: only the line that ends at `keep` stays.            *)
DiscardAfterButKeep(keep) == {c \in commits : c.id \in Ancestors(keep) \ {keep}}
DiscardAfter(keep) == {c \in commits : c.id \in Ancestors(keep)}

Lines == {r.id : r \in ToSet(Rows(ActiveView(file)))}

(* Archive: fold the rows from `line` on, keep every byte.                 *)
Archive(line) ==
  /\ "archive" \in allowed /\ gen.phase = "idle"
  /\ Cardinality(ToSet(Marks(file))) < MaxMarks
  /\ LET before == AlignKeep(file, line)
         mark == [t |-> "rewind", mark |-> NextMarkId(file), before |-> before,
                  from |-> NextLineId(file), after |-> head,
                  saved |-> ActiveView(file)]
     IN  /\ before # KeepAll
         /\ file' = Append(file, mark)
         /\ head' = RewindPoint(before)
         /\ live' = RestoreSession(file')
  /\ UNCHANGED <<allowed, gen, commits, fresh>>

ApplyRewindShort(s, keep) ==
  LET k == IF keep = KeepAll THEN Len(s.marks) ELSE Max({0, Min({keep, Len(s.marks)}) - 1})
  IN  [s EXCEPT !.lineReply = SubSeq(@, 1, k), !.lineIds = SubSeq(@, 1, k),
                !.marks = SubSeq(@, 1, k), !.next = k, !.anchor = k,
                !.dialogue = IF k = 0 THEN <<>> ELSE SubSeq(@, 1, s.marks[k])]

(* apply_rewind: cut the loaded session in place, keep_id being taken for  *)
(* the number of rows to keep.                                             *)
ApplyRewind(s, keep) ==
  LET rows == Len(s.marks)
      k == IF keep = KeepAll THEN rows
           ELSE Min({KeepWholeReplies(s.lineReply, keep), rows})
      cut == [s EXCEPT !.lineReply = SubSeq(@, 1, k), !.lineIds = SubSeq(@, 1, k)]
  IN  CASE k = 0 -> [cut EXCEPT !.marks = <<>>, !.dialogue = <<>>, !.next = 0,
                                !.anchor = 0]
        [] k = rows /\ k > 0 -> cut
        [] OTHER -> [cut EXCEPT !.marks = SubSeq(@, 1, k),
                                !.dialogue = SubSeq(@, 1, s.marks[k]),
                                !.next = k, !.anchor = k]

(* Delete: drop the rows from `line` on and every commit off the line that *)
(* is kept.                                                                *)
Delete(line) ==
  /\ "delete" \in allowed /\ gen.phase = "idle"
  /\ LET before == AlignKeep(file, line)
         kept   == CutBeforeLine(file, before)
         point  == RewindPoint(before)
         inPlace == live.loaded
                    /\ (live.compactedLine = 0 \/ before > live.compactedLine)
     IN  /\ file' = kept
         /\ head' = point
         /\ commits' = DiscardAfter(point)
         /\ live' = IF inPlace THEN ApplyRewind(live, before)
                    ELSE RestoreSession(kept)
  /\ UNCHANGED <<allowed, gen, fresh>>

(* What a restore keeps of the file: all before the mark.                  *)
BeforeMarkAndIt(i) == SubSeq(file, 1, i)
BeforeMark(i) == SubSeq(file, 1, i - 1)

(* Restore: cut the file at the mark first, then bring the shared area     *)
(* back.  When the commit is gone the rewind stops there with an error.    *)
Restore(mark) ==
  /\ "archive" \in allowed /\ gen.phase = "idle"
  /\ \E i \in DOMAIN file :
       /\ IsMark(file[i]) /\ file[i].mark = mark
       /\ LET after == file[i].after
          IN  /\ file' = BeforeMark(i)
              /\ IF after = 0 \/ after \in Stored
                 THEN /\ head' = after
                      /\ commits' = DiscardAfter(after)
                      /\ live' = RestoreSession(file')
                 ELSE UNCHANGED <<head, commits, live>>
  /\ UNCHANGED <<allowed, gen, fresh>>

Next ==
  \/ Say \/ Continue \/ AutoCompact \/ AutoCompactFails \/ Compact
  \/ ToolReply \/ Answer \/ Stop \/ FailCall
  \/ Crash \/ EnsureSession
  \/ \E line \in 0..MaxRows : line \in Lines /\ (Archive(line) \/ Delete(line))
  \/ \E mark \in 1..MaxMarks : Restore(mark)

Spec == Init /\ [][Next]_vars

-----------------------------------------------------------------------------
Roles == {"summary", "user", "call", "result", "text"}
Kinds == {"user", "text", "tool", "notice", "compacted"}

(* The types of the variables.                                             *)
TypeOK ==
  /\ \A i \in DOMAIN file :
       \/ IsRow(file[i]) /\ file[i].id \in Nat /\ file[i].kind \in Kinds
       \/ IsMark(file[i]) /\ file[i].after \in 0..MaxCommits
  /\ live.loaded \in BOOLEAN /\ live.next \in Nat /\ live.anchor \in Nat
  /\ \A i \in DOMAIN live.dialogue : live.dialogue[i].role \in Roles
  /\ gen.phase \in {"idle", "fresh", "rounds"} /\ gen.next \in Nat
  /\ head \in Stored \cup {0} /\ fresh \in 1..(MaxCommits + 1)
  /\ Stored \subseteq 1..MaxCommits

(* The session in memory is the one a restart would build from its         *)
(* transcript: the same messages, rows and replies, and the same dialogue  *)
(* left when it is cut after any whole reply (the transcript is the truth  *)
(* when the two differ).  Replies with reasoning and no text, and calls    *)
(* that fail after others succeeded, are booked wrongly and left out.      *)
LiveIsReplay ==
  live.loaded /\ gen.phase = "idle" /\ allowed \cap {"think", "fail"} = {} =>
    LET r == Replay(ActiveView(file))
        ends == {i \in DOMAIN r.marks :
                   i = Len(r.marks) \/ r.lineReply[i] # r.lineReply[i + 1]}
    IN  /\ live.dialogue = r.dialogue
        /\ live.lineIds = r.lineIds /\ live.lineReply = r.lineReply
        /\ live.compactedUpto = r.compactedUpto
        /\ live.compactedLine = r.compactedLine
        /\ \A i \in ends : live.marks[i] = r.marks[i]

(* The next row takes an id no row of the file has: an archived row's id   *)
(* is never used again.                                                    *)
FreshIds == live.loaded /\ gen.phase = "idle" => live.next >= NextLineId(file)

(* What the model is sent never holds a tool result without its call, nor  *)
(* a call without a result; and however the session compacts itself, the   *)
(* message the generation is answering is still sent as it was said.       *)
NoOrphans ==
  live.loaded =>
    \A i \in DOMAIN live.dialogue :
      LET role(j) == IF j \in DOMAIN live.dialogue THEN live.dialogue[j].role ELSE "none"
      IN  /\ role(i) = "result" => role(i - 1) \in {"call", "result"}
          /\ role(i) = "call" => role(i + 1) = "result"

QuestionSurvives ==
  gen.phase # "idle" /\ gen.protect > 0 =>
    Message("user", live.lineIds[gen.protect]) \in ToSet(live.dialogue)

PromptIsWhole == NoOrphans /\ QuestionSurvives

Rewinding(line) == Archive(line) \/ Delete(line)
ActiveRows(es) == ToSet(Rows(ActiveView(es)))

(* A rewind keeps a model reply, its text and its tool rows, or drops it:  *)
(* it never splits one.                                                    *)
KeepsReplies ==
  \A line \in 0..MaxRows : Rewinding(line) =>
    \A r \in ActiveRows(file), s \in ActiveRows(file) :
      /\ r.kind \in {"text", "tool"} /\ s.kind \in {"text", "tool"}
      /\ r.reply = s.reply
      => (r \in ActiveRows(file') <=> s \in ActiveRows(file'))

(* A rewind takes nothing from the shared area that a kept row committed.  *)
KeepsWork ==
  \A line \in 0..MaxRows : Rewinding(line) =>
    \A i \in Ancestors(head) :
      (\E r \in ActiveRows(file') : r.id = CommitOf(i).row) => i \in Ancestors(head)'

(* Restoring an archive brings back the rows and the shared area of the    *)
(* moment before it, and the session follows.                              *)
Restores ==
  \A k \in 1..MaxMarks : Restore(k) =>
    \A m \in ToSet(Marks(file)) : m.mark = k =>
      /\ ActiveView(file') = m.saved
      /\ head' = m.after
      /\ live'.dialogue = Replay(m.saved).dialogue

RestoreExact == [][Restores]_vars
=============================================================================
