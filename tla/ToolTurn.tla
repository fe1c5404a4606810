------------------------------ MODULE ToolTurn ------------------------------
(***************************************************************************)
(* The tool calls of one agent (collab/service/tool_loop.rs) and the files *)
(* they touch (tools/service/systool.rs).  The calls of a reply are run as *)
(* a batch: what is refused is answered as such, what is to be asked about *)
(* waits for its card, neighbours declared parallel run at once, each on a *)
(* copy of the ledger of what the agent has seen, and are taken over in    *)
(* the order of the calls.  A call that writes looks at its files first,   *)
(* one after another, and writes them then; others change files whenever   *)
(* they like, between these steps as well.  The ledger decides whether a   *)
(* file that was looked at may be overwritten as a whole.                  *)
(***************************************************************************)
EXTENDS Naturals, Sequences, FiniteSets, Lists

CONSTANTS
  Paths,
  Contents,    \* what a file may hold
  Blank,       \* of these, what has no line
  Unclear,     \* of these, what is too long or no text: never seen in whole
  Long,        \* of these, what has a line of which a reading shows the beginning only
  Calls,       \* [kind, path, text, blocks, grant, parallel]
  None,
  MaxCalls,    \* of one batch
  MaxChanges,  \* by others
  Gate         \* there is a front end to answer cards

\* A call names what it does and to which file, the text it leaves there, for a patch
\* its blocks [op, path, text], how it was judged ("wrong", "deny", "ask" or "allow"),
\* and whether its tool is declared parallel.

VARIABLES
  file,        \* what is on disk
  seen,        \* the ledger: nothing, a part, or the fingerprint of the whole
  plan, i,     \* the batch, and the call it is at
  pc,          \* "think", "batch", "card" or "calls"
  branch,      \* of the call that runs, or of those that run at once: how far it has come
  allowTurn,   \* the rest of the turn needs no card
  last,        \* (history) the call that has just made a step
  agreed,      \* (history) the calls of this batch, 0 for the turn, that the user agreed to
  shown,       \* (history) what the agent has read from the first line to the last, or written
  changes      \* (bound)

vars == <<file, seen, plan, i, pc, branch, allowTurn, last, agreed, shown, changes>>

Unseen == "unseen"
Part == "part"
Nobody == [p \in Paths |-> Unseen]

-----------------------------------------------------------------------------
(* The ledger, and what a call that only reads, deletes or is a command    *)
(* does in one step.                                                       *)

\* How far a call has come: the blocks it has looked at, what it found there, the files
\* it has written, and its copy of the ledger.
Work == [pc |-> "look", at |-> 0, found |-> [p \in Paths |-> None], wrote |-> {}, ledger |-> seen]

\* A whole reading is a fingerprint, a part of one fills a gap and takes nothing away.
NoteReadAnyway(s, p, whole, content) == [s EXCEPT ![p] = content]  \* mutant: a part counts
NoteRead(s, p, whole, content) ==
  IF whole THEN [s EXCEPT ![p] = content]
  ELSE IF s[p] = Unseen THEN [s EXCEPT ![p] = Part] ELSE s

NoteWritten(s, p, content) == [s EXCEPT ![p] = content]

\* A file that exists is overwritten as a whole if it is what the ledger knows.
OverwriteCheckStale(s, p, current) == s[p] \notin {Unseen, Part}  \* mutant: not compared with the disk
OverwriteCheck(s, p, current) == s[p] = current /\ current \notin Unclear

\* A limited reading never reaches the last line; one of a file without lines starts
\* behind it.  A line that is too long is shown in its beginning, and counts like any other.
Whole(call, content) == call.kind = "read" /\ content \notin Blank \cup Unclear
AsRead(content) == <<content, IF content \in Long THEN "beginnings" ELSE "all">>
AsWritten(content) == <<content, "all">>

\* The files after it, the ledger, and the files it was shown.
Result(f, s, shows) == [file |-> f, ledger |-> s, shows |-> shows]

Read(call, f, s) ==
  LET p == call.path
  IN IF f[p] = None THEN {Result(f, s, {})}
     ELSE {Result(f, NoteRead(s, p, Whole(call, f[p]), f[p]),
                  IF call.kind = "read" /\ f[p] \notin Unclear THEN {p} ELSE {})}

\* Links are not followed, and the ledger is not asked.
Delete(call, f, s) == {Result([f EXCEPT ![call.path] = None], s, {})}

\* A command of the shell or of a module may do anything, and the ledger hears nothing of it.
Command(call, f, s) ==
  {Result([f EXCEPT ![call.path] = content], s, {}) : content \in {f[call.path], call.text}}

Execute(call, f, s) ==
  CASE call.kind \in {"read", "part"} -> Read(call, f, s)
    [] call.kind = "delete" -> Delete(call, f, s)
    [] OTHER -> Command(call, f, s)

-----------------------------------------------------------------------------
(* A call that writes: a patch of its blocks.                              *)

\* A file is written as a whole, or a text in it is replaced.
Write(call) == <<[op |-> "add", path |-> call.path, text |-> call.text]>>
Edit(call) == <<[op |-> "update", path |-> call.path, text |-> call.text]>>
Blocks(call) ==
  CASE call.kind = "write" -> Write(call)
    [] call.kind = "edit" -> Edit(call)
    [] call.kind = "patch" -> call.blocks
    [] OTHER -> <<>>

\* The text to be replaced is the evidence: it fits a file or it does not.
Fits(block, content) == content \notin {None} \cup Unclear \cup Blank /\ content # block.text

\* The blocks before number n that are on a path, and what block n finds there: what the
\* last of them leaves, or what was on disk when the first looked.
Before(blocks, p, n) == {m \in 1..n - 1 : blocks[m].path = p}
Found(blocks, f, p, n) ==
  IF Before(blocks, p, n) = {} THEN f[p] ELSE blocks[Max(Before(blocks, p, n))].text

Holds(blocks, f, s, n) ==
  LET b == blocks[n]
      found == Found(blocks, f, b.path, n)
  IN IF b.op = "add" THEN found = None \/ OverwriteCheck(s, b.path, found) ELSE Fits(b, found)

\* Nothing is written before every block is known to hold.
ReadyAtOnce(blocks, n) == TRUE  \* mutant: what is worked out is written
Ready(blocks, n) == n = Len(blocks)

\* The call looks at the file of its next block.
Looked(call, f, w) ==
  LET blocks == Blocks(call)
      n == w.at + 1
      p == blocks[n].path
      found == IF Before(blocks, p, n) = {} THEN [w.found EXCEPT ![p] = f[p]] ELSE w.found
  IN IF Holds(blocks, found, seen, n)
     THEN [w EXCEPT !.at = n, !.found = found, !.pc = IF Ready(blocks, n) THEN "write" ELSE "look"]
     ELSE [w EXCEPT !.pc = "failed"]

\* Files are written in the order of their first blocks, with what their last ones leave.
Named(blocks) == {blocks[n].path : n \in 1..Len(blocks)}
IsNext(blocks, w, n) ==
  /\ blocks[n].path \notin w.wrote
  /\ \A m \in 1..n - 1 : blocks[m].path \in w.wrote
Text(blocks, p) == blocks[Max(Before(blocks, p, Len(blocks) + 1))].text
Wrote(call, w, p) ==
  [w EXCEPT !.wrote = @ \cup {p},
            !.ledger = NoteWritten(@, p, Text(Blocks(call), p)),
            !.pc = IF Named(Blocks(call)) \subseteq w.wrote \cup {p} THEN "done" ELSE "write"]

-----------------------------------------------------------------------------
(* The batch.                                                              *)

\* The copies are taken over in the order of their calls: of those that know a file the
\* last wins, and a part only fills a gap.
Absorbed(s, copies) ==
  [p \in Paths |->
     LET know == {k \in DOMAIN copies : copies[k][p] \notin {Unseen, Part}}
     IN IF know # {} THEN copies[Max(know)][p]
        ELSE IF s[p] = Unseen /\ \E k \in DOMAIN copies : copies[k][p] = Part THEN Part
        ELSE s[p]]

TypeOK ==
  /\ file \in [Paths -> Contents \cup {None}]
  /\ seen \in [Paths -> Contents \cup {Unseen, Part}]
  /\ Len(plan) <= MaxCalls /\ \A k \in 1..Len(plan) : plan[k] \in Calls
  /\ i \in 1..Len(plan) + 1
  /\ pc \in {"think", "batch", "card", "calls"}
  /\ DOMAIN branch \subseteq i..Len(plan)
  /\ \A k \in DOMAIN branch :
       /\ branch[k].pc \in {"look", "write", "done", "failed"}
       /\ branch[k].at \in 0..Len(Blocks(plan[k])) /\ branch[k].wrote \subseteq Named(Blocks(plan[k]))
  /\ allowTurn \in BOOLEAN

Init ==
  /\ file \in [Paths -> Contents \cup {None}]
  /\ seen = Nobody
  /\ shown = [p \in Paths |-> {}]
  /\ plan = <<>> /\ i = 1
  /\ pc = "think"
  /\ branch = <<>>
  /\ allowTurn = FALSE
  /\ last = None
  /\ agreed = {}
  /\ changes = 0

Batch(calls) ==
  /\ pc = "think"
  /\ plan' = calls
  /\ i' = 1
  /\ pc' = "batch"
  /\ agreed' = agreed \cap {0}
  /\ last' = None
  /\ UNCHANGED <<file, seen, branch, allowTurn, shown, changes>>

\* On to call n, if there is one.
GoOn(n) ==
  IF n > Len(plan) THEN plan' = <<>> /\ i' = 1 /\ pc' = "think"
  ELSE UNCHANGED plan /\ i' = n /\ pc' = "batch"

\* No such tool, a wrong argument, out of reach, denied, or nobody there to ask.
Refuse ==
  /\ pc = "batch"
  /\ \/ plan[i].grant \in {"wrong", "deny"}
     \/ plan[i].grant = "ask" /\ ~allowTurn /\ ~Gate
  /\ GoOn(i + 1)
  /\ last' = None
  /\ UNCHANGED <<file, seen, branch, allowTurn, agreed, shown, changes>>

RaiseCard ==
  /\ pc = "batch"
  /\ plan[i].grant = "ask" /\ ~allowTurn /\ Gate
  /\ pc' = "card"
  /\ last' = None
  /\ UNCHANGED <<file, seen, plan, i, branch, allowTurn, agreed, shown, changes>>

\* The user answers; a stop voids the card, which is a refusal.
Answer(option) ==
  /\ pc = "card"
  /\ IF option = "deny" THEN GoOn(i + 1) /\ UNCHANGED branch
     ELSE branch' = [k \in {i} |-> Work] /\ pc' = "calls" /\ UNCHANGED <<plan, i>>
  /\ allowTurn' = (allowTurn \/ option = "allow_turn")
  /\ agreed' = agreed \cup (CASE option = "allow" -> {i}
                              [] option = "allow_turn" -> {0}
                              [] OTHER -> {})
  /\ last' = None
  /\ UNCHANGED <<file, seen, shown, changes>>

AtOnceUnasked(k) == plan[k].parallel  \* mutant: the grants are not looked at
AtOnce(k) == plan[k].grant = "allow" /\ plan[k].parallel

\* All neighbours declared parallel and allowed run at once.
Group(from) ==
  LET ends == {j \in from..Len(plan) : ~AtOnce(j)}
  IN from..(IF ends = {} THEN Len(plan) ELSE (CHOOSE j \in ends : \A k \in ends : j <= k) - 1)

\* What is allowed begins: alone, or with its neighbours.
Fork ==
  /\ pc = "batch"
  /\ AtOnce(i) \/ plan[i].grant = "allow" \/ (plan[i].grant = "ask" /\ allowTurn)
  /\ branch' = [k \in IF AtOnce(i) THEN Group(i) ELSE {i} |-> Work]
  /\ pc' = "calls"
  /\ last' = None
  /\ UNCHANGED <<file, seen, plan, i, allowTurn, agreed, shown, changes>>

Goes(k, at) ==
  /\ pc = "calls"
  /\ branch[k].pc = at
  /\ last' = [k |-> k, call |-> plan[k]]
  /\ UNCHANGED <<seen, plan, i, pc, allowTurn, agreed, changes>>

\* A call that does not write, in one step.
Do(k) ==
  /\ Goes(k, "look")
  /\ Blocks(plan[k]) = <<>>
  /\ \E r \in Execute(plan[k], file, seen) :
        /\ file' = r.file
        /\ branch' = [branch EXCEPT ![k].pc = "done", ![k].ledger = r.ledger]
        /\ shown' = [p \in Paths |-> shown[p] \cup IF p \in r.shows THEN {AsRead(file[p])} ELSE {}]

\* One that writes looks at its next file,
Look(k) ==
  /\ Goes(k, "look")
  /\ Blocks(plan[k]) # <<>>
  /\ branch' = [branch EXCEPT ![k] = Looked(plan[k], file, @)]
  /\ UNCHANGED <<file, shown>>

\* and then writes its next file, whatever is there by now, or fails to.
Put(k) ==
  LET blocks == Blocks(plan[k])
  IN /\ Goes(k, "write")
     /\ \E n \in 1..Len(blocks) :
          LET p == blocks[n].path
          IN /\ IsNext(blocks, branch[k], n)
             /\ file' = [file EXCEPT ![p] = Text(blocks, p)]
             /\ shown' = [shown EXCEPT ![p] = @ \cup {AsWritten(Text(blocks, p))}]
             /\ branch' = [branch EXCEPT ![k] = Wrote(plan[k], @, p)]

PutFails(k) ==
  /\ Goes(k, "write")
  /\ branch' = [branch EXCEPT ![k].pc = "failed"]
  /\ UNCHANGED <<file, shown>>

\* When all have ended, their ledgers are taken over in the order of the calls.
Absorb ==
  /\ pc = "calls"
  /\ \A k \in DOMAIN branch : branch[k].pc \in {"done", "failed"}
  /\ seen' = Absorbed(seen, [k \in DOMAIN branch |-> branch[k].ledger])
  /\ GoOn(i + Cardinality(DOMAIN branch))
  /\ branch' = <<>>
  /\ last' = None
  /\ UNCHANGED <<file, allowTurn, agreed, shown, changes>>

IdleStillAllowed ==  \* mutant: the consent outlives its turn
  /\ plan' = <<>> /\ i' = 1 /\ pc' = "think" /\ branch' = <<>>
  /\ last' = None /\ agreed' = {}
  /\ UNCHANGED allowTurn
Idle ==
  /\ plan' = <<>> /\ i' = 1
  /\ pc' = "think"
  /\ branch' = <<>>
  /\ allowTurn' = FALSE
  /\ last' = None
  /\ agreed' = {}

\* A new generation: what was allowed for a turn is forgotten.
NewTurn ==
  /\ pc = "think"
  /\ Idle
  /\ UNCHANGED <<file, seen, shown, changes>>

\* The session is rewound, or the program starts anew: the ledger is empty.
Forget ==
  /\ seen' = Nobody
  /\ shown' = [p \in Paths |-> {}]
  /\ Idle
  /\ UNCHANGED <<file, changes>>

\* The user, another agent or a process left behind changes a file.
Change(p, content) ==
  /\ changes < MaxChanges
  /\ file[p] # content
  /\ file' = [file EXCEPT ![p] = content]
  /\ changes' = changes + 1
  /\ last' = None
  /\ UNCHANGED <<seen, plan, i, pc, branch, allowTurn, agreed, shown>>

Next ==
  \/ \E calls \in UNION {[1..n -> Calls] : n \in 1..MaxCalls} : Batch(calls)
  \/ Refuse \/ RaiseCard \/ Fork \/ Absorb \/ NewTurn \/ Forget
  \/ \E option \in {"allow", "allow_turn", "deny"} : Answer(option)
  \/ \E k \in DOMAIN branch : Do(k) \/ Look(k) \/ Put(k) \/ PutFails(k)
  \/ \E p \in Paths, content \in Contents \cup {None} : Change(p, content)

Spec == Init /\ [][Next]_vars

-----------------------------------------------------------------------------
\* Nothing runs that was refused, or that the user was to be asked about and did not
\* agree to, for this call or for the rest of this turn.
OnlyTheAgreedRuns ==
  last # None =>
    \/ last.call.grant = "allow"
    \/ last.call.grant = "ask" /\ (last.k \in agreed \/ 0 \in agreed)

\* The files a call overwrites as a whole, whatever they held.
Wholes(call) ==
  {p \in Paths : \E n \in 1..Len(Blocks(call)) :
     /\ Blocks(call)[n].path = p /\ Blocks(call)[n].op = "add"
     /\ Before(Blocks(call), p, n) = {}}

\* What the agent was shown of a file, or has left there itself: all of it, or of its lines
\* that are too long the beginnings.
Met(views, content) ==
  \/ <<content, "all">> \in views
  \/ content \in Long /\ <<content, "beginnings">> \in views

\* A call that overwrites a whole file loses nothing the agent has not been shown from the
\* first line to the last or left there itself since it began - unless it came there after
\* the call had looked -, whoever changes files, and however its parallel calls come out.
NothingUnseenIsLost ==
  last' # None =>
    \A p \in Wholes(last'.call) :
      file[p] \notin {None, file'[p]} =>
        Met(shown[p], file[p]) \/ file[p] # branch[last'.k].found[p]

\* A patch changes a file to what its last block on it says, and only when every block has
\* fitted what it found; unless its writing breaks off, it writes all of its files.
PatchIsWhole ==
  last' # None /\ last'.call.kind = "patch" =>
    LET blocks == last'.call.blocks
        w == branch'[last'.k]
    IN /\ \A p \in Paths : file'[p] # file[p] =>
            /\ \A n \in 1..Len(blocks) : Holds(blocks, w.found, seen, n)
            /\ \E n \in 1..Len(blocks) :
                 /\ blocks[n].path = p /\ file'[p] = blocks[n].text
                 /\ \A m \in n + 1..Len(blocks) : blocks[m].path # p
       /\ branch[last'.k].pc # "done" /\ w.pc = "done" => w.wrote = Named(blocks)
=============================================================================
