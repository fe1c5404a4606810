----------------------------- MODULE ModelCall -----------------------------
(***************************************************************************)
(* The calls of a model over HTTP (llm/detail) by one session: the         *)
(* endpoints of a provider are tried in turn until one answers, which is   *)
(* then kept for every later session; the answer comes as a stream of      *)
(* lines, cut into chunks anywhere, or as one body; the user may stop it,  *)
(* the provider may refuse, fall silent or break off.                      *)
(*                                                                         *)
(* A text is a sequence of letters.  Thoughts are treated like text and    *)
(* left out, and so are the numbers of tokens.                             *)
(***************************************************************************)
EXTENDS Lists

CONSTANTS
  Endpoints,    \* the candidates, in order
  Stream,       \* the setting of the user
  Native,       \* calls of tools come in slots of their own
  Words,        \* what one line may add to a text
  MaxText,      \* letters a provider sends (bound)
  MaxStream,    \* letters after which the reader has enough
  MaxCalls,     \* (bound)
  None

VARIABLES
  memo,         \* the endpoint known to work, for the whole program
  resolved,     \* the one this session uses
  answered,     \* (history) those that have answered
  style,        \* the provider sends pieces, or all of the text so far
  stage,           \* "idle", "sent", "stream" or "body"
  left,         \* the candidates from the one that is asked
  options,      \* the request asks for the tokens of a stream
  half,         \* a line whose end has not come
  reply,        \* what the reader has of the reply
  said,         \* (history) what the provider has sent of it
  shown,        \* what the user sees of it
  quiet,        \* the provider sends nothing any more
  stopped,      \* the user has stopped the generation
  ended,        \* how the last call ended
  spent         \* (bound)

vars == <<memo, resolved, answered, style, stage, left, options, half, reply, said, shown,
          quiet, stopped, ended, spent>>
Between == <<memo, resolved, answered, style, stopped, ended, spent>>

Empty == [text |-> <<>>, tools |-> <<>>, finish |-> FALSE]

Init ==
  /\ memo = None /\ resolved = None /\ answered = {}
  /\ style \in {"pieces", "so far"}
  /\ stage = "idle" /\ left = <<>> /\ options = FALSE /\ half = None
  /\ reply = Empty /\ said = Empty /\ shown = <<>> /\ quiet = FALSE /\ stopped = FALSE
  /\ ended = None /\ spent = 0

-----------------------------------------------------------------------------
\* Another session has found an endpoint that answers.
OtherCall(u) ==
  /\ memo = None
  /\ memo' = u /\ answered' = answered \cup {u}
  /\ UNCHANGED <<resolved, style, stage, left, options, half, reply, said, shown, quiet, stopped,
                 ended, spent>>

\* A session is opened: it begins with what the program knows.
NewChat ==
  /\ stage = "idle" /\ resolved # memo
  /\ resolved' = memo
  /\ UNCHANGED <<memo, answered, style, stage, left, options, half, reply, said, shown, quiet,
                 stopped, ended, spent>>

\* A request goes out to the first of some endpoints.
Ask(us, opt) ==
  /\ stage' = "sent" /\ left' = us /\ options' = opt
  /\ half' = None /\ reply' = Empty /\ said' = Empty /\ quiet' = FALSE

Tried == IF resolved = None THEN Endpoints ELSE <<resolved>>

Call ==
  /\ stage = "idle" /\ spent < MaxCalls
  /\ spent' = spent + 1 /\ stopped' = FALSE /\ ended' = None /\ shown' = <<>>
  /\ Ask(Tried, Stream)
  /\ UNCHANGED <<memo, resolved, answered, style>>

\* The user stops the generation.
Stop ==
  /\ stage # "idle" /\ ~stopped
  /\ stopped' = TRUE
  /\ UNCHANGED <<memo, resolved, answered, style, stage, left, options, half, reply, said, shown,
                 quiet, ended, spent>>

-----------------------------------------------------------------------------
(* How a call ends, and what the generation does with that.                *)

\* A stop counts whether the reader has seen it or not; a failure is no reply; calls in
\* slots are carried out where slots are used, and refused where they are not.
NextStepUnasked(kind, r) ==  \* mutant: the flag is not looked at again
  IF kind = "stopped" THEN "stop"
  ELSE IF kind = "failed" THEN "tell"
  ELSE IF r.tools = <<>> THEN "say"
  ELSE IF Native THEN "run" ELSE "refuse"
NextStep(kind, r) ==
  IF kind = "stopped" \/ stopped THEN "stop"
  ELSE IF kind = "failed" THEN "tell"
  ELSE IF r.tools = <<>> THEN "say"
  ELSE IF Native THEN "run" ELSE "refuse"

\* What answered is kept for this session and for later ones; a stop proves nothing.
ProvenAnyway(kind) == kind # "failed"  \* mutant: a stopped call is an answer
Proven(kind) == kind = "replied"

Return(kind, r) ==
  /\ ended' = [kind |-> kind, reply |-> r, step |-> NextStep(kind, r)]
  /\ IF Proven(kind) THEN memo' = Head(left) /\ resolved' = Head(left)
     ELSE UNCHANGED <<memo, resolved>>
  /\ answered' = IF kind = "replied" THEN answered \cup {Head(left)} ELSE answered
  /\ stage' = "idle" /\ left' = <<>> /\ half' = None /\ quiet' = FALSE
  /\ UNCHANGED <<style, spent, stopped, options>>

Fail == Return("failed", Empty) /\ UNCHANGED <<reply, said, shown>>

\* The next candidate is asked in the place of this one.
TryNext ==
  IF Len(left) > 1 THEN Ask(Tail(left), options) /\ UNCHANGED Between /\ UNCHANGED shown
  ELSE Fail

\* Once there is something of the reply a failure is final.
BrokenAlways == TryNext  \* mutant: the next one is asked all the same
Broken == IF reply.text = <<>> /\ reply.tools = <<>> THEN TryNext ELSE Fail

-----------------------------------------------------------------------------
\* The wait for the provider is given up within a moment of the stop.
SeeStop ==
  /\ stage # "idle" /\ stopped
  /\ Return("stopped", reply) /\ UNCHANGED <<reply, said, shown>>

\* No connection, no such endpoint, no reply in what came, or time is up: the time of a
\* stream begins anew with every byte.
GiveUp ==
  /\ stage \in {"sent", "body"} \/ (stage = "stream" /\ quiet)
  /\ Broken

\* The provider refuses for another reason; or does not know the option, in which case
\* the whole exchange is made again without it.
Refused == stage = "sent" /\ Fail
OptionRefused ==
  /\ stage = "sent" /\ options
  /\ Ask(Tried, FALSE)
  /\ UNCHANGED Between /\ UNCHANGED shown

\* A reply begins: what was shown of an earlier one is taken back.
Accepted ==
  /\ stage = "sent" /\ ~stopped
  /\ stage' = IF Stream THEN "stream" ELSE "body"
  /\ shown' = <<>>
  /\ UNCHANGED <<left, options, half, reply, said, quiet>> /\ UNCHANGED Between

-----------------------------------------------------------------------------
(* What the provider sends: lines with more text, the start or the rest of *)
(* a call of a tool, or the reason of the end.  `adds` is what the         *)
(* provider means by a text.                                               *)
Line(kind, text, adds) == [kind |-> kind, text |-> text, adds |-> adds]

Meant(s, line) ==
  CASE line.kind = "text" -> [s EXCEPT !.text = @ \o line.adds]
    [] line.kind = "call" -> [s EXCEPT !.tools = Append(@, FALSE)]
    [] line.kind = "args" -> [s EXCEPT !.tools[Len(s.tools)] = TRUE]
    [] OTHER -> [s EXCEPT !.finish = TRUE]

\* What begins with all of the text so far is taken for all of the text.
PieceWhole(text, t) == t  \* mutant: what is sent is always taken as more
Piece(text, t) ==
  IF Len(t) > Len(text) /\ IsPrefix(text, t) THEN SubSeq(t, Len(text) + 1, Len(t)) ELSE t
Taken(r, line) == Meant(r, [line EXCEPT !.adds = Piece(r.text, line.text)])

\* A provider of pieces could send one that looks like all of the text.
Clear(w) == style = "pieces" => Piece(said.text, w) = w
Lines ==
  {Line("text", IF style = "pieces" THEN w ELSE said.text \o w, w) :
     w \in {v \in Words : Len(said.text \o v) <= MaxText /\ Clear(v) /\ said.tools = <<>>}}
  \cup {Line(kind, <<>>, <<>>) : kind \in
          (IF said.tools = <<>> THEN {"call"} ELSE {})
          \cup (IF FALSE \in ToSet(said.tools) THEN {"args"} ELSE {})
          \cup (IF said.finish THEN {} ELSE {"finish"})}

\* A line is read and its text shown.
Takes(line) ==
  /\ said' = Meant(said, line)
  /\ reply' = Taken(reply, line)
  /\ shown' = IF line.kind = "text" THEN shown \o Piece(reply.text, line.text) ELSE shown

\* Whatever ends a stream, it is a reply if there is anything in it.
Complete(r) == r.text # <<>> \/ r.tools # <<>>

Reading == stage = "stream" /\ ~quiet
Read(line) ==
  LET r == Taken(reply, line)
  IN /\ Takes(line)
     /\ IF Len(r.text) > MaxStream THEN Return("replied", r)
        ELSE half' = None /\ UNCHANGED <<stage, left, options, quiet>> /\ UNCHANGED Between

Chunk == Reading /\ ~stopped /\ half = None /\ \E line \in Lines : Read(line)

\* A chunk ends within a line; the next one brings the rest.
Half ==
  /\ Reading /\ ~stopped /\ half = None
  /\ \E line \in Lines : half' = line
  /\ UNCHANGED <<stage, left, options, reply, said, shown, quiet>> /\ UNCHANGED Between
Rest == Reading /\ ~stopped /\ half # None /\ Read(half)

\* The mark of the end, or the end of the connection, within a line or not.
Closed ==
  /\ Reading
  /\ IF Complete(reply) THEN Return("replied", reply) /\ UNCHANGED <<reply, said, shown>>
     ELSE TryNext

\* The last line is there, without its end of line.
LastLineLost(line) == reply  \* mutant: what is left in the buffer is dropped
LastLine(line) == Taken(reply, line)
ClosedInLine ==
  /\ Reading /\ half # None
  /\ IF Complete(LastLine(half)) THEN Takes(half) /\ Return("replied", LastLine(half))
     ELSE TryNext

Torn == Reading /\ Broken

\* The provider falls silent.
FallSilent ==
  /\ Reading
  /\ quiet' = TRUE
  /\ UNCHANGED <<stage, left, options, half, reply, said, shown>> /\ UNCHANGED Between

\* One body for all.
Body ==
  /\ stage = "body"
  /\ \E w \in Words \cup {<<>>}, tools \in {<<>>, <<TRUE>>} :
        LET r == [Empty EXCEPT !.text = w, !.tools = tools]
        IN /\ Complete(r)
           /\ Return("replied", r) /\ reply' = r /\ said' = r /\ shown' = shown

Next ==
  \/ \E u \in ToSet(Endpoints) : OtherCall(u)
  \/ NewChat \/ Call \/ Stop \/ SeeStop
  \/ GiveUp \/ Refused \/ OptionRefused \/ Accepted
  \/ Chunk \/ Half \/ Rest \/ Closed \/ ClosedInLine \/ Torn \/ FallSilent \/ Body

\* The reader looks at its clock and at the flag; the provider owes nothing.
Fairness == WF_vars(SeeStop) /\ WF_vars(GiveUp)

-----------------------------------------------------------------------------
TypeOK ==
  /\ {memo, resolved} \subseteq ToSet(Endpoints) \cup {None}
  /\ stage \in {"idle", "sent", "stream", "body"}
  /\ (stage = "idle") = (left = <<>>)
  /\ \A r \in {reply, said} : Len(r.text) <= MaxText /\ Len(r.tools) <= 1
  /\ ended # None => ended.step \in {"stop", "tell", "say", "run", "refuse"}

\* A call that succeeds returns what the provider has sent, in whatever pieces and
\* chunks it came and whichever candidate it came from, and the user sees the same.
ReplyIsWhatWasSaid ==
  ended # None /\ ended.kind = "replied" =>
    /\ ended.reply = said
    /\ Stream => shown = said.text

\* What is sent after a stop runs nothing.
StoppedRunsNothing == ended # None /\ stopped => ended.step = "stop"

\* No endpoint is kept that has not answered.
KeptEndpointsAnswer == {memo, resolved} \subseteq answered \cup {None}

\* What the user has seen of a reply is not taken back to be asked for again.
NothingTakenBack == stage = "sent" => shown = <<>>

\* A call ends, unless its provider goes on talking and nobody stops it.
CallEnds == []<>(stage = "idle" \/ (Reading /\ ~stopped))
=============================================================================
