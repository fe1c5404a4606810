------------------------------ MODULE Envelope ------------------------------
(***************************************************************************)
(* What a model writes when it has no slots for calls (llm/domain/         *)
(* envelope.rs): text with a JSON envelope in it that asks for a tool or   *)
(* says something; how it is read, and how a broken one is repaired        *)
(* (llm/detail/repair.rs) without guessing.                                *)
(*                                                                         *)
(* A text is a sequence of tokens: "tool", "bare" and "say" are the opening*)
(* brace of an envelope with its fields up to the last value ("bare" lacks *)
(* the name of the tool); "v" is a whole string; "q" is a quote, "nl" a    *)
(* line break, "esc" an escaped one, "x" anything else.  A value is a      *)
(* string.  Brackets are treated like braces and left out, and so are      *)
(* envelopes with several calls.                                           *)
(***************************************************************************)
EXTENDS Naturals, Sequences, FiniteSets, Lists

CONSTANTS
  Alphabets,   \* sets of tokens
  MaxLen,      \* of a text
  None

VARIABLES
  alphabet, input,
  read   \* what the program makes of the text so far

vars == <<alphabet, input, read>>

Opening == {"tool", "bare", "say", "{"}

\* The text of a string, as it is meant.
Inside == {"x", "nl", "esc", "{", "}"}
Escape(t) == IF t = "nl" THEN "esc" ELSE t
Meaning(s) == [n \in 1..Len(s) |-> Escape(s[n])]

-----------------------------------------------------------------------------
\* Braces and quotes from the first token on: how deep, in a string or not, where the
\* outermost open brace is, and how many envelopes were begun.
Blank == [depth |-> 0, str |-> FALSE, open |-> 0, begun |-> 0, at |-> 0]
ScanOne(s, t) ==
  LET n == s.at + 1
      next == [s EXCEPT !.at = n]
  IN CASE t = "q" -> [next EXCEPT !.str = ~@]
       [] t \in Opening /\ ~s.str ->
            [next EXCEPT !.depth = @ + 1, !.open = IF s.depth = 0 THEN n ELSE @,
                         !.begun = @ + (IF t \in {"tool", "bare"} THEN 1 ELSE 0)]
       [] t = "}" /\ ~s.str /\ s.depth > 0 -> [next EXCEPT !.depth = @ - 1]
       [] OTHER -> next
Scan(s) == FoldLeft(ScanOne, Blank, s)

\* The first object that is closed, from the first brace on: its first and last token.
Braces(s) == {n \in 1..Len(s) : s[n] \in Opening}
Least(ns) == CHOOSE n \in ns : \A m \in ns : n <= m
Spans(s, first) == {<<first, n>> : n \in {m \in first..Len(s) : Scan(SubSeq(s, first, m)).depth = 0}}
Shortest(spans) == IF spans = {} THEN None ELSE CHOOSE o \in spans : \A p \in spans : o[2] <= p[2]
Object(s) == Shortest(IF Braces(s) = {} THEN {} ELSE Spans(s, Least(Braces(s))))
Without(s, o) == SubSeq(s, 1, o[1] - 1) \o SubSeq(s, o[2] + 1, Len(s))

\* What is open at the end of a text.
Unclosed(s) == Scan(s).depth > 0
MissingLess(s) == [n \in 1..(Scan(s).depth - 1) |-> "}"]  \* mutant: off by one
Missing(s) == [n \in 1..Scan(s).depth |-> "}"]

\* A line break within a string.
RawControl(s) == \E n \in 1..Len(s) : s[n] = "nl" /\ Scan(SubSeq(s, 1, n)).str

\* A legal envelope: line breaks are allowed between its parts.
Tight(s) ==
  LET kept == {n \in 1..Len(s) : s[n] # "nl" \/ Scan(SubSeq(s, 1, n)).str}
  IN SelectSeq([n \in 1..Len(s) |-> IF n \in kept THEN s[n] ELSE None], LAMBDA t : t # None)
Value(s) == IF s = <<"v">> THEN <<"x">> ELSE SubSeq(s, 2, Len(s) - 1)
IsString(s) ==
  s = <<"v">> \/ (/\ Len(s) >= 2 /\ s[1] = "q" /\ s[Len(s)] = "q"
                  /\ ToSet(Value(s)) \subseteq Inside \ {"nl"})
IsCall(t, kind) ==
  Len(t) >= 3 /\ t[1] = kind /\ t[Len(t)] = "}" /\ IsString(SubSeq(t, 2, Len(t) - 1))
Legal(s, kind) == IsCall(Tight(s), kind)
ValueOf(t) == Value(SubSeq(t, 2, Len(t) - 1))

-----------------------------------------------------------------------------
MentionsTool(s) == {"tool", "bare"} \cap ToSet(s) # {}
Begins(s) == LET t == SelectSeq(s, LAMBDA x : x # "nl") IN t # <<>> /\ t[1] \in Opening

\* What is wrong with an envelope.  A line break in a string and a missing brace may both be.
BrokenKind(s) ==
  IF RawControl(s) THEN "control"
  ELSE IF Legal(s, "bare") THEN "shape"
  ELSE IF Unclosed(s) THEN "unclosed" ELSE "syntax"

Reply(verb, text, broken, argument) ==
  [verb |-> verb, text |-> text, broken |-> broken, argument |-> argument]

\* The first object decides; then an object left open at the end; then what begins with
\* a brace.  Everything else is said as it is.
Broken(text, part) == Reply("tool", text, [part |-> part, kind |-> BrokenKind(part)], None)
ParseRest(s, open, probe, text) ==
  CASE open > 0 /\ MentionsTool(SubSeq(s, open, Len(s))) ->
         Broken(SubSeq(s, 1, open - 1), SubSeq(s, open, Len(s)))
    [] Begins(s) /\ MentionsTool(probe) -> Broken(text, probe)
    [] OTHER -> Reply("say", s, None, None)
OpenAt(scan) == IF scan.depth > 0 THEN scan.open ELSE 0
ParseObject(s, o, call) ==
  CASE IsCall(call, "tool") -> Reply("tool", Without(s, o), None, Meaning(ValueOf(call)))
    [] IsCall(call, "say") -> Reply("say", ValueOf(call), None, None)
    [] OTHER -> ParseRest(s, OpenAt(Scan(s)), SubSeq(s, o[1], o[2]), Without(s, o))
ParseAt(s, o) ==
  IF o = None THEN ParseRest(s, OpenAt(Scan(s)), s, <<>>)
  ELSE ParseObject(s, o, Tight(SubSeq(s, o[1], o[2])))
Parse(s) == ParseAt(s, Object(s))

-----------------------------------------------------------------------------
\* Line breaks in strings are escaped, wherever in the text they are.
EscapedAway(s) ==  \* mutant: they are dropped
  LET in == {n \in 1..Len(s) : s[n] = "nl" /\ Scan(SubSeq(s, 1, n)).str}
  IN SelectSeq([n \in 1..Len(s) |-> IF n \in in THEN None ELSE s[n]], LAMBDA t : t # None)
Escaped(s) ==
  [n \in 1..Len(s) |-> IF Scan(SubSeq(s, 1, n)).str THEN Escape(s[n]) ELSE s[n]]

\* What is missing is put at the end, unless the text breaks off within a string or a
\* second envelope was begun in the first.
Closable(part) == ~Scan(part).str
ClosedUp(s, part) ==
  IF ~Closable(part) \/ Scan(part).begun > 1 THEN None ELSE s \o Missing(part)

Repair(s, broken) ==
  CASE broken.kind = "control" ->
         IF Escaped(s) = s THEN None
         ELSE IF ~Unclosed(broken.part) THEN Escaped(s)
         ELSE IF Closable(broken.part) THEN Escaped(s) \o Missing(broken.part) ELSE None
    [] broken.kind = "unclosed" -> ClosedUp(s, broken.part)
    [] OTHER -> None

\* What was repaired counts if it reads as a legal envelope then.
Better(first, again) == IF again.verb = "tool" /\ again.broken = None THEN again ELSE first
Repaired(s, first) ==
  IF first.broken = None THEN first
  ELSE LET t == Repair(s, first.broken) IN IF t = None THEN first ELSE Better(first, Parse(t))

-----------------------------------------------------------------------------
Init == alphabet \in Alphabets /\ input = <<>> /\ read = Reply("say", <<>>, None, None)

\* The model writes on; its text may end anywhere.
Write ==
  /\ Len(input) < MaxLen
  /\ \E t \in alphabet : input' = Append(input, t)
  /\ read' = Repaired(input', Parse(input'))
  /\ UNCHANGED alphabet

Next == Write

-----------------------------------------------------------------------------
TypeOK ==
  /\ input \in Seq(alphabet) /\ Len(input) <= MaxLen
  /\ read.verb \in {"tool", "say"}

\* A reply is run with its argument, told to be broken, or said.
Runs == read.verb = "tool" /\ read.broken = None

\* A whole string from its quote to its quote, whatever line breaks are in it.
Written(s) ==
  s = <<"v">> \/ (/\ Len(s) >= 2 /\ s[1] = "q" /\ s[Len(s)] = "q"
                  /\ ToSet(Value(s)) \subseteq Inside)

\* What is run is the value of a tool, to the letter, and the model had finished it.
RunsWhatWasWritten ==
  Runs =>
    \E i \in 1..Len(input) : \E j, k \in (i + 1)..Len(input) :
      /\ input[i] = "tool" /\ \A n \in (i + 1)..(j - 1) : input[n] = "nl"
      /\ j <= k /\ Written(SubSeq(input, j, k))
      /\ read.argument = Meaning(Value(SubSeq(input, j, k)))

\* An envelope that lacks nothing but its brace, or has line breaks in its value, is
\* run; after prose only one of its kinds: what is closed and illegal is part of the prose.
ClearIsRun ==
  (\E i \in 1..Len(input) :
     LET rest == SubSeq(input, i + 1, Len(input))
         closed == rest # <<>> /\ Last(rest) = "}"
         before == SubSeq(input, 1, i - 1)
     IN /\ input[i] = "tool" /\ ToSet(before) \subseteq {"x", "nl"}
        /\ Written(IF closed THEN Front(rest) ELSE rest)
        /\ closed /\ "x" \in ToSet(before) => "nl" \notin ToSet(rest))
  => Runs
=============================================================================
