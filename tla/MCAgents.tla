------------------------------ MODULE MCAgents ------------------------------
(***************************************************************************)
(* What an agent is given and does in its session, and what the user sees  *)
(* of it: small instances of the transcript of a session, the tab that     *)
(* shows it, the permissions of a tree of sessions, the calls of a reply   *)
(* and the envelopes in it, and the proxies with the sessions they make.   *)
(* They share no state at the grain of their modules; a behaviour is one   *)
(* of `which`, and the others rest where they began.                       *)
(***************************************************************************)
EXTENDS Naturals, Sequences, FiniteSets, Lists

CONSTANTS
  Cases,         \* what `which` may be
  SharedPaths,   \* of the shared area; what is below a path has it as a prefix
  ToolNames,
  Team,          \* the seats of a work
  TreeLayers, OwnLayers,  \* what a user gives in a tree of a proxy, and in a work of his own
  Quick,         \* the sessions whose profile is switched
  Switches,      \* and to which profiles
  Places,        \* of the files of an agent
  Texts,         \* which they may hold
  Blanks,        \* without a line
  Unclears,      \* never seen in whole
  Longs,         \* with a line that is shown in its beginning only
  Disks,         \* the files at first
  ToolCalls,        \* the calls of an agent
  MaxBatch, MaxMeddling,
  Gate,          \* there is somebody to answer cards
  Children,      \* what a proxy may make
  Talks,         \* those of them that are discussions
  Wishes,         \* the ids of a proxy's requests
  ProxyCalls, UserActs, Falls, \* how often each acts
  Chairs,        \* the members of a discussion
  Laps,          \* its rounds at most
  Patience,      \* reminders to one member in one round
  Mishaps,       \* stops, crashes and agreements taken back
  Keep, None

VARIABLES
  which,
  allowed, file, live, gen, commits, head, fresh,
  layer, at, built, edit,
  disk, seen, plan, i, pc, branch, allowTurn, last, agreed, shown, changes,
  alphabet, input, read,
  onDisk, newest, board, hold, owed, snap, tab, ask, poll, torn, crossed,
  life, hand, flag, spoke, card, loaded, fitted, ledger, lit, telling, ops, acts, notes, due, made,
  missed, still,
  circle, kept, open, ticket, asked, halt, troubles, heard, mute, tookBack, twice

vS == <<allowed, file, live, gen, commits, head, fresh>>
vP == <<layer, at, built, edit>>
vT == <<disk, seen, plan, i, pc, branch, allowTurn, last, agreed, shown, changes>>
vE == <<alphabet, input, read>>
vB == <<onDisk, newest, board, hold, owed, snap, tab, ask, poll, torn, crossed>>
vF == <<life, hand, flag, spoke, card, loaded, fitted, ledger, lit, telling, ops, acts, notes, due,
        made, missed, still>>
vD == <<circle, kept, open, ticket, asked, halt, troubles, heard, mute, tookBack, twice>>
vars == <<which, vS, vP, vT, vE, vB, vF, vD>>

Session == INSTANCE AgentSession WITH
  MaxRows <- 5, MaxReplies <- 2, MaxMarks <- 1, MaxCommits <- 1, MaxTools <- 2,
  Scenarios <- {{"delete", "restart"}, {"delete", "compact"}, {"archive", "compact"},
                {"think", "fail", "restart", "compact"}}

Below(p, q) == IsPrefix(q, p)
Rules == INSTANCE Permission WITH Paths <- SharedPaths, Under <- Below, Tools <- ToolNames

\* A work that was opened by a proxy; and one that the user opened.
Rights == INSTANCE SessionPermissionsProofs WITH
  Paths <- SharedPaths, Under <- Below, Tools <- ToolNames,
  Seats <- Team, Proxied <- TRUE, Given <- TreeLayers, Overlapped <- FALSE
OwnRights == INSTANCE SessionPermissionsProofs WITH
  Paths <- SharedPaths, Under <- Below, Tools <- ToolNames,
  Seats <- Team, Proxied <- FALSE, Given <- OwnLayers, Overlapped <- FALSE

Tools == INSTANCE ToolTurn WITH
  Paths <- Places, Contents <- Texts, Blank <- Blanks, Unclear <- Unclears, Long <- Longs,
  Calls <- ToolCalls,
  MaxCalls <- MaxBatch, MaxChanges <- MaxMeddling, file <- disk

\* Seats are none of the sessions of the work itself; what a user gives is a layer, and
\* what is switched to a profile, never of a seat; a text is none of the marks in a
\* ledger; a call that writes says what, and a patch what in each of its blocks.
ASSUME AgentsAssumption ==
  /\ \A p \in SharedPaths : p \in Seq(STRING)
  /\ TreeLayers \cup OwnLayers \subseteq Rules!Layers
  /\ Switches \subseteq Rules!Profiles
  /\ Team \cap {"work", "proxy", "nobody"} = {}
  /\ Quick \cap Team = {}
  /\ Texts \cap {"unseen", "part", None} = {}
  /\ \A c \in ToolCalls :
       /\ c.path \in Places /\ c.text \in Texts \cup {None}
       /\ c.kind \in {"write", "edit"} => c.text \in Texts
       /\ c.blocks \in Seq([op : {"add", "update"}, path : Places, text : Texts])
       /\ c.kind = "patch" => c.blocks # <<>>

\* A proxy is none of its children, and those that are discussions are among them.
ASSUME FamilyAssumption == {"proxy", None} \cap Children = {} /\ Talks \subseteq Children
ASSUME CircleAssumption == Chairs \in Nat /\ Laps \in Nat /\ Patience \in Nat

-----------------------------------------------------------------------------
(* The constants of the run.                                               *)

\* A directory, a file in it, and another.
FewPaths == {<<>>, <<"d">>, <<"d", "f">>, <<"e">>}

Plain == Rules!EmptyLayer
OnTheTree ==
  {[Plain EXCEPT !.profile = Rules!External, !.reach = {"private", "network"}],
   [Plain EXCEPT !.decisions["write"] = Rules!Ask, !.write = Rules!Only({<<"d">>, <<"e">>})]}
ByPath == [Plain EXCEPT !.read = Rules!Only({<<"d">>}), !.write = Rules!Only({<<"d", "f">>}), !.deny = {<<"e">>}]
ForARoot == [Plain EXCEPT !.profile = Rules!View, !.tools["shell"] = Rules!Allow, !.read = Rules!Nothing]
OnMyOwn == OnTheTree \cup {ByPath, ForARoot}
NarrowAndWide == {Rules!View, Rules!AllReach}

\* The calls are judged by a permission that asks about the tool `other`, refuses
\* what leaves the sandbox and allows the rest.
Judged == Rules!AppliedRoot(Rules!Defaults(Rules!Workspace), [Plain EXCEPT !.tools["other"] = Rules!Ask])
Ours == {"private", "shared-read", "shared-write"}
Call(kind, path, text, tool, scope, parallel) ==
  [kind |-> kind, path |-> path, text |-> text, blocks |-> <<>>, parallel |-> parallel,
   grant |-> Rules!Verdict(Judged, tool, IF kind \in {"read", "part"} THEN "read"
                                         ELSE IF kind = "shell" THEN "exec" ELSE "write",
                           IF scope = "none" THEN Ours ELSE Rules!Reach, scope)]
Block(op, path, text) == [op |-> op, path |-> path, text |-> text]

OneOfEach ==
  {Call("read", "p", None, "file", "none", TRUE), Call("part", "p", None, "other", "none", TRUE),
   Call("write", "p", "x", "other", "none", FALSE), Call("shell", "q", "x", "shell", "external", FALSE),
   Call("edit", "q", "y", "file", "none", FALSE), Call("delete", "p", None, "other", "none", FALSE),
   Call("shell", "p", "y", "shell", "sandbox", FALSE),
   [Call("patch", "p", None, "file", "none", FALSE) EXCEPT
      !.blocks = <<Block("add", "p", "y"), Block("update", "q", "y")>>]}

\* One file is there, the other may be.
OneOrTwo == {d \in [Places -> Texts \cup {None}] : d["q"] = "y"}

-----------------------------------------------------------------------------
Written == INSTANCE Envelope WITH MaxLen <- 6,
  Alphabets <- {{"tool", "v", "}", "x", "say"}, {"tool", "q", "}", "nl", "x"},
                {"tool", "q", "{", "}", "nl"}, {"bare", "tool", "v", "q", "}"}}

\* Rows of a session on the board before they are on disk; and after it.
Tab == INSTANCE EventBoard WITH
  Late <- FALSE, BoardMax <- 2, BoardKeep <- 1, MaxRows <- 2, MaxSeq <- 4, file <- onDisk, fresh <- newest
Late == INSTANCE EventBoard WITH
  Late <- TRUE, BoardMax <- 2, BoardKeep <- 1, MaxRows <- 2, MaxSeq <- 4, file <- onDisk, fresh <- newest
\* A proxy and its children, of which some are discussions.
Family == INSTANCE ProxyTree WITH
  Kids <- Children, Collab <- Talks, Requests <- Wishes, MaxCalls <- ProxyCalls, MaxActs <- UserActs,
  MaxFalls <- Falls, last <- spoke

\* A discussion whose list the user gave; and of one member that the core drafts.
Circle == INSTANCE Discussion WITH
  Seats <- Chairs, Drafts <- {FALSE}, MaxRounds <- Laps, RemindCap <- Patience, MaxTroubles <- Mishaps,
  live <- circle
Drafted == INSTANCE Discussion WITH
  Seats <- 1, Drafts <- {TRUE}, MaxRounds <- 1, RemindCap <- 1, MaxTroubles <- 2, live <- circle

\* A component that is not looked at rests in one of its initial states.
Rest ==
  /\ (which # "session" => allowed = {"archive", "compact"})
  /\ (which # "envelope" => alphabet = {"bare", "tool", "v", "q", "}"})
  /\ disk \in Disks
  /\ (which # "tools" => disk = CHOOSE d \in Disks : TRUE)

Init ==
  /\ which \in Cases
  /\ Rest
  /\ Session!Init /\ Tools!Init /\ Written!Init /\ Tab!Init /\ Family!Init
  /\ IF which = "own rights" THEN OwnRights!Init ELSE Rights!Init
  /\ IF which = "drafted" THEN Drafted!Init ELSE Circle!Init

Next ==
  /\ UNCHANGED which
  /\ \/ which = "session" /\ Session!Next /\ UNCHANGED <<vP, vT, vE, vB, vF, vD>>
     \/ which = "rights" /\ Rights!Next /\ UNCHANGED <<vS, vT, vE, vB, vF, vD>>
     \/ which = "own rights" /\ OwnRights!Next /\ UNCHANGED <<vS, vT, vE, vB, vF, vD>>
     \/ which = "tools" /\ Tools!Next /\ UNCHANGED <<vS, vP, vE, vB, vF, vD>>
     \/ which = "envelope" /\ Written!Next /\ UNCHANGED <<vS, vP, vT, vB, vF, vD>>
     \/ which = "tab" /\ Tab!Next /\ UNCHANGED <<vS, vP, vT, vE, vF, vD>>
     \/ which = "late" /\ Late!Next /\ UNCHANGED <<vS, vP, vT, vE, vF, vD>>
     \/ which = "tree" /\ Family!Next /\ UNCHANGED <<vS, vP, vT, vE, vB, vD>>
     \/ which = "circle" /\ Circle!Next /\ UNCHANGED <<vS, vP, vT, vE, vB, vF>>
     \/ which = "drafted" /\ Drafted!Next /\ UNCHANGED <<vS, vP, vT, vE, vB, vF>>

Spec == Init /\ [][Next]_vars

-----------------------------------------------------------------------------
\* Every component keeps its types.
TypesHold ==
  CASE which = "session" -> Session!TypeOK
    [] which = "rights" -> Rights!TypeOK
    [] which = "own rights" -> OwnRights!TypeOK
    [] which = "envelope" -> Written!TypeOK
    [] which \in {"tab", "late"} -> Tab!TypeOK
    [] which = "tree" -> Family!TypeOK
    [] which = "circle" -> Circle!TypeOK
    [] which = "drafted" -> Drafted!TypeOK
    [] OTHER -> Tools!TypeOK

\* The session in memory is what a restart would build from its transcript, and
\* gives no row a number that the file has; and a tab that has caught up shows the
\* transcript, every row once, whichever of file and board it had it from; and the
\* votes a discussion goes by are those of its transcript, which also says where the
\* user is asked to go on.
SessionIsItsTranscript ==
  /\ which = "session" => Session!LiveIsReplay /\ Session!FreshIds
  /\ which = "tab" => Tab!ViewIsTranscript /\ Tab!NoRowTwice
  /\ which = "late" => Late!NoRowMissing
  /\ which = "circle" => Circle!VotesAreTheRecord /\ Circle!DoorOpens
  /\ which = "drafted" => Drafted!VotesAreTheRecord /\ Drafted!DoorOpens

\* What the model is sent has no result without its call nor a call without its
\* result, and has the message it is answering, however the session is compacted;
\* what it writes is read as it is: a call in the text of a reply runs with the value
\* that is written there, repaired where nothing but its form is wrong; and a proxy
\* reads every note it is written.
PromptIsWhole ==
  /\ which = "session" => Session!PromptIsWhole
  /\ which = "envelope" => Written!RunsWhatWasWritten /\ Written!ClearIsRun
  /\ which = "tree" => Family!NotesAreHeard

\* A rewind splits no reply and takes no commit of a kept row; and a restore
\* brings back the rows and the shared area of the moment of its mark.  A round of a
\* discussion ends with nobody left out.
RoundsAndRewinds ==
  /\ [][which = "session" => Session!KeepsReplies /\ Session!KeepsWork /\ Session!Restores]_vars
  /\ [][which = "circle" => Circle!EveryoneIsHeard]_vars

\* No session may do what its parent may not, whatever is given to either; and one
\* in memory, or with its thread, works with what the metas say now.
HeldIsCurrent ==
  CASE which = "rights" -> Rights!HeldIsCurrent
    [] which = "own rights" -> OwnRights!HeldIsCurrent
    [] OTHER -> TRUE
RightsHold ==
  /\ HeldIsCurrent
  /\ which = "rights" => Rights!ChildrenAreNarrower
  /\ which = "own rights" => OwnRights!ChildrenAreNarrower

\* No call runs that was refused, or that the user did not agree to in this turn.  A
\* stop reaches whoever works in the tree of a proxy and can be reached, a closed
\* session is with no thread, and no creation the proxy was told of is made again.  The plan a user is shown follows a discussion all
\* agreed to, or one at its limit, where nobody silent was asked for ever.
OnlyTheAgreedRuns ==
  /\ which = "tools" => Tools!OnlyTheAgreedRuns
  /\ which = "tree" => Family!StopReaches /\ Family!ClosedIsQuiet /\ Family!OncePerRequest
  /\ which = "circle" => Circle!PlanByConsent /\ Circle!SilenceIsBounded

\* No row of a discussion is handed to the user, and written to the file, twice.
RowsOnce == which = "circle" => Circle!NoRowTwice

\* No call overwrites what was there when it looked unless the agent was shown it from the
\* first line to the last (of lines that are too long, the beginnings), and a patch whose
\* blocks do not all fit is not applied at all.
FilesAreSafe ==
  [][which = "tools" => Tools!NothingUnseenIsLost /\ Tools!PatchIsWhole]_vars
=============================================================================
