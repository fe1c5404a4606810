------------------------------ MODULE ToolRun ------------------------------
(***************************************************************************)
(* One call of a tool or of the shell on the host: what is asked of the    *)
(* fence and what is done without it, the guard process that puts it up    *)
(* and runs the command inside, and the thread that waits for the pipes.   *)
(* A shell is strict: it runs fenced or not at all.                        *)
(***************************************************************************)
EXTENDS FiniteSets

VARIABLES
  case,       \* the platform, the mode of the program and the call
  at,         \* the thread: "prepare", "ask", "check", "wait", "join", "done"
  prepared,   \* the access entries the container needs are written (Windows)
  chosen,     \* the user chose to run this call without a fence
  guard,      \* the guard process: "none", "starts", "runs", "ended"
  enforced,   \* the parts of the fence the command runs under
  ran,        \* the command was started
  tree,       \* what lives below the guard: "command", "child", "loose"
  job,        \* the guard takes its tree along when it dies
  code,       \* its exit code: "none", "zero", "other", "fence"
  cancel, overdue,
  receipt     \* what the model is told

vars == <<case, at, prepared, chosen, guard, enforced, ran, tree, job, code, cancel, overdue, receipt>>
outer == <<at, prepared, chosen, receipt>>
inner == <<guard, enforced, ran, tree, job, code>>

Parts == {"fs", "net", "tree"}
Windows == case.host = "windows"

\* What the settings ask for, what the program found at its start, whether the
\* user agreed to go on without; whether access entries may be written.
Cases == [host : {"windows", "linux", "other"}, shell : BOOLEAN, net : BOOLEAN,
          need : SUBSET Parts, found : SUBSET Parts, degraded : BOOLEAN, write : BOOLEAN]

Fresh ==
  \* What is asked of the fence of a shell does not depend on the settings.
  /\ case \in {c \in Cases : (c.write => c.host = "windows") /\ (c.shell => c.need = {} /\ c.found = {})}
  /\ prepared = FALSE /\ chosen = FALSE /\ receipt = "none"
  /\ guard = "none" /\ enforced = {} /\ ran = FALSE /\ tree = {} /\ job = FALSE /\ code = "none"
  /\ cancel = FALSE /\ overdue = FALSE
Init == Fresh /\ at = "prepare"

Refuse == at' = "done" /\ receipt' = "not run" /\ UNCHANGED <<prepared, chosen>>

-----------------------------------------------------------------------------
(***************************************************************************)
(* Before the start.                                                       *)
(***************************************************************************)
\* prepare_fence may fail at a place the fence cannot do without; without the
\* permission to write, a fence that is broken, not merely missing, is refused.
Prepare ==
  /\ at = "prepare"
  /\ \/ Windows /\ case.write /\ at' = "check" /\ prepared' = TRUE /\ UNCHANGED <<chosen, receipt>>
     \/ Windows /\ case.write /\ case.shell /\ Refuse
     \/ Windows /\ case.write /\ ~case.shell /\ at' = "ask" /\ UNCHANGED <<prepared, chosen, receipt>>
     \/ Windows /\ ~case.write /\ Refuse
     \/ ~case.write /\ at' = "check" /\ UNCHANGED <<prepared, chosen, receipt>>
  /\ UNCHANGED <<case, inner, cancel, overdue>>

\* fence_blocked: only that choice of the user lets the call go on.
Asked ==
  /\ at = "ask"
  /\ \/ at' = "check" /\ chosen' = TRUE /\ UNCHANGED <<prepared, receipt>>
     \/ Refuse
  /\ UNCHANGED <<case, inner, cancel, overdue>>

\* SandboxMode::check.
Missing ==
  {r \in case.need :
     CASE r = "tree" -> r \notin case.found
       [] r = "net" -> ~case.net /\ (r \notin case.found \/ (Windows /\ ~prepared))
       [] r = "fs" -> r \notin case.found \/ (Windows /\ ~prepared)}

Check ==
  /\ at = "check"
  /\ IF ~case.shell /\ ~chosen /\ Missing # {} /\ ~case.degraded
     THEN Refuse /\ UNCHANGED guard
     ELSE \/ at' = "wait" /\ guard' = "starts" /\ UNCHANGED <<prepared, chosen, receipt>>
          \/ Refuse /\ UNCHANGED guard              \* the process cannot be started
  /\ UNCHANGED <<case, enforced, ran, tree, job, code, cancel, overdue>>

-----------------------------------------------------------------------------
(***************************************************************************)
(* The guard process (run_fenced).  It is told what must hold.             *)
(***************************************************************************)
PolicyOfMode == [fs |-> "fs" \in case.need, net |-> "net" \in case.need, degraded |-> case.degraded]   \* mutant: also for a shell
Policy == IF case.shell THEN [fs |-> TRUE, net |-> TRUE, degraded |-> FALSE] ELSE PolicyOfMode
Strict == (Policy.fs \/ Policy.net) /\ ~Policy.degraded

Runs(parts) == guard' = "runs" /\ ran' = TRUE /\ tree' = {"command"} /\ enforced' = parts /\ UNCHANGED code
GuardRefuses == guard' = "ended" /\ code' = "fence" /\ UNCHANGED <<enforced, ran, tree>>
Bare(refuses) == IF refuses THEN GuardRefuses ELSE Runs({})

\* Windows: the container has both parts or none.  Without entries, a profile or
\* an identity only a strict call is refused; where it cannot be started, a call
\* that may use the network is refused too.
GuardWindows ==
  /\ job' \in BOOLEAN
  /\ \/ prepared /\ Runs({"fs", "net"})
     \/ Bare(Strict)
     \/ prepared /\ Bare(Strict \/ case.net)

\* Linux: each part by itself; the network is cut off only if the call asks for it.
GuardLinux ==
  \E fails \in SUBSET {"fs", "net"} :
    /\ "net" \in fails => ~case.net
    /\ job' = TRUE
    /\ IF ((Policy.fs /\ "fs" \in fails) \/ (Policy.net /\ "net" \in fails)) /\ ~Policy.degraded
       THEN GuardRefuses
       ELSE Runs({"fs", "net"} \ fails)

GuardOther == job' = TRUE /\ Bare((Policy.fs \/ (Policy.net /\ ~case.net)) /\ ~Policy.degraded)

Guard ==
  /\ guard = "starts"
  /\ CASE case.host = "windows" -> GuardWindows
       [] case.host = "linux" -> GuardLinux
       [] case.host = "other" -> GuardOther
  /\ UNCHANGED <<case, outer, cancel, overdue>>

\* A command leaves processes behind it, in its group or outside of it.
Forks ==
  /\ guard = "runs" /\ tree = {"command"}
  /\ \E c \in {"child", "loose"} : tree' = tree \union {c}
  /\ UNCHANGED <<case, outer, guard, enforced, ran, job, code, cancel, overdue>>

\* The guard waits for the command alone.  A job (Windows) goes with the guard;
\* one that was killed by a signal has no code, and is given that of the fence.
Exits ==
  /\ guard = "runs"
  /\ guard' = "ended" /\ code' \in {"zero", "other", "fence"}
  /\ tree' = IF Windows /\ job THEN {} ELSE tree \ {"command"}
  /\ UNCHANGED <<case, outer, enforced, ran, job, cancel, overdue>>

LeftoverEnds ==
  /\ guard = "ended" /\ tree # {}
  /\ \E c \in tree : tree' = tree \ {c}
  /\ UNCHANGED <<case, outer, guard, enforced, ran, job, code, cancel, overdue>>

-----------------------------------------------------------------------------
(***************************************************************************)
(* The thread of the call: it looks at the cancel flag (a shell has one),  *)
(* at the guard, at the time; then it reads the pipes to their end.        *)
(***************************************************************************)
KillOne == guard' = "ended" /\ UNCHANGED tree   \* mutant: kills the guard, and not its group
Kill ==
  /\ guard' = "ended"
  /\ tree' = IF ~Windows THEN tree \ {"command", "child"} ELSE IF job THEN {} ELSE tree

Wait ==
  /\ at = "wait" /\ at' = "join"
  /\ \/ cancel /\ Kill /\ receipt' = "cancelled"
     \/ ~cancel /\ guard = "ended" /\ receipt' = "exited" /\ UNCHANGED <<guard, tree>>
     \/ ~cancel /\ guard # "ended" /\ overdue /\ Kill /\ receipt' = "timeout"
  /\ UNCHANGED <<case, prepared, chosen, enforced, ran, job, code, cancel, overdue>>

\* The readers end when nobody holds the pipes: there is no limit on that.
Joined ==
  /\ at = "join" /\ tree = {}
  /\ at' = "done"
  /\ receipt' = IF receipt # "exited" THEN receipt
                ELSE CASE code = "zero" -> "ok" [] code = "fence" -> "not run" [] OTHER -> "failed"
  /\ UNCHANGED <<case, prepared, chosen, inner, cancel, overdue>>

Cancels == case.shell /\ ~cancel /\ cancel' = TRUE /\ UNCHANGED <<case, outer, inner, overdue>>
Deadline == at = "wait" /\ ~overdue /\ overdue' = TRUE /\ UNCHANGED <<case, outer, inner, cancel>>

Waits == Prepare \/ Asked \/ Check \/ Wait \/ Joined
Next == Waits \/ Guard \/ Forks \/ Exits \/ LeftoverEnds \/ Cancels \/ Deadline

\* The thread goes on and time passes; the user answers, a command need not end.
Fairness == WF_vars(Waits) /\ WF_vars(Deadline)
Spec == Init /\ [][Next]_vars /\ Fairness

-----------------------------------------------------------------------------
TypeOK ==
  /\ at \in {"prepare", "ask", "check", "wait", "join", "done"}
  /\ guard \in {"none", "starts", "runs", "ended"} /\ enforced \subseteq Parts
  /\ receipt \in {"none", "ok", "failed", "cancelled", "timeout", "exited", "not run"}

(***************************************************************************)
(* No quiet degradation: a command that ran without a part of the fence    *)
(* that is asked for did so because the user agreed, to this call or at    *)
(* the start of the program, and a shell never does.                       *)
(***************************************************************************)
FenceIsHonoured ==
  ran =>
    LET asked == {"fs"} \union (IF case.net THEN {} ELSE {"net"})
    IN  IF case.shell THEN asked \subseteq enforced
        ELSE asked \intersect case.need \subseteq enforced \/ case.degraded \/ chosen

(***************************************************************************)
(* "The tool and the whole tree it started were ended" (shell_cancelled,   *)
(* shell_timeout): when the model is told so, nothing of the command's     *)
(* group lives, and nothing at all whoever the model is told about.        *)
(***************************************************************************)
EndsWithTheTree ==
  /\ at = "done" => tree = {}
  /\ receipt \in {"cancelled", "timeout"} => guard = "ended" /\ (job => tree \subseteq {"loose"})
  /\ receipt = "ok" => ran /\ code = "zero"

(***************************************************************************)
(* "The timeout of one call: then the whole tree is killed": a call ends,  *)
(* unless somebody holds its pipes whom the kill does not reach, or nobody   *)
(* killed: what a command left behind when it ended by itself.             *)
(***************************************************************************)
Unreached == tree # {} /\ (receipt = "exited" \/ ~job \/ "loose" \in tree)
CallEnds == at = "wait" ~> at = "done" \/ (at = "join" /\ Unreached)

(***************************************************************************)
(* "The command was not executed" (fence_failed).  It does not hold: a     *)
(* command that a signal ended leaves the same code (README.md).           *)
(***************************************************************************)
NotRunIsTrue == at = "done" /\ receipt = "not run" => ~ran
=============================================================================
