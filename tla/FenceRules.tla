----------------------------- MODULE FenceRules -----------------------------
(***************************************************************************)
(* What a command inside the fence can reach: the reach of a call becomes  *)
(* a specification (tools/domain/fence.rs), and each platform turns that   *)
(* into rules of its own: Landlock and a seccomp filter on Linux, a        *)
(* profile on macOS, entries in access lists and a container on Windows.   *)
(* A path is the sequence of its names, <<>> the root of the file system   *)
(* (the drive); a rule or an entry covers what lies below its path.        *)
(*                                                                         *)
(* Who owns an entry and when it is taken back is FenceLedger; the guard,  *)
(* and what happens without a fence, ToolRun.  Left out: a path that is    *)
(* renamed while a call is prepared, denying entries, quotas of the job.   *)
(***************************************************************************)
EXTENDS Lists, TLC

CONSTANTS
  Nodes,      \* the paths looked at
  Files,      \* those that are no directories
  Product,    \* the directory of the program
  Private,    \* the sandbox of the agent
  Shared,     \* the shared area of its work
  Module,     \* of each module its directory
  WithData,   \* the modules that have a directory of data
  HostRoots,  \* what the user opened for reading
  Kit,        \* packages a module's command runs with
  System,     \* the read-only base of the platform
  Device,     \* /dev/null
  Search,     \* the directories of PATH, in order
  Real,       \* of each program file where it really lies
  Junctions,  \* directories that are links (Windows)
  Commands,   \* sets of words of a command line
  Reaches,    \* what a session, or a call, is allowed
  Abis,       \* versions of Landlock
  Faults,     \* how the writing of one entry can go wrong
  None

VARIABLES
  host,       \* the platform, its version of Landlock
  there,      \* the paths that exist
  mine,       \* the paths whose access lists the user may write
  acl,        \* the entries: for whom, on what, with which rights, for what is below
  call,       \* the call at hand
  past,       \* the calls before it
  blocked,    \* the part of the fence that could not be granted
  notes,      \* what was not granted besides
  former,     \* the entries before this call
  at          \* "idle", "runs", "refused" (no fence for this call)

vars == <<host, there, mine, acl, call, past, blocked, notes, former, at>>

Under(x, y) == IsPrefix(y, x)
Parent(x) == Front(x)
Look == {"stat"}
Read == {"stat", "read", "list"}
All == Read \union {"write", "make", "truncate", "refer"}
\* What makes no sense for a file (DIR_ONLY).
OfDirectories == {"list", "make", "refer"}

-----------------------------------------------------------------------------
(***************************************************************************)
(* The specification.                                                      *)
(***************************************************************************)
Data(m) == Append(Module[m], "userdata")

DataRoots(reach, modules) ==
  (IF "private" \in reach THEN {Private} ELSE {})
  \union (IF "module-write" \in reach THEN {Data(m) : m \in modules \intersect WithData} ELSE {})
Trees(reach) ==
  (IF "shared-read" \in reach THEN {Shared} ELSE {})
  \union (IF "module-read" \in reach THEN {Module[m] : m \in DOMAIN Module} ELSE {})

\* for_session: everything a session may ever ask for; for_call: one call of it, in
\* the directory of its module or, for a shell, in the sandbox.
ForSession(reach, net) ==
  [rw |-> DataRoots(reach, DOMAIN Module), ro |-> IF "host-read" \in reach THEN HostRoots ELSE {},
   tree |-> Trees(reach), private |-> Private, cwd |-> None, net |-> net /\ "network" \in reach]

CallOf(modules, reach, base) ==
  [rw |-> DataRoots(reach, modules), ro |-> IF "host-read" \in reach THEN base.ro ELSE {},
   tree |-> Trees(reach), private |-> Private,
   cwd |-> IF modules = {} THEN Private ELSE Module[CHOOSE m \in modules : TRUE],
   net |-> "network" \in reach /\ base.net]
ForCall(m, reach, base) == CallOf(IF m = None THEN {} ELSE {m}, reach, base)

\* A module's own process without a session (a tool run by hand, a resident).
Standalone(m, work, net) ==
  LET own == IF m \in WithData THEN {Data(m)} ELSE {}
      private == IF work # None THEN work ELSE IF own # {} THEN Data(m) ELSE None
  IN  [rw |-> ({private} \ {None}) \union own, ro |-> {}, tree |-> {Module[m]} \union Kit,
       private |-> private, cwd |-> Module[m], net |-> net]

-----------------------------------------------------------------------------
(***************************************************************************)
(* The directories of the programs a command names.                        *)
(***************************************************************************)
InstallAnyDir(d) == IF d # <<>> /\ Last(d) \in {"bin", "scripts"} THEN Front(d) ELSE d \* mutant: up to the root as well

InstallDir(d) ==
  IF d # <<>> /\ Last(d) \in {"bin", "scripts"} /\ Front(d) # <<>> THEN Front(d) ELSE d

\* The first hit on PATH; words that are paths themselves do not count.
Programs(words) == {p \in DOMAIN Real : Front(p) \in ToSet(Search) /\ Last(p) \in words}
Place(p) == SelectInSeq(Search, LAMBDA d : d = Front(p))
FirstOnPath(words) == {p \in Programs(words) : \A q \in Programs({Last(p)}) : Place(p) <= Place(q)}

InterpreterRoots(p) ==
  LET named == InstallDir(Front(p))  real == InstallDir(Front(Real[p]))
  IN  IF host.os = "windows" /\ Front(p) \in Junctions THEN {real} ELSE {named, real}

Interpreters(words) == UNION {InterpreterRoots(p) : p \in FirstOnPath(words)} \intersect (there \ Files)

-----------------------------------------------------------------------------
(***************************************************************************)
(* Linux.  A version of Landlock knows some rights; those it does not know *)
(* it leaves alone, but for "refer", which the first version never grants. *)
(***************************************************************************)
Mask(rights) ==
  (rights \ (IF host.abi < 2 THEN {"refer"} ELSE {})) \ (IF host.abi < 3 THEN {"truncate"} ELSE {})

Rule(x, rights) == [sid |-> None, path |-> x, rights |-> rights, deep |-> TRUE]

Wanted(spec, words) ==
  {Rule(x, Mask(All)) : x \in spec.rw} \union {Rule(x, Read) : x \in spec.ro \union spec.tree \union {spec.cwd}}
  \union {Rule(x, Read) : x \in (System \intersect there) \union Interpreters(words)}
  \union {Rule(x, Mask(Read \union {"write"})) : x \in {Device} \intersect there}

\* add_rule: a path that does not open breaks the whole set; for a file without
\* what is for directories, which the kernel refuses there.
Added(r) == [r EXCEPT !.rights = IF r.path \in Files THEN @ \ OfDirectories ELSE @]
RulesOfLinux(spec, words) == {Added(r) : r \in Wanted(spec, words)}
RulesHold(rules) == \A r \in rules : r.path \in there /\ (r.path \in Files => r.rights \cap OfDirectories = {})

(***************************************************************************)
(* The filter of system calls as it is written, with its jumps.            *)
(***************************************************************************)
Load(field) == [op |-> "load", k |-> field, t |-> 0, f |-> 0]
Jump(k, t, f) == [op |-> "jump", k |-> k, t |-> t, f |-> f]
Ret(verdict) == [op |-> "ret", k |-> verdict, t |-> 0, f |-> 0]

Filter ==
  <<Load("arch"), Jump("native", 1, 0), Ret("kill"),
    Load("nr"), Jump("x32", 0, 1), Ret("deny"),
    Jump("socket", 0, 4), Load("family"), Jump("unix", 4, 0), Jump("netlink", 3, 0), Ret("deny"),
    Jump("io_uring_setup", 0, 1), Ret("deny"), Ret("allow")>>

\* A system call: for which machine, its number with or without the bit of x32, and
\* the first argument.
SysCalls == [arch : {"native", "foreign"}, nr : {"socket", "io_uring_setup", "open"}, x32 : BOOLEAN,
          family : {"unix", "netlink", "inet"}]

Verdict(c) ==
  LET Matches(field, k) == IF k = "x32" THEN c.x32 ELSE c[field] = k /\ (field = "nr" => ~c.x32)
      Run[pc \in 1..Len(Filter), field \in {None, "arch", "nr", "family"}] ==
        LET i == Filter[pc]
        IN  CASE i.op = "ret" -> i.k
              [] i.op = "load" -> Run[pc + 1, i.k]
              [] i.op = "jump" -> Run[pc + 1 + (IF Matches(field, i.k) THEN i.t ELSE i.f), field]
  IN  Run[1, None]

(***************************************************************************)
(* macOS: the profile denies, then allows path by path; metadata is free.  *)
(***************************************************************************)
RulesOfMac(spec, words) ==
  {Rule(x, Read) : x \in (System \intersect there) \union Interpreters(words)
                           \union spec.ro \union spec.tree \union {spec.cwd}}
  \union {Rule(x, All) : x \in spec.rw}
  \union {[Rule(x, {"write", "truncate"}) EXCEPT !.deep = FALSE] : x \in {Device} \intersect there}
  \union {[Rule(<<>>, Read) EXCEPT !.deep = FALSE]}

-----------------------------------------------------------------------------
(***************************************************************************)
(* Windows: the places a container is granted, the parents first.          *)
(***************************************************************************)
Target(x, rights, recursive, inherit, part) ==
  [path |-> x, rights |-> rights, recursive |-> recursive, inherit |-> inherit, part |-> part]

PartOf(spec, x) ==
  IF x = spec.private THEN "sandbox"
  ELSE IF \E y \in {spec.cwd} \union spec.tree : Under(x, y) THEN "module" ELSE "data"
Necessary(part) == part \notin {"authorized", "parent"}

Leaves(spec) ==
  SetToSeq({Target(x, All, TRUE, TRUE, PartOf(spec, x)) : x \in spec.rw})
  \o SetToSeq({Target(x, Read, FALSE, TRUE, "authorized") : x \in spec.ro})
  \o SetToSeq({Target(x, Read, TRUE, TRUE, "module") : x \in spec.tree})
  \o <<Target(spec.cwd, Read, TRUE, TRUE, "cwd")>>

\* A shell starts in its sandbox and asks its way up to the drive.
ParentsOf(spec, x) ==
  IF spec.cwd = spec.private /\ x = spec.cwd
  THEN {SubSeq(x, 1, n) : n \in 1..(Len(x) - 1)}
  ELSE IF x = <<>> THEN {} ELSE {Parent(x)}

GrantTargets(spec) ==
  SetToSeq({Target(y, Look, FALSE, FALSE, "parent") :
              y \in UNION {ParentsOf(spec, l.path) : l \in ToSet(Leaves(spec))}})
  \o Leaves(spec)

\* The name of the container: the session, and exactly what the call may reach.
ContainerOfSession(spec) == [lease |-> spec.lease] \* mutant: one container for all calls of a session
Container(spec) == [lease |-> spec.lease, rw |-> spec.rw, ro |-> spec.ro, tree |-> spec.tree,
                    private |-> spec.private, cwd |-> spec.cwd]
Everyone == [lease |-> <<"all packages">>]
Trusted(x) == \E d \in {".tools", "runtimes"} : Under(x, Append(Product, d))

Covers(e, x) == e.path = x \/ (e.deep /\ Under(x, e.path))
HasEntry(entries, sid, x, rights) ==
  \E e \in entries : e.sid = sid /\ Covers(e, x) /\ rights \subseteq e.rights

\* grant_verified.  What can go wrong: the list may not be written; the tree below
\* is, but not the top; another's entry is lost, or ours has no effect, which reading
\* it again shows, and the list is written back, if that can be done.
Unchecked(entries, e, fault) ==   \* mutant: the list is not read again after the write
  [acl |-> IF fault.how = "lost" THEN {o \in entries : o.path # e.path} \union {e} ELSE entries \union {e},
   ok |-> fault.how \notin {"refused", "part"}, left |-> FALSE]

Verified(entries, e, fault) ==
  LET others == {o \in entries : o.path = e.path /\ o # e}
      below == {x \in Nodes : x # <<>> /\ Parent(x) = e.path}
      Gone(left) == [acl |-> left, ok |-> FALSE, left |-> ~fault.undone]
      Went(now) == [acl |-> now, ok |-> TRUE, left |-> FALSE]
      Back(now) == Gone(IF fault.undone THEN entries ELSE now)
  IN  CASE fault.how = "none" -> Went(entries \union {e})
        [] fault.how = "refused" -> [Gone(entries) EXCEPT !.left = FALSE]
        [] fault.how = "part" -> [Gone(entries \union {[e EXCEPT !.path = x] : x \in below}) EXCEPT !.left = FALSE]
        [] fault.how = "lost" -> IF others = {} THEN Went(entries \union {e})
                                 ELSE Back((entries \ others) \union {e})
        [] fault.how = "void" -> Back(entries)

\* The list may be written by its owner, or by who was given that right.
Writable(x) == x \in mine
Granted(entries, sid, t, fault) ==
  LET e == [sid |-> sid, path |-> t.path, rights |-> t.rights, deep |-> t.inherit]
  IN  IF ~Writable(t.path) THEN [acl |-> entries, ok |-> FALSE, left |-> FALSE]
      ELSE Verified(entries, e, IF fault.path = t.path THEN fault ELSE [fault EXCEPT !.how = "none"])

\* FencePrep.fail: the first necessary part that is missing counts.
Fail(s, fact) ==
  IF Necessary(fact.part) /\ s.blocked = None THEN [s EXCEPT !.blocked = fact] ELSE [s EXCEPT !.notes = @ \union {fact}]

\* A place that is not there, or whose entry is enough, is left as it is.
Grant(s, sid, t, fault) ==
  IF t.path \notin there \/ HasEntry(s.acl, sid, t.path, t.rights) THEN s
  ELSE LET w == Granted(s.acl, sid, t, fault)
           r == [s EXCEPT !.acl = w.acl]
       IN  IF w.ok THEN r ELSE Fail(r, [part |-> t.part, path |-> t.path, left |-> w.left])

\* prepare_fence, under the lock of the ledger.
Prepared(c, fault) ==
  LET nowhere(part) == [part |-> part, path |-> None, left |-> FALSE]
      start == [acl |-> acl, blocked |-> None, notes |-> {}]
      Base(s, d) == Grant(s, Everyone, Target(d, Read, TRUE, TRUE, "interpreter"), fault)
      Own(s, t) == Grant(s, IF t.rights = Read /\ Trusted(t.path) THEN Everyone ELSE Container(c), t, fault)
      based == FoldLeft(Base, start, SetToSeq(Interpreters(c.words)))
  IN  CASE fault.how = "ledger" -> Fail(start, nowhere("ledger"))
        [] fault.how = "identity" -> Fail(based, nowhere("identity"))
        [] OTHER -> FoldLeft(Own, based, GrantTargets(c))

-----------------------------------------------------------------------------
(***************************************************************************)
(* Calls, one after the other.                                             *)
(***************************************************************************)
Init ==
  /\ host \in [os : {"windows"}, abi : {0}, net : {TRUE}] \union [os : {"linux"}, abi : Abis, net : BOOLEAN]
              \union [os : {"macos"}, abi : {0}, net : {TRUE}]
  /\ \E x \in {None} \union HostRoots \union {Data(m) : m \in WithData} : there = Nodes \ {x}
  /\ mine \in IF host.os = "windows" /\ there = Nodes THEN {Nodes, Nodes \ {<<>>}, Nodes \ HostRoots} ELSE {Nodes}
  /\ acl = IF host.os = "windows" THEN {[sid |-> Everyone, path |-> x, rights |-> Read, deep |-> TRUE] : x \in System}
                                       \union {[sid |-> [lease |-> <<"user">>], path |-> x, rights |-> All, deep |-> TRUE] : x \in {Private, Shared}}
           ELSE {}
  /\ former = acl /\ call = None /\ past = <<>> /\ blocked = None /\ notes = {} /\ at = "idle"

Put(spec, words, lease, reach, m, fault) ==
  LET c == [words |-> words, lease |-> lease, reach |-> reach, by |-> m] @@ spec
      rules == IF host.os = "linux" THEN RulesOfLinux(c, words) ELSE RulesOfMac(c, words)
      p == IF host.os = "windows" THEN Prepared(c, fault)
           ELSE [acl |-> rules, notes |-> {},
                 blocked |-> IF host.os = "linux" /\ ~RulesHold(rules) THEN "rules" ELSE None]
  IN  /\ at = "idle" /\ call' = c /\ former' = acl
      /\ acl' = p.acl /\ blocked' = p.blocked /\ notes' = p.notes
      /\ at' = IF p.blocked = None THEN "runs" ELSE "refused"
      /\ UNCHANGED <<host, there, mine, past>>

Sound(fault) == fault.how = "none"
Possible(fault) == Sound(fault) \/ (past = <<>> /\ host.os = "windows" /\ mine = there)

Everything == UNION Reaches
SessionCall(m, reach, words, fault) ==
  /\ Possible(fault)
  /\ Put(ForCall(m, reach, ForSession(Everything, host.net)), words, <<"session">>, reach, m, fault)

OwnCall(m, work, words, fault) ==
  /\ Possible(fault)
  /\ Put(Standalone(m, work, host.net), words, <<"call", Len(past)>>, {"own"}, m, fault)

End ==
  /\ at # "idle"
  /\ at' = "idle" /\ call' = None /\ past' = Append(past, call.words) /\ blocked' = None /\ notes' = {}
  /\ acl' = IF host.os = "windows" THEN acl ELSE {}
  /\ former' = acl'
  /\ UNCHANGED <<host, there, mine>>

Next ==
  \/ Len(past) < 2 /\ \E words \in Commands, fault \in Faults :
       \/ \E m \in DOMAIN Module \union {None}, reach \in Reaches : SessionCall(m, reach, words, fault)
       \/ \E m \in DOMAIN Module, work \in {None, Private} : OwnCall(m, work, words, fault)
  \/ End

Spec == Init /\ [][Next]_vars

-----------------------------------------------------------------------------
TypeOK ==
  /\ at \in {"idle", "runs", "refused"} /\ (call = None <=> at = "idle")
  /\ \A e \in acl : e.path \in Nodes /\ e.rights \subseteq All /\ e.deep \in BOOLEAN
  /\ at = "runs" => blocked = None

\* What the command can do with a path.
Access(x) ==
  UNION {e.rights : e \in {d \in acl : d.sid \in {None, Everyone, Container(call)} /\ Covers(d, x)}}
  \union (IF host.os # "windows" THEN Look ELSE {})
  \union (IF host.os = "linux" /\ host.abi < 3 THEN {"truncate"} ELSE {})

\* What a call may write, from what it was allowed.
MayWrite(x) ==
  IF call.reach = {"own"} THEN \E y \in call.rw : Under(x, y)
  ELSE \/ "private" \in call.reach /\ Under(x, Private)
       \/ "module-write" \in call.reach /\ call.by \in WithData /\ Under(x, Data(call.by))

\* A program in the directory, or just below it.
Holds(d, words) ==
  d # <<>> /\ \E p \in Programs(words) : \E q \in {p, Real[p]} : d = Front(q) \/ (Len(q) > 2 /\ d = Front(Front(q)))

MayRead(x) ==
  \/ MayWrite(x) \/ Trusted(x) \/ (host.os = "macos" /\ x = <<>>)
  \/ \E y \in System \union {call.cwd, Device} : Under(x, y)
  \/ "shared-read" \in call.reach /\ Under(x, Shared)
  \/ call.reach \intersect {"module-read", "own"} # {}
       /\ \E m \in DOMAIN Module : (call.reach = {"own"} => m = call.by) /\ Under(x, Module[m])
  \/ "host-read" \in call.reach /\ \E y \in HostRoots : Under(x, y)
  \/ \E words \in {call.words} \union ToSet(past), n \in 0..Len(x) : Holds(SubSeq(x, 1, n), words)

(***************************************************************************)
(* A command that runs inside the fence can write and read what its call   *)
(* was allowed and nothing more, whatever wider calls of the same session  *)
(* left behind ("a narrow call does not see the roots of a wide one",      *)
(* container.rs), and what it was allowed is really there, but for a place *)
(* that a note names.  Versions of Landlock before the third do not know   *)
(* truncation.                                                             *)
(***************************************************************************)
NoMoreThanAsked ==
  at = "runs" => \A x \in there :
    /\ Access(x) \intersect {"write", "make"} # {} => MayWrite(x) \/ x = Device
    /\ "truncate" \in Access(x) => MayWrite(x) \/ x = Device \/ (host.os = "linux" /\ host.abi < 3)
    /\ "read" \in Access(x) => MayRead(x)

NoLessThanAsked ==
  at = "runs" => \A y \in there :
    LET told == y \in {f.path : f \in notes}
        below == {x \in there : Under(x, y)}
    IN  /\ y \in call.rw => \A x \in below : {"read", "write"} \subseteq Access(x)
        /\ y \in call.tree \union {call.cwd} \union Interpreters(call.words) => \A x \in below : "read" \in Access(x)
        /\ y \in call.ro /\ ~told => \A x \in below : "read" \in Access(x)
        /\ (\E x \in call.rw \union call.tree \union {call.cwd} : x # <<>> /\ y = Parent(x)) /\ ~told => "stat" \in Access(y)

(***************************************************************************)
(* An entry that was there is there afterwards, unless the failure says    *)
(* that the list could not be written back (grant_verified).               *)
(***************************************************************************)
FormerKept ==
  host.os = "windows" => \A e \in former \ acl : \E f \in notes \union ({blocked} \ {None}) : f.left /\ f.path = e.path

\* What a session asked for covers every call of it: giving that back gives all back.
SessionCovers ==
  at # "idle" /\ call.lease = <<"session">> =>
    LET s == ForSession(Everything, host.net)
    IN  call.rw \subseteq s.rw /\ call.ro \subseteq s.ro /\ call.tree \subseteq s.tree /\ (call.net => s.net)

\* With the filter no socket but a local one is opened, by whatever way of calling
\* the kernel, and what else a command does it can do.
CutOff ==
  \A c \in SysCalls :
    LET usual == c.arch = "native" /\ ~c.x32
    IN  Verdict(c) = "allow" <=> usual /\ CASE c.nr = "socket" -> c.family # "inet"
                                            [] c.nr = "io_uring_setup" -> FALSE
                                            [] OTHER -> TRUE
=============================================================================
