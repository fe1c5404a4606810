------------------------------- MODULE MCHost -------------------------------
(***************************************************************************)
(* What the host keeps for the sessions and the virtual machines: small    *)
(* instances of the components that fetch, install, build and clean it up, *)
(* and of the two ledgers a start goes through.  They share no state but   *)
(* the disk, each at the grain of its own module; a behaviour is one of    *)
(* `which`, and the others rest where they began.                          *)
(***************************************************************************)
EXTENDS Naturals, Sequences, FiniteSets

CONSTANTS tc, rootfs, runtime, up, mirror, None, Blank, Bad, r1, b1

CONSTANTS
  Builders, Roots,              \* two builders that live, and their roots
  PairEdits, LoneEdits,         \* bounds: edits of a source beside two builders, beside one
  MaxLocks,                     \* bound: lock files written
  Procs, Leases, Calls,         \* of the ledger of access entries: who is granted what,
  Paths, Fewer, Single, Inside,  \* paths, those of the instance where writes fail, those inside
  Baseline, Common,             \* what all containers share, and its paths
  Pids, MaxSerial,              \* of the book of children
  Stored, Kinds,                \* how many items may be stored, of which categories
  Sweepers, Limits, KeptLogs,   \* who collects, under which caps, and the logs that stay
  Sources, Chunks, MaxEditions, \* where an asset may come from, its length; bound of what a source has
  MaxRuns,                      \* bound of the image chain
  Providers, Models, Agents,    \* of the register: what may be in it, and what users fill in
  Urls, Capable, Levels, Drafts, Edits, Picks, Known, OpenWorks, Clients, MaxWrites,
  Packs, Wishes, Fixes, Offers, Brought, Basics  \* of packages: what there may be, and who asks for what

ASSUME HostAssumption ==
  /\ "none" \notin Pids /\ "none" \notin Roots /\ r1 # "none"
  /\ Calls \subseteq Leases /\ Inside \subseteq Paths /\ Baseline \notin Leases
  /\ Fewer \subseteq Paths
  /\ Stored \in Nat /\ Limits \subseteq Nat /\ Limits # {} /\ "nobody" \notin Sweepers
  /\ up \in Sources /\ None \notin Sources /\ Chunks \in Nat /\ MaxRuns \in Nat

VARIABLES
  which,
  data, part, marker, cache, edition, fetching, installed,
  running, cancel, ensuring, present, active, heard,
  partition, tree, image, yaml, marks, restore, step, runs,
  source, state, product, lock, volume, purge, builder, janitor, locks, raced,
  disk, busy, lost, cap, gclock, coll, crossed,
  life, acl, ledger, op, using, residue,
  phase, mem, todo, fresh, book, proc, serial,
  case, at, prepared, chosen, guard, enforced, ran, below, job, code, halt, overdue, receipt,
  use, lib, wants, pins, host, native, queue, seen, picked, served, told, stage,
  reg, files, form, choice, alive, listed, writes, saved, failed, mixed,
  platform, there, mine, entries, command, past, blocked, notes, former, doing

vD == <<data, part, marker, cache, edition, fetching, installed>>
vP == <<running, cancel, ensuring, present, active, heard>>
vG == <<partition, tree, image, yaml, marks, restore, step, runs>>
vB == <<source, state, product, lock, volume, purge, builder, janitor, locks, raced>>
vS == <<disk, busy, lost, cap, gclock, coll, crossed>>
vF == <<life, acl, ledger, op, using, residue>>
vK == <<phase, mem, todo, fresh, book, proc, serial>>
vT == <<case, at, prepared, chosen, guard, enforced, ran, below, job, code, halt, overdue, receipt>>
vL == <<use, lib, wants, pins, host, native, queue, seen, picked, served, told, stage>>
vR == <<reg, files, form, choice, alive, listed, writes, saved, failed, mixed>>
vU == <<platform, there, mine, entries, command, past, blocked, notes, former, doing>>
vars == <<which, vD, vP, vG, vB, vS, vF, vK, vT, vL, vR, vU>>

\* An asset nobody pinned, and one that is pinned while storage collects.
Free == INSTANCE Download WITH Runs <- {1}, Upstream <- up, Pinned <- FALSE, Evicts <- FALSE, run <- fetching
Pinned == INSTANCE Download WITH Runs <- {1}, Upstream <- up, Pinned <- TRUE, Evicts <- TRUE, run <- fetching
Deps == INSTANCE Provision WITH Manifest <- <<tc, rootfs, runtime>>, Toolchains <- {tc},
          Guest <- {rootfs, runtime}, Runtime <- runtime, run <- ensuring
Base == INSTANCE GuestBase
\* Two builders beside storage; and one, whose source is edited more.
Pair == INSTANCE BuildVolumes WITH MaxEdits <- PairEdits
Lone == INSTANCE BuildVolumes WITH Builders <- {b1}, Roots <- {r1}, MaxEdits <- LoneEdits
ThreeKinds == <<"build", "overlays", "logs">>
Space == INSTANCE Storage WITH MaxItems <- Stored, CatOf <- Kinds, Collectors <- Sweepers,
          Caps <- Limits, KeepLogs <- KeptLogs
\* Processes of the program where writes succeed; the same on fewer paths where they fail.
Fence == INSTANCE FenceLedgerProofs WITH Fails <- FALSE
Faulty == INSTANCE FenceLedgerProofs WITH Paths <- Fewer, Leases <- Single, Fails <- TRUE
Book == INSTANCE ProcBook WITH Books <- {"run"}, disk <- book
Tool == INSTANCE ToolRun WITH tree <- below, cancel <- halt

\* Folders of packages with a choice of versions, one id twice, and a need in a circle.
Folder(id, version, kind, place, requires, fits, bin) ==
  [id |-> id, version |-> version, kind |-> kind, places |-> {place}, requires |-> requires,
   fits |-> fits, bin |-> bin, legal |-> TRUE]
Both == {"host", "guest"}
Ask(m, c) == [module |-> m, cap |-> c]
Offer(base, fallback, exes) == [base |-> base, fallback |-> fallback, exes |-> exes]
SixFolders == {Folder("a", 1, "prefix", <<"o", "a">>, {"b"}, Both, TRUE),
               Folder("a", 2, "prefix", <<"o", "a">>, {}, {"guest"}, TRUE),
               Folder("b", 1, "system", <<"u">>, {"c"}, Both, TRUE),
               Folder("b", 1, "prefix", <<"o", "b">>, {"a", "c"}, Both, TRUE),
               Folder("c", 1, "prefix", <<"u", "c">>, {"py"}, Both, FALSE),
               Folder("c", 2, "prefix", <<"e">>, {"py"}, Both, TRUE)}
TwoWishes == {<<Ask("m1", "a"), Ask("m2", "b")>>, <<Ask("m1", "py"), Ask("m2", "c")>>}
ThreeFixes == {<<>>, [x \in {"a"} |-> 2], [x \in {"b"} |-> 9]}
ThreeOffers == {Offer({}, {}, {}), Offer({"py"}, {}, {}), Offer({}, {"py"}, {"c"})}
TwoImages == {{}, {"c", "py"}}
Plan == INSTANCE PackagePlan WITH
  Folders <- Packs, Wanted <- Wishes, Fixed <- Fixes, Hosts <- Offers, Natives <- Brought, Basic <- Basics,
  chosen <- picked, phase <- stage

\* Packages are ordered by version, and need finitely many others.
ASSUME PackageAssumption ==
  /\ IsFiniteSet(Packs) /\ \A p \in Packs : p.version \in Nat /\ IsFiniteSet(p.requires)
  /\ \A w \in Wishes : w \in Seq([module : {w[k].module : k \in DOMAIN w}, cap : {w[k].cap : k \in DOMAIN w}])

Reg == INSTANCE Registry WITH Modules <- Known, Works <- OpenWorks, mem <- reg, disk <- files, up <- alive

\* What the register keeps: nothing of it is "nothing", or a file that does not parse.
IsList(s) == Len(s) \in Nat /\ s = [k \in 1..Len(s) |-> s[k]]
Ways == {"native", "envelope"}
Deals == [url : Urls, key : {"", "k1"}]
Cards == [provider : Providers, tools : Ways, levels : SUBSET Levels, default : Levels \union {None}]
Hired == [modules : Seq(Known), model : Models \union {None}]
Served == [Providers -> Deals \union {None}]
Catalog == [entries : [Models -> Cards \union {None}], core : Models \union {None}]
Setup == [levels : SUBSET Levels, compact : Models \union {None}, cap : Nat]
Staff == [Agents -> Hired \union {None}]

ASSUME RegisterAssumption ==
  /\ Providers # {} /\ Models # {} /\ Urls # {} /\ IsFiniteSet(Known) /\ MaxWrites \in Nat
  /\ None \notin Models \union Levels \union Deals \union Cards \union Hired \union [model : Models, url : Urls]
  /\ Bad \notin Served /\ Bad \notin Catalog /\ Bad \notin Setup /\ Bad \notin Staff
  /\ \A d \in Drafts : /\ d.id \in Models /\ d.provider \in Providers /\ d.default \in Levels \union {None}
                        /\ d.tools \in Ways \union {Blank} /\ d.levels \in (SUBSET Levels) \union {Blank}
  /\ \A e \in Edits : /\ e.levels \in (SUBSET Levels) \union {Blank} /\ e.cap \in Nat \union {Blank}
                       /\ e.compact \in Models \union {None, Blank}
  /\ \A picks \in Picks : /\ IsList(picks)
                           /\ \A i \in DOMAIN picks :
                                "agent" \in DOMAIN picks[i] \/ (IsList(picks[i].name) /\ IsList(picks[i].modules))
  /\ \A work \in OpenWorks : \A k \in DOMAIN work : IsList(work[k])

\* Forms of models and of settings, and a list of agents with names and modules that
\* repeat or are not there.
Draft(m, tools, levels, default) ==
  [id |-> m, provider |-> "p", tools |-> tools, levels |-> levels, default |-> default]
Edit(levels, compact, most) == [levels |-> levels, compact |-> compact, cap |-> most]
New(name, modules, m) == [name |-> name, modules |-> modules, model |-> m]
TwoDrafts == {Draft("m1", "native", {"l2"}, "l2"), Draft("m2", Blank, Blank, None)}
ThreeEdits == {Edit({"l1"}, Blank, Blank), Edit(Blank, "m2", Blank), Edit(Blank, None, 2)}
OneList == {<<[agent |-> "a"], New(<<"a">>, <<"x", "x">>, "m1"), New(<<>>, <<"x">>, "m2"),
              New(<<"a", 2>>, <<"x">>, "m1"), New(<<"b">>, <<"y">>, "m1")>>}
ThreeWorks == {<<<<>>, <<"m2">>>>, <<<<"m2", None>>>>, <<<<None>>, <<"m1">>>>}

\* A sandbox, the shared area and two modules below the program's directory, what the
\* user opened, and a program that a link on PATH leads to before its own directory.
Home(s) == <<"p", "w", s>>
Py == <<"opt", "py", "bin", "py">>
Link == <<"opt", "link", "py">>
Sh == <<"bin", "sh">>
Fault(path, how, undone) == [path |-> path, how |-> how, undone |-> undone]
Linux == [os |-> "linux", abi |-> 3, net |-> TRUE]
Rules == INSTANCE FenceRules WITH
  Nodes <- UNION {{SubSeq(x, 1, n) : n \in 0..Len(x)} :
             x \in {Sh, Py, Link, <<"usr">>, <<"null">>, <<"opt", "lib">>, <<"p", "m", "one", "userdata">>,
                   <<"p", "m", "two", "userdata">>, Home("shared"), Home("me"), <<"p", ".tools", "kit">>,
                   <<"data", "in">>, <<"data", "out">>}},
  Files <- {Sh, <<"null">>, Py, Link},
  Product <- <<"p">>, Private <- Home("me"), Shared <- Home("shared"),
  Module <- [m \in {"one", "two"} |-> <<"p", "m", m>>], WithData <- {"one", "two"},
  HostRoots <- {<<"data", "in">>}, Kit <- {<<"p", ".tools", "kit">>}, System <- {<<"usr">>},
  Device <- <<"null">>, Search <- <<<<"opt", "link">>, <<"opt", "py", "bin">>, <<"bin">>>>,
  Real <- [x \in {Link, Py, Sh} |-> IF x = Link THEN Py ELSE x], Junctions <- {<<"opt", "link">>},
  Commands <- {{"py"}, {"sh"}},
  Reaches <- {{"private"}, {"private", "module-write"},
              {"private", "shared-read", "module-read", "host-read", "network"}},
  Abis <- {1, 3},
  Faults <- {Fault(None, how, TRUE) : how \in {"none", "ledger", "identity"}}
            \union {Fault(Home("me"), how, TRUE) : how \in {"refused", "part", "lost", "void"}}
            \union {Fault(Home("me"), how, FALSE) : how \in {"lost", "void"}}
            \union {Fault(<<"p", "m", "one">>, "part", TRUE), Fault(<<"p", "w">>, "refused", TRUE)},
  host <- platform, acl <- entries, call <- command, at <- doing

\* A component that is not looked at rests in one of its initial states.
Rest ==
  /\ (which # "deps" => present = {})
  /\ (which \notin {"pair", "lone"} => volume = [r \in {r1} |-> FALSE])
  /\ (which # "space" => disk = [i \in Space!Items |-> Space!Gone])
  /\ (which # "tool" => case.need = {} /\ case.found = {} /\ case.host = "other"
                        /\ ~case.shell /\ ~case.net /\ ~case.degraded)

\* The cases of a call are many: they come first, and are dropped at once elsewhere.
Init ==
  /\ which \in {"free", "pinned", "deps", "base", "pair", "lone", "space", "fence", "faulty", "book", "tool",
               "plan", "reg", "rules"}
  /\ Tool!Fresh /\ at = (IF which = "tool" THEN "prepare" ELSE "done")
  /\ IF which = "plan" THEN Plan!Init
     ELSE use = "build" /\ lib = {} /\ wants = <<>> /\ pins = <<>> /\ host = {} /\ native = {}
          /\ queue = <<>> /\ seen = {} /\ picked = {} /\ served = {} /\ told = {} /\ stage = "done"
  /\ IF which = "rules" THEN Rules!Init
     ELSE platform = Linux /\ there = {} /\ mine = {} /\ entries = {} /\ former = {} /\ command = None
          /\ past = <<>> /\ blocked = None /\ notes = {} /\ doing = "idle"
  /\ Rest
  /\ Reg!Init /\ (which # "reg" => reg = Reg!Empty)
  /\ Free!Init /\ Deps!Init /\ Base!Init
  /\ IF which = "pair" THEN Pair!Init ELSE Lone!Init
  /\ Space!Init /\ (which # "space" => cap = CHOOSE n \in Limits : TRUE)
  /\ IF which = "faulty" THEN Faulty!Init ELSE Fence!Init
  /\ Book!Init

Next ==
  /\ UNCHANGED which
  /\ \/ which = "free" /\ Free!Next /\ UNCHANGED <<vP, vG, vB, vS, vF, vK, vT, vL, vR, vU>>
     \/ which = "pinned" /\ Pinned!Next /\ UNCHANGED <<vP, vG, vB, vS, vF, vK, vT, vL, vR, vU>>
     \/ which = "deps" /\ Deps!Next /\ UNCHANGED <<vD, vG, vB, vS, vF, vK, vT, vL, vR, vU>>
     \/ which = "base" /\ Base!Next /\ UNCHANGED <<vD, vP, vB, vS, vF, vK, vT, vL, vR, vU>>
     \/ which = "pair" /\ Pair!Next /\ UNCHANGED <<vD, vP, vG, vS, vF, vK, vT, vL, vR, vU>>
     \/ which = "lone" /\ Lone!Next /\ UNCHANGED <<vD, vP, vG, vS, vF, vK, vT, vL, vR, vU>>
     \/ which = "space" /\ Space!Next /\ UNCHANGED <<vD, vP, vG, vB, vF, vK, vT, vL, vR, vU>>
     \/ which = "fence" /\ Fence!Next /\ UNCHANGED <<vD, vP, vG, vB, vS, vK, vT, vL, vR, vU>>
     \/ which = "faulty" /\ Faulty!Next /\ UNCHANGED <<vD, vP, vG, vB, vS, vK, vT, vL, vR, vU>>
     \/ which = "book" /\ Book!Next /\ UNCHANGED <<vD, vP, vG, vB, vS, vF, vT, vL, vR, vU>>
     \/ which = "tool" /\ Tool!Next /\ UNCHANGED <<vD, vP, vG, vB, vS, vF, vK, vL, vR, vU>>
     \/ which = "reg" /\ ~mixed /\ Reg!Next /\ UNCHANGED <<vD, vP, vG, vB, vS, vF, vK, vT, vL, vU>>
     \/ which = "plan" /\ Plan!Next /\ UNCHANGED <<vD, vP, vG, vB, vS, vF, vK, vT, vR, vU>>
     \/ which = "rules" /\ Rules!Next /\ UNCHANGED <<vD, vP, vG, vB, vS, vF, vK, vT, vL, vR>>

\* Threads run; time passes (see the fairness of each component).
\* Where a component rests, none of its fair actions is enabled.
Fairness == Deps!Fairness /\ Lone!Fairness /\ Tool!Fairness
Spec == Init /\ [][Next]_vars /\ Fairness

-----------------------------------------------------------------------------
\* Every component keeps its types.
TypesHold ==
  /\ Free!TypeOK /\ Deps!TypeOK /\ Base!TypeOK /\ Space!TypeOK /\ Book!TypeOK /\ Tool!TypeOK
  /\ IF which = "pair" THEN Pair!TypeOK ELSE Lone!TypeOK
  /\ IF which = "faulty" THEN Faulty!TypeOK ELSE Fence!TypeOK
  /\ which = "plan" => Plan!TypeOK
  /\ which = "reg" => Reg!TypeOK
  /\ which = "rules" => Rules!TypeOK

\* A half-written file is never taken for the cached asset, nor are bytes of two
\* sources joined, as long as storage does not collect (of one source that changed
\* meanwhile they may be); what is installed is whole in that sense, and of a pinned
\* dependency the pinned asset; and an image that sessions may boot has a kernel, its
\* initrd and the agent.  A module runs only with all the packages it needs, whatever
\* those need in turn, and none writes over another.  What is registered refers to what
\* is registered, summaries are written with it, and a stop between two of its files
\* leaves it as before a change or after.
PartsKept ==
  /\ which = "free" => Free!CacheIsWhole
  /\ IF which = "pinned" THEN Pinned!InstalledIsWhole ELSE Free!InstalledIsWhole
  /\ Base!ImageBoots
  /\ which = "plan" => Plan!RunsWithAllItNeeds /\ Plan!RefusedWithReason /\ Plan!NothingOverwritten
  /\ which = "reg" => /\ Reg!NothingDangles /\ Reg!ChoiceIsCurrent /\ Reg!LoadsWhole
                      /\ Reg!ListIsSound /\ Reg!OfferedIsSent

\* So it is of all those parts; and a command inside the fence reaches what its call
\* was allowed, all of it and nothing more, and no entry of another is lost for it.
KeptWhole ==
  /\ PartsKept
  /\ which = "rules" => /\ Rules!NoMoreThanAsked /\ Rules!NoLessThanAsked
                        /\ Rules!FormerKept /\ Rules!SessionCovers
                        /\ doing = "idle" /\ past = <<>> => Rules!CutOff

\* A job of the setup page ends, however its downloads go, and takes no further
\* entry once a cancel has come; a lock never blocks a build volume for ever; a
\* call of a tool ends, but for what it left behind.
JobsEnd ==
  /\ Deps!JobEnds /\ Deps!CancelIsHeard
  /\ which = "lone" => Lone!LocksPass
  /\ which = "tool" => Tool!CallEnds

\* Two builders that live are never in one volume together, storage cleaning beside
\* them, but where a lock was taken when somebody had looked at it to remove it; and a
\* call answered from the cache is answered truly.
BuildsAreSound ==
  /\ [](which = "pair" => Pair!VolumeIsOwned)
  /\ [][which = "lone" => Lone!TrueHit]_vars

\* No volume in use is deleted, but of a build that took its lock when a removal had
\* looked already, nor that of the build a collection makes room for; what it plans is
\* enough, and takes what is least recently used.
CollectsWithCare ==
  /\ Space!VolumesInUseStay
  /\ [](which = "space" => Space!PlanSuffices)

\* The access a living process is recorded for stays until it gives it back, whoever
\* dies, fails or gives back on the same path (a baseline entry it found there is not
\* recorded for it), and every entry is in the ledger or what a failed write left; a
\* call runs under the fence that is asked of it, and ends with all it started.
FencesHold ==
  /\ IF which = "faulty" THEN Faulty!AccessKept /\ Faulty!EverythingRecorded
     ELSE Fence!AccessKept /\ Fence!EverythingRecorded
  /\ Tool!FenceIsHonoured /\ Tool!EndsWithTheTree

\* A start takes back every entry of the dead (where no write fails), and ends
\* the children of ours whose own run is gone, no others, which the file names as
\* long as they live.
LeftoversReclaimed ==
  /\ [][which = "fence" => Fence!Reclaimed]_vars
  /\ Book!OrphansOnly /\ Book!OrphansAreBooked
=============================================================================
