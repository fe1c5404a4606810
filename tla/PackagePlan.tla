---------------------------- MODULE PackagePlan ----------------------------
(***************************************************************************)
(* The packages that the modules of a session need: which folders make up  *)
(* the library, which version serves which capability, what those packages *)
(* need in turn, and who is told that something is missing.  The four uses *)
(* are a session on the host, one-off runs and services on the host, a     *)
(* session in a guest, and a build in a guest.  Requests are worked off    *)
(* from the end of a queue, one a step.                                    *)
(* Left out: how a manifest is written and checked (`legal` says the       *)
(* outcome), the text of a diagnosis, and a PATH that cannot be composed.  *)
(***************************************************************************)
EXTENDS Lists

CONSTANTS
  Folders,       \* what the folder of packages may hold: records, see Library
  Wanted,        \* what the modules may ask for: sequences of [module, cap]
  Fixed,        \* the versions a session may fix: functions from capabilities
  Hosts,         \* what the host may offer: [base, fallback, exes], sets of capabilities
  Natives,       \* what the image of a guest may bring: sets of capabilities
  Basic          \* the capabilities of the basic profile

VARIABLES use, lib, wants, pins, host, native, queue, seen, chosen, served, told, phase
vars == <<use, lib, wants, pins, host, native, queue, seen, chosen, served, told, phase>>
inputs == <<use, lib, wants, pins, host, native>>

Uses == {"session", "once", "guest", "build"}
OnHost == use \in {"session", "once"}

\* Illegal manifests are refused; folders are read in no order; of two with one id and version the first is kept.
Library(found) ==
  {l \in SUBSET {p \in found : p.legal} :
     \A p \in found : p.legal => Cardinality({q \in l : q.id = p.id /\ q.version = p.version}) = 1}

\* What a target can use; nothing is written over the system of the host.
ForTarget(target) ==
  {p \in lib : target \in p.fits /\ (target = "host" => p.kind = "prefix")}
Eligible == IF OnHost THEN ForTarget("host") ELSE ForTarget("guest")

Versions(l, cap) == {p \in l : p.id = cap}
First(ps) == CHOOSE p \in ps : \A q \in ps : p.version <= q.version

Init ==
  /\ use \in Uses
  /\ \E found \in SUBSET Folders : lib \in Library(found)
  /\ wants \in Wanted
  /\ pins \in (IF use \in {"session", "guest"} THEN Fixed ELSE {<<>>})
  /\ host \in (IF use \in {"session", "once"} THEN Hosts ELSE {[base |-> {}, fallback |-> {}, exes |-> {}]})
  /\ native \in (IF use \in {"guest", "build"} THEN Natives ELSE {{}})
  /\ queue = wants /\ seen = {} /\ chosen = {} /\ served = {} /\ told = {} /\ phase = "choose"

-----------------------------------------------------------------------------
(* The answer to one request: a package, another provider, or a problem.   *)

Nobody == [found |-> {}, by |-> "nobody", problem |-> "none"]
By(who) == [Nobody EXCEPT !.by = who]
Chosen(p) == [Nobody EXCEPT !.found = {p}, !.by = "package"]
Problem(what) == [Nobody EXCEPT !.problem = what]

\* On the host a capability no package serves may come from elsewhere.
FromHost(cap) ==
  IF Versions(lib, cap) = {} /\ cap \in Basic
  THEN IF cap \in host.base THEN By("base")
       ELSE IF cap \in host.fallback THEN By("host") ELSE Problem("missing")
  ELSE IF cap \in host.exes THEN By("host")
  ELSE IF Versions(lib, cap) = {} THEN Problem("missing") ELSE Problem("target")

\* Where sessions run, who has several versions must say which.
Picked(cap) ==
  LET vs == Versions(Eligible, cap)
      fixed == {p \in vs : p.version = pins[cap]}
  IN IF cap \in DOMAIN pins
     THEN IF fixed # {} THEN Chosen(First(fixed))
          ELSE IF OnHost /\ \E p \in Versions(lib, cap) : p.version = pins[cap]
          THEN Problem("target") ELSE Problem("pin")
     ELSE IF Cardinality(vs) = 1 \/ use = "once" THEN Chosen(First(vs)) ELSE Problem("ambiguous")

OnTheHost(cap) ==
  LET a == Picked(cap)
  IN IF Versions(Eligible, cap) = {} THEN FromHost(cap)
     ELSE IF a.found # {} /\ \E p \in a.found : ~p.bin THEN Problem("bin") ELSE a

InTheGuest(cap) ==
  IF Versions(Eligible, cap) = {}
  THEN IF cap \in native THEN By("image") ELSE Problem("missing")
  ELSE Picked(cap)

\* A build takes what the image has before any package, and no version is fixed.
InABuild(cap) ==
  IF cap \in native THEN By("image")
  ELSE IF Versions(Eligible, cap) = {} THEN Problem("missing")
  ELSE Chosen(First(Versions(Eligible, cap)))

Answer(cap) ==
  IF OnHost THEN OnTheHost(cap) ELSE IF use = "guest" THEN InTheGuest(cap) ELSE InABuild(cap)

\* What a package needs is asked for on behalf of who asked for the package.
Requests(p, module) == SetToSeq({[module |-> module, cap |-> c] : c \in p.requires})

Looked(r) == \E q \in seen : q.cap = r.cap \* mutant: what one module asked is not asked again
Seen(r) == IF use = "build" THEN Looked(r) ELSE r \in seen

\* One request of the queue, from its end.
Choose ==
  /\ phase = "choose" /\ queue # <<>>
  /\ LET r == Last(queue)
         a == Answer(r.cap)
     IN IF Seen(r) THEN queue' = Front(queue) /\ UNCHANGED <<seen, chosen, served, told>>
        ELSE /\ seen' = seen \cup {r}
             /\ chosen' = chosen \cup a.found
             /\ served' = (IF a.by = "nobody" THEN served ELSE served \cup {r.cap})
             /\ told' = (IF a.problem = "none" THEN told
                         ELSE told \cup {[what |-> a.problem, module |-> r.module, cap |-> r.cap]})
             /\ queue' = Front(queue)
                           \o FoldLeft(LAMBDA s, p : s \o Requests(p, r.module), <<>>, SetToSeq(a.found))
  /\ UNCHANGED <<inputs, phase>>

\* Two places are one where a package would write below or over what another writes.
Equal(a, b) == a = b \* mutant: only the same place
Overlap(a, b) == IsPrefix(a, b) \/ IsPrefix(b, a)
Clash(p, q) == p.id # q.id /\ \E a \in p.places, b \in q.places : Overlap(a, b)
Conflicts ==
  {[what |-> "conflict", module |-> "", cap |-> p.id] : p \in {q \in chosen : \E o \in chosen : Clash(q, o)}}

\* Nobody is left to ask: the plan of a guest is made in a walk of its own, where
\* nothing stands against it.
Judge ==
  /\ phase = "choose" /\ queue = <<>>
  /\ IF use = "guest"
     THEN LET all == told \cup Conflicts
          IN told' = all /\ chosen' = {} /\ seen' = {}
             /\ (IF all = {} THEN phase' = "assemble" /\ queue' = wants
                 ELSE phase' = "done" /\ queue' = <<>>)
     ELSE phase' = "done" /\ UNCHANGED <<told, chosen, seen, queue>>
  /\ UNCHANGED <<inputs, served>>

Assembled(cap) ==
  LET vs == Versions(Eligible, cap)
  IN IF cap \in DOMAIN pins THEN {p \in vs : p.version = pins[cap]}
     ELSE IF vs = {} THEN {} ELSE {First(vs)}

Assemble ==
  /\ phase = "assemble"
  /\ IF queue = <<>> THEN phase' = "done" /\ UNCHANGED <<queue, seen, chosen>>
     ELSE LET r == Last(queue)
              found == Assembled(r.cap)
          IN /\ phase' = phase
             /\ IF \E q \in seen : q.cap = r.cap
                THEN queue' = Front(queue) /\ UNCHANGED <<seen, chosen>>
                ELSE /\ seen' = seen \cup {r} /\ chosen' = chosen \cup found
                     /\ queue' = Front(queue)
                          \o FoldLeft(LAMBDA s, p : s \o Requests(p, r.module), <<>>, SetToSeq(found))
  /\ UNCHANGED <<inputs, served, told>>

Next == Choose \/ Judge \/ Assemble
Spec == Init /\ [][Next]_vars

-----------------------------------------------------------------------------
(* Who may run.                                                            *)

Modules == {wants[k].module : k \in DOMAIN wants}

\* What is missing is held against who needs it, anything else against everybody.
Unusable ==
  {m \in Modules : \E t \in told : t.what # "missing" \/ t.module = m}

\* A session on the host refuses the calls of a module, the others the whole.
MayRun(m) == IF use = "session" THEN m \notin Unusable ELSE told = {}

TypeOK ==
  /\ use \in Uses /\ phase \in {"choose", "assemble", "done"}
  /\ chosen \subseteq lib /\ seen \subseteq [module : Modules, cap : {p.id : p \in Folders} \cup (UNION {p.requires : p \in Folders}) \cup {wants[k].cap : k \in DOMAIN wants}]

\* What a module comes to need by what was chosen: the least such set.
Caps == {wants[k].cap : k \in DOMAIN wants} \cup UNION {p.requires : p \in lib}
Needs(m) ==
  LET own == {wants[k].cap : k \in {j \in DOMAIN wants : wants[j].module = m}}
      closed == {s \in SUBSET Caps : own \subseteq s /\ \A p \in chosen : p.id \in s => p.requires \subseteq s}
  IN {c \in Caps : \A s \in closed : c \in s}

\* Whoever may run has all it needs, whatever that needs in turn: a package of the plan
\* in one version, the one that was fixed, or another that provides it.
RunsWithAllItNeeds ==
  phase = "done" =>
    \A m \in Modules : MayRun(m) =>
      \A c \in Needs(m) :
        /\ c \in served
        /\ LET ps == Versions(chosen, c)
           IN /\ Cardinality(ps) <= 1
              /\ \A p \in ps : c \in DOMAIN pins => p.version = pins[c]

\* A module that a session on the host refuses is in want of something, or the plan
\* as a whole does not hold.
RefusedWithReason ==
  phase = "done" /\ use = "session" =>
    \A m \in Modules : ~MayRun(m) =>
      (\E c \in Needs(m) : c \notin served) \/ \E t \in told : t.what # "missing"

\* No two packages of a session in a guest are written in one place.  (A build does
\* not look.)
NothingOverwritten ==
  phase = "done" /\ use = "guest" =>
    \A p, q \in chosen : p.id # q.id => \A a \in p.places, b \in q.places : ~IsPrefix(a, b)
=============================================================================
