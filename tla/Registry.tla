------------------------------ MODULE Registry ------------------------------
(***************************************************************************)
(* The register of providers, models, agents and settings: four files,     *)
(* read once at the start and held in memory, written anew by every change.*)
(* A change happens in memory first; the files are written one after       *)
(* another, and a write may fail or the program stop at any of them.       *)
(* Users fill in forms: what a form leaves out is read when it is opened,  *)
(* a native model is tried over its channel, and then the form is written. *)
(* Left out: names and notes, ranges of numbers, the permissions in the    *)
(* settings, and a file edited by hand.                                    *)
(***************************************************************************)
EXTENDS Lists

CONSTANTS
  Providers, Models, Agents,   \* what may be registered
  Urls,                        \* where a provider may be reached
  Capable,                     \* the urls that take native calls of tools
  Levels,                      \* levels of thinking; the first catalog holds all
  Drafts,                      \* forms of models, Blank standing for what they leave out
  Edits,                       \* forms of settings, the same
  Picks,                       \* lists the core may draft: of [agent] or [name, modules, model]
  Modules,                     \* the modules there are
  Works,                       \* trees of sessions, see Levels of thinking
  Clients, MaxWrites,
  None, Blank, Bad              \* nothing, what a form leaves out, a file that does not parse

VARIABLES mem, disk, form, choice, up, listed, writes, saved, failed, mixed
vars == <<mem, disk, form, choice, up, listed, writes, saved, failed, mixed>>

Absent(ids) == [i \in ids |-> None]
Defaults == [levels |-> Levels, compact |-> None, cap |-> 1]
Empty == [providers |-> Absent(Providers), models |-> [entries |-> Absent(Models), core |-> None],
          settings |-> Defaults, agents |-> Absent(Agents)]

\* The order in which the files are written.
Files == <<"providers", "models", "settings", "agents">>

Entry(m) == mem.models.entries[m]
Has(m) == m \in Models /\ Entry(m) # None
Core == mem.models.core

\* The channel of a model, or none: nothing is put in its place.
Channel(r, m) ==
  IF m \notin Models \/ r.models.entries[m] = None THEN None
  ELSE IF r.providers[r.models.entries[m].provider] = None THEN None
  ELSE [model |-> m, url |-> r.providers[r.models.entries[m].provider].url]

\* What summaries are written with: the model of the session (none), or that of the
\* settings, which may not be reached.
Chosen(r) ==
  IF r.settings.compact = None THEN None
  ELSE IF Channel(r, r.settings.compact) = None THEN [model |-> r.settings.compact, url |-> None]
  ELSE Channel(r, r.settings.compact)

Idle == [what |-> "idle"]

Init ==
  /\ mem \in {Empty,
              [providers |-> [p \in Providers |-> [url |-> CHOOSE u \in Urls : TRUE, key |-> "k1"]],
               models |-> [entries |-> [m \in Models |-> [provider |-> CHOOSE p \in Providers : TRUE, tools |-> "envelope",
                                                          levels |-> Levels, default |-> None]],
                           core |-> CHOOSE m \in Models : TRUE],
               settings |-> [Defaults EXCEPT !.compact = CHOOSE m \in Models : TRUE],
               agents |-> [a \in Agents |-> [modules |-> <<>>, model |-> CHOOSE m \in Models : TRUE]]]}
  /\ disk = mem /\ saved = mem /\ choice = Chosen(mem)
  /\ form = [c \in Clients |-> Idle] /\ up = TRUE /\ listed = <<>> /\ writes = 0
  /\ failed = FALSE /\ mixed = FALSE

-----------------------------------------------------------------------------
(* Writing.                                                                *)

\* A file that is cut does not parse, or has lost what stood behind the cut.
CutFile(f) == {Bad, Empty[f]}

\* The whole register is written, the first n files of it when something fails or
\* the program stops; the next one may be cut.  Only an answer without an error
\* makes the choice for summaries anew, where `syncs` says so.
Save(r, syncs) ==
  LET Upto(n) == [f \in DOMAIN disk |-> IF \E k \in 1..n : Files[k] = f THEN r[f] ELSE disk[f]]
  IN /\ writes < MaxWrites /\ writes' = writes + 1
     /\ mem' = r
     /\ \/ /\ disk' = r /\ saved' = r
           /\ choice' = (IF syncs THEN Chosen(r) ELSE choice)
           /\ failed' = (failed /\ ~syncs) /\ UNCHANGED <<up, mixed>>
        \/ /\ \E n \in 0..3 :
                \/ disk' = Upto(n) /\ mixed' = mixed
                \/ \E t \in CutFile(Files[n + 1]) :
                     disk' = [Upto(n) EXCEPT ![Files[n + 1]] = t] /\ mixed' = TRUE
           /\ \/ failed' = TRUE /\ up' = up
              \/ up' = FALSE /\ failed' = failed
           /\ UNCHANGED <<choice, saved>>

Writes(r, syncs) == up /\ Save(r, syncs) /\ UNCHANGED listed

\* No empty key is taken but for a provider that has one.
ProviderUpsert(p, u, key) ==
  /\ key # "" \/ mem.providers[p] # None
  /\ Writes([mem EXCEPT !.providers[p] =
               [url |-> u, key |-> IF key = "" THEN mem.providers[p].key ELSE key]], TRUE)
  /\ UNCHANGED form

ProviderRemove(p) ==
  /\ mem.providers[p] # None
  /\ \A m \in Models : Has(m) => Entry(m).provider # p
  /\ Writes([mem EXCEPT !.providers[p] = None], TRUE) /\ UNCHANGED form

UsedByCore(m) == m = Core \* mutant: what writes summaries is not asked for
Used(m) == m = Core \/ m = mem.settings.compact

\* An agent that has the model keeps its name.
ModelRemove(m) ==
  /\ Has(m) /\ ~Used(m)
  /\ Writes([mem EXCEPT !.models.entries[m] = None], TRUE) /\ UNCHANGED form

CoreSetModel(m) ==
  Has(m) /\ Writes([mem EXCEPT !.models.core = m], FALSE) /\ UNCHANGED form

AgentUpsert(a, modules, m) ==
  /\ ToSet(modules) \subseteq Modules /\ (m = None \/ Has(m))
  /\ Writes([mem EXCEPT !.agents[a] = [modules |-> modules, model |-> m]], FALSE) /\ UNCHANGED form

AgentRemove(a) ==
  /\ mem.agents[a] # None
  /\ Writes([mem EXCEPT !.agents[a] = None], FALSE) /\ UNCHANGED form

\* What a channel says of native calls; nothing may come of asking.
Told(url) == {"unknown", IF url \in Capable THEN "native" ELSE "envelope"}

\* The way of a model is set to what its channel says.
ProbeModelTools(m) ==
  /\ Channel(mem, m) # None
  /\ \E t \in Told(Channel(mem, m).url) \ {"unknown", Entry(m).tools} :
       Writes([mem EXCEPT !.models.entries[m].tools = t], FALSE)
  /\ UNCHANGED form

-----------------------------------------------------------------------------
(* Forms.                                                                  *)

Or(given, kept) == IF given = Blank THEN kept ELSE given

\* What a form of a model leaves out is taken from the model as it is.
OpenModel(c, d) ==
  LET old == IF Has(d.id) THEN Entry(d.id)
             ELSE [provider |-> None, tools |-> "native", levels |-> {}, default |-> None]
      draft == [id |-> d.id, provider |-> d.provider, tools |-> Or(d.tools, old.tools),
                levels |-> Or(d.levels, old.levels),
                default |-> IF d.levels = Blank THEN old.default ELSE d.default]
  IN /\ up /\ form[c] = Idle
     /\ form' = [form EXCEPT ![c] = [what |-> IF draft.tools = "native" THEN "try" ELSE "model", with |-> draft]]
     /\ UNCHANGED <<mem, disk, choice, up, listed, writes, saved, failed, mixed>>

\* Native calls are tried over the channel the form names.
Try(c) ==
  LET p == mem.providers[form[c].with.provider]
  IN /\ up /\ form[c].what = "try"
     /\ IF p = None THEN form' = [form EXCEPT ![c] = Idle]
        ELSE \E t \in Told(p.url) :
               form' = [form EXCEPT ![c] = IF t = "native" THEN [form[c] EXCEPT !.what = "model"] ELSE Idle]
     /\ UNCHANGED <<mem, disk, choice, up, listed, writes, saved, failed, mixed>>

\* Levels are those of the catalog, the default one of the model's own.
InCatalog(d) == d.levels \subseteq mem.settings.levels /\ (d.default = None \/ d.default \in d.levels)

ModelUpsert(c) ==
  LET d == form[c].with
  IN /\ up /\ form[c].what = "model"
     /\ form' = [form EXCEPT ![c] = Idle]
     /\ IF mem.providers[d.provider] # None /\ InCatalog(d)
        THEN Writes([mem EXCEPT !.models.entries[d.id] =
                       [provider |-> d.provider, tools |-> d.tools, levels |-> d.levels,
                        default |-> d.default]], TRUE)
        ELSE UNCHANGED <<mem, disk, choice, up, listed, writes, saved, failed, mixed>>

\* The whole of the settings is put together when the form comes in.
OpenSettings(c, e) ==
  /\ up /\ form[c] = Idle
  /\ form' = [form EXCEPT ![c] =
                [what |-> "settings",
                 with |-> [levels |-> Or(e.levels, mem.settings.levels),
                           compact |-> Or(e.compact, mem.settings.compact),
                           cap |-> Or(e.cap, mem.settings.cap)]]]
  /\ UNCHANGED <<mem, disk, choice, up, listed, writes, saved, failed, mixed>>

\* Levels that models use stay in the catalog.
Sound(s) == s.levels # {} /\ (s.compact = None \/ Has(s.compact))
Allowed(s) ==
  Sound(s) /\ \A m \in Models : Has(m) => Entry(m).levels \subseteq s.levels

SetAppSettings(c) ==
  /\ up /\ form[c].what = "settings"
  /\ form' = [form EXCEPT ![c] = Idle]
  /\ IF Allowed(form[c].with) THEN Writes([mem EXCEPT !.settings = form[c].with], TRUE)
     ELSE UNCHANGED <<mem, disk, choice, up, listed, writes, saved, failed, mixed>>

-----------------------------------------------------------------------------
(* Lists of agents that the core drafts: a name is a base and numbers.     *)

Suggested(p) == "agent" \in DOMAIN p
Once(s) == FoldLeft(LAMBDA t, x : IF x \in ToSet(t) THEN t ELSE Append(t, x), <<>>, s)

Wants(p) ==
  IF Suggested(p) THEN mem.agents[p.agent] ELSE [modules |-> p.modules, model |-> p.model]
Taken(p) ==
  /\ IF Suggested(p) THEN p.agent \in Agents /\ mem.agents[p.agent] # None ELSE Has(p.model)
  /\ Wants(p).modules # <<>> /\ ToSet(Wants(p).modules) \subseteq Modules

\* A name that may not be one gives way to the first module, one that is taken gets a number.
Base(p) ==
  LET name == IF Suggested(p) THEN <<p.agent>> ELSE p.name
  IN IF name = <<>> THEN <<Wants(p).modules[1]>> ELSE name
Bare(base, names) == base \* mutant: a name may come twice
UniqueName(base, names) ==
  IF base \notin names THEN base
  ELSE LET n == CHOOSE k \in 2..(Cardinality(names) + 2) :
                  Append(base, k) \notin names /\ \A j \in 2..(k - 1) : Append(base, j) \in names
       IN Append(base, n)

ResolvePicks(picks) ==
  /\ up /\ Core # None
  /\ listed' = FoldLeft(LAMBDA out, p :
                 IF ~Taken(p) THEN out
                 ELSE Append(out, [name |-> UniqueName(Base(p), {out[k].name : k \in DOMAIN out}),
                                   modules |-> Once(Wants(p).modules), model |-> Wants(p).model]),
               <<>>, picks)
  /\ UNCHANGED <<mem, disk, form, choice, up, writes, saved, failed, mixed>>

-----------------------------------------------------------------------------
(* Levels of thinking: a work is a sequence of sessions, each the sequence *)
(* of the models of its agents.                                            *)

Own(m) == IF m = None THEN Core ELSE m
NamedModels(session) == {Own(session[j]) : j \in DOMAIN session} \* mutant: the core of a session without agents is forgotten
ModelsOf(session) == IF session = <<>> THEN {Core} ELSE {Own(session[j]) : j \in DOMAIN session}
InTree(work) == (UNION {ModelsOf(work[k]) : k \in DOMAIN work}) \ {None}
Supports(m, l) == Has(m) /\ l \in Entry(m).levels

\* The levels a work is shown, and the ones it may be set to.
Offered(work) ==
  IF InTree(work) = {} THEN {} ELSE {l \in mem.settings.levels : \A m \in InTree(work) : Supports(m, l)}
Accepted(work, l) == l \in mem.settings.levels /\ \A m \in InTree(work) : Supports(m, l)

\* What a call of a session sends at a level of its work: the level, the default of
\* the model, nothing, or an error.
Fragment(session, l) ==
  LET m == IF session = <<>> THEN Core ELSE Own(session[1])
  IN IF ~Has(m) THEN None
     ELSE IF l = None THEN Entry(m).default
     ELSE IF l \in Entry(m).levels THEN l ELSE Bad

-----------------------------------------------------------------------------
(* Stop and start.                                                         *)

Unread == [disk EXCEPT !.agents = Empty.agents] \* mutant: the agents are not read
ReadBack == disk

\* Every model's levels must be in the catalog, else the program does not start.
Loads ==
  /\ \A f \in DOMAIN disk : disk[f] # Bad
  /\ \A m \in Models : disk.models.entries[m] # None =>
       /\ disk.models.entries[m].levels \subseteq disk.settings.levels
       /\ disk.models.entries[m].default = None
            \/ disk.models.entries[m].default \in disk.models.entries[m].levels

Start ==
  /\ ~up /\ Loads
  /\ mem' = ReadBack /\ choice' = Chosen(mem') /\ up' = TRUE /\ saved' = mem'
  /\ form' = [c \in Clients |-> Idle] /\ listed' = <<>>
  /\ mixed' = (mixed \/ failed) /\ failed' = FALSE
  /\ UNCHANGED <<disk, writes>>

Stop ==
  up /\ up' = FALSE /\ UNCHANGED <<mem, disk, form, choice, listed, writes, saved, failed, mixed>>

Change ==
  \/ \E p \in Providers : ProviderRemove(p) \/ \E u \in Urls, k \in {"", "k1"} : ProviderUpsert(p, u, k)
  \/ \E m \in Models : ModelRemove(m) \/ CoreSetModel(m) \/ ProbeModelTools(m)
  \/ \E a \in Agents : AgentRemove(a) \/ \E m \in Models \cup {None}, s \in {<<>>, SetToSeq(Modules)} : AgentUpsert(a, s, m)
  \/ \E c \in Clients : ModelUpsert(c) \/ SetAppSettings(c)
Fill ==
  \E c \in Clients : Try(c) \/ (\E d \in Drafts : OpenModel(c, d)) \/ (\E e \in Edits : OpenSettings(c, e))
Next == Change \/ Fill \/ Start \/ Stop \/ \E picks \in Picks : ResolvePicks(picks)
Spec == Init /\ [][Next]_vars

-----------------------------------------------------------------------------
TypeOK ==
  /\ DOMAIN mem = ToSet(Files) /\ DOMAIN disk = ToSet(Files)
  /\ \A c \in Clients : form[c].what \in {"idle", "try", "model", "settings"}
  /\ up \in BOOLEAN /\ failed \in BOOLEAN /\ mixed \in BOOLEAN /\ writes \in 0..MaxWrites

\* Nothing that is registered refers to what is not (but for the model of an agent):
\* whatever forms were opened before, and whichever writes failed, as long as the
\* program did not start from files that a failed write or a cut left behind.
NothingDangles ==
  up /\ ~mixed =>
    /\ \A m \in Models : Has(m) =>
         /\ Channel(mem, m) # None
         /\ Entry(m).levels \subseteq mem.settings.levels
         /\ Entry(m).default = None \/ Entry(m).default \in Entry(m).levels
    /\ Core = None \/ Has(Core)
    /\ mem.settings.compact = None \/ Channel(mem, mem.settings.compact) # None

\* As long as every write succeeded, summaries are written with what is registered.
ChoiceIsCurrent == up /\ ~failed => choice = Chosen(mem)

\* After a stop between two files the program starts, with the register as before the
\* change or after it and nothing of both.
LoadsWhole == ~up /\ ~failed /\ ~mixed => Loads /\ ReadBack \in {saved, mem}

\* A level a work is shown may be chosen, and then each of its sessions calls at that
\* level and none is refused.
OfferedIsSent ==
  up => \A work \in Works : \A l \in Offered(work) :
    /\ Accepted(work, l)
    /\ \A k \in DOMAIN work : Fragment(work[k], l) \in {l, None}

\* No two of a list have one name, and each has a module that exists.
ListIsSound ==
  /\ \A i, j \in DOMAIN listed : i # j => listed[i].name # listed[j].name
  /\ \A i \in DOMAIN listed : listed[i].modules # <<>> /\ ToSet(listed[i].modules) \subseteq Modules
=============================================================================
