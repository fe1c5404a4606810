# Solomni: a TLA+ verification project

Solomni runs *works*: sessions in which a main agent and the members it creates
talk, use tools and edit files. This project models the parts of the Rust
program (`src/`) whose correctness depends on the order of steps: crashes
between two writes, operations of several agents, rollbacks, stops and
restarts of sessions that generate, and the machinery of the host below them:
virtual machines, services, builds, downloads, fences. The models are checked
with TLC on small instances; 30 of the 40 properties the runs check, and the
inductive invariants they rest on, are proved with TLAPS.

## The system

| Part | State | Operations | Talks to |
| --- | --- | --- | --- |
| `capabilities/workspace` | shared files `work/`, store `.work/` (commits, head, index per agent, objects, `pending.json`, `next-id`, `lost/`), sandboxes | pull, commit, sync, upload, resolve, restore_lost, restore, rewind_to, restore_point, discard_after, gc | called by conductor (user uploads, rollbacks, rewinds) and by the agents' work tools |
| `capabilities/session` | transcript per session (`transcript.jsonl`), meta, decision desk, event board | append, archive / delete / restore, cards, events | conductor, collab, browser tabs |
| `capabilities/conductor` | live table of works, command queue, runs, cancel flags, permissions of a tree | commands, runs, cross-session rewind, proxy tool, questions to the user | everything |
| `capabilities/collab`, `taskchain`, `slate` | collaboration phase, list of members, rounds, task chain | discussion, rounds, confirmation, plan, delivery | session, llm, tools |
| `capabilities/tools`, `permission` | ledger of what an agent has seen, consents of a turn, layers of a session | batches of calls, whole-file overwrite rule, narrowing | kernel, workspace |
| `capabilities/llm`, `registry` | the endpoint that works, a stream under way; four files of settings | a call of a model, repair of envelopes; one write per change | conductor |
| `capabilities/packages`, `modules`, `secrets`, `prompt` | folders on disk | plans of packages; scans | conductor |
| `capabilities/vm`, `residents` | table of guests per lease, layers, channel of each guest; service processes and switches | start, use, stop | conductor, kernel |
| `capabilities/provision`, `builds`, `storage` | download cache, toolchains, guest images; cache volumes with locks; usage, collections | ensure, reset, build, collect | vm, kernel |
| `kernel` | book of children, ledger of grants, rules of the fences, one tool process per call, logs | run, kill, grant, release, reconcile | nobody |
| `presentation`, `entry`, `guard`, `diagnostics` | none of their own | transport, assembly | capabilities |

What is hard in it: the version store is a write-ahead log written by hand over
several files, used by agents whose sandboxes change meanwhile and, when the
shared root is bound to an external directory, by other programs; a rewind cuts
the transcripts of a whole tree of sessions and moves the shared line with
them; commands reach sessions that are running; a question to the user blocks a
tool until it is answered, stopped or superseded; a tab joins a file and a board of
events that change separately. On the host everything long
(a download, a boot, a build, the start of a service) runs on a thread of its own
between two short steps under a lock, and what it looked at before may have
changed after; the ledgers of the kernel outlive the processes they are about.

## Modules

| Module | Models |
| --- | --- |
| `ThreeWay` | `workspace/domain/workstore.rs`: the verdicts of commit, pull, resolve and status for one path, as predicates over (base, head, local) |
| `SharedLine` | abstract specification: what the versioned shared area promises, with no log, no crash and no partial write |
| `WorkStore` | `workspace/service.rs` over `fs_workstore.rs`: every operation that changes the shared area, one step per durable write |
| `WorkStoreHist` | `WorkStore` with two history variables (what an agent has seen, what it has edited) for the properties about lost work |
| `MCWorkStore`, `MCHistory` | symmetry and the refinement mapping to `SharedLine`; three instances of the store for the properties about lost work |
| `Lists` | the few operators on sequences and finite sets that the modules of agents, sessions and the host share. They have the names and the meaning of the community modules' operators, which are not extended there: every instance of a module takes along all that the module extends, and the proofs about `MCAgents` would carry the library eleven times |
| `AgentSession` | one agent's session: the log of rows and marks and what a cut, a fold and a rebuild make of it (`session/domain/rewind.rs`, `replay_dialogue`); generations, compaction, restart, and the three rewinds with the shared area |
| `EventBoard` | a session as a browser tab sees it: transcript, board of events, history requests and long polls |
| `Permission`, `SessionPermissions` | the pure rules of permissions; the layers of a tree of sessions, and the sessions in memory that were built from them |
| `ToolTurn` | the batch of tool calls of a reply and the file tools |
| `Envelope`, `ModelCall` | what is read from, and repaired in, the text of a model without call slots; one HTTP call of a model over its endpoints |
| `ProxyTree` | a proxy session, the children it makes, and the user who stops, continues and closes them |
| `Discussion` | a collaboration up to its plan: the list of members, the rounds, questions, the close, the review |
| `TaskChain`, `MCTaskChain` | `taskchain/domain/chain.rs` as pure operators; the door a chain passes in `pump.rs`, over every small chain, with definitions from graph theory to compare with |
| `WorkRun`, `MCWorkRun` | a collaboration at work, from the plan to the delivery; the chains and scenarios it is checked on |
| `DecisionDesk` | `session/domain/decisions.rs` with `ask_user`: the queue of cards, the threads that wait on them, stops and restarts |
| `Guests`, `GuestChannel` | the table of virtual machines and the requests of sessions about them; one guest's agent channel |
| `Residents` | service processes of the modules, their table and switches |
| `Registry`, `PackagePlan` | the register of providers, models, agents and settings in its four files; which packages a session, service or build gets |
| `Download`, `Provision`, `GuestBase` | `provision/`: one asset of the cache; the jobs that ensure and reset dependencies; the chain that makes a guest image |
| `BuildVolumes`, `Storage` | `builds/`: cache volumes, locks, hits, builders that die; `storage/`: plans and removals of collections |
| `FenceLedger`, `FenceRules` | the ledger of access entries on Windows: who owns one and when it is taken back; what a command inside the fence of each platform can reach |
| `ProcBook`, `ToolRun` | `kernel/detail/procs.rs`: the book of long-lived children; `kernel/detail/process.rs` with the guards of the hosts: one call of a tool |
| `MCSessions` | `MCTaskChain`, `DecisionDesk`, `Guests` (twice), `Residents`, `GuestChannel`, `ModelCall` (twice) |
| `MCHost` | `Download` (twice), `Provision`, `GuestBase`, `BuildVolumes` (twice), `Storage`, `FenceLedger` (twice), `FenceRules`, `ProcBook`, `ToolRun`, `PackagePlan`, `Registry` |
| `MCAgents` | `AgentSession`, `EventBoard` (twice), `SessionPermissions` (twice), `ToolTurn`, `Envelope`, `ProxyTree`, `Discussion` (twice) |
| `WorkStoreProofs`, `HistoryProofs`, `WorkRunProofs`, `SessionsProofs`, `FenceLedgerProofs`, `HostProofs`, `SessionPermissionsProofs`, `AgentsProofs` | the proofs |

### WorkStore and the code

Every operation of `service.rs` takes the in-process gate of the work and the
store's file lock (`gate`, `lock_store`), so at most one is inside; `op` is its
volatile state and `Idle` means nobody is. `Enter` is the lock and
`recover_locked`, which replays `pending.json` before anything else (`Applying`
with `then = Ready`); `Ready` is the point after it, from which the operation
that was called goes on.

| Action | Code |
| --- | --- |
| `PullBegin`, `PullDecide`, `PullCopy`, `PullEnd`, `PullFails` | `work_pull`: verdict per path, copy from the object store, one index write at the end or on the first failure |
| `CommitBegin`, `SyncBegin`, `UploadBegin` | planning in `work_commit`, `work_sync`, `work_commit_user` |
| `Ingest`, `IngestChanged` | `ingest_under`: the content is stored only if it still has the planned fingerprint |
| `ReserveId`, `LogCommit` | `reserve_id` (`next-id`), `pending.json` |
| `WriteFile`, `TearFile`, `WriteCommit`, `SetHead`, `WriteIndex`, `DropCommit`, `ClearPending` | `apply_commit_pending`, `materialize`, `discard_commits_locked`, write by write |
| `ApplyFails` | `settle`: one replay, then the error is returned and the record stays |
| `Restore`, `RestorePoint`, `DiscardAfter`, `RewindTo` | `work_restore(_force)`, `work_restore_point`, `work_discard_after`, `work_rewind_to` |
| `ResolveBegin`, `ResolveBackup`, `ResolveChanged`, `ResolveApply`, `ResolveEnd` | `work_resolve`: scan, back up everything, overwrite, one index write |
| `View`, `RestoreLost`, `Gc`, `Leave` | `work_status`/`work_versions`, `work_restore_lost`, `work_gc`, calls that only recover |
| `Interrupt` | the process dies or a step outside a transaction fails |
| `EditSandbox`, `EditShared` | tools of the agents; other programs on an external root |

Abstractions: a file's content is its fingerprint; a directory is a function
from paths to fingerprints or `NoFile`; object files, metadata and
`pending.json` are written by rename and appear at once, while a user's upload
(`write_work`) is written in place and may be torn by a crash (`TearFile`).
Members of the store that fail validation when read, quotas and path escapes
are left out. Bounds: `MaxId` commit numbers, `MaxLine` transcript lines,
`MaxFaults` crashes and failed writes, named in the module.

### AgentSession, EventBoard and the code

`file` is `transcript.jsonl`, `live` the `AgentSession` in memory (`dialogue`,
`marks`, `line_reply`, `line_ids`, `next_line`, the compaction point, the reply
counter and the row anchor of its tools), `gen` a generation on its worker
thread. Rows reach the file while a generation runs (`ToolReply`); the loop at
the end of `run_rounds` books them (`Booked`), so a restart in between finds
rows the session never booked.

| Action | Code |
| --- | --- |
| `Say`, `Continue` | `say`, `dispatch_task`, `continue_reply` |
| `AutoCompact`, `AutoCompactFails`, `Compact` | `maybe_compact`, `compact_session` over `plan_compaction` (any split the budget can choose) |
| `ToolReply`, `Answer`, `Stop`, `FailCall` | one model reply in `converse_with` and the end of `run_rounds` |
| `Crash`, `EnsureSession` | process death; `ensure_session` rebuilding from the active view |
| `Archive`, `Delete`, `Restore` | the three targets of `rewind_outcome`, with the steps of the version store as one (they are `WorkStore`'s subject) |

A message is its role and the row or reply it stands for; texts, characters and
budgets are left out. Rewinds are refused while a generation runs
(`running_refusal`), which is their `gen.phase = "idle"`. `allowed`, chosen once in `Init` from
`Scenarios`, says what may happen in a behaviour (reasoning and failing calls,
archives, deletes, restarts, compactions): one run covers several scenarios, and
each violation run allows only what it needs.

`EventBoard` has the three places a row is in: the transcript on disk (`file`), the
`EventBus` (`board`, with its trims and its `rewound` bodies) and the tab (`tab`).
`SinkPush`, `SinkPersist` are a generation, which pushes before it persists;
`CommandRow` or, when `Late`, `CommandRecord` and `CommandPublish` are commands;
`ServeFile` and `ServeTail` the two reads of `history.open`; `ServePoll`, `PollApplied`,
`PollGap` the long poll of `app.js`. The tab has two requests for the history that may be
under way together (`ask`): the first one (`Hydrated`, which appends) and the one after a
gap (`Resynced`, which replaces the view and does not ask whether the first has been
answered). `crossed` is a history variable: a resync was applied before the first answer.

### Permission, SessionPermissions, ToolTurn and the code

`Permission` is `permission/domain/permission.rs`: profiles, `Verdict`, the ceiling of a root
(`AppliedRoot`) and the narrowing of a child (`AppliedNarrowing`). In
`SessionPermissions`, `layer` is `meta.sandbox` of each session and `built` what a session in memory
was made from; `Open` builds one along its parents (`permissions_for`), `Generate`
and `Finish` hand it to a thread and back, `SwitchProfile`, `PrepareEdit`, `CommitEdit` change a
meta and drop the sessions below it.

`ToolTurn` runs a batch (`Batch`): `Refuse` answers what may not run, `RaiseCard` and `Answer`
are a question, `Fork` begins one call or the neighbours declared parallel, each with its
own copy of the ledger `seen` (`Observations` in `systool.rs`), and `Absorb` takes the
copies over. A call that reads, deletes or is a command is one step (`Do`). `write`,
`edit` and `apply_patch` are blocks (`Blocks`): each looks at its files one after another
(`Look`, with `Holds` the checks), and when all have held (`Ready`) writes them one after
another (`Put`), or breaks off (`PutFails`). `Change`, everybody else who writes
the files, comes between any two of these steps. `OverwriteCheck`, `NoteRead` and
`NoteWritten` are the functions of the same names. What the agent was shown is kept in a
history variable with its extent: of a content in `Long` a reading shows the beginnings
of its lines only, and counts as complete all the same (`Whole`).

### Envelope, ModelCall and the code

`Envelope` builds up every text of a few tokens and reads it as `parse_envelope` does
(`Object`, `ParseObject`, `ParseRest`); `Repair` escapes raw line breaks or closes braces as
`repair.rs` does, and `Repaired` keeps the better of the two readings. `ModelCall` goes
through the candidates of a provider (`Call`, `TryNext`), reads lines cut anywhere (`Chunk`,
`Half`, `Rest`, `ClosedInLine`) or one body (`Body`), and returns to the session (`Return`);
`memo` is the endpoint kept for the program.

### ProxyTree, Discussion, WorkRun and the code

In `ProxyTree` a turn is started in three steps (`Start`, `Register`, the work itself), ended in
two (`Finish` or `Fall`, `PutBack`), and then the proxy is told (`Tell`). `Freeze`, `Void`,
`RaiseFlags` are the steps of `stop_tree`; `AskCreate`, `Commit`, `CreateFails` the creation
of a child by the proxy's tool, with the `ledger` of answered requests.

`Discussion` is `discussion.rs` with the pump around it: `SetTask`, `Turn` (a member
speaks, agrees, asks, is silent), `TakeCard` and `Dispose` (a card answered and carried
out), `Withdraw`, `Continue`, `Stop`. `live` is the object in memory, `kept` what
`derive` reads off the file, and `Open` makes one of the other after `Crash`.

A session has one owner: it lies in the table of the core or a thread has taken
it out (own-and-return). In `WorkRun`, `holder` is the thread that has the main session, with
the phase it is in; `out[a]` says that a thread has the session of agent `a`.
`calls` are the detached threads that want the main session: each registers its
cancel flag, then asks for the session, and ends without effect if it is taken
or stopped. `door` is the queue of cards of the main session, as the set of nodes
a card is about (`{}` for the review of the plan).

| Action | Code |
| --- | --- |
| `Call(s)`: `Register`, `Take`, `Refused` | the head of `collab_generation`, `take_collab`, `dispatch_gate` |
| `Resume`, `DropAndReset` | `resume()`: a card of rejected nodes at the head is dropped and its nodes go back |
| `Dispose`, `Judge` | `dispose`, `judge_note` of an answer that has left the queue |
| `PumpReturns`, `PumpPlans`, `PumpReviews`, `PumpDelivers`, `PumpFails` | `pump_with` after the discussion; the loop of `collab_generation` pumps a second time (`holder.left`) |
| `Put` | `put_collab`: back in the table, void if stopped, `spawn_ready_nodes` |
| `StartNode`, `EndChild`, `CrashChild` | `node_generation`, `put_single` with the wake of the parent, `abort_running` |
| `Answer`, `Say`, `Continue`, `Stop` | `answer_card`, `say` to an agent, `continue_flow`, the three steps of `stop` |

A model's judgement is any subset of the nodes. `scenario.allowed` says what may
happen besides the ordinary course, so that one run covers several scenarios.
Left out: the crash of the whole program and of the main thread (`Discussion` has the
former up to the plan), a stop of one agent alone, and the cards of tools, which wait in
another queue.

`TaskChain` writes the two loops that run "until nothing changes" as a fold of
as many sweeps as there are nodes. `WorkRun` takes the stages as part of the
scenario (`s.stage = Stages(s.chain)`). The one fact about stages that the proofs
about it use is the assumption `StagesFollowDependencies`, which TLC evaluates in the `work`
run for its chains; that the stages of every chain the check lets through are such is
proved in `SessionsProofs` (`StagesOfOrdered`, `StagesStep`).

### DecisionDesk and the code

`queue` is the desk of a session (`Entry`: card number, slot or none), `slot` the
`AnswerSlot`s, `log` what of it the transcript has. A thread of the generation
(`Branches`) asks in the steps of `SessionAsk::ask`: push under the lock of the desk
(`Ask`), write the card, emit what push announced, then sleep on the slot
(`Look`, `Sleep`, whose predicate is read under the slot's lock). `Answer` is `answer` of
the head; `Freeze`, `Void`, `Persist`, `Cancel` are the steps of a stop (`void_gates`,
`stop_tree`), `Rebuild` and `Restart` what `derive_gates` and `desk_of` make of the
transcript.

### Guests, GuestChannel, Residents and the code

A request on a tree prepares in the core (`Create`, `Edit`, `Delete`, `Say`), boots on
its own thread (`Admit`, `Then`, `Boot`, `Enter` of `GuestBoot::run` and `guest_start`) and
commits or erases in the core again; calls take the machine under the lock of
the lease (`Lock`, `Executed`). `table` is the map of leases, `layer[s]` the machine
whose process has the overlay of tree `s` open. `Next` has every request; `Talk` only
conversations, of which more is true (one guest per lease).

In `GuestChannel`, `asks` and `wire` are the requests and answers under way, without
numbers as in the code; only the handshake (`InStep`, `sync`) can tell an old
answer from a new one. `GivesUp` is the ten-second read, `Reconnect` a new socket
that may keep or drop what was under way (`Lost`); a cancel or the deadline runs a
kill as a call inside the call (`KillReturns`).

In `Residents`, `Comes` is a command of the core (start, call, stop, the switches, a reap), `Runs`
one step of its thread: look at the switches, take the table's lock, start
processes without it, greet (`Greet`), enter or kill the newcomer, call or stop while
holding the lock. `procs` are the living processes, `Exit` their death.

### Registry, PackagePlan and the code

`Registry` keeps `mem` (the state of `registry/service.rs`) and `disk` (the four files).
Every write action ends in `Save`: the change in memory, then file after file, any of which
may fail, be cut, or be the last before the program stops; `Fill` opens a form, whose unset
fields are read then and written later; `Start` reads the files again. `PackagePlan` scans a set of
folders (`Library`), works off a queue of requests from its end (`Choose`), then holds
what is missing against modules (`Judge`) and forms the plan (`Assemble`).

### Download, Provision, GuestBase and the code

`Download` has the files of one asset (`.part`, its `.src` note, the cached file) as
inodes with chunks of a source in one of its editions (`Change` puts another one behind the
same URL); `Begin`, `Settle`, `Request`, `Read` and `Land` are `download_with_resume`,
`Verify` the digest check, `EmptyCache` and `Evict` the cleaning by storage.
`Provision` is the job of the setup page (`Start`, `Arm`, `Work`, `Register`, `Cancel`), the reset
and the command line, which share one cancel flag where they share the service.
`GuestBase` goes through the chain partition, tree, agent, image, yaml; each step
may be the last one before the program ends (`Stops`).

### BuildVolumes, Storage and the code

A builder waits for the lock file of a volume (`Acquire`: create, look at its age,
remove it when stale), reads the three states a hit depends on, builds, writes the
state file and drops workspaces the purge file names. `Ages` lets a lock file grow
stale, `Die` leaves it behind. Storage beside them looks at a lock (`FindUnused`), removes
the volume (`DeleteVolume`) and then whatever file has the lock's name (`DeleteLock`). In
`Storage` a collection scans, plans and goes through its plan, and so does the cleaning of
the volumes (`CleanBuild`); a reset (`Reset`) does not take the lock of the collections.
`RemoveOne` looks again at the lock of a volume, after which `UnlinkVolume` and
`UnlinkLock` are steps of their own that may fail; `Take` and
`GiveBack` are the builds and guests that use them. `raced` and `crossed` are history
variables of the two: where a lock was taken between such a look and the removal.

### FenceLedger, FenceRules, ProcBook, ToolRun and the code

`FenceLedger`: a grant is recorded before it is applied (`Prepare`, `Grant`), given back
when the last owner goes (`Release`, `GiveBack`) and reclaimed at a start (`Reconcile`,
`Reclaim`); every step may fail or be the last of its process. Besides its own container a
call needs entries for all containers, the `Baseline`, on the `Common` paths (interpreters,
tools): one that is there already is passed over (`Skip`) and no owner is recorded for it.
A write that fails may leave its entry (`residue`). `FenceRules` is the other half, what
an entry lets a command do: `ForCall`, `ForSession`, `Standalone` are the functions of
`tools/domain/fence.rs`, `RulesOfLinux` with `Mask` and `Filter` the Landlock rules and the
seccomp program, jump by jump, `RulesOfMac` the profile, `GrantTargets`, `Container` and
`Verified` the entries in access lists on Windows, which a write may lose, leave undone or
do in part. `ProcBook`: every
opened book is a copy in memory (`mem`) written over the file; `Drop`, `Kill`, `Forget`
are the steps of `reconcile`, and pids are reused (`Reused`). `ToolRun`: `Prepare`,
`Check`, `Policy` and `Refuse` decide with what fence the call starts, `Guard` does what
the guard process of the host does, `Wait`, `Kill` and `Joined` are the thread of the call.

## Runs

Each passing run asks what must hold of one layer of the program; the bounds are chosen
so that every action of the run fires (two contents are enough for "another version",
two commits for "behind head", three for a line that is left and re-entered). `history`,
`sessions`, `host` and `agents` hold several instances that share no state: a variable
`which` picks one, the others rest, so that a run covers them one after the other and a
property of the run is the conjunction of what is asked of each.

| Run | Instances | Shows |
| --- | --- | --- |
| `store` | 1 agent, 1 path, 2 contents, 2 commits, 1 fault, edits in the middle of operations, fairness | `TypeOK`, `ObjectsPresent`, `ReplayCanComplete`, `SharedIsHead`; `ImplementsSharedLine`: with any crash the store refines `SharedLine`; `PendingSettles` |
| `history` | *line*: user only, 2 paths, 3 commits, lines 0..1, 1 fault; *agent*: agent and user with histories, 3 commits, 1 fault; *external*: external root, edits between operations | `LineIntact`, `RewindLosesNothingKept`; `EditsSurvive`, `NoLostUpdate`, `PullConverges`; `ExternalEditsKept` |
| `work` | chains of 1 or 2 nodes, `MaxCalls` 2 detached calls, `MaxThreads` 1 waiting thread per agent, `MaxInputs` 2 inputs of the user, five scenarios, fairness | `TypeOK`, `VerdictIsCurrent`, `OneNodePerAgent`, `StopReachesMain`, `StoppedAsksNothing`, `DispatchInOrder`, `CompletionIsReviewed` |
| `sessions` | every chain of up to 3 nodes over 3 ids and 2 members of whom 1 is present; 2 asking threads and 2 cards; 3 requests on 1 tree, 3 conversations on 2 trees with 1 lease free; 3 requests about 1 service with 2 processes; 2 calls with 2 late answers; 2 calls of a model with 2 endpoints, streamed with slots and whole without | `TypesHold`, `ChainIsSound`; `OutcomeIsTheUsers`, `CardsAreNew`; `NothingIsLost`; `RightAnswer`; `NobodyHangs` |
| `host` | 1 download of 3 chunks from 2 sources of 2 editions, pinned and not; 3 dependencies and 3 runners; 3 runs of the image chain; 2 living builders, or 1 that may die, on 1 volume with storage cleaning; 3 items of storage and 2 collectors; 2 processes, 2 leases and the baseline on 2 paths, or 1 lease and the baseline on 1 with failing writes; up to 2 calls inside a fence on each of the three platforms, with nine ways an entry can go wrong; 2 pids and 3 children; one call of a tool in every case; every library out of six folders; 2 changes of the register | `TypesHold`, `KeptWhole`, `JobsEnd`, `BuildsAreSound`, `CollectsWithCare`, `FencesHold`, `LeftoversReclaimed` |
| `agents` | a session of 5 rows, 2 replies of up to 2 calls, 1 mark, 1 commit, in its scenarios; a tab over two trims and a rewind, with commands that push early or late; a work with one seat, opened by a proxy or the user; batches of 2 calls on 2 files with 1 change by others at any step; texts of up to 6 tokens; a proxy with 2 children, of which one is a discussion, 1 request id, 2 calls, 2 acts of the user and 1 failure; a discussion of 2 members, 2 rounds, 1 reminder and 1 stop, crash or withdrawal, and one of 1 drafted member | `TypesHold`, `SessionIsItsTranscript`, `PromptIsWhole`, `RoundsAndRewinds`, `RightsHold`, `OnlyTheAgreedRuns`, `FilesAreSafe` |

`KeptWhole` is one property over what must be whole or exact when it is used: the cached
asset and what is installed, the image that boots, the plan of packages, the register
over its files, and the reach of a command inside the fence. `SessionIsItsTranscript` is
the same idea for sessions: the object in memory, the tab and the votes of a discussion
are all what the transcript says.

The other runs end in a violation; each is a disagreement between a document
or a comment and the code (see *findings* in `PROJECT.json`):

| Run | Property | What happens |
| --- | --- | --- |
| `external_crash` | `ExternalEditsKept` | the replay of a transaction overwrites a file edited after the crash |
| `archive_restart` | `FreshIds` | after an archive and a restart folded row ids are used again |
| `restore_lost` | `RestoreExact` | one restore discards the commit another mark needs |
| `lost_completion` | `EndMarksTheNode` | an agent ends while the thread another agent woke has the main session; its node stays running for ever |
| `wake_reworks` | `ReworkIsTheUsers` | a wake takes the card about rejected nodes away and sends them back |
| `doubled_row` | `RowsOnce` | a row of a discussion that is handed out after a feed or a pass is handed out again |

The instances `external` and `agent` forbid edits in the middle of an operation
(`EditsMidOp = FALSE`): between a check and the write that follows it the code
has no protection against another program.

## What the properties leave out

Each of these was met as a counterexample, or seen in the code, while modelling; the
properties are stated around them.

*Version store.*
- a pull killed between its copies and its index write can end as a conflict on
  a file the agent never wrote, once head has moved on (`PullConverges` is about
  pulls that were not interrupted);
- `take=upstream` overwrites what a tool of the agent writes between the backup
  and the overwrite (`EditsSurvive`);
- `work_rewind_to` lets a commit without an anchor pass, so after outside content
  was adopted on top of commits past the cut, those stay in the shared area
  (`RewindLosesNothingKept` states the other direction).

*Sessions.*
- a tool round with reasoning and no text is booked one row off, and after a
  failed model call the rounds before it are on disk and not in memory
  (`SessionIsItsTranscript` is about scenarios without either);
- after an archive, a delete takes a row id for a number of rows and cuts too
  little in memory (no scenario has both);
- commits of later replies of one generation carry the anchor of its first row,
  so a rewind into the generation keeps them (`RoundsAndRewinds` states the other
  direction);
- a user row and the reply after it can have the same reply number, and are then
  cut together;
- a tab opened between the persisting and a late push shows the row twice; a row
  pushed between the cut in the core and `push_rewound` is wiped; the answer to a rewind
  carries no head and wipes newer rows; a read-only history drops batches
  during its request; an inactive tab is not brought up to date after a trim; and a rewind or
  trim between the two reads of `history.open` tears it (`torn`);
- `resyncActive` does not look at `hydrating`: where a gap is found before the first answer to
  `hydrateHistory` is in, the answer to the second request replaces the view and the
  first is then appended to it, so that every row is shown twice until the page is
  loaded anew, although the comment above `hydrateHistory` (`app.js:532`) is about
  just this. The properties of the tab except it (`crossed`), and nothing else.

*Works, proxies and discussions.*
- the reason of a rejection never reaches the node that is sent back:
  `reset_node` clears it before `spawn_ready_nodes` reads it;
- a node marked running while the work is stopped is refused by its session and
  stays running (`DispatchInOrder` is about the mark, `CompletionIsReviewed` about
  scenarios without a stop);
- an answer given before the thread that raised the card has handed the session
  back leaves the queue, and its call is refused; the work waits for the next
  continue;
- a child whose session the user spoke to first ends as the node's result
  without having had its task; a stopped child's node counts as done; a crashed
  child wakes nobody;
- an answer from before the delivery that is carried out after it sends nodes
  back and has them run again; a call that registered before a stop and takes the session after the next
  continue runs with its flag set;
- a card pushed after a stop has voided the queue waits for the user; the
  announcement of a head that was answered in between is still sent;
- a stop between `take_single` and the registration of the job leaves the turn running;
  a note to a proxy that generates, is stopped or is not in memory is lost; `closed` is
  overwritten by a stop of the tree (`session-model.md` calls it final); a tree with a
  closed session is refused after earlier sessions were resumed; a creation that fails
  after its commit is made again by a retry; a child committed after a stop of its proxy's
  tree starts; an answer that overtakes the handing back of its session is lost;
- an answer given in the middle of a round waits in memory: a restart loses it, and the close at the limit
  never delivers it; a restart in the middle costs a round, in the opening the rest of it; `derive` keeps
  `closed` after a withdrawal that follows the end of the discussion, and a withdrawal after the plan
  reopens the discussion while the old plan is used again; rows of a withdrawal are not in the live
  discussion; a stopped turn without a verb skips the member for the round; continuing with the card
  of the drafted list open drafts a second one, and continuing between the taking and the disposal of
  the card to begin raises a second one; the first marker of a round reads 2.

*Permissions and tools.*
- commands that come between the two commands of an edit (`Overlapped`) leave a session with
  older rights; a root that is narrowed can refuse the layer of a child, which then is not built;
  a switch of the profile of a seat leaves the collaboration above it in memory as it was
  built (`Quick` holds no seat);
- `grant` with no request is granted though the reach allowed is empty, so a card may be
  raised about a tool outside the face;
- branches of a parallel batch start from copies of one ledger, and taking over a later
  branch can put an older entry over an earlier branch's newer one; an edit counts as
  knowing the whole file; an empty file that is read counts as a part and can never be
  overwritten as a whole;
- a reading that shows only the first 2000 characters of a line is noted as complete,
  where the comment (`tools/service/systool.rs:284`) says "without truncation": an agent may overwrite
  a file whose long lines it saw the beginnings of. `write`, `edit` and
  `apply_patch` read, check and write in separate steps without a lock, so what another writes in between is
  overwritten. `NothingUnseenIsLost` says exactly how far the protection goes: what is
  overwritten was shown (of long lines the beginnings), or came after the call had looked.

*Models.*
- a piece that begins with all of the text so far is taken for a snapshot, and a repeated
  snapshot for a piece; fragments of calls without an index open a slot each; a stream
  without an end mark is taken as complete; keep-alives keep a call alive for ever; the
  endpoint kept is never tried again;
- repair escapes line breaks inside quotes of the prose as well; an odd quote in the prose hides
  a broken envelope, which is then shown as speech; a second envelope after a legal one
  stays in the text; a legal envelope after `{x}` in the prose is said, not run.

*Register and packages.*
- a change whose save failed stays in memory, and a later one writes it without making the choice
  for summaries anew; `apply_discovered` "fills memory only", but the next save writes
  what it filled; two settings forms beside each other lose what neither named; a native
  model may be saved against a provider that changed since the trial; files are truncated
  before they are written; a stop after a failed write can leave a model whose levels the catalogue
  does not have, and the program does not start; removing a model does not look at agents;
- `runtime_report` of a virtual machine diagnoses with the unfiltered library; a build makes
  no check of conflicts; a pin is ignored where the host offers the capability and no package
  is eligible; `build_packages` and sessions ask the image and the library in opposite orders;
  a package that two modules ask for is listed twice.

*Host.*
- two runs of the program that fetch one asset at once write one part file, and the
  asset is torn (`KeptWhole` is about one run); a part that is complete but
  was not renamed is asked for beyond its end and refused each time, and a
  collection may take the part from under a download;
- a resume sends a `Range` and nothing to compare (`provision/service.rs:832`): where an
  unpinned source has changed since, as the `trixie/latest` images do (`links.yaml:51`), the
  file that is cached as whole is joined of two editions. `CacheIsWhole` allows for that, with the
  editions in order, each chunk in its place; a pinned asset is of one
  edition, the pinned one;
- a lock file older than its limit is removed though its builder lives
  (`VolumeIsOwned` is asked of builders younger than the limit); and whoever takes a lock file for a dead one
  - of two waiters the slower, or storage - looks first and removes whatever has its
  name later (`cache.rs:370`, `storage/service.rs:844`). A lock taken in between is removed under a living
  builder, and a second one enters. `VolumeIsOwned` excepts the roots where that
  happened (`raced`), and only those; with two builders, or two
  roots on one volume, a hit need not be true (`TrueHit` is asked of one builder on one root);
- a reset looks for running guests and locks before its thread starts, and the
  purge file of a volume keeps the last module queued;
- a chain that stops between its steps may leave a guest running, and `guest.yaml`
  keeps runtimes proven by an older image;
- overlays planned for removal are deleted though a guest has started on their
  lease since; and `remove_build_volume` looks at the lock once and then unlinks image, note,
  lock and queue: a build that takes the lock in between loses its volume or its lock
  file. `VolumesInUseStay` excepts the builds that took it in that window (`crossed`);
- a baseline entry that is there already is skipped without an owner
  (`confine/windows/mod.rs:225`, `:291`), whoever wrote it: when the last process that is recorded for it dies,
  `reconcile` revokes it under the living ones that only found it, although its comment
  (`record.rs:1256`) says the living are not touched. `AccessKept` is about recorded access;
- the ledger of grants is written in place: a torn file is read as an empty one; a grant that
  fails with residues below, or that cannot be restored, leaves the ledger though the message
  says it is kept there;
- versions 1 and 2 of Landlock do not govern truncation; on Linux one root that is not there breaks
  the whole fence where Windows passes it over; a host root directly below a drive
  gets an entry on the drive, which a comment (`acl.rs:525`) excludes; the sweep of orphaned entries
  stops at the topmost it finds;
- a second run of the program on one home ends the children of the first (`Books` has one);
- a command that a signal ended leaves the code by which the guard refuses
  (`FENCE_FAILED`), and its receipt says it was not executed (`NotRunIsTrue`); a
  user who allows one run without a fence is told it ran so though the guard
  refused it; what a command left in the background keeps the pipes, and the call,
  open without a limit (`CallEnds` of `ToolRun` excepts it);
- a start of a service that has looked at the switches enters its process after
  the module went down (`DownMeansStopped`), and a call that waits for a service
  holds the table;
- an edit or a delete while a guest boots leaves a second machine on the lease,
  and two admissions at once exceed the limit (`OneGuestPerLease` is asked of
  conversations, `WithinLimit` of nothing);
- a call over the channel of a guest is reported as failed though its command
  runs, when the answer with its number is late, and one reported as cancelled
  may run on (`CancelledIsOver`).

## Fairness

In `WorkRun` every thread goes on (`WF_vars` of the calls, of the
holder and of each agent's thread): they are detached threads that wait for
nothing but a model, whose calls have a time limit, or for the session table,
which refuses instead of blocking. That a card of a tool can make an agent wait
for the user is left out with those cards. Nothing is assumed of the user.
In `WorkStore`, `FairSpec` asks only that the operation inside the locks goes on
(`WF_vars(Proceed)`): it is ordinary code of one thread, and `Enter` stands for
the next call on a work in use (every upload begins with `work_recover`, every
operation with `recover_locked`). Nothing is assumed of users, agents or
faults. In `host`, runners and builders go on and time passes (downloads and boots
have time limits; a lock file grows old), a call of a tool goes on and reaches its
limit; the command itself need not end. In `sessions`, a thread whose card has been
answered or voided wakes, a service answers or ends (the code has no limit there, and
this is an assumption about services), the agent of a guest answers at some time
and a kill ends, though the command that was called need not; a reader of a model's stream sees
a stop and gives up on silence, which the read has a limit for. `history` and `agents` state no liveness and have none.

## Proofs

Each theorem is for every value of the constants that its assumptions allow. No invariant
below is inductive as the runs state it; what is carried through the induction was
checked by TLC before it was proved.

**Version store** (`WorkStoreProofs`; any agents, paths, contents, commits, faults).
Facts about the verdict tables first, among them that pulling never overwrites an edited
file and that a commit is refused exactly when both sides changed. Then
`TypeCorrect`, `SharedAlwaysHead` (internal root), `ObjectsAlwaysPresent`,
`ReplayAlwaysCompletes`. The induction runs over `PendingInv` (what
an open transaction guarantees: its commit record is absent or exactly the
logged one, its target exists, every shared file has the old or the new
version), `OperationInv` (what the running operation adds: a commit in
preparation has a number above every existing one, the files already written
have the target version, after a stage its durable write is there) and
`ObjectsInv` (a tree being prepared is stored outside the paths still to be
ingested). `ReplayFiles` is the heart: a replay that starts again from the
record, at whatever write the crash hit, is in the same state as the first
application. `StoreImplementsLine` is the refinement of `SharedLine`, one lemma for
each way an operation can end. `LineAlwaysIntact` and `RewindNeverLoses` rest on `LineInv`
(a commit points to a lower number that is there, unless an open discard drops both),
`EditsAlwaysSurvive` on `CopyInv`, `ExternalEditsAlwaysKept` on `UntouchedInv`, `NoUpdateLost` on
`NumberInv` and `SeenInv` (what a plan is made from has been seen), `PullsAlwaysConverge` on
`UnwrittenInv`. Where a theorem needs more than the constants' types it says so as a
hypothesis: no edits during operations for the edits, and for the external root also no
faults and no forced rollback, which is what the finding `external_crash` shows to be needed.
`HistoryProofs` takes these through the three instances of the `history` run with
`HistoryInv`; what an instance does leaves the others alone.

**Collaboration** (`WorkRunProofs`; any agents, any chains whose stages follow their
dependencies, any bounds). `TypeCorrect`; `DispatchAlwaysInOrder`: the node that starts lies in
the first open stage, `CurrentIsFirst` shows that every lower stage has passed
(`MinExists`, `MaxExists`), and a dependency lies in a lower stage;
`OneNodeAlways`, from the pairwise form `Unmixed`; `VerdictAlwaysCurrent`,
`StopAlwaysReaches`, `StoppedAlwaysSilent`, each inductive together with `TypeOK`. Assumed:
`ScenariosAreSound`, `StagesFollowDependencies`, `BoundsAreNumbers`.

**Life of sessions** (`SessionsProofs`; any threads, cards, requests, trees, machines,
services, processes, nodes, calls, words and endpoints that satisfy `SessionsAssumption`).
`ChainsAreAlwaysSound` is about any chain over any names and members. A loop of the model is a
fold, and a fold is the only function that goes through its steps (`CourseExists`, `CourseIsOne`).
On places both loops do the same: a sweep takes the nodes whose
dependencies are taken (`TakeOffSweepSweeps`, `StageSweepSweeps`). A sweep that
takes nothing has nothing left to take, so that as many sweeps as there are nodes are
enough, and the order of taking is a rank (`SweepsOutCloses`); whatever can be ranked is taken
(`OrderedIsTaken`). So the check is exact, every stage is one above the highest below it, no stage is
above a rank (`StagesAreLow`), hence stages depend on the graph alone
(`StagesAreOne`) and are the lengths of walks (`LongWalkExists`, `WalksAreShort`).
`OutcomeIsAlwaysTheUsers` and `CardsAreAlwaysNew` rest on `DeskAll`: the shape of the queue, who
waits on which slot, and that numbers in queue and transcript are below the next one.
`NothingIsEverLost` rests on `GuestInv` (every living machine is in the table or in exactly
one hand; `TalkInv` adds that a lease that boots has no machine) and `ResInv` (the same for processes of
services). `AnswerIsAlwaysRight` rests on `ChannelInv` (while the stamps agree every answer
under way is of the call that waits), `ModelInv` and `WholeInv` (what has been read is what was said
before the line under way). `SessionsInv` joins them. `TypesAlwaysHold` adds `SessionsFit`: the bounds of
cards and late answers, and that a call of a model has endpoints left to ask exactly while it runs, all of
them its provider's (`CallFits`).

**Host** (`FenceLedgerProofs`, `HostProofs`; any processes, leases, paths, children, pids, builders
that satisfy `HostAssumption`). `AccessIsKept` and `NothingIsLeft` go over `LedgerInv`: the ledger
and the residues of failed writes cover every entry on disk, owners have lived, a granted access
has its owner in the ledger, and what each of prepare, release and reconcile has done so far. Access is what a
process is recorded for; a baseline entry it found there is not (`Skip`). `NothingIsLeft` needs that no
write fails. `FencesAlwaysHold` and `LeftoversAreReclaimed` take them through the two
instances of the run and add `ToolInv` (a call that runs has the parts asked for, or the
user's consent) and `BookInv` (one run of the program: how the children that live, their numbers
and parents, the file and its copy in memory fit together). `BuildsAreAlwaysSound` rests on
`PairInv` (an old lock is a dead one's; where nobody has taken a lock between a look and
its removal, the builder at work is the one named in the lock file, and whoever is about to remove it,
builder or storage, looked at another) and `LoneInv`
(what the state file calls fresh is whole and of the source as it is, and nothing becomes fresh while
a build is under way). `CollectsAlwaysWithCare` rests on `SpaceInv` (one collection at a time holds the
lock, its plan spares the volume of the build it makes room for, and a volume that is being removed is
in use only by a build that took it since the look: `Crossings`), for any stored
items of any sizes: a step deletes no volume in use but of those builds, and that what is planned is enough to
come under the cap, from the least used on, follows from sums that grow with every item taken
and reach what is over (`Total`). `PartsAreKept` is `KeptWhole` but for the commands inside a fence.
For a download without a pin it rests on `FreeInv` (the part is a beginning of what
the note beside it names, in editions that follow each other, and the thread stands where the part ends);
with one, for any number of evictions, on what `Verify` has seen; for the image on `BaseInv`; for the
register on `RegInv` (a change in memory leaves no reference dangling, and the files are those before
it or after it); for packages, whatever the library, on `PlanInv` (whatever a chosen package needs is chosen,
in the queue, or missing and held against the module). `HostInv` joins them all.

**Agents** (`SessionPermissionsProofs`, `AgentsProofs`). `RightsAlwaysHold`: for any seats, shared
paths, tools and layers, a session in memory works with what the metas say now, and none may do
more than its parent. `RightsInv` says that what a session was built from agrees with the metas along its parents,
and what an edit under way is about to save; the other half is pure, that a narrowing never
widens (`AppliedNarrowing`, `NoWider`). Its hypotheses are the predicate `Sensible`: paths
are below each other transitively, `Overlapped = FALSE`, no seat among `Quick`; the first is
proved for paths as sequences, the others are the differences named above. The other theorems
need `AgentsAssumption`, `FamilyAssumption` and `CircleAssumption`.

`FilesAreAlwaysSafe`: for any files, calls and batches, with others writing between any two steps: what is
overwritten as a whole was shown to the agent from the first line to the last, or left there by it,
or came there after the call had looked; of lines over the limit "shown" means their beginnings. A
patch writes only when all its blocks have held, and then all its files unless a write fails.
`ToolsInv` says that the ledger and every copy of it name only contents the agent has been shown (`Evident`),
that a call that has come to writing has found what the checks held of (`Held`), and what has
been agreed to is of this batch or turn (`Consented`).

`AgreedAlwaysRuns` joins three arguments. For the calls of a reply it is `Consented`. For a proxy
with any children and requests it is `FamilyInv`: a thread that works has a flag, and is with
a session that is neither new nor closed (`FamilyHands`); what was made by an id is
what the handler remembers of it, and it remembers nothing of the id being answered
(`FamilyAnswers`); and after a stop of the proxy whoever works has its flag raised, is still to be
reached by the stop under way, or was beyond its reach (`FamilyStill`). For a discussion of any number
of members, rounds and reminders it is `CircleInv`. Consent is a matter of the record (`Told`), because
the object in memory is lost in a crash while its plan is not; the object goes by the
record (`Matches`), which needs that no vote waits to be sent (`Behind`); and the reminders of whoever
is silent are those of the member at the cursor, in this round (`SameTurn`, `Asking`). In the
middle of a turn a vote is written and not yet counted, which `Due` says; the operators of the
pump take one of these to the next (`FedKeeps`, `AdvanceKeeps`, `PumpKeeps`, `AbsorbedKeeps`,
`UnansweredKeeps`). `VotesAlwaysTheRecord` is a consequence of the same.
`EveryoneIsAlwaysHeard` adds that whoever the cursor has passed in this round was heard (a conjunct
of `CircleInv`) and follows it through a turn: `Passes` says that from one discussion to the
next the cursor goes past nobody but the member of the turn, or ends the round with nobody left
(`PassesThen`, `NoRoundEnds`, `TurnBecomes`). `AgentsInv` joins them all.

General theorems are used for instances by way of INSTANCE: an assumption of the module
that is instantiated would have to be proved there, so those modules state what they need as a
predicate or a hypothesis, and the module of the run proves it from its named assumption, which
TLC evaluates with the constants of the run.

**Only model-checked.** Liveness (`PendingSettles`, `NobodyHangs`, `JobsEnd`,
`CompletionIsReviewed`) is outside the prover. The part of `KeptWhole`
about commands inside a fence computes folds over data. `SessionIsItsTranscript` but for the votes, `PromptIsWhole`, the half of `RoundsAndRewinds` about
rewinds (folds of a transcript), and the `TypesHold` of `host` and `agents` have no
proof yet. In the theorems about a discussion the list of members is the user's; the small instance whose
list the core drafts is only model-checked.

## Not modelled

`components` in `PROJECT.json` has the state of every part. Outside the models are: views,
quotas and assets of the workspace; templates of prompts; secrets; string functions,
archives and logs of the kernel; the command line and the web pages but for what a tab
does with events; assembly, launcher and demos. They keep no state over several
steps, or are formats and wording. Of modelled parts the notes there say what is left out;
the largest piece with state is the making and removal of a work: its name, the
phases of its creation, its two-phase deletion.

## Plan

1. `WorkLife`: names, creation in phases, deletion in two, with crashes between them and
   names that error paths leave reserved.
2. Proofs of the safety invariants that are only checked: a session and its transcript, the tab that shows it.
