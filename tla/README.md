# A verification development for GoreGraph

GoreGraph scans a workspace of projects, writes one output directory per
project and one for the workspace, and serves them to a command line, a
watcher, an MCP server and a dashboard, all of them separate processes over one
file system. This directory holds TLA+ models of the parts whose correctness
depends on the order in which those processes do things, TLC configurations
that check them on small instances, and TLAPS proofs for every size.

## 1. The system

| Component | State | Operations | Interacts with |
|---|---|---|---|
| `internal/outputstore` | per root: output directory with a generation marker, journal file, stage and backup directories, snapshot lock file, writer lock file | `Update*`, `Recover`, `WithReads`, `PreparePrivate` | every writer and reader of outputs; other processes through the lock files |
| `internal/scan` publication (`workspace_publication.go`, `output_recovery.go`, `output_read.go`) | none of its own | chooses the roots one call publishes, recovers or reads | outputstore |
| `internal/scan` reconciliation (`workspace_reconcile.go`, `workspace_update.go`) | captured input generations, fingerprints | capture under a shared read, compute, validate, publish | outputstore, extractors |
| `internal/scan` extractors and projections | none | source text to records | reconciliation |
| `internal/watch` worker and run lock | lock directory with owner token and heartbeat, stop request file, status file, last fingerprint | acquire, take over, heartbeat, poll, rebuild, release | scan, supervisor, editor |
| `internal/watch` supervisor | worker process, restart back-off, supervisor lock | start, adopt, wait, restart, replace, stop (`Supervise`, `RequestStop`) | worker |
| `internal/mcp` | unread request bytes, executable identity | frame requests, answer, replace the executable | scan outputs |
| `internal/gitupdate` | repositories outside the program's control | inspect, fetch, inspect again, switch, fast-forward, report | git, the user's own edits |
| `internal/scan/workspace_dashboard_config.go`, `internal/dashboardeditor` | configuration file with a revision, its lock file, a session token | load (`getConfig`), save against a revision (`putConfig`), serve the dashboard and its assets | scan, outputstore |
| `internal/cli` | heartbeat of a running build | commands | everything above |
| query, trace, agent, answercheck | none | read-only ranking and rendering | scan outputs |
| doctor, bench, metrics, guide, config, gitignore, testresults | none shared | sequential | - |

What is hard: the file system is shared by processes that die at any
instruction; a multi-directory publication is not atomic on disk; locks are
advisory and are released between the shared and the exclusive phase; recovery
decides before it locks; a rename or a flush may report failure after it took
effect; projects are moved by their owners between any two calls.

What makes each part correct:

* outputstore: a multi-root publication takes effect at once or not at all, the
  last good output is never lost, every interruption can be repaired, readers
  see the state of one moment, nothing blocks.
* reconciliation: what is published was computed from inputs that are still the
  published ones at commit.
* watcher: at most one worker per workspace; every change of the sources is
  eventually built; a stop request is honoured and cleans up.
* supervisor: a worker that dies is restarted, one that is asked to stop is not.
* MCP: every request is answered once, also across a replacement.
* gitupdate: never loses local work, never reports what it did not do.
* dashboard configuration: no save overwrites another without having seen it.

`PROJECT.json` lists the hazards at their lines, the map from definitions to
source lines, the runs, the mutants and the theorems.

## 2. Modules

| Module | What it is |
|---|---|
| `OutputStore` | the protocol of `outputstore`: one action per step between two file-system operations that another process can see |
| `AtomicPublication` | what a user of the outputs is promised: an update changes all its roots in one step, a read is a snapshot |
| `OutputStoreProperties` | invariants, action properties, liveness, and the refinement mapping from `OutputStore` to `AtomicPublication` |
| `MCOutputStore` | the requests of the checked instances |
| `OutputStoreProofs`, `OutputStoreRecoveryProofs` | theorems about `OutputStore`: types, locks and what the locks protect; what publications leave behind, and the refinement |
| `WatchLoop` | the rebuild loop of one watch worker of a project: its checks, the quiet period, retries, and the passes of an update over the files |
| `WatchLoopProperties`, `MCWatchLoop`, `WatchLoopProofs` | what the loop promises, its instances, theorems |
| `RunLock` | the run lock, the heartbeat, the stop request and the release of the workers of one root, one file operation at a time |
| `RunLockProperties` | what the lock promises |
| `RunLockWindows` | `RunLock` with a history variable that says where anybody acted on a look at the files that was out of date, and what holds until then |
| `MCRunLock`, `RunLockProofs` | its instances, theorems |
| `Workspace` | the commands `build`, `workspace refresh` and `workspace update` over the published projects and the overlay |
| `WorkspaceView` | what reconciliation promises: the overlay is a view of the published projects |
| `WorkspaceProperties`, `MCWorkspace`, `WorkspaceProofs` | the refinement of `WorkspaceView` and the other properties, the instances, theorems |
| `Supervisor`, `SupervisorProperties` | the supervisor of a watched root, its worker, and who starts and stops them |
| `GitUpdate`, `GitUpdateProperties` | the update of one repository beside its user and others |
| `DashboardConfig`, `DashboardConfigProperties` | editors of the dashboard configuration |
| `McpStream`, `McpStreamProperties` | the input of the MCP server and the hand-off of unread bytes |
| `MCServices` | instances of the last four, which share no state |

How they fit together. `AtomicPublication` is what `OutputStore` is shown to
implement; `Workspace` stands on it: a publication and a read of a set of
outputs are one step there. `WorkspaceView` is in turn what `Workspace`
implements. `WatchLoop` models the passes over the files that `Workspace` counts
as one comparison of versions. `RunLock` models the lock between workers that
`Supervisor` only judges by its freshness.

### OutputStore and the code

A process runs one call at a time. `pc[p]` is the position in that call and
`task[p]` its local variables; `lock[p]` the lock files it has locked.

* **Roots** are numbers because `normalizeRequests` sorts canonical paths and
  every loop over entries and every lock acquisition follows that order;
  `IsFirst` and `IsLast` pick the next entry of a forward or backward loop.
* **Directories** are abstracted to their generation marker. `Torn` is a
  directory an interrupted copy or removal left, `Absent` none.
* **A journal file** is a record of generation, state, roots, coordinator
  (`lead`, the first root) and previous generations. `writeJournal` and the
  removal of a journal may fail with the rename done or not done (`WriteFails`).
* **UpdateMany**: `Start`, recovery of every root (`recover` ...), writer locks,
  shared snapshot locks, inspection, `Prepare`, `Stage` per root, `Validate`,
  exclusive locks, `Recheck`, `Persist` per root, `Publish`, `PromoteBackup` and
  `PromoteStage` per root, `Commit`, then the clean-up `VerifyCommitted`,
  `VerifyCleaning`, `Clean` per root, `Finalize`, `Retire` per root. A failure in
  promotion goes to `Undo` (rollback), one before it to `Discard`, one while the
  journals are written to the prepared clean-up.
* **Recover**: journal read without a lock, decision read without a lock, locks,
  everything read again (`RecoverRecheck`), then the repair the decision calls
  for. The same clean-up actions serve recovery and the publishing process;
  `mode` says who called and so what is returned.
* **WithReads**: waiting for the first build of a required output, shared locks,
  the check for pending journals, the reads in any order, the return.
* **Environment**: `Crash` (the locks go, the files stay), `Cancel`, `MoveAway`
  and `MoveBack` of a project directory nobody works in.

Several operations are merged into one action when no other process can tell
them apart: the steps of copying one root under its locks, the reads of a
verification made under exclusive locks, the deferred releases of all locks at a
return.

### WatchLoop and the code

One worker (`runWithProgress`, `fingerprintUntilStopped`) and the project update
that `cli/watch.go` gives it. A fingerprint is a digest of contents, so it is
modelled by the tree it digests. The user edits at any moment, and every pass
over the files reads one file per step (`ReadFile`, in the order of the walk).

* **Loop**: `current`, `previous` and `pending` are the variables of the code,
  `quiet` stands for `time.Since(changedAt) >= quietPeriod`, `retry` for
  `retryAt` (zero, in the future, passed). `first` marks the check before the
  loop, whose update runs without a quiet period and whose value becomes
  `previous` even when that update fails. `Decide` has one disjunct per branch.
* **Update**: `plan` (`ProjectUpdateNeeded` against the index of the output),
  `extract`, `verify` (the second pass of `RunBuildWithOptions`), `validate` (the
  third, inside `Validate` of the publication), `publish`. The publication itself
  is `OutputStore`'s; here it succeeds or fails in one step, and the update may
  still fail after it. `lived` is a history variable: the trees there have been
  since the build began to extract.
* **End**: a stop request, a cancelled context or a lost lock (`stop`); each is
  noticed by the ticks and checks that look for it, and `apply` refuses to update
  without the lock. A check that completes beside a cancelled context may win the
  `select`.

### RunLock and the code

The workers of one root, in processes of their own, over three files:
the lock directory (`lock`: the owner file in it and whether its time stamp is
older than `heartbeatLimit`), `runtime.json` (`runtime`) and `stop.request`
(`request`). A token is the worker's name, because every start draws a new one.

* `Mkdir`, `Judge`, `Aside`, `MkdirAgain`, `WriteOwner` are `acquireNamed`;
  removing the renamed directory has no effect on the three files. A new entry in
  a directory renews its time stamp, overwriting a file in it does not.
* `Announce` and `AnnounceWrite`, `BeatCheck` and `BeatWrite`, `Final` and
  `FinalWrite` are the two halves of `publish`: it looks at the owner and then
  writes. The heartbeat runs beside the worker until `StopHeartbeat` has waited
  for it.
* `Tick` ... `FinishUpdate` reduce the loop to what it does with the lock and the
  request; `WatchLoop` has the rest.
* `Release`, `DropOwner`, `DropDir` are the deferred release; `Reap` ... `ReapDir`
  the supervisor's `releaseExitedWorker`. Removing a directory fails while
  somebody's owner file is in it.
* `Lapse` and `Age` let the two deadlines pass. A live worker meets them, unless
  its machine is suspended (`MaxPauses`).

The processes of the same root are started by the command line, the supervisor
or the login entry; the model lets each worker try until it gets past the lock.

### Workspace and the code

Every process runs one command at a time (`pc`, `task`, as above). What a project
says is the version of its sources; an index is the version it was extracted
from; the configuration is a version, too. The overlay (`ws`) is what its
manifest records: the identity of its inputs (`ident`), the configuration its
layout was made with (`layout`), and for each of the two projections the
fingerprint it carries (`print`) and what its files were really made from
(`files`, a history variable: the manifest cannot know it).

* **Planning** (`Plan`, `Check`): `ProjectUpdateNeeded` project by project, each
  under a read lock of its own; then `OverlayCurrent` is the check of
  `workspace_identity.go` that there is nothing to do, and the last comparison of
  the sources before "up to date" is returned.
* **A project** (`Extract`, `Compare`, `LockProject`, `ValidateProject`,
  `PublishProject`): `RunBuildWithOptions` reads the sources, reads them again,
  and once more in the validation under the lock. A staged project writes to the
  update's private stage instead of publishing.
* **Reconciliation** (`Load`, `ReadInputs`, `LockOutputs`, `Validate`, `Publish`):
  the configuration is loaded before the shared locks; the identity, the
  generations and the previous manifest are read under them; `InputsUnchanged` is
  `validateInputs` under the writer locks. `Reconciled` is the manifest that is
  written: a projection that was not asked for keeps its files and its
  fingerprint.
* **Environment**: `Interrupt` (a crash, a cancellation or a failed file before
  the commit), `Edit`, `SaveConfig`.

`workspace build all` is a project build for each project followed by a refresh,
so it is a sequence of commands the model has.

### Supervisor and the code

`pc` walks through `supervise`: `Resume` looks for a stop request that the
predecessor got while it handed over, `Acquire` and `Announce` take the lock and
write `supervisor.json`, `Adopt` finds a worker that outlived its supervisor.
The loop is `Poll` (the request file), `Act` (end, drain, start or watch: one
disjunct per branch), `StartWorker`, and one arm of the `select`: `Reap` or
`Tick`. `LastWord` and `Release` end it, as "stopped" or as "upgrading", which
continues at `Resume` as the new executable. `known` is the handle on the worker:
a child is reaped and its lock released, an adopted worker is watched through its
status only. A look at that status can fail (`Unreadable`): at the start it ends the
supervisor (`AdoptFails`), while the worker is asked to end it is repeated (`Drain`),
and while an adopted worker is awaited it counts as the worker's end
(supervisor.go:347). A child that is then started beside the live worker is `second`:
at the run lock it ends with an error, or becomes the worker if the lock is free by
then (`SecondStep`). `Ask`, `WriteRequest` and `RequestWorker` are `RequestStop`, which
reads `supervisor.json` and writes the request later.

Assumed: an exec, and the start of a worker up to its first heartbeat, take less
than the heartbeat limit (`SupervisorExpires`); one supervisor process at a
time (a second one is what `RunLock` is about); the service manager restarts a
supervisor that failed (the restart settings that `autostart.go:299-303` writes).

### GitUpdate and the code

`Inspect`, `Fetch`, `InspectAgain`, `Switch`, `Merge`, `Final` are the phases of
`executeUpdate`, one git command, or the commands of one inspection, per step.
A commit is the set of changes in its history. `Refused` is the list of reasons
of `inspect.go`; `Switch` and `Merge` have the conditions git itself checks: they
act on wherever HEAD is by then, not where the inspection saw it. The user
commits, edits, switches, detaches or begins an operation between any two steps;
others push, force-push or rename branches at the origin.

### DashboardConfig and the code

`Load`, `Edit`, `Acquire`, `Compare`, `WriteTemp`, `Rename` are the load and the
steps of `SaveWorkspaceDashboardConfig`; the revision is a hash, so it is modelled
by the content. `Return` is the deferred release, which may report a failure after
the file was replaced. `ByHand` is another program that changes the file without
the lock.

### McpStream and the code

`serveStream` in four server steps: `Checkpoint` (the replacement check between
requests, and the exec with what is unread), `Answer` (one line), `Read`,
and the ends (`EndOfInput`, `TooLong`). Characters are their positions in the
input, so an answer shows exactly which bytes it answers. `Room` is the limit on
the next read, which keeps what is unread within a hand-off.

### Properties

* `AtomicPublicationSpec` (refinement): the abstract output of a root is its
  directory, except that a root under promotion counts as its previous
  generation until the coordinator's journal says `committed`. Every behaviour of
  the protocol, with crashes, failures, rollback and recovery by any process, is
  then one in which updates happen at once and readers see one moment.
* `LastGoodKept`, `NothingTornPublished`, `StagesIntact`:
  what recovery relies on at every moment.
* `InterruptedIsRepairable`: in every reachable state a
  pending publication nobody works on passes all the checks its repair makes.
* `OnlyOvertakenUnrepairable`: the same of every publication from its first journal
  on, with its two exceptions spelled out: a root without a journal of it was
  meanwhile changed or journalled by a publication of other roots (finding 1), or a
  project was moved and the coordinator's record is gone.
  `StartedIsRepairable`, which it implies, is the part without exceptions: once every
  journal is written the publication stays repairable.
* `ReadsStayCurrent`: what a read callback has read stays what is published as
  long as the callback runs.
* `ChangesUnderLock`: nothing changes at a root without its exclusive lock.
* `ResultsHonest`: nil means published and cleaned up; a plain error means no
  root shows the new generation.
* `LockExclusion`, `CallsReturn`, `ReadsReturn`, `EventuallyResolved`.

Of the rebuild loop:

* `PublishedStateExisted`: no output mixes an old and a new file.
* `NothingOwed`: when the worker is idle, sees no difference and has nothing to
  repeat, the output was made from what is in the files.
* `EventuallyBuilt`, `ComesToRest`: what lasts is built, and then the worker rests.

Of the run lock:

* `OneUpdate`: the exclusion the lock is for. It is false (finding 3).
* `OverlapIsOvertaken`, `StaleIsUnused`: what is true instead. Two workers update at
  once only after a rename or removal hit another directory or owner file than the
  one looked at (watch.go:777, :797-799, supervisor.go:334-337), or a dead worker was
  marked over its successor's heartbeat (supervisor.go:330), or a live worker slept
  through a deadline; and until then no lock that looks stale is in use.
* `LossEndsWorker`, `StopHonoured`, `RunningIsReported`, `NewStartSucceeds`: the
  liveness of the three files, whatever died and left what behind.

Of the workspace:

* `ViewSpec` (refinement of `WorkspaceView`): however long a reconciliation
  computes, it replaces the overlay only by a view of what is published then, and
  nothing goes back to older sources.
* `ProjectionsHonest`: no fingerprint vouches for files made from other inputs,
  also when two refreshes of different projections overlap.
* `SuccessCovers`: a command that returns success covered what was there when it
  began, also one that found nothing to do.
* `EventuallyCurrent`: with somebody who keeps updating, every interruption and
  conflict is made up for.

Of the services:

* `NoneLeftBehind`: no worker beside another one, none left behind by a
  supervisor that ended or replaced itself. `RequestHonoured`: a request that
  names the supervisor ends it, also in the middle of a replacement.
  `EventuallyServing`: the watcher ends up running the installed executable.
* `FastForwardsOnly`, `ReportTrue`: what the update may do to a repository somebody
  is working in, and that it does not report what it did not do.
* `NoLostSave`: what a save replaces, its editor had seen. Between the
  comparison and the rename a change by hand can still be lost: the code locks
  out editors, not other programs.
* `AllAnswered`: every request once, whole and in order, across replacements.

## 3. Runs

| Run | Instance | States | Shows |
|---|---|---|---|
| `outputstore_workspace` | 2 processes, roots {1,2}; one updates both, the other updates, recovers or reads both; 2 generations, 2 faults | 268,000 | all safety properties and the refinement |
| `outputstore_moving` | the second process updates, recovers or reads one root or both; 1 fault, 1 move of a project | 449,000 | refinement and `OnlyOvertakenUnrepairable` with overlapping sets of roots and entries left out |
| `outputstore_recovery` | an updater, and somebody who recovers or reads an output that may not exist yet; 1 fault, fairness | 84,000 | `CallsReturn`, `EventuallyResolved`, `ReadsReturn` |
| `outputstore_overlap_repair` | an update of both roots beside an update of the second, 1 fault | | violates `InterruptedIsRepairable` (finding 1) |
| `watchloop_fresh` | 2 files, 2 edits with new contents, 1 failure, a worker that may be ended | 45,600 | all properties of the loop |
| `watchloop_reverted` | 1 file, 2 edits that may restore a content | | violates `EventuallyBuilt` (finding 2) |
| `runlock_workers` | 2 workers, one supervised, a left-over lock, 1 crash, 1 missed deadline, 2 stop requests | 148,000 | all properties of the lock |
| `runlock_two_updates` | 2 workers and a left-over lock | | violates `OneUpdate` (finding 3) |
| `workspace_commands` | 2 projects; 2 processes with builds and refreshes, one of them also with updates; 2 edits or saves, 1 command besides the updates, 1 interruption | 193,000 | all properties of the workspace |
| `workspace_layout` | the same with 1 edit or save and no interruption | | violates `LayoutIsIdentity` (finding 4) |
| `services` | the four services below, one per behaviour | 364,000 | all their properties |
| `supervisor_stop` | the supervisor, 1 installation, 1 stop request, no crash | | violates `StopCarried` (finding 5) |

Bounds of `OutputStore`. `MaxGen` bounds the transactions prepared: two are
enough for a transaction to meet the remains of another, which is what
generations are compared for. `MaxFaults` counts crashes, cancellations and
failed operations: two allow a crash and a failure during the recovery from it;
the liveness run has one, which may hit the update or a recovery. `MaxMoves`
bounds how often a project is moved away. Two roots are the smallest set with a
coordinator and a peer; two processes interleave every pair of calls.
`StartUpdate` asks for a free generation, so no process is ever stuck at the
bound.

In `WatchLoop` two files are the least a pass can see torn, and two edits are
one before and one during an update; one failure may hit any check or update,
and the loop keeps no count of them. Edits write contents that were never there
(`Reverts = FALSE`) except in `watchloop_reverted`, and the theorems say where
that matters. `MaxEdits` also stops the user in the end: a worker whose sources
never rest need not rest either.

In `RunLock` two workers and a lock left by a third one (`Leftover`) are two starters
that judge the same stale lock, and an owner and a successor that meets every state
the owner can leave. `MaxPauses` lets a live worker miss a deadline, as it does
when its machine sleeps. A lock with a time limit cannot exclude then, so the
exclusion properties and `StopHonoured` speak of the time before the first such
miss, and `StopHonoured` of the time before a lock was renamed away from its owner;
`LossEndsWorker`, `RunningIsReported` and `NewStartSucceeds` hold after it too. Two
stop requests are one for each worker.

In `Workspace` updates are not counted, `MaxJobs` bounds the other commands, one
of which may run beside an update in any order. Two changes are one before and
one during a command; a project without an index and one that is built
beside the reconciliation are both reached with two projects.

The services share no state, so a behaviour of `services` runs one of them and
the others stay at rest. The supervisor gets three executables, the third one
incompatible, with one installation, two crashes, of the supervisor or the worker, and
one stop request: the second crash hits the recovery from the first. One look at
the worker's status fails (`MaxFaults`). With two failed looks `EventuallyServing` is
false: when asking an old worker to end fails and the next look counts as its end, the
supervisor asks it no more and goes on starting children beside it, each of which
the run lock refuses, until the old worker ends by itself. The git update starts from a clone
whose user may be on a branch of his own with or without unpublished commits,
among three branch names ("main", "master", "work": the two defaults and another)
and meets two steps of the user or of others. Two editors and three saves or
changes by hand with two contents: enough for a save based on a revision that
comes back. The MCP server reads two inputs of eight characters, at most two per
read, keeps at most three and is replaced twice: lines are cut at every place,
and one of the inputs has a line that is too long.

Fairness. `FairSpec` of `WatchLoop` schedules the worker and lets the quiet
period and the retry interval pass; of `RunLock` it schedules every process,
lets the deadlines pass that nobody alive has to meet, and has somebody go on
starting a worker that wants to run. Nothing is assumed of edits, failures,
crashes, pauses and requests.
`CallsProceed` of `OutputStore` is weak fairness of the steps of a running call: a
process that is scheduled takes its next step, and a lock that is polled is
taken if it stays free. Nothing is assumed of crashes, faults, cancellations,
moves or of anybody starting a call, except that `RecoverySpec` has somebody who
goes on asking for recovery. A stream of readers that never leaves a gap can
hold off a writer for ever: the code polls and has no queue. `CallsReturn` and
`EventuallyResolved` therefore have the premise that reading ends
(`ReadingEnds`); `ReadsReturn` has none. `FairSpec` of `Workspace` schedules the
commands and has somebody go on asking for updates, as a watcher does. Of the
supervisor `Fairness` schedules the processes, lets back-offs and heartbeats run
out and restarts a failed supervisor; two of the assumptions are strong: the
`select` does not ignore the end of the worker for ever, and a worker that was
asked to end does so between two updates. Of the MCP server only its own steps
are assumed, not that the client writes or closes.

Deadlock is checked in all runs but the two of `MCServices`: a git update is done
once, the MCP server ends with its input, a stopped watcher stays stopped.

## 4. Findings

1. `persistPrepared` (store.go:748) writes the journals one by one. A process
   that dies after the coordinator's leaves a peer without a journal; an update of
   the peer alone is then accepted, and from there on every `Recover` of the
   coordinator fails at `verifyPrevious` of the peer. Once all journals are
   written this cannot happen (`StartedIsRepairable`).
2. After a successful update the loop sets `previous = current` (watch.go:719),
   the check that started the update, although the update reads the files again
   and may have built a later content. When that content is undone before the
   next poll, the fingerprint is `previous`, and the output made from the passing
   content stays until another edit or a restart.
3. Two workers that start beside a stale lock both judge it stale. The slower
   one renames away whatever directory is there by then (watch.go:777), also the
   faster one's new lock, and both update at once.
4. Reconciliation loads the dashboard configuration for the layout
   (workspace_reconcile.go:82) before it computes the identity of its inputs from
   the same file. A save in between enters the identity only: the overlay is
   published with the old layout and found current ever after.
5. A stop request names a token, and a replaced supervisor has another one. It
   looks for a request for its predecessor once (supervisor.go:160); one written
   later is never read, and the watcher goes on.

Seen while modelling, without a run of its own: recovery of a prepared
publication may leave out a peer whose project has moved and still retire the
coordinator's journal (store.go:1164), so that the project comes back with a
journal that has no coordinator; and `release` of the run lock looks at the owner
and removes in separate steps (watch.go:797-799), so that a worker that takes the
lock over in between loses its owner file and ends (`LossEndsWorker`).

## 5. Proofs

`OutputStoreProofs` proves, for every number of processes, roots, transactions
and faults, from the assumptions of `OutputStore` only (roots are a finite set of
naturals, the bounds are naturals, the markers are distinct from generations and
journals):

* `TypeCorrect`: `Spec => [](TypeOK /\ TxnInHand)`. `TypeOK` alone is not
  inductive: a step that works on `task[p].txn` needs it to be a journal, so the
  invariant carries `TxnInHand`, that every program counter of such a step comes
  with a record. The lemmas say what the helpers leave typed (`LoopLocal`,
  `RecoveredLocal`, `RecordLocal`, ...); the step lemmas go action by action.
* `LocksExclude`: `Spec => []LockExclusion`. Six actions take a lock, each when
  nobody holds it in a conflicting mode (`AcquireKeepsExclusion`); all others
  keep or drop locks (`OthersRelease`, `ReleaseKeepsExclusion`).

* `LocksGuardChanges` (`ChangesUnderLock`), `ReadersUndisturbed` (`ReadsStayCurrent`),
  `StagesStayIntact` (`StagesIntact`) and `NoTornOutput` (`NothingTornPublished`): what
  the locks protect. They are four consequences of one invariant, `IInv`.

The parts of `IInv`:

* `Holding`: which roots each call is about at each step (`Scope`) and which of
  their locks it has (`Locked`). Every step keeps it for its own process, and no
  step touches another process's locks or variables (`OnlyOwn`). With it, every
  write is to a root whose lock the writer holds (`WritesUnderLock`), so that
  lock exclusion carries the rest past the steps of others.
* `Reading`: what a reader has read is what is published. It needs `Present`, that
  no project is moved while a reader or an update works in it: a journal out of
  sight is no journal to the reader's check.
* `Staged`: which stages of an update are complete. The exclusive lock alone does
  not protect a stage, because a recovery takes only that one while the owner
  still prepares under the writer lock; it reaches stages by the generation in
  a journal. Hence `Fresh`, that the generation of a preparing update is in no journal
  and no other hand, which in turn needs generations to be drawn in order (`Records`).
* `Undoing`: the backups a rollback restores are what the record says was found,
  and `Records` says that what was found was complete. With `Staged` this leaves
  no way for a torn directory to reach a root.

`OutputStoreRecoveryProofs` proves what publications leave behind, from the same
assumptions: `LastGoodOutputKept` (`LastGoodKept`), `StartedPublicationsRepairable`
(`StartedIsRepairable`), `ResultsAreHonest` (`ResultsHonest`) and `PublicationIsAtomic`,
that `OutputStore` implements `AtomicPublication`. They follow from a second invariant,
`RInv` (`RecoveryInvariantHolds`), which TLC checked on the instances of `workspace`,
`moving` and `overlap` before it was proved:

* `Coordinated`: what the coordinator's journal says is true of every root of the
  transaction (`Entry`). "publishing": each root has its journal and is somewhere
  between the old and the new output, in one of the positions a rollback accepts;
  "committed", "cleaning": each root has its journal and the new output; "prepared":
  each root that has a journal of the transaction has the old output and no backup.
  This is all that is left of a call that crashes.
* `Working`: what a running call relies on at its step: how far its loop has come
  (`Place`: old, absent or new at the roots before and behind it), which journals are
  written (`Journalled`), what it has in hand (`Local`) and for whom (`Purpose`). A
  crash drops it; a recovery re-establishes it from `Coordinated` once it has the
  locks. The steps of others keep it because they write only what they hold
  (`WritesEntries`).
* `Beside`, `Ages`, `Unseens`, `Finals`: a repair does not mistake the files of one
  transaction for those of another. A journal lies at a root of its transaction; what
  a transaction found is older than itself, so that old and new differ; a generation
  that is not journalled yet is nowhere else; a transaction that is finalized stays
  so, and a late recovery that still has an earlier decision in hand cannot revive it.

The refinement takes the abstract step from the commit record alone: `RecordsPublish`
shows that it changes `Current` at all roots of the transaction and no other step does
at any (the renames are hidden by "publishing", the removal of the journals by the
files being in place), and `ReadSees` that a reader's view is the state of its
return. For `ResultsAreHonest`, `UpdateReturnsFrom` finds the steps a result can come
from: nil only from the removal of the last journal, a plain error only where the
directories have been checked or the transaction was never written.

`InterruptedPublicationsRepairable` is the complement of finding 1. `InterruptedIsRepairable`
is false in general, by that finding and by the peer that is left out while its
project is moved (section 4), so it is only checked, where all updates have the same
roots and nothing moves. What is proved, for overlapping sets of roots and any number
of moves, is `OnlyOvertakenUnrepairable`: these are the only two ways. A root that
is changed in between is named by the state itself (`Overtaken`: it has no journal
of the publication, and another publication's journal or another output than was
found). The invariant `PInv` adds to `RInv` that a record's
coordinator is its first root (`Formed`) and its generation no other record's
(`Unique`); that a root of a prepared publication without a journal of it has nothing
in this publication's backup (`Unfollowed`); and, as long as no project was moved
(`Unmoved`), that the coordinator's journal is written first and removed last (`Led`,
for which `Removed` says how far a retirement has come).

`WatchLoopProofs` proves, for every finite non-empty set of files and any number
of edits and failures:

* `TypeCorrect`: `Spec => []TypeOK`, inductive as it stands.
* `PublishedExisted` and `OwesNothing`: `PublishedStateExisted` and
  `NothingOwed` hold always, as long as no edit restores an earlier content
  (`Reverts = FALSE`). Contents then only grow, and the invariant `Ordered` says
  that what the worker answered, checked, extracted and reads now lies file by
  file in that order below what is in the files. From it, `Lived`: during the
  second pass there is a moment of the build between what was extracted and
  everything read so far, so two passes that agree are that moment. And `Paid`:
  an update makes the output from a tree between the check it answers and the
  files; if these two are the same, so is the tree. Without the assumption two
  passes can agree on a mix (a file that changes and changes back between any two
  reads), and the second theorem fails by finding 2.

`WorkspaceProofs` proves, for any finite non-empty set of projects, any processes,
commands and bounds, `WorkspaceTyped`, `ProjectionsAreHonest`, `OverlayIsView` (the
refinement of `WorkspaceView`) and `SuccessIsCovering`. The inductive invariant
says of each process what its step entitles it to: `Control` and `Locks`, which
step goes with which kind of command and which writer locks it holds; `Prepared`,
that what it is about to publish of a project, or has in its stages, is not older
than what is published and not newer than the sources; `Inputs`, that inputs
validated under the locks are the published ones; `Progress`, that what it has
covered so far is at least `since`. Another process's step cannot touch any of this
(`Undisturbed`), because it changes only outputs whose writer lock it holds.
Generations are what makes `ProjectionsHonest` inductive: if the overlay's generation
is still the one that was read, the previous manifest is the published one.

`RunLockProofs` proves `TypeCorrect` for any number of workers, and
`OnlyOvertakenOverlap` (`OverlapIsOvertaken`) and `StaleLockIsUnused` (`StaleIsUnused`) for
any number of workers, crashes, missed deadlines, supervisors and stop requests and
for any leftover lock, without further hypotheses. `OneUpdate` itself is false there
(finding 3). What the
theorems say is that finding 3 and its relatives are all there is: exclusion is lost
by nothing but a step that acts on a look at the files which no longer holds. The
history variable `overtaken` records where one was taken. It is stated of the step, by
what the step hits, not by its consequence. The invariant (`ExclusionHolds`):

* `Founded`: from the directory it created to its last word, the files are as the
  holder of the lock has made them. The lock is its own, young while it starts, and
  its heartbeat is fresh while it works; so nobody finds it free or stale
  (`FoundedNotStale`). This needs `Silent`, that nobody writes a heartbeat before it
  has the lock.
* `Held`: this is true of every holder as long as nobody was overtaken and no live
  worker slept through a deadline (`pauses = 0`): `Lapse` and `Age` are the steps that
  could break it.
* `Mutual`, from which exclusion follows: two workers are never both between the lock
  and the last word, because the second one could only have made the directory while
  it was not there, which `Founded` rules out.

`ServicesProofs` proves the properties of the four components of `MCServices`, each for
its own specification and for any bounds.

* The dashboard configuration: `NoSaveIsLost`, for any number of editors, from
  `OneEditor` (an editor between its comparison and its rename holds the lock,
  alone) and `Compared` (the file is then still what it loaded, unless changed by
  hand).
* The git update: `ReportsAreTrue` and `OnlyFastForwards`, for any set of branches and
  any number of steps of the user and of others. From the second inspection on
  the invariant carries what was inspected and is still so as long as the user did
  nothing (`Inspection`), that after the switch HEAD is at the default branch unless
  the user switched (`Switched`), and after the merge that it contains the fetched
  commit (`Merged`). The hypothesis `BranchesSuit` says that "main", "master" and what
  origin/HEAD names are branches, and that the empty string, which stands for "no
  branch", is none.
* The supervisor: `NoWorkerLeftBehind`, for any number of executables, installations,
  crashes, failed looks and requests. The invariant adds that a supervisor in its loop has the
  lock and a fresh heartbeat (`Present`), that one that waits for no worker has none
  (`Accounted`), and that a worker which is starting, and so invisible to a new
  supervisor, has a supervisor that knows it or a lock and a heartbeat that keep
  the next one from taking over (`Unseen`).
* The MCP input: `RequestsAnsweredOnce` and `NothingDropped`, for input of any length,
  in any pieces, with any number of replacements. `Kept`: what is unread is a
  contiguous piece of the input that ends at what was read. `Frontier`: it begins
  right after a line end, or at the beginning of the input. `AnsweredOnce`: the
  answers are whole lines (`Whole`), in order (`InOrder`), and none before the
  frontier is missing (`NoneMissed`). The hypothesis `InputsSuit` says that inputs
  are sequences and that the limits are naturals.
* `ServicesTyped`: all four keep their types (`ServicesTypeOK`). A behaviour of
  `MCServices` is one of each component (`EachRuns`), and the types follow from
  the invariants above: of a supervisor file that it names a supervisor that has
  started, of the lock of the configuration that one editor holds it, of what the MCP
  server keeps and has answered that it lies in the input.

Every property a passing run checks is thus proved, if it is not temporal, and both
refinements are; `InterruptedIsRepairable` alone holds only for the instance it is
checked on and has a general statement in its place. Only model-checked besides:
the temporal properties (liveness and
ENABLED are outside the prover's reach), among them `AllAnswered`, whose safety part
`RequestsAnsweredOnce` proves in other words, and the properties of findings.
A proof about a sequence defined by recursion would need induction with an operator
parameter; `Requests`, against which the run checks the answers, is therefore
replaced in the theorems by the positions of the answers.

## 6. Not modelled

Of the modelled components: path canonicalization, the legacy writer lock,
`WithExistingReads`' refusal to create lock files, the Windows lock calls,
progress reports; projects that appear, disappear or change their output
directory while a command runs; the contents of the status report and changes of
the watch mode; `watch restart`, a stop followed by a start; two supervisors
beside each other, and with them the end of a supervisor that has lost its lock
(supervisor.go:238); a supervisor or a worker's cancelled context; a supervisor that
does not replace itself (Windows, supervisor.go:246); failures to read or start the
executable (supervisor.go:255-262), which only wait for the retry; the search for repositories; the linked worktrees of a
repository. A project is moved only while no call works in it. The request file
of the run lock has one writer at a time.

Not modelled at all, because their state lives within one call and their
correctness is about the languages and formats they read: the extractors and
projections of `internal/scan` (the bulk of the code), ranking, tracing and
rendering in `internal/agent`, `query`, `trace` and `answercheck`; `doctor`, the
benchmarks and metrics, the guide, configuration and ignore rules, test
results, assets; the command line's parsing and its reports; the platform's
service files. The share of the repository's lines that the map names is small
for that reason: the lines where processes meet are few, and most of them are in it.

What could follow, in this order: the exclusion of the run lock after a missed
deadline, for those workers that met theirs; two supervisors over `RunLock`; the
bounded traversal of `trace` against a reference definition.
