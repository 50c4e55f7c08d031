# TLA+ models of LunaLauncher

LunaLauncher is a Minecraft launcher in C++/Qt (a descendant of Prism Launcher)
with a command line, a web front end ("Neo UI") and a sidecar service. This
directory holds specifications of the parts of it whose correctness depends on
the order of events, the TLC configurations that check them on small instances,
and proofs, checked with TLAPS, of what holds for every instance.

Nearly everything the models describe runs on the main thread under Qt's event
loop. A handler runs to its end without interruption, so **one handler is one
action**; what interleaves is the order in which the loop delivers queued calls,
timers, replies and the calls of users. Queued calls that matter are state:
pending wakeups, deferred starts, armed timers, open dialogs. Three things really
run beside the main thread and are actions of their own: the pool threads that
read a resource folder, the process aria2c, and the native library PCL.Download.

## 1. Inventory

| Component (below `src/launcher`) | State | Operations | Correct if |
|---|---|---|---|
| **Task engine** `tasks/` | state of a task; queue, active, done, failed and succeeded children; queued wakeups and starts | `start`, `abort`, `clear`, `addTask`, `setMaxConcurrent`, `executeNextSubTask`, `subTaskFinished` | no task lost or run twice; the limit holds; success only if all succeeded; a started job ends once |
| **Download job** `net/NetJob` | the above, number of tries, manual tries, open dialogs, followed setting, delegation to aria2 | `addNetAction`, `executeTask`, `applyRuntimeSettings`, retry, dialog, `abort` | no download lost by a retry; ends or asks the user |
| **Neo task runtime** `api/AsyncTaskRuntime` | records, pending queue, lease table, slots, deferred starts, deadlines, journal | submit, pump, start, finish, cancel, deadline, load and save of the journal | writers of a key exclude each other; nothing waits without reason; ended tasks stay ended, in a restart too |
| **Accounts** `minecraft/auth`, `LaunchController` | list, default, refresh queue, timers, activity count; per account its flow, shown state and token | add, replace, remove, set default, log in, refresh, abort, schedule; decide how to launch | one account per profile; a queued refresh is served; what is shown of an account is what a flow found |
| **Game launch** `launch/`, `LaunchController`, `BaseInstance` | current step, launch state, processes, profiler, claims, running flag and play time of the instance | execute, step ends, proceed, abort | the flag tells the truth; a game keeps its claims; an abort is final |
| **Application** `Application` | controllers, counts of running instances and of windows | launch, kill, `controllerFinished`, close of a window | it never exits under a game |
| **Metadata** `meta/` | load status, hashes, contents, shared load task | load, abort | loaded means loaded and verified |
| **Single download, cache** `net/NetRequest`, `MetaCacheSink`, `HttpMetaCache` | reply, tries, temporary file; cache entries and their staleness; index on disk | execute, redirect, mirror retry, abort; resolve, update, evict, save | a request ends once; an entry describes the file that is there |
| **aria2 / PCL engines** `net/Aria2*`, `net/Pcl*` | process state, downloads by gid, calls under way, stall watches, native tasks | start, restart, add, poll, stall, remove, shutdown | each start of a download reports one end; a restart loses none |
| **Resource folders** `minecraft/mod` | rows, index, update task, scheduled update, parse tasks, resolver | `update`, resolve, apply, install, remove, toggle, watch | the list is the folder again after each change |
| **Settings** `settings/` | values, suspended saves | set, reset, reload, suspend, resume | what was set is saved |
| **Instances** `InstanceList`, `Instance*Task` | list, directories, groups in memory and in `instgroups.json`, trash history, staging tasks | stage, commit, reload, group, trash, delete, undo, rename | the list is what is on disk; groups are kept; a staging ends |
| **Servers** `server/` | launch task of the instance, its process and terminal, running flag, controller, open question | launch, start, stop, kill, exit of the process or of the launcher | a server that lives can be stopped and is counted; its end is noticed |
| Versions and components, Minecraft instance, Java, multiplayer, local authentication service, Neo API, command line, mod platforms, files, updater, user interfaces, logs, libraries | see `PROJECT.json` | | mostly I/O, parsing, presentation, or separate programs |

How they interact:

- Every long operation is a `Task`. The engine's `ConcurrentTask` runs children by
  queued calls: each end of a child posts one *wakeup* (`executeNextSubTask`), and
  each wakeup starts one child or decides that the job is over. `SequentialTask`
  and `MultipleOptionsTask` change the decision; `NetJob` adds retries.
- The children of a `NetJob` are requests. A request asks a mirror first if it has
  one, goes through the cache if it has an entry, and may be carried out by aria2
  or PCL, which fall back to the request they inherit.
- The Neo runtime creates tasks on behalf of web clients, leases them the
  resources they write, and listens to their `finished` signal. It cannot make
  them stop: `abort()` may refuse.
- A launch asks the accounts for a session, loads the metadata of the components,
  and then runs its steps; the last of them is the game, which holds the account
  (`UseLock`) until it ends, and counts for the application.
- Settings reach running jobs by a call from the Neo settings handler; the Qt
  settings page only stores them.

### What is hard

`PROJECT.json` lists the hazards at their lines. The kinds that matter here:
surplus wakeups that arrive after a decision; `abort()` between a call and the
queued call it posted; signals that an abort itself sets off; objects used again
after an abort; a task shared by several owners; leases returned before their
user has stopped; answers of a process that has been replaced meanwhile;
checksums and time stamps compared at another moment than they were taken; a
folder that changes while it is read; a file that is read over what memory knows better;
and a restart between two saves.

## 2. Modules

| Module | Models | Extends / instantiates |
|---|---|---|
| `WorkPool` | abstract: items wait, are held by a slot, are over | |
| `ConcurrentTask`, `ConcurrentTaskProof` | `tasks/Task`, `ConcurrentTask`, `SequentialTask`, `MultipleOptionsTask` | implements `WorkPool` |
| `NetJob` | `net/NetJob` on top of the engine; proofs in `ConcurrentTaskProof` | extends `ConcurrentTask` |
| `LeaseTable` | abstract: exclusive leases on sets of keys, a number of slots | |
| `AsyncTaskRuntime`, `AsyncTaskRuntimeProof` | `api/AsyncTaskRuntime` | implements `LeaseTable` |
| `Accounts`, `AccountsProof` | `minecraft/auth`, the decisions of `LaunchController` | |
| `Launch`, `LaunchProof` | `Application::launch` to the end of the controller, `launch/` with its steps | |
| `Metadata`, `MetadataProof` | `meta/BaseEntity`, `meta/Index`, the `SequentialTask` of a load | |
| `CachedDownload`, `CachedDownloadProof` | `net/NetRequest`, `MetaCacheSink`, `HttpMetaCache` | |
| `EngineDownload` | what downloads of both engines have in common | |
| `Aria2` | `net/Aria2Manager`, `net/Aria2Download`; aria2c as environment | extends `EngineDownload` |
| `PclDownload` | `net/PclDownloadTask`, `net/PclDownloadLibrary`; the library as environment | extends `EngineDownload` |
| `Engines`, `EnginesProof` | both engines together, the choice between them, the job that starts downloads | extends `Aria2`, `PclDownload` |
| `ResourceFolder` | `minecraft/mod/ResourceFolderModel`, `ModFolderModel` and their tasks; proofs in `InstancesProof` | |
| `InstanceList`, `InstancesProof` | `InstanceList`, `InstanceStaging`, `WatchLock` and who calls them in `MainWindow` and `Application` | |
| `Server` | `server/`, with `Application::launch`, `kill`, `aboutToQuit` and the API's start and stop; proofs in `InstancesProof` | |
| `MC*` | constants for TLC | |

Some modules keep **faulty variants** next to the operations they distort
(`StartSubTaskPeeking`, `LandUnchecked`, `OverForgets`, ...). No specification uses
them; they show that each property fails when the code is changed. **History
variables** only record; they are named as such where they are declared.

### ConcurrentTask

`kind` is the class of the job; it never changes, so one module covers the three
classes and one proof holds for all of them. `queue`, `doing`, `done`, `failed`, `succeeded`
are the containers of the code; `limit` is `m_total_max_size`. `wakeups` counts
the queued `executeNextSubTask()` calls, `starts` the queued `start()` calls of
children, `heard` the children whose `aborted` signal is still connected: `abort()`
disconnects it before it asks a child, and a child disconnected this way leaves
`m_doing` only if it ends in another way.

| Action | Code |
|---|---|
| `AddTask`, `SetMaxConcurrent`, `Start`, `Clear` | the functions of these names |
| `Abort` | `ConcurrentTask::abort`: with no active child (`AbortIdle`), or asking each active child, which may accept, refuse, or end on the spot in any way (`AbortActive`) |
| `ExecuteNextSubTask` | one delivered wakeup: nothing to do, conclude, or start a child |
| `ChildStart(t)`, `ChildEnd(t, o)` | the child's queued start; its end with `subTaskFinished` and what the policy adds |

### NetJob

Extends the engine: adding, the wakeup, the start and the abort are replaced by
NetJob's own. A wakeup is one action `NetExecuteNextSubTask`: it refreshes the limit
from the setting, then retries (all failed downloads go back to the queue, in the
order of a hash table, hence in any), starts a download, concludes, or does nothing. The dialog
of `emitFailed` is not modal: `dialogs` counts the open ones, and the job stays in
state Running while the user thinks. The same code runs when the user accepts.
Whether a queue is delegated to aria2 is left open whenever the code could do it.

### AsyncTaskRuntime

A record's state, the order and the pending queue, the keys leased, the number of active records,
the deferred starts (`QTimer::singleShot(0)`), the armed deadlines, the Task
objects that are executing (`work`), and the journal on disk. The tasks that one
`pump()` admits are one choice `Admission`: a sequence in which each is the best
eligible task when its turn comes, maximal for the free slots. What pruning
leaves of the order is `Remaining`: the records that stay, as they stood. `finish`, `cancel`
and the deadline give leases back and pump in the same action, as the code does.

| Action | Code |
|---|---|
| `Submit(t)` | `start()`: idempotency key, pruning, record, `pump()` |
| `StartRecord(t)` | the deferred `startRecord()`: skipped if the record ended; rejected or done on the spot; or a Task object begins |
| `WorkEnd(t, ok)` | the `finished` handler of the Task object |
| `Cancel(t)` | `cancel()`, of a queued or a running record; the Task object may stop or go on |
| `Timeout(t)` | the deadline handler |
| `Restart` | the launcher ends at any moment and loads the journal |

`Unchecked` names the submissions whose handler takes effect without asking
whether its record has ended: the handlers of `resource.install`,
`instance.import`, `instance.create` and `modpack.install`. They do take effect after a
cancellation or a timeout, and no property says otherwise; only a task that was already at work
can (`StartedOnceOrNever`).

### Accounts

An account object is new (a login runs or has just ended), listed, or gone. Of its
flow (`m_currentTask`) the model keeps whether it exists, runs, or not: `refresh()`
makes it, `start()` runs it, and the two are different moments of different
callers. `validity` is `validity_` and, when certain, whether the token is within twelve
hours of its end. `activity` is `m_activityCount`, which the list hears of through
signals of the accounts it lists. `watched` are the accounts whose flow is connected to
`authSucceeded`/`authFailed` of the list; `held` are aborted flows somebody still
owns, whose last step may answer after the abort.

| Action | Code |
|---|---|
| `FillQueue`, `NextTimer` | `fillQueue()` at start-up and from the hourly timer; the 20-second timer; both end in `tryNext()` (`TryNext`) |
| `RequestRefresh`, `SetDefault`, `AddAccount`, `RemoveAccount` | the functions of the list; `AddAccount` replaces the account with the same profile |
| `PrepareRefresh`, `DirectRefresh`, `Login` | flows made by the skin dialog, run by the API and the CLI, and run by login dialogs |
| `FlowEnds(a, outcome)` | `changeState` at the end of a flow with all that hears of it: the account, the list, the schedule, a waiting launch |
| `Abort(a)`, `LateStep(a)` | `AuthFlow::abort`; an answer of a step that comes after it |
| `TokenAges(a)` | time passes |
| `Launch(a)`, `LaunchGoesOn` | `decideLaunchMode()` up to the wait dialog, and after it; one launch at a time |
| `Claim`, `GameEnds` | `ClaimAccount` takes and returns the `UseLock` |

An account that is removed while its flow exists is disconnected, so its end is
never counted and `activity` stays too high; `requestRefresh()` then only queues.
`ActivityCoversBusy` therefore says "not below", which is what keeps a second
refresh from starting beside a running one.

### Launch

`ctl` is the controller the application has for the instance, `steps` the list
that `createLaunchTask()` makes, by the *kind* of each step: what it may do inside
its own start and what `abort()` does to it. `step` is `currentStep + 1`, `lstate` is
`LaunchTask::state`, `task` the launch as a `Task`: the two are different things,
and `abort()` sets only the first. A step that ends starts the next in the same
call, so one action passes over all steps that end at once (`Advance`).

| Action | Code |
|---|---|
| `LaunchInstance`, `StartController` | `Application::launch`; `LaunchController::executeTask` from its timer |
| `LoginFails`, `LoginSucceeds` | the end of `login()`; `launchInstance()` with the launch it makes and its first steps |
| `StepSucceeds`, `StepFails`, `AuthGoesOn` | `onStepFinished()` of a step that waited; the authlib step asks another source |
| `CommandRuns`, `CommandEnds`, `ProcessFailsToStart`, `GameIsReady`, `GameEnds` | the processes of `PreLaunchCommand`, `PostLaunchCommand` and `LauncherPartLaunch` |
| `ProfilerReady`, `ProfilerAnswered`, `ProfilerCrashes` | the profiler's signals in `readyForLaunch()`, its message box |
| `AbortStep`, `AbortRun`, `AbortLookup`, `AbortAuthRetry` | `kill()` down to the step: it ends, its process is told or killed, or it goes on all the same |
| `OpenWindow`, `CloseWindow` | `showMainWindow`, `on_windowClose` |

`LaunchEnds` contains `finalizeSteps()`, the end of the controller and
`controllerFinished()`, which the code calls in one go.

### Metadata

A content stands for its checksum. Per entity: the file (`disk`), what was parsed
(`content`), `sha` = `m_sha256`, `fsha` = `m_file_sha256`, `status` = `m_load_status`, and the
job whose task is `m_task` (`cur`). Per job: its `plan` (index, list, version), whose
task it was given for each (`uses`), and its place in the event loop (`phase`).

| Action | Code |
|---|---|
| `LoadVersion`, `LoadOffline` | `Index::loadVersion`, online and offline |
| `Wake`, `StartTask`, `AbortJob` | the `SequentialTask` of the job: its wakeup, the posted `start()`, its abort |
| `Ask`, `Land`, `LandUnsaved`, `Lose`, `Finish` | the load task's download: asked, answered and parsed, parsed and not written, lost; the end of its `NetJob` |
| `Publish` | the server has something new |

`Execute` is `BaseEntityLoadTask::executeTask`, which looks at the local file, deletes a
wrong one, and asks the network if it has to. Two history variables: `moved` has the
downloads whose checksum changed after it was given to the request, and `doubtful` the
entities whose contents came from such a download or could not be written.

### CachedDownload

One file and everything that may happen to it. `mapped` is the entry the cache has
for it, `entry` the entry objects (a request keeps one from the moment it is made),
`saved` the index on disk. A time stamp is reduced to whether it is the file's.

| Action | Code |
|---|---|
| `Make`, `Start` | `resolveEntry` and `Download::makeCached`; `executeTask()` |
| `Redirected`, `TooMany`, `Fails`, `FailsSoftly`, `Downloaded`, `NotModified` | `downloadFinished()`: the ways a reply ends, with `MetaCacheSink::finalizeCache` |
| `Retry`, `Abort` | the timer after a 429; `abort()` with and without a reply |
| `SaveNow`, `EvictEntry`, `EvictAll` | the functions of the cache |
| `Touch`, `Restart`, `Publish` | others change the file; exit or crash and `Load()`; the server has something new |

### EngineDownload, Aria2, PclDownload, Engines

A download is a record: its `state` as a `Task`, `finished` = `m_finished`, the gid or
native task it waits for, whether the inherited request has a reply (`qt`) or a
retry timer (`again`), and how often it was started and announced an end.
`executeTask()` is virtual: a redirect or a retry of the request comes back to the
engine. `calls` are the JSON-RPC calls and their answers, in no order; a call that
was on its way when the process ended fails.

| Action | Code |
|---|---|
| `Start`, `Abort`, `Redirect`, `AskAgain`, `ReplyEnds`, `ReplyLimited` | the download as a task and as a request |
| `Aria2Stall`, `PclStall` | `handleStall()`: fall back or fail |
| `Refresh`, `AddAnswered`, `TellAnswered`, `RemoveAnswered`, `ReaddAnswered` | `refreshDownload()` from poll or WebSocket; the handlers of the answers |
| `UserRemoves`, `ClearFinished`, `Shutdown`, `ProcessFinished` | the manager's functions; `ProcessFinished` fails or adds again all active downloads |
| `Crash`, `Serve`, `WorkEnds` | aria2c (external) |
| `TaskEvent`, `NativeEnds` | `onTaskEvent()` of a terminal event; the library (external) |

### ResourceFolder

`mods` and `places` are `m_resources` and `m_resources_index`, two structures that must
agree; `update` is the task under way, which a pool thread carries out file by file
(`unread`, `snapshot`), and `again` is `m_scheduled_update`. A parse task has a ticket; the
resolver's `queue`, `doing` and wakeups are those of a `ConcurrentTask`. `posted` is the
event queue of the main thread, in order. A file is the stamp of its last change,
which stands for its contents too, so that no two files share one. `applyUpdates()` goes through
the names in any order but for the rows it removes (`Apply`); what it does to the list is a
recursive function over that order (`TreatedInTurn`, with `Treated` for one name).

| Action | Code |
|---|---|
| `Update` (part of others), `List`, `Read`, `ReadEnds` | `update()`; `ResourceFolderLoadTask` on the pool thread |
| `Handle`: `Apply`, `Over` | `onUpdateSucceeded()` with `applyUpdates()` and `resolveResource()`; the task's `finished` |
| `PoolStarts`, `Handle`: `NextSubTask`, `ParseRuns`, `Parsed` | the resolver's start, its wakeups, a parse, its result in `onParseSucceeded()` |
| `Install`, `Uninstall`, `Toggle`, `StartWatching`, `StopWatching` | the functions of the model |
| `OthersChange`, `ChangeNoticed` | somebody else changes the folder; `directoryChanged` |

`sure` and `astray` are history: the details of a mod that was renamed while a parse was
under way, and a list whose index had gone wrong (see section 3).

### InstanceList

`dirs` are the directories of instances and `file` is `instgroups.json`; `rows`, `known`,
`index`, `counts` and `loaded` are `m_instances`, `instanceSet`, `m_instanceGroupIndex`,
`m_groupNameCache` and `m_groupsLoaded`. `told` is a change that the watcher has yet to
announce, `trash` the history of what was moved to the trash, `jobs` and `tmp` the
staging tasks and their directories. `loadList()` removes rows in contiguous ranges from the last to the
first (`Kept`, which reads `Swept`, a recursive function from the last row down), appends what
is new in the order the directory is iterated in, which is left open, and reads the group file with the
first instance it loads, until that has succeeded once.

Both sides of the file may fail, at any time. A write that fails (`saveGroupList()` logs it) leaves
the file as it was, since `QSaveFile` replaces it as a whole: `Saves` are the two outcomes. A file that
cannot be opened or parsed, or has another version or root (the early returns of `loadGroupList()`), leaves
memory as it is: `Reads` and `StartReads` are the two outcomes, for each load anew. `file` holds
what the well-formed entries of the file say; entries that the loader skips are not in it.

| Action | Code |
|---|---|
| `SetInstanceGroup`, `DeleteGroup`, `RenameGroup` | the functions of the list, each with its save |
| `TrashInstance`, `DeleteInstance`, `UndoTrashInstance` | the same; `DeleteInstance` also stands for a trash or a deletion that fails, which has given up the group by then |
| `RenameInstance`: `DirMoved` | the main window: group off, which is saved; directory moved, `loadList()`, group on, which is saved: each save, and the read, may fail |
| `StartStaging`, `ChildEnds` | `InstanceStaging::executeTask`, `childFailed`, `childAborted` |
| `TryCommit`: `CommitNew`, `CommitOverride`, `CommitFails` | `childSucceeded()`, from the child and from the timer, with `commitStagedInstance()` |
| `Refresh`, `Noticed`, `Restart` | `loadList()` by the main window, by the watcher, at start; `Restart` is an end by the user or a crash |
| `OthersAdd`, `OthersRemove` | others change the directory |

`wanted` is history: the group a user last gave an instance. `unsaved` names the instances whose
group was set and is not in the file (`Saves`: the write failed, or the list did not know the
instance); `doubt` those whose group is lost: what was `unsaved` at a restart, or when a first read
replaces memory (`Lost`), what a file says that was not read (`Unread`), what failed to be deleted,
and a directory of others that bears the name of one with a group (`Stale`). `uneven` and `missed`
mark counts and announcements that go wrong (see section 3).

### Server

`task` numbers the launch tasks; the last is the one `m_launchProcess` owns, and making a
new one destroys it. `procs` has the process of each task, so that one which outlives its
task would be seen. `state` is the task's state as a `Task`, `aborted` its
`LaunchTask::state`, which `executeTask()` of a server never moves on from NotStarted.
`launcher` is the controller's `m_launcher`, a plain pointer: it may name a task that is
gone, and what an access to it does is left open (`Undefined`). `asking` is the question of
`LaunchController::abort`, a nested event loop during which anything may happen.

| Action | Code |
|---|---|
| `Launch`, `StartController` | `Application::launch`; `launchInstance()` with `createLaunchTask()` and `executeTask()` of the server |
| `Kill`, `Answered` | `Application::kill` to the question; the answer, and `LaunchTask::abort` |
| `StartServer`, `StopServer` | `startServer()`, `stopServer()` of the API |
| `PtyExit` | `onPtyExit()` from the terminal or the exit timer, with `controllerFinished()` |
| `OpenWindow`, `CloseWindow`, `AboutToQuit` | the windows; the end of the event loop |
| `ProcessEnds(t)` | the process (external) |

## 3. Runs

| Run | Question | Result |
|---|---|---|
| `jobs` | What may a job of any class never do; does a started job end; does its queue implement `WorkPool`? | holds |
| `netjob` | Are downloads neither lost nor counted twice by retries, aborts and restarts; does the job end or ask? | holds |
| `runtime` | Do leases, deferred starts and the journal hold under every interleaving; does the runtime implement `LeaseTable`; does every task end even if its object hangs? | holds |
| `accounts` | Are the list, the activity count and the shown states consistent under logins, refreshes, aborts, removals and launches; is a queued refresh served? | holds |
| `launch` | What does a game keep while it plays, what does a launch leave behind however it ends, what does an abort promise? | holds |
| `metadata` | Is what counts as loaded what the parent names; does every load end, one that several jobs share too? | holds |
| `cached_download` | Is a cache hit true after any downloads, evictions, crashes; is an abort kept; does a request end? | holds |
| `engines` | Is an end announced at most once, and kept back only in the two ways the code has; does a download end? | holds |
| `resource_folder` | Is the list the folder again after each change, with the right details, and does it come to rest? | holds |
| `instance_list` | Is the list what is on disk, are groups kept in memory and in the file, but for what is named as lost, over reloads, renames, undos, restarts, saves that fail and files that cannot be read, does a staging end however often its commit fails? | holds |
| `server` | Can every server that lives be stopped, and is it counted, whoever started it; is the end of each noticed? | holds |
| `v_writes_overlap` | "写入会排队": writes to the same instance queue up | violated |

The violated one is a statement of the repository's documents;
`PROJECT.json` ("findings") quotes it and says what happens.

### Further behaviours met while modelling

These are behaviours of the models too. The properties above are stated so that
they hold with them: a condition names the case (`swallowed`, `doubtful`, `sure`,
`limited`, `astray`, `doubt`), or the property speaks of the others.

Task engine and download job:

- `ConcurrentTask::abort()` between `start()` and the first wakeup reports the end of
  a job that stays in state Running and later reports its own end; a `NetJob` then
  takes the downloads up again. A job aborted with active children keeps them in
  `m_doing`; used again it never ends (`FinishesOnce` and `EventuallyEnds` leave both out).
- A child whose queued `start()` has not been delivered accepts an abort and then
  starts all the same; it stays counted.
- A wakeup that arrives while the dialog of a `NetJob` is open opens a second one.
- The Qt settings page stores the number of downloads and tells no running job.

Neo task runtime:

- A task object that hits its deadline and then ends announces a second outcome.
- The `idempotencyKey` is compared without the operation: a client that gives two
  operations one key gets the record of the first for the second.
- Only the newest 100 records are saved. One that falls out is forgotten by a
  restart, and its key with it.

Accounts:

- `AccountList.cpp:744` refreshes an account although a game may have claimed it
  since: `shouldRefresh()` is asked when the account is queued. The comment there
  says "Never refresh accounts that are being used by the game".
- `LaunchController.cpp:162`, which is to "force account refresh", makes a flow that
  nothing starts if the account is shown as online; the account stays busy.
- After an abort of a scheduled refresh nobody arms the next timer
  (`AccountList.cpp:746` connects success and failure only) until the hourly timer,
  and a hand-made `requestRefresh` waits as long. `QueueServed` speaks of
  schedules that were not aborted.

Launch and application:

- A second `Application::launch` during the login of the first replaces its
  controller (`Application.cpp:1916`), whose end is never counted: updates stay
  forbidden, and closing the last window does not end the launcher.
- `setMinecraftRunning(false)` also runs for a Java that was never told to start the
  game, and then adds the time since an earlier launch began.
- `abort()` of `LookupServerAddress` makes QDnsLookup emit `finished()` at once, while the step
  still runs; `on_dnsLookupFinished()` takes it for a failed lookup, resolves with the default
  port and succeeds, and the game starts under an aborted launch, although lines 52-54 there mean
  to ignore it. The authlib step takes the aborted answer of a mirror for a failure and
  asks the official source, and the launch goes on too. `swallowed` marks both.

Servers:

- `Application::kill` of a server that a user launched sets its `LaunchTask::state` to Aborted and
  no more: the process goes on, and neither the abort nor the later end reaches
  the controller, which listens to `succeeded` and `failed` only. `m_runningInstances` stays one
  too high: updates stay forbidden, and the launcher does not exit after its last window.
- `stopServer()` announces no end either, with the same effect on a server a user launched.
- A server that the API started is not counted: closing the last window ends the launcher, which
  stops the server.
- A queued launch kills a server that the API started meanwhile.
- The question "Kill Minecraft?" may outlive its controller, which a new launch deletes, and
  `m_launcher` outlives its task when the API starts the server again: both are used afterwards.

Metadata, requests, cache:

- An entity whose parent is refreshed while it is being downloaded counts as loaded with contents that
  lack the checksum the parent names now: both checksums are compared, but `m_file_sha256`
  is set with what was expected at the end (`BaseEntity.cpp`). `doubtful` marks it. That the
  checksum is the same again at the end proves nothing: with three loads whose downloads of the index
  overlap, an older index may be read after a newer one, so that a list's checksum goes from one
  publication to the next and back while the list is fetched. The proof found this; `moved` counts
  it as moved.
- `succeeded()` of a load is passed on before the load status is set: a listener
  that asks `isLoaded()` is told no.
- A 304 renews the entry with the time stamp of whatever file is there by then.
- Data left over in a reply is written with a result of Running, which is compared
  with Succeeded: a good answer fails. A timeout fails even where a local file would
  do (`AcceptLocalFiles`).
- `evictAll()` while a download is in the air: the download adds its entry again.
- A mirror's 429 leaves the request in State::Inactive; an engine that is asked again
  from there ends without a word, because `emitSucceeded` and `emitFailed` are mute.

Engines:

- An aborted download of aria2 may never announce its end: `abort()` asks aria2 to
  remove the gid and waits to be told. It waits in vain if addUri is still under way,
  if the file is complete by then, if aria2 has been stopped, if the gid changes
  during the removal, or if the inherited request has taken over.
  `docs/PCL-DOWNLOAD-INTEGRATION.md:861` lists it as known.
- An aborted download whose inherited request then fails or is limited forgets
  its abort and goes on.
- `m_restartAttempts` is set back when aria2c ends after a shutdown or with nothing
  active (`Aria2Manager.cpp:563`), not by a successful restart: over one long download
  the crash after the permitted number of restarts is the last.

Resource folders:

- The result of a parse that comes after its mod was taken off the list looks its row
  up with `operator[]` (`ModFolderModel.cpp:245`; the base class asks `contains()`), which
  indexes the name as row 0. The next update takes row 0 for the row of that name
  and removes it: another mod vanishes from the list although its file is there; or, if
  the list is empty, erases out of range, against `Q_ASSERT(removed_it != m_resources.end())`
  (`ResourceFolderModel.cpp:884`). TLC finds it in four steps of users: a
  file is removed while its parse runs, the update is applied, the result arrives, and
  the folder changes again. `astray` marks it.
- Enabling a disabled mod while the list still has a row for an enabled one of the
  same name leaves two rows with one name.
- A mod that is toggled while its parse is queued keeps empty details: the parse
  finds no file at the old path, and the stamp has not changed. Toggled after its file
  changed, it keeps the old ones. The late result of a mod that was removed goes to
  the mod that has its name by then. `sure` marks these.
- The update itself renames a disabled file whose enabled twin is there.
- A shader pack folder whose preparation fails leaves `m_current_update_task` set: the
  list is never updated again (`ShaderPackFolderModel.cpp`; not in the model, which has no
  preparations).

Instances:

- `loadInstance()` reads the group file until that has succeeded once
  (`InstanceList.cpp:664`), over what memory holds. In a session that began without a group file or
  without instances, the instance whose commit, or whose return from the trash, makes the launcher
  read it loses the group it was just given; without a file at the start that is the
  second instance created.
- A save of the group file that fails is logged and no more (`InstanceList.cpp:769`): what was set is in
  memory only (`unsaved`), until a later save of anything writes all, and lost if the launcher ends
  before (`doubt`).
- A group file that is there and cannot be read or parsed, or has another version
  (`InstanceList.cpp:784-819`), leaves the launcher without groups, and the next save of any group
  writes over it with what memory has: the groups it named are lost (`doubt`, from the start that
  could not read it). A later load of a new instance may read it yet, and then replaces what was set
  meanwhile and not written.
- An undo saves before the list is loaded: if the list was reloaded since the trash, the
  save leaves the instance out, and its group is in the file only with the next save.
- A trash or a deletion that fails leaves the instance without its group, and an undo
  that fails has dropped its entry of the history.
- A commit or an undo over the stale entry of an instance that vanished does not take the old group off:
  the count stays one too high, and dialogs offer a group that is empty.
- A save takes the directory off the watcher for a moment; a change that was not
  announced by then may never be, until something else reloads the list.
- A commit that copied everything and failed to remove the original leaves an instance
  behind, of which the list is not told, and the next try makes another one: up to five.
- What an override has staged stays until the next start, which deletes `.tmp`
  (`Application.cpp:1757`).
- An abort while a commit waits for its retry may be accepted, and does nothing (a FIXME in
  `InstanceStaging` says so).

### Bounds and why they are enough

- *Tasks*: three children with one or two slots is the least instance with a
  running, a starting and a queued child at once, and with a queue longer than
  the free slots. Two suffice for the download job, whose hazards concern two
  wakeups for two last downloads; it can retry both, one, or none.
- *Starts and aborts* (`MaxStarts`, `MaxAborts`): two starts and two aborts let a job be
  aborted, used again with the leftovers, and aborted again. The same
  instance serves safety, liveness and the refinement.
- *NetJob*: one abort, one manual retry (`MaxManual`) on top of three tries, and one change
  of the setting (`MaxChanges`), up or down. A job that does not follow the
  setting never reads it, so the setting changes only for one that does.
- *Runtime*: four submissions on two slots, three of which have keys that overlap in
  a chain and one a key of its own, so that tasks wait for keys and for slots; one is of
  high priority, and two share an idempotency key. The journal has one record and memory
  has two, so that records are really forgotten in the one restart. A priority aging rule
  (a normal task overtakes a high one after eleven days of waiting) is left out.
- *Accounts*: two loaded accounts, of which the second does not own the game, and a
  login that has the profile of the first, so that it replaces it. Users, the
  API and the CLI act twice (`MaxActs`), which is enough to abort a refresh another
  one waits for, or to remove an account that was just made busy; flows, timers,
  late answers and the aging of tokens are not limited. Three ends of a flow stand
  for the classes that the code tells apart: online, kept token, lost token.
- *Launch*: three launches, so that one can replace a controller and one follow; three
  aborts, of which later ones find what the first left; the three combinations of
  options have every kind of step between them.
- *Metadata*: two jobs for one version, of which the second may be offline, two
  publications, one abort, one damaged file. A third job brings one thing more, a third
  download of the index that overlaps the others; the instance with three jobs was checked once
  (six million states), and the theorem holds for any number.
- *Cache*: two requests, one with a mirror and one that accepts local files; two
  tries, two publications; one redirect, one change by others, one stop. `MAX_RETRIES` is
  3 in the code; two already has a retry before the fallback and after it.
- *Engines*: one download with a mirror, three attempts, two upsets (aborts, stalls,
  crashes, shutdowns, removals), two gids, and a limit of one restart, so that both a
  restart and its refusal happen. Two downloads, each with its own gid, were checked
  with two attempts less freely and gave nothing new; the proofs are for any number.
- *Folder*: a mod that can be disabled, a folder that cannot, two changes of any kind,
  two switches of watching. Three changes with one slot, and two files there at first,
  were checked as well.
- *Instances*: three directories, so that rows go in two ranges; two groups; one staging
  task; two acts of users and one upset by others, a failure or a crash, with the commit and its
  retries free, and every save and every read of the group file free to fail. A restart counts as
  an act or as the upset, so that three steps besides the free ones can come in any order.
  Two delays (`MaxBackoff` 2) stand for five: the series must end at its maximum exactly.
- *Server*: four tasks (`MaxTasks`) and three launches (`MaxLaunches`), so that a start by the API
  can come between any two steps of a launch and a controller be replaced; one window.
  Starts beyond the bound do not happen; everything else is free.
- Wakeups, event queues and history are bounded by the bounds above.

No symmetry is used: the instances are small. `CHECK_DEADLOCK FALSE` is used throughout: a
system that has come to rest, with no call left within the bounds, rightly does nothing more.

### Fairness

- *Engine*: the event loop delivers wakeups and queued starts,
  and a child that runs ends. The first is Qt's promise. The second is an
  assumption on children; downloads have a transfer timeout (`NetRequest.cpp:112`), other
  tasks are local. Owners (start, abort, add) are never obliged to act.
  `EventuallyEnds` asks for `doing \subseteq heard`, as said above.
- *NetJob*: the same; users are never obliged to answer a dialog, so the
  property is "ends *or* asks".
- *Runtime*: timers and deferred calls fire. No assumption is
  made about Task objects: `EveryTaskEnds` holds even if none ever ends.
- *Accounts*: the two timers of the list fire, and a flow that runs
  ends, because its requests have a timeout; which way it ends is open.
  Flows that were only made are never obliged to start, nor users to do anything.
- *Metadata*: posted calls are delivered and a request ends.
- *Cache*: the retry timer fires, and a request is answered or times out. A crash or an
  abort may always come first.
- *Engines*: replies end, timers fire, calls are served and answered while aria2 runs and
  fail when it does not, the poll goes on, `processFinished` is delivered, and what aria2 or
  the library has begun ends. The stall watch is fair only for work that was lost with
  its process, since no bytes come then; it exists only if the setting RequestTimeout is
  not 0 (`Aria2Download.cpp:322`), which the model takes for granted.
- *Folder*: pool threads, the event loop and the watcher go on. One condition for all of them is
  enough: whatever is enabled stays enabled until it happens, and there is
  finitely much of it between two changes of the folder.
- *Instances*: a child of a staging task ends, and the timer of a retry fires. Users, others and the
  watcher are never obliged to act.
- *Server*: the exit timer fires (every 500 ms, `ServerLaunchTask.cpp:139`). No process is obliged to end.

## 4. Proofs

For every finite set of tasks, every class of job, every positive limit and any
number of starts and aborts (`ConcurrentTaskProof`):

- `TypeCorrect`: the type invariant is inductive on its own.
- `PlaceCorrect`: `EachTaskHasItsPlace`, inductive together with the type. It says where a
  task can be (queued and untouched, active, given up, or ended and recorded) and
  that `doing` fits the limit. The limit alone is not inductive: one must know
  that a queued task is not active already, or taking it would not add to `doing`;
  and that the limit changes only while `doing` is empty (state Inactive).
- `LimitAlwaysRespected` and `DroppedTasksNeverRun` follow from it.
- `EndsOnce` is `FinishesOnce`: as long as nobody aborts, what was announced is what the state says, and
  a wakeup that comes later finds a state in which nothing is announced.
- `SuccessAlwaysEarned` reads the guards of the only step that succeeds against the places:
  an empty queue, nothing active and nothing failed leave a task only the set of successes.
- `ImplementsPool`: each action is a step of `WorkPool` under the mapping of `Pool`, or leaves it
  alone. Most of the work is `abort()`, in which children may end on the spot.
- `PolicyAlwaysKept` needs `Order`: what the job recorded of a child is how it ended, the queue is
  the rest of the list of tasks (`QueueIsRest`), and with one slot all but the last task taken from
  it have ended, in vain where the class demands it (`TakenInOrder`). The order of the queue is
  what a set of places does not tell; `abort()` and `clear()` empty it together with the list.

For any downloads, tries, manual retries and settings (`ConcurrentTaskProof`, second part):

- `NetInvariant`: `NetInv` is inductive. The engine's invariant is not enough: a retry brings
  downloads that have ended back into the queue, so that a child's state no longer tells its place;
  the containers themselves must be kept apart (`NetTypes`, `NetPlaces`).
- `DownloadsNeverLost` is its part, `SuccessMeansDownloaded` a property of its steps.

For every set of submissions, keys, priorities, slots and restarts (`AsyncTaskRuntimeProof`):

- The inductive invariant is `IInv`: types, `LeasesExclusive`, `NoIdleSlot` and
  `DeadlineArmed`. Exclusiveness is inductive only together with the facts that
  the table holds exactly the keys of the running records and that `m_active`
  counts them; otherwise an early release could remove a key that
  another record holds. The work is done once for `pump()` (`AdmissionFacts`,
  `AdmissionKeepsSound`, `PumpKeepsTable`) and once for giving back
  (`GiveBackKeepsSound`); every handler is a combination of the two.
- `LeasesAlwaysExclusive`, `NeverIdle`, `DeadlinesArmed` are its parts;
  `NoStartAfterEnd` is a property of its steps.
- `AlwaysStartedOnceOrNever` needs `StartsInv`: nothing has happened of a task that was not admitted, and
  nothing took effect of one whose start is ahead. `Starts` says what every step may do with deferred
  starts, work and effects; a record that is over while its task is not at work then stays so for ever.
- `RuntimeIsLeaseTable`: the runtime implements `LeaseTable` under the refinement
  mapping of `Leases`: every handler is one step of the table.
- `EndsSurvive` needs `JournalTrue`: the journal says one thing of each task, and of a task
  that has ended what the next process would read. It holds because every handler that changes a
  record saves (`AlwaysSaved`), and a restart reads nothing else.
- `AlwaysOneTaskPerKey` needs the same of the journal as of memory (`OrderTrue`): after a restart the
  order is read from it. Pruning keeps the property because it only forgets.

For every finite set of accounts, any profiles, owners, outcomes and number of acts
(`AccountsProof`):

- The inductive invariant is `Facts`: types, `ListConsistent`, `WorkingIsOwned`,
  `OnlineHasToken` and `ActivityCoversBusy`. The count is the delicate part: it is an inequality of
  cardinalities, proved once for flows that begin (`BeginsKeepsCount`), once for
  flows that end (`EndsKeepsCount`, where the end is counted only of a listed account,
  which the count contains), and once for accounts that leave (`LeavingKeepsCount`).
  `FlowStepKeepsFacts` then serves every handler that makes or starts flows.
- `ListAlwaysConsistent`, `ActivityAlwaysCovers` and `StatesAlwaysTrue` are its
  parts. `WorkingIsOwned` needs the record of late answers:
  without `held` an aborted flow's last step would be an unexplained exception.

For any combinations of options, launches and aborts (`LaunchProof`):

- Every list that `createLaunchTask()` makes has one game, which lemmas about the
  list show first. The invariant `Inv` then has six parts beside the types: the controller, the
  running flag and the count agree (`CtlInv`); a process is the current step's
  (`ProcInv`); a game that plays undisturbed belongs to a launch that was not aborted
  and whose controller is there (`GameInv`); what is held is what the steps passed
  over took (`HeldInv`); only the launch that plays is uncounted (`TimeInv`); an abort
  that was not ignored waits for the end of a process (`AbortInv`).
- `AdvanceInv`, `LaunchEndsInv`, `StepWaitsInv` and `ProcessEndsInv` are proved once; each
  action is one of: the launch ends, it advances, or a process changes.
- `GamesKeepWhatTheyNeed`, `SessionsAreCounted` and `AbortsAreFinal` are the safety properties of the
  run; `ProcessesHaveLaunches` adds that a process always has a launch to answer for it.

For any versions, lists, jobs and publications (`MetadataProof`):

- `MetadataInvariant`: `Inv` has three parts. `Data` says what the file, the contents and the checksums
  of an entity have to do with each other (`EntityTrue`), and what a download whose checksum has not
  moved will bring (`TaskWants`, `TaskTrue`); `JobTypes` are the types; `JobTrue` says of each job where
  in its plan it is, that it has a task for what is left, and that it goes on only after what it did
  was read. The last is needed for the first: an entity is asked for only when its parent has given its
  checksum, so that a download without one is the entity's own and still runs. Ends of tasks are treated
  once for all jobs that hear them, an abort once for the jobs it fails (`AbortHeard`).
- `LoadedAlwaysCurrent` is `LoadedIsCurrent`, from `Data`. It is true only with `moved`: see the
  metadata in section 3.
- `SuccessAlwaysRead` adds that a load that reports success has read its version. Here the
  plan counts (`Earned`): a job with nothing left to start is at its version. It says *read*, not
  *current*: between the end of the task and the end of the load the server may publish, and another load
  may read it.

For any requests, mirrors and bounds (`CachedDownloadProof`):

- `HitsAreTrue` needs that *every* entry object, the saved one too, tells the truth of
  the file it would pass for (`HitInv`), not only the one in the map: a request holds an
  object that a later commit puts back. `AbortsStick` needs that an aborted request
  either waits for its timer or has reported its abort (`AbortInv`, `LifeInv`).

For any downloads, mirrors and bounds (`EnginesProof`):

- `EachStartEndsOnce`: a download awaits at most one thing (the answer to its addUri, a
  gid, a native task, a reply, a timer), and while it does, its end has not been
  announced (`EngineInv`, `CallsOK`). A late event finds `m_finished` set or another
  task (`EventsNumbered`).
- `WaitsAlwaysWatched`: a download that waits for a gid is one that the manager polls and
  has the request of. Nothing else would end its wait after a crash.
- `SilenceAlwaysExplained`: a download that was started and not announced is under way, or muted in one
  of two ways. `Explained` says so of one record, and adds what makes it inductive: an abort at PCL leaves
  no watch behind that could take its end for a stall (`Calm`), and a download whose end is not due is
  in a state in which `emitSucceeded()` and `emitFailed()` speak.

For any finite set of instances, any groups, group files and staging tasks, and whatever others do
(`InstancesProof`):

- `ListCorrect`: the inductive invariant is `ListInv`, the types (with: no id is listed twice, and
  `known` is the set of what is listed) and `InstancesAreListed`. Its hard part is `loadList()`: `SweptIs` unfolds the recursive function, `SweptTrue` is
  its loop invariant (what lies above the row reached has been removed or kept, and the range
  that is open is contiguous and all of it dead), shown from the last row to the first by a
  least counterexample (`Induction`), `SweptAll` and `KeptRows` say what that leaves: exactly the listed
  rows that are still there, in their order. `SeqOfSet`, `Joined` and `LoadedRows` add the new ones.
- `InstancesAlwaysListed` follows from it.
- `GroupsCorrect`: `GroupInv` has three parts, for instances that are not in doubt: what is shown is
  what was given (`ShownTrue`), an instance that the list has yet to find was given no group (`NewTrue`),
  and the file says what was given, unless the instance is named as `unsaved` (`FileTrue`). The file is
  needed because a restart, and a first read, know nothing else. `SaveTrue` is what a save, written or failed,
  does for it: of a memory that is right it leaves a file that is right but for what `unsaved` names, so
  that one save may fail and another write. A rename, with two saves and a read between, is taken
  through both (`MovedGroups`). `GroupIsCounted` is proved beside it:
  counts are cardinalities, one more or one less per entry (`MoreRight`, `LessRight`).
- `GroupsAlwaysKept` follows from it.

For any files, number of parallel parse tasks and bounds, in whatever order `applyUpdates()` goes through
its sets, until an index goes astray (`InstancesProof`, on `ResourceFolder`):

- `FolderCorrect`: `FolderInv` is inductive. Beside the types (every ticket in use has a task) it says
  that rows and index fit both ways (`PlacesTrue`), that the result of an update is posted just before its
  end (`UpdateInOrder`), and that without a change to announce or an update to make what was read *is*
  the folder: file by file while it is read, as a whole while the result waits, and in the rows once it
  was applied (`NothingForgotten`). The work is `applyUpdates()`: `TreatedIs` unfolds the
  recursive function, `OrderIs` says in which orders names come, and its loop invariant `Partly`, which says what
  the names passed over have done to rows and index, is shown for every step of the order by `Induction`.
  Rows are removed from the last to the first, so that the index, which is made anew at the end only, still
  finds the others.
- `ListAlwaysTrue` follows; that there are as many rows as files is a bijection of the two.
- `DetailsCorrect`: `DetailSound` is inductive with it. It says that parse tasks run, and their results are
  taken, in the order of their tickets (`InTurn`, `Sorted`), and of each row that is `sure`
  what its own task has brought so far, and that no task of the same name comes after it
  (`RowTrue`). A task that ran has read the file under the stamp of its row, or that
  stamp is gone for good: files carry stamps of their own (`FilesTrue`), and a file never
  comes back under a name that it had with a twin in its way, because the spare name is longer and
  enabling or disabling a file leaves the length of the rest as it is (`Rank`, `Known`). Without
  this, a stamp read before a rename could be met again at its old name.
- `DetailsAlwaysTrue` follows from both.

For any number of tasks and launches of servers (`InstancesProof`, on `Server`):

- `ServersAreKept`: `ServerInHand` (a process that lives is that of the last task, the running flag
  is up, and the task can stop it) is inductive with the types: a new task destroys
  the one before, and `cleanup()` kills exactly what can be stopped (`KilledFacts`). That a launched
  server is counted needs in addition that every controller is (`CtlInv`).

The assumptions are the ones named in the modules (`JobAssumption`, `NetJobAssumption`,
`RuntimeAssumption`, `AccountsAssumption`, `LaunchAssumption`, `MetadataAssumption`, `CacheAssumption`,
`EngineAssumption`, `Aria2Assumption`, `PclAssumption`, `ListAssumption`, `FolderAssumption`,
`ServerAssumption`): finite sets, positive limits and slots, that every submission writes some key, that the
names of groups are not the marks for having none, that toggling a file leaves its name
without the suffix as it is while a spare name is longer, and that spare names do not run out.

With this every safety invariant, action property and refinement that a run checks is also a theorem.
Only model-checked is liveness, which is out of TLAPS's reach here: `EventuallyEnds`, `EndsOrAsks`,
`EveryTaskEnds`, `QueueServed`, `EveryLoadEnds`, `EveryRequestEnds`, `EveryDownloadEnds`, `FolderSettles`,
`EveryStagingEnds`, `EndIsNoticed`. What `loadList()` and `applyUpdates()` do to rows is a recursive function
of numbers in the models, not an operator, so that a least counterexample (`Induction`) serves where
the induction theorems of the library cannot be used.

## 5. Plan

Done: the task engine, the download job, the Neo task runtime, the accounts, the
launch with its application, the metadata, the cached download, the two engines, the
mod folder, the instances and their groups, the servers; the proofs of section 4. Next, in this order:

1. `INISettingsObject` with overrides: suspended saves that nest, a reload during one,
   a reset of an override; what was set is saved at the end of the outermost.
2. A change of the instance directory (`InstanceList::on_InstFolderChanged`) while a
   staging task has its directory below the old one.
3. Launches without a controller (`cli/OperationService.cpp:1563`), of games and of servers.

## 6. Not modelled

`PROJECT.json` lists every component with its status. Left out for good: parsing
and resolution of JSON documents, archives and file-system work, presentation,
external programs (aria2 itself, game processes, the authentication sidecar), and
vendored libraries. These are by far the larger part of the repository's lines: Qt widgets and
dialogs, the Vue front end, page-by-page access to mod platforms, and bundled styles and
decoders keep no state that outlives a call, or none that two actors share.

Within the modelled parts: labels, status texts, progress and transfer rates, error
messages, and disk failures while the journal is written; metadata that a provider builds from
Maven repositories; redirects that loop; an abort of a request before its start; uploads and
downloads without a cache entry; aria2's options, proxies and its list of downloads for
display (`m_downloads`); the metadata files of mods (`.pw.toml`), the other kinds of
resource folders and their preparations; and a file that is rewritten in place, which the
directory watcher does not announce; of the instances, collapsed groups, shortcuts, play times, the
change of the directory, and a command line process that works in the same one; of servers, their
command line, console and lists of plugins, and an instance removed while its server runs.
