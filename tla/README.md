# TLA+ specifications of the 115 STRM helper

This directory specifies the concurrent and crash-prone core of
`plugins.v3/p115strmhelper`, the largest plugin of this repository: the code that
decides *who may work on what, in which order, and what survives a failure*.
Everything is translated from the Python source of the **v3** tree; `PROJECT.json`
maps each definition to the lines it stands for. Paths below are relative to
`plugins.v3/p115strmhelper/` unless they start with `docs/`.

Contents

1. [Inventory of the system](#1-inventory-of-the-system)
2. [Plan](#2-plan)
3. [The modules and the code](#3-the-modules-and-the-code)
4. [What the runs check, and their bounds](#4-what-the-runs-check-and-their-bounds)
5. [Fairness](#5-fairness)
6. [What is proved](#6-what-is-proved)
7. [What is only model-checked](#7-what-is-only-model-checked)
8. [Abstractions and assumptions](#8-abstractions-and-assumptions)
9. [Disagreements between document and code](#9-disagreements-between-document-and-code)
10. [How to run](#10-how-to-run)

## 1. Inventory of the system

The repository holds third-party plugins of MoviePilot, a media manager that runs
them in one process with its own thread pools and database. Most plugins are thin
adapters of an external service. The exception is `p115strmhelper`, which turns files
on the 115 cloud drive into `.strm` pointers of a media library, takes over the host's
transfer of files between cloud folders, and keeps both in step with the cloud.
It exists twice, for host versions 2 and 3; the v3 tree is the maintained one and the
reference here.

### Components, their state and their operations

| component | state | operations | what makes it correct |
|---|---|---|---|
| **Worker queues** `core/worker_queue.py`; subclasses in `helper/monitor/directory_upload_queue.py`, `helper/mediasyncdel/webhook_queue.py`, `helper/mediaserver/emby.py` | current queue, thread, `_stopping`; two locks | `start`, `stop`, `_enqueue_task` (lazy or not), `_worker` | one worker at a time; accepted work is settled once, in order, or the queue is not forgotten; nothing accepted behind the stop sentinel |
| **Path locks** `patch/transfer_chain.py` `_lock_paths` | class-level table key -> [Lock, count] | enter and leave for a set of keys | plans with a common key exclude each other; no deadlock; no leak |
| **Batch coordinator** `helper/transfer/batch.py` and the gate of `durable.py` | pending operations, futures, on-demand thread, `_closing`, `_active` | `submit`, `_run`, `shutdown`, `operation` | each operation answered once; no operation without a thread; one key per request; `True` from shutdown means quiet |
| **Durable batch transfer** `helper/transfer/durable.py` | the host's ledger of steps, leases; the cloud folders | `execute` (capture, materialize, rename), `_execute_operations`, `_observe_*` | no duplicate copy, no foreign file adopted, completed means in place, every task settles |
| Host patching `patch/transfer_chain.py` | originals, batch handler, context variables | `enable`, `disable`, routing of plans | only when nothing runs are patches removed |
| **Helper workers** `helper/transfer/workers.py` | extra threads around the host's queue, `_stopping`, the replaced `queue.get` | `ensure`, the replaced `get`, `shutdown` | helpers get only what is theirs, within the limit; every task is taken; after shutdown none runs, and it ends |
| Recovery `helper/transfer/recovery.py` | lease counts | `claim_batch_recovery` | no more claims than capacity; every claimed task handed over |
| **Source cleanup** `helper/transfer/cleanup.py` | cache of completed batches; id caches of the storage | list, list again, delete upwards | no directory with a live file is deleted; emptied ones are; caches name nothing deleted |
| Planning, linking, settlement `helper/transfer/{planning,linked_candidates,settlement,validation}.py` | none of their own | pure transformations and one host transaction | step order, plan identity |
| **STRM post-processing** `helper/strm/transfer/{postprocess,plan,files,identity}.py`, `db_manager/transfer_postprocess.py` | frozen plan and checkpoint per event, owner of each path, a `.part` file, a lock per volume | `run` (write, delete, effects), recovery of a redelivered event, `retry_superseded` | a run cut short is taken up where it stopped; a plan acts on what it saw and nothing newer; outputs of files still in the cloud stay |
| **Share audit queue** `helper/strm/share/audit_download_queue.py` | tasks in memory and in a file, marks `download_required`, worker thread | enqueue, upgrade, process, retry, deadline, start, stop | what was accepted survives a restart, is in one task, is handed over once, and leaves the queue by its deadline; an accepted upgrade is not lost |
| Interactive share queue `helper/strm/share/create.py` | queue, worker thread that ends when idle | add, worker loop, stop by a sentinel | nothing added is left without worker when the idle one ends |
| **Life monitor** `service/life/__init__.py`, `once_pull` of `helper/life/client.py`, `iter_life_behavior_once` of `core/p115.py` | cursor in memory and in the plugin's data, batch of events | start, stop, pull page by page, hand over, retry | the cursor passes nothing that was not handed over; events are handed over in order |
| Transfer waits `helper/life/transfer_wait.py` | none of its own | poll host tables before a pull | a pull waits for running transfers |
| Directory monitor `helper/monitor/__init__.py` | keyed locks, stability tracker | file events, periodic re-check | a file is queued once it is stable, and once |
| Full and incremental sync `helper/strm/{full,increment}` | bulk pipelines | walk, map paths, write | output equals the mapping of the tree |
| Play redirect `helper/r302` and `core/cache.py` | per-key locks, caches | resolve link | one resolution per key at a time |
| Limiter `utils/limiter.py` | time of last call | acquire | spacing of calls |
| **OAuth** `helper/hdhive/open` and `services/hdhive-auth-broker` (Go) | bundle of tokens and instance key; the broker's states | request, refresh, start, complete, revoke | an authorization is not lost by concurrent refreshes; a revoked one stays away |
| Sync-delete, share cleaner, media-server scan | sequential scripts over services | | |
| Service lifecycle, API, configuration, databases | glue | `init`, `stop` | components stop in order |
| Upload client `core/u115_open.py` | protocol session | upload, retry | |
| v2 trees, other plugins, front ends, scripts, native code | | | |

### How the core components interact

```
host worker threads --claim/lease--> host ledger of tasks and steps
   |  execute_plan (patched)                ^ begin / record / observe
   |    with _lock_paths(keys): ......PathLocks
   |      with durable.operation(): ...gate of BatchCoordinator
   |        execute(): capture -> materialize -> rename   (DurableBatch)
   |           submit(key, payload) and block on a future
   v                                        |
 coordinator thread: take, validate lease, group by key, one cloud request,
                     list the folder, answer every future ----> 115 cloud
 finished transfer --event--> STRM post-processing --> files, media servers
 host queue <--put, get-- host workers and HelperWorkers
 ended task --> SourceCleanup --list, list again, delete--> 115 cloud
 file system / webhooks --> worker queues (WorkerQueue) --> uploads, deletions
 share still audited --> ShareAuditQueue --> downloads --> MoviePilot
 events of the cloud drive --pages--> LifeMonitor --> handlers --> .strm files
 resource requests --> OAuthSession --refresh--> broker --> HDHive
```

Calls are synchronous Python calls; shared state is guarded by locks and condition
variables; the only messages are queue entries and futures. The host's ledger (its
database) and the cloud folder are what a crash leaves behind.

### Which behaviours are hard

* **Stop against start against enqueue.** `stop` joins a thread outside the lock that
  admission uses; the join may time out; a task may stop its own queue; a worker may be
  killed by a `BaseException` or scheduled first when its queue is no longer current.
* **Reference counts under contention.** Lock entries are deleted and created while
  other plans wait for them.
* **A thread that comes and goes.** The coordinator thread ends itself when nothing is
  pending, while `submit` checks whether there is one.
* **Ambiguous outcomes.** A move, copy or rename may be applied wholly, partly or not
  at all, whatever its reply; what happened is read back from a folder listing that may
  fail, possibly by another thread after a lost lease or a crash.
* **Partial failure of a batch.** Files of one request are confirmed one by one.
* **Shutdown that returns `False`.** The patches are removed only after a `True`.
* **Checkpoints between side effects.** Post-processing publishes a file and then records
  it; the process may die in between, other events may work on the same paths before the
  redelivery, and the cloud may have moved on.
* **Work on a copy.** The audit worker holds no lock while it downloads; callers change
  the items of its task meanwhile.
* **A list that moves while it is read.** Life events are listed newest first in pages;
  new ones push entries down, vanishing ones pull them up.

* **One notification, two kinds of waiters.** A helper and a host worker wait on the same
  condition of the host's queue; a `put` wakes the one that has waited longest, whatever
  the task is.
* **Judging and deleting a tree that others change.** Files are moved out of and uploaded
  into a directory between the requests that judge it and the one that deletes it.
* **A bundle that nobody locks.** OAuth tokens are loaded in one step and saved in a later
  one by any number of threads, one of which may have cleared them.

The complete list, with lines, is under `hazards` in `PROJECT.json`; those without a
property say why.

## 2. Plan

Order of work, the most important behaviour first. Abstract specifications are in
italics.

| step | modules | question | state |
|---|---|---|---|
| 1 | `WorkerQueue`, *`TaskService`*, `WorkerQueueProofs` | does the stop/start barrier lose, reorder or double work? | done, proved |
| 2 | `PathLocks`, *`AtomicPathLocks`*, `TransferThreadsProofs` | do reference-counted locks equal taking all keys at once? | done, proved |
| 3 | `BatchCoordinator`, `BatchCoordinatorProofs` | is each operation answered, is shutdown quiet? | done, proved |
| 4 | `DurableBatch`, `MCDurableBatch`, `DurableBatchProofs` | no duplicate, no foreign file, every task settles, under crashes | done, proved |
| 5 | `TransferPostprocess`, `MCTransferPostprocess`, `TransferPostprocessProofs` | crash between publication and checkpoint; other events on the same path | done, proved |
| 6 | `ShareAuditQueue`, `ShareAuditQueueProofs` | upgrades of an item in flight; retry against deadline; restart | done, proved |
| 7 | `LifeMonitor`, `MCLifeMonitor`, `CloudProofs` | cursor under failures, stops, crashes and moving pages | done, proved |
| 8 | `HelperWorkers`, `TransferThreadsProofs` | retirement against arrival, start failures, shutdown | done, proved |
| 9 | `SourceCleanup`, `MCSourceCleanup`, `SourceCleanupProofs` | list, list again, delete against moves and uploads | done, proved |
| 10 | `OAuthSession`, `MCOAuthSession`, `CloudProofs` | concurrent refresh, new authorization and revocation | done, proved |
| 11 | recovery claims | capacity computed before the scan; a scan that fails half-way | planned |
| 12 | `KeyedLocks` (302 redirect, directory monitor) | eviction of a lock in use | planned |
| 13 | `ShareInteractiveQueue` | idle exit of the worker against arrival | planned |

`DurableBatch` composes the ideas of 2 and 3: it takes path locks all at once, which
`TransferThreadsProofs!ImplementsAtomicLocks` justifies, and keeps of the coordinator the
pending list, the taken batch and one group at a time, which
`BatchCoordinator!OneThreadWorks` justifies.

Every safety property and action property that a run checks is also proved, but for the
ones that fail (section 9). Two modules hold the proofs of two components each:
`TransferThreadsProofs` those of the locks and the helper threads of a transfer,
`CloudProofs` those of the two components that talk to a service outside; the modules they
extend name their state apart for that (`pathVars`, `authVars`). Modules with proofs, and
what they extend, use no `RECURSIVE` operator. A thread that fails to start is planned as
an action of `BatchCoordinator`.

## 3. The modules and the code

Every module names, in its comments, a few *faulty variants*: small definitions next to
the real one that stand for a plausible bug. They are used by no action; `PROJECT.json`
(`mutants`) says which property each of them breaks when it takes the place of the real
definition.

### TaskService (abstract)

A serial service: a counter of accepted and one of settled tasks, and whether it is
open. It opens only with an empty backlog and settles in order of acceptance.

### WorkerQueue

| specification | code |
|---|---|
| `queue`, `worker`, `stopping`, `lifecycle` | `_queue`, `_worker_thread` (as generation numbers, 0 for `None`), `_stopping`, `_lifecycle_lock` |
| `captured` | `stop`'s locals `queue`, `worker` |
| `contents`, `unfinished` | what a `queue.Queue` holds, `unfinished_tasks` |
| `wpc`, `wqueue`, `wtask` | a worker thread: place in `_worker`, local `q`, current task |
| `admitted`, `handled`, `deaths` | bounds and history |
| `Start`, `EnqueueRunning`, `EnqueueLazily` | the critical sections of `start` and `_enqueue_task` |
| `StopRequest`, `StopFinish` | the two critical sections of `stop`, with the join between them |
| `WorkerSelfStop` | `stop` called on the worker thread |
| `WorkerBoot` ... `WorkerExit`, `WorkerDies` | the `_worker` loop of the subclasses |

`StopFinish` is enabled at any time after `StopRequest`: the join ends by the worker's
exit or by its timeout. The three subclasses differ only in what a task does and in
whether admission starts the queue lazily (`LazyStart`).

### AtomicPathLocks (abstract) and PathLocks

The abstract module gives a plan all of its keys in one step. In `PathLocks` the table
maps a key to the *version* of its entry, because a deleted and re-created entry is a
different lock; `count[k][v]` and `holder[k][v]` are the two fields of the entry,
`mine[p]` the local list `entries`, `got[p]` the exit stack, `stage[p]` where the call is.
`Register` and `Unregister` are the two sections under `cls._lock`, `Acquire` takes the
next lock in sorted order, `EnterBody` and `LeaveBody` bracket the body, `Release` unwinds
the stack in reverse.

### BatchCoordinator

`gateClosing`, `active` are `DurableBatchTransfer._closing`, `_active`; `pending`,
`closing`, `worker` the coordinator's fields; a coordinator thread `g` has its place
`tpc[g]` and the locals `batch`, `groups`, `running` of `_run`. `Submit` is `submit` up
to the wait on the future, including the start of a thread; `Retire` is the section that
sets `_worker = None` and returns, after which the thread is still alive for a moment
(`Exit`). `ExecuteAnswer` and `ExecuteEnd` leave the executor any order of answers and
any exception. `ShutdownBegin`, `ShutdownTimeout`, `ShutdownDrained` and `ShutdownEnd`
are the stages of `DurableBatchTransfer.shutdown`; the last two are
`BatchCoordinator.shutdown`.

### DurableBatch, MCDurableBatch

`dir`, `name`, `made` are the cloud (a copy is the pair of its source and a number);
`ledger` and `owner` are the host's database; a host thread has `pc`, `task`, `op`,
`answer`; `pending`, `todo`, `request` are the coordinator. `ledger[t].known` is the
folder snapshot of the capture step, `ledger[t].file` and `.name` the evidence of the
materialize step.

`Matches`, `ObserveMaterialize`, `ObserveRename` translate `_observe_materialize` and
`_observe_rename`. `ExecuteBatch` repeats the lease check and splits by kind,
`SendRequest` lets the cloud apply any part of the group, `ConfirmRequest` answers by
what the listing shows, `ListingFails` fails the group. `Recover*`, `ObserveFailure`,
`Observed*` and `Review` are what the host's step runner does with the callbacks it is
given: after a failure, or for a step a dead thread began, it observes; "applied" is a
success with the evidence found, "not applied" a retry, everything else manual review.
`LoseLease`, `Crash` and `SourceVanishes` may happen at any time.

### TransferPostprocess, MCTransferPostprocess

| specification | code |
|---|---|
| `record[e]`, `owner[p]` | rows of `TransferPostprocess` (state and plan) and `TransferResource` |
| `disk[p]`, `staged[e]` | library files and `.p115-<key>.part` files, as fingerprints |
| `cloud[c]`, `trash` | what `current_file` finds, and what may be restored |
| `holder` | the library lock of `lock_libraries` |
| `plan[e]`, `victim[e]`, `pc[e]` | the run's plan in memory, the locals of `_delete`, its place |
| `emitted`, `made`, fault counters | history and bounds |

An event is also the identity of the cloud file its transfer produced, which is what
`matches_file` compares. `Begin` is `run` up to the first query: load or build and save
the plan under the lock. `FreezeSize`, `Check` and `Effect`, `Emit`, `Mark` are the
queries and the effects of `run`; `Write` to `CompleteWrite` are `_write` with one action
for each file operation and query; `Delete` to `Forget` are `_delete` in the same way.
`Supersede` ends a run for good, `Interrupt` ends it by an exception or the death of the
process, with all that was in memory; both release the lock (`flock` belongs to the
process). `Reopen` is an administrator's `retry_superseded`. `Named` and `Probes` are the
cloud paths that must be empty before an old file is deleted: of its recorded owner, of
the move, or the one named in the `.strm` file, of which `Readings` are the possible ones
when several cloud paths share an output. A row of `owner` is an event, the cloud path `at`
and a fingerprint; after a deletion it stays as a tombstone without fingerprint that keeps
the path (`Forget`). `Tamper`, `Remove` and `Restore` are other
programs and users.

### ShareAuditQueue

`tasks`, `required` are `_tasks` and the marks of its items - the dicts of the items are
shared by the queue and the worker's copy of the task, so a mark is one flag -, `saved`
is the file. `job` is the dict that `_next_due_task` copied, `results` what the loop over
its items has found so far; `Query`, `Choose`, `Download`, `Settle`, `Conclude` are
`_process_task` cut where it has no lock. `Add` is `_enqueue_items`, with its rollback;
`Save` may fail everywhere, and only `_enqueue_items` looks at the result.
`OwnDownloadFails`, `AskState`, `EnqueueFailed`, `RemoveInvalid` are a caller of
`enqueue_failed_auditing_downloads`. `Restart` is the death of the process and the next
`start`.

### LifeMonitor, MCLifeMonitor

`cursor` is the pair `from_time`, `from_id` of the thread, `saved` the plugin's data;
`batch`, `offset` are locals of one pull and `attempt` counts its tries. An event is its
number of appearance, so the cloud's list, newest first, is the set `Listed` of the events
that have not vanished, and `Rank` is the place of an entry in it: `Entries(offset, Size)`
is a page. `read` holds the new entries read by a pull; their files are the code's `seen`
(`Seen`). The batch is a list of pages in the code, each newest first; here it is a set of
events with the offset of their page, and `Upcoming` is the last of the list: of the last
page, the oldest. `FetchPage` reads a page and yields `Fresh` events; `HandleEvent` hands
over the upcoming one; `HandlerFails`, `PullFails`, `LoginInvalid` are the three ways to
fail; `StopInLoop` saves the cursor, `StopAfterFailure` does not. The other variables are
history: what was handed over (`handled`, `latest`), what the start left out (`base`), what
moved between pages (`arrivals`, `slipped`), and what was passed over because of that
(`hidden`).

### HelperWorkers

| specification | code |
|---|---|
| `queue`, `waiters` | the host's queue and the waiters of its `not_empty`, in order |
| `threads`, `stopping`, `patched` | `_threads`, `_stopping`, whether `queue.get` is replaced |
| `pc[w]`, `item[w]` | what a host worker or helper does, and its task |
| `shut`, `joining` | the thread in `shutdown` and the helpers it has still to join |
| `Put`, `EnqueueEnsure`, `Handle` | the two callers of `ensure` in `transfer_chain.py` |
| `Ensure` | `ensure`: one step, since `_lock` is held all along |
| `Take`, `Wait`, `Timeout`, `Empty` | the host's `get` and the replaced one |
| `Snapshot`, `Joined`, `GiveUp`, `JoinRaises`, `Restore` | `shutdown` |

A helper's `get` passes over tasks that are not eligible and gives up after a second; a
host worker's takes the first task. A helper that retires is alive until its thread has
ended (`End`). A thread whose start failed stays in `_threads`; `ensure` drops it the next
time, and `shutdown`, if it comes first, raises as it joins it.

### SourceCleanup, MCSourceCleanup

`there`, `loc` are the cloud, `cached` the storage's id caches; `phase`, `cur`, `folders`,
`lists`, `visited`, `cands`, `confirmed`, `observed` are the locals of `_cleanup_paths`,
`completed` is `_completed`. One action is one request to the cloud: `GetItem`, `Scan` and
`Rescan` (a listing), `Delete`; `Fail` is an exception of any of them, and `Delete` may
have worked although its answer is an error. `GetItem` is answered from the id cache of the
storage (`p115_api.py:511-514`) or by the cloud, since entries expire: after a deletion whose
answer was lost it may still find a directory that is gone. Its listing then fails and with
it the call (`ListGone`), and the storage drops the id if the cloud says that it is no
directory's (`p115_api.py:264-269`). `contains_media` stops at the first media file, but
goes into the subdirectories that the listing names before it; a listing's order is the
cloud's, so `Pending` directories may be read before a directory is refused, or not.
`NextSource` to `Reject` are the walk from a
source upwards, `Reread` to `Decide` the second pass, `Forget` the update of the caches.
`Submit`, `Move`, `Enter`, `Upload` are the other workers and users. `late`, `unsure` and
`unclean` are history. `Removable` are the directories a call is to delete once they are
empty: outside of the configured directories the code asks for a directory without any
entry, so that of two nested ones a call deletes the inner and leaves the outer.

### OAuthSession, MCOAuthSession

`bundle` is what the plugin's data hold, `states` the broker's memory, `live`, `good`
HDHive's tokens; a call has its `place` and the token and instance key it has loaded.
`Resolve` to `Send` are a resource request; `Load` to `Save` are `broker_refresh`, which
loads the bundle, asks the broker and saves, in steps of their own; when it finds no instance
key it loads once more (`LoadAgain`) before it makes one (`NewKey`); `WithKey`, `OAuthStart`,
`Submit`, `Exchange` are a new authorization, where `Submit` takes the state from the
broker (once) before the exchange; `Revoke` to `Clear` are `broker_revoke`. `Forget` is
the broker's janitor or restart, `Expire` the passing of time. HDHive is external:
`Rotates` says whether a refresh token works once.

## 4. What the runs check, and their bounds

A property that section 6 proves for all constants is checked by a run too where the
instance is what makes it meaningful (fairness, refinement, a mutant that only it can
kill); the others (`TypeOK` of most modules, `PathExclusion`, `PendingHasWorker`,
`AnswerIsFinal`, `ForgottenOnlyWhenSettled`, `LiveWorkerOwnsQueue`, `OneTaskPerItem`,
`HelpersBounded`) are not repeated in the runs.


| run | instance | what it shows |
|---|---|---|
| `worker_queue` | 2 stoppers, 3 generations, 4 tasks, 1 worker death | `SettledInOrder`; implements `TaskService`; a requested stop ends the worker; accepted tasks are settled unless a worker died |
| `path_locks` | 3 plans, keys 1..3, 2 versions, 4 calls | the table equals its use, implements `AtomicPathLocks`, every call completes |
| `batch_coordinator` | 3 callers, 2 keys, batches of 2, 3 operations, 2 coordinator threads | one thread works, admitted callers are never refused, `True` means quiet, every operation is answered |
| `durable_merged` | a move and a copy that share their requests; the move renames to a name of its own, the copy keeps its; 1 lost lease, 1 crash, 1 vanishing source, 1 retry | no second copy, completed files are in place under their name, the landed file is the task's own, every task settles |
| `durable_duplicates` | 2 copies with one name and one content, no crash | expected violation, see section 9 |
| `post_process` | two events for one cloud path, one of which replaces other versions, and a move away from it; 1 effect, 1 fault | what the library settles on (`SettledLibrary`), clean-up spares outputs of files still in the cloud (`LiveOutputKept`), `ActsOnPlanned`, `RecoversPublished`, `EffectsAtLeastOnce`, every event is settled |
| `share_audit` | 2 files, one to be handed over, 1 caller, deadline 2, interval 1, clock to 3, 2 faults, 2 changes of the share | what waits is in the file, is handed over once, and leaves the queue |
| `share_audit_deferred` | the same with 1 fault | expected violation, see section 9 |
| `life_monitor` | 5 events of 3 files, one ignored, one vanishing; pages of 1 and 2, 2 tries, 2 faults, 2 starts, mode `last` | `NothingSkipped`, `InOrder`, every event is handed over |
| `source_cleanup` | 8 directories, 2 jobs of one batch with 4 sources, a file that is no media, 2 uploads, 1 remembered key, 1 failure | `MediaKept`, `OutsideKept`, `CacheClean`, `EmptiedGone` |
| `helper_workers` | 1 host worker, 2 helpers, a task for helpers and one that is not, 1 failed start, 2 shutdowns | `OnlyEligible`, `StoppedForGood`; every task is taken, shutdown ends |
| `oauth_session` | 2 requests, a start, a completion, a revocation; refresh tokens work once; 1 expiry, 1 loss | `AuthorizationKept`, `BackOnlyFromUnderway` |

Why the bounds are enough to meet the interesting cases:

* `worker_queue`: a stop that timed out needs one generation, a stop that overlaps a
  start two, a worker booting late next to a restart two; the third lets that happen
  after a complete cycle. Four tasks put two behind a sentinel-to-be and one after it.
* `path_locks`: three plans let one wait, one leave and one arrive; two versions let an
  entry be deleted and re-created while the old one is still referenced (a version is
  free again once nothing refers to it); a circle of waiting plans needs two keys.
* `batch_coordinator`: with batches of two, three operations make a full batch and a
  remainder; two threads make a retired and a new one meet. A `Submit` that would need
  a third thread is cut off.
* `durable_*`: two tasks are what a merged request, a conflict on a landing path and the
  adoption of a foreign file need. A second copy is possible, so that `NoDuplicateCopy`
  can fail. One lost lease lets a thread without lease meet its successor.
* `post_process`: the fault is a run cut short at any step, a write or deletion by another
  program, a removal from the cloud or a restoration. Two events for one path, one of which
  deletes other versions, and a move are the ways in which plans meet: a run that was cut
  short is taken up after the others have acted.
* `share_audit`: two files make tasks of one and of two items, and one that fails beside
  one that does not. With a deadline of two and an interval of one there is a retry
  before, one at the deadline, and one past it. Each fault may be a failed save, download
  or hand-over, a stop or a restart, so any two of them meet.
* `life_monitor`: the smallest pages make every event cross a page boundary; five events
  fill three pages; two tries let a pull fail once and for good; the faults let a handler
  fail and the process die afterwards. A file has three events, of which the ignored one
  hides an older event, and after a burst of arrivals a younger one.
* `source_cleanup`: a source in a folder, one in its subfolder, one in a folder that also
  holds the library and one outside of every configured directory make each case of the boundary
  rule; with one key remembered the second call drops the first one's; uploads come
  before, between and after the two readings of a directory.
* `helper_workers`: a notification can go to the wrong one of two kinds of waiters, and one
  helper can retire or fail to start while the other is at work; a second shutdown follows
  one that gave up or raised.
* `oauth_session`: two requests refresh side by side while a new authorization is saved or
  the bundle is cleared; one expiry makes both refresh, the loss is that of an answer.

`CHECK_DEADLOCK FALSE` is in each configuration because each bounded system comes to
rest: the queue is stopped, the calls are used up, the tasks are settled. That nothing
stops *early* is what the liveness properties say.

Symmetry is used in `oauth_session` only, whose two requests are alike and which checks
invariants; most other configurations check liveness, where it is unsound.

## 5. Fairness

Weak fairness everywhere but in one place, and only for steps that the code's own
threads owe:

* `WorkerQueue`: a worker thread that can go on does, and its task returns. Callers of
  `start`, `stop`, `_enqueue_task` owe nothing; a join needs no fairness.
* `PathLocks`: a thread in a call goes on when it can, and the plan it executes ends.
  A Python `Lock` makes no promise to a waiter, so `Acquire` has weak fairness only;
  `CallsComplete` still holds in the bounded system, because calls are finite. In an
  unbounded one a waiter could be overtaken for ever by others: the property shows the
  absence of a deadlock, not of starvation.
* `BatchCoordinator`: the coordinator thread is scheduled, and every `_execute` call
  ends (the cloud client has timeouts). Callers and shutdown owe nothing.
* `DurableBatch`: coordinator and host threads are scheduled, and a waiting task is
  claimed when it can be claimed again and again (strong fairness of `Claim` per task:
  the host scans its table periodically, but a thread that is free now may be busy at
  the scan). The cloud, crashes and lost leases owe nothing.
* `TransferPostprocess`: a run goes on once it has the lock, and the host redelivers an
  event until its handler returns (an exception is what makes it redeliver). Faults and
  the surroundings owe nothing and are finitely many.
* `ShareAuditQueue`: the worker wakes up every minute, whether notified or not, and time
  passes up to the bound. Downloads and hand-overs return, with success or not.
* `LifeMonitor`: the thread is scheduled, and its requests and handlers return or raise.
* `HelperWorkers`: threads are scheduled, transfers end, waits time out, whoever has put a
  task calls `ensure`, and `shutdown` goes on. Its deadline owes nothing: `ShutdownEnds`
  holds without it.

`SourceCleanup` and `OAuthSession` state safety only.

## 6. What is proved

The proofs hold for every value of the constants that satisfies the module's
named assumptions (bounds are any natural numbers, so a property is proved for every
length of behaviour). They are checked by TLAPS with Z3, Zenon and LS4.

### WorkerQueueProofs

`Typed`, `InOrder`, `NothingForgotten`, `OneWorker`, `SentinelLast` and
`ImplementsService` follow from `Invariance`, that `IInv` is inductive.

None of the properties is inductive by itself. That tasks are settled in order depends
on what the queue still holds; that depends on which generation is the current one; and
that depends on what a `stop` in progress has captured. `IInv` therefore says:

* `LastGeneration`: the object refers to the last generation or to none, and only its
  worker can be alive, reading its own queue;
* `OthersEmpty`: earlier queues are empty and settled;
* `Counted`: `unfinished_tasks` is what is queued plus what is in the worker's hands;
* `Consecutive`: the queue holds consecutive task numbers, beginning after the settled
  and the current one, and a sentinel only at the end;
* `NothingLost`: settled, current and queued tasks are all that was accepted;
* `InHand`: the current task is the next to settle;
* `Stopping`: no sentinel without `_stopping`; a `stop` in its join has captured what
  the object still refers to, because the lifecycle lock keeps `start` away and lazy
  admission is refused.

`ImplementsService` maps `open` to "worker alive and not stopping" and counts settled
tasks; each action is shown to be a step of `TaskService` or a stutter.

### TransferThreadsProofs: path locks

`PathTyped`, `Exclusion`, `NoLeak` and `ImplementsAtomicLocks`, for any finite set of
threads and any set of integer keys. The central conjunct is `SharedEntry`: all threads
in a call on a key refer to the entry the table has *now*. It survives `Unregister`
because `CountExact` makes the count equal to the number of threads registered: an entry
is deleted exactly by the last of them. With it, holding an entry's lock (`LocksHeld`)
excludes everyone else on the key (`OneHolder`), which gives exclusion and the
refinement.

### TransferThreadsProofs: helper workers

`Typed`, `EligibleOnly`, `WithinLimit` and `GoneForGood`, for any tasks, host workers and
finite set of helpers, any limit and any number of shutdowns and failed starts.
`WithinLimit` proves `HelpersBounded`, which needs that every helper alive is in
`_threads` and that there are at most `limit` of them (`HelpersSound`): `ensure` keeps the
living, a helper that is retiring among them, and starts no more than there is room for
(`EnsureKeeps`, with `CountFacts` on cardinalities). `StoppedForGood` holds because a
thread in `shutdown` has set `_stopping`, after which `ensure` starts nobody, and because
all helpers alive are in the list that is looked at before `get` is put back; `OnlyEligible`
needs the same list, since an unpatched `get` would serve a helper anything. `LineSound`
and `ItemsSound` say that who waits is in the line once and who has no task holds none.

### BatchCoordinatorProofs

`Typed`, `OneThread`, `NobodyLeftBehind`, `AdmittedServed`, `QuietWhenDown` and the action
property `AnswersStay`, for any finite set of callers and any batch size. The invariant
says where an unanswered operation can be (`Located`): pending, or in the hands of a
thread; that only the thread `_worker` refers to works (`OneThreadWorks`, `WorkerWorks`)
and others have empty hands (`EmptyHands`); that the gate's counter is the number of
callers inside, and that the coordinator closes only over an empty gate (`Gate`); and that
a `shutdown` in its join has captured the last thread there will be (`Closed`). With
these, a join that finds the captured thread dead implies that nothing is in flight.
`AnswersStay` needs `Waiting` (what is queued is not answered) and `Ordered`: operations
are taken in the order of their numbers, so none is in two places and an answer given to
one cannot belong to another that still waits.

### DurableBatchProofs

For any tasks, files in the folder, threads, batch size, number of retries, crashes, lost
leases and vanished sources, in two levels.

`Base` holds whatever the files are, and gives `Typed`. Its
heart is that the row of a task changes only under the path locks of a thread that
holds its lease: a lease is that of a thread at work on the task (`Leases`); two threads
past their locks work on different tasks (`Exclusive`, since a task's own source is one
of its keys), also when one of them has lost its lease and does not know it; so a thread
that waits for its answer finds the ledger as it left it (`WorkingOf`). `QueueSound`
places every unanswered operation once: pending, in the taken batch or in the request.

`Outcome` says that what the ledger holds, and what an answer
not yet recorded says, is so in the cloud (`RowFits`, `AnswerOf`), and that a copy asked
for and not yet sent has not been made (`CopyOnce`). The last is what makes a retry safe:
a step is begun again only after an observation "not applied", and a copy that was made
would have been seen (`NotMade`), because its name, content and absence from the snapshot
are what `Matches` looks for. The converse, that what `Matches` finds is the task's own
(`EvidenceOwn`), needs a hypothesis on the files:

    SourcesApart: of two tasks, the contents differ, or the source's name of one is
                  neither the source's nor the planned name of the other.

Under it `CopiedOnce`, `LandedOwn`, `CompletedInPlace` and `LandedKept` prove
`NoDuplicateCopy`, `LandedIsOwn`, `CompletedIsInPlace` and `LandedFileKept`. The
instance of `durable_merged` satisfies it; that of `durable_duplicates`, where
`LandedFileKept` fails, does not (section 9).

### TransferPostprocessProofs

For any sets of events, paths and cloud paths and any number of faults, in two levels.

`IInv` gives `Typed`, `EffectsCounted` and the action property `PlannedOnly`. That a plan
acts on what it saw has two halves. The plan a run carries in memory must be the one in
the database but for the fingerprint of its own output (`AgreeOf`), in particular after a
redelivery by another process: that is what the property compares with. And what
`Compare`, `Delete` and `Recheck` saw must still be there one step later (`VictimOf`,
`InPlaceOf`): nobody but the holder of the lock writes a version of an event, which is why
`TypeOK` includes that the holder is the one run under way. `CountOf` relates the effects
made to those recorded and to the runs cut short.

`KInv` is about the outputs and gives `LibrarySettled`, `LiveOutputIsKept` and
`PublishedIsRecovered`. It rests on what a version tells (`OwnOf`): a file written by an
event is the event's planned output, in exactly the version its record calls prepared, and
until the checkpoint its path is owned as it was when the plan was frozen. So a
redelivered run that finds its file in place recognises it (`RecoversPublished`), because
that comparison is the one `Published` makes, and no run writes while its own file is in
place (`StageOf`).

That no *other* run takes the file away needs the cloud. `OwnerOk` and `CleanOf` say that
an owner, a tombstone and every probe of a deletion name cloud paths whose output the file
is; so when only one cloud path can have that output, each deletion of the file asks for
the event's own cloud file, finds it, and skips. Between that query and the deletion the
cloud file could come back only from the bin: `GoneOf` keeps what the query said, as long
as nothing was restored, and nothing restored stays so because the bin never holds more
than was removed (`RemovalsCounted`, on cardinalities). Another event with the same output
has the same cloud path, which is occupied, so its run ends at its first check (`AwayOf`).
`LiveOf` then follows: the record of an event whose cloud file is in place is not
superseded, and its output is either there or as the plan saw it.

### ShareAuditQueueProofs

`Typed`, `Durable`, `OneTaskEach` and `HandedOnce`, for any finite set of files, any
callers, times and number of faults. Tasks stay disjoint because a new one takes only
what waits nowhere (`NewKeepsApart`) and the worker only takes away (`LessKeepsApart`).
The invariant asks the same of the *saved* tasks, since a restart loads them, possibly
after several saves that failed. A failed save of the worker leaves a file that holds too
much, never too little; a failed save of a caller is undone (`AddKeeps`): that is
`Durable`. `JobSound` says that the worker's copy agrees with the queue, and that a
worker which is not alive holds nothing. `ResultsSound` keeps the items handed over,
those to keep and those still to settle apart, so that what a task is cut down to was
never handed over.

### SourceCleanupProofs

For any tree of directories, any files, jobs and batches, any number of remembered keys and
of failures, in two levels.

`Safe` gives `TypeCorrect`, `MediaIsKept`, `OutsideIsKept` and `CachesClean`. A listing
goes stale as soon as it is made, so the invariant says in which direction: what is there
and was listed is in the listing, unless it was uploaded since (`ListsSound`). Nothing is
made during a call but such files, and directories only disappear; hence a directory found
free of media stays `Harmless`, with everything below it read, up to the deletion
(`CandsSound`). `SeenSound` is what the second pass adds: a file seen in the first one is
seen again if it lies below a candidate, or the candidate is refused. The caches follow
from `observed`, which holds all that was listed, so that `Uncached` covers everything
deleted but the late files (`CacheSound`).

`Answered` gives `NothingLeftEmpty`, which is about many calls. Two mechanisms could make
the last of them skip a directory: the remembered keys, and what another job's file did to
an earlier call. `Owing` says that an empty directory is always *owed*: one of the tasks
below it is in no remembered key, and its job has a task or a failed call still to come, or
is the one being cleaned up. `Covered` shows why that survives a call: the key of the call
holds all tasks of its job, and a file that it saw and that has left since belongs to a task
of another job that is still to end. `WalkSound` follows the walk: each directory from a
source upwards is a candidate, or is `Held` by a file seen, or lies under a confirmed one
(`SourcesRead`, `Judged`, `Rejudged`, `Finished`); that the climb may stop at a directory
already visited is seen at the shallowest one where it did (`WalkComplete`). The attempt to
prove it without `Removable` failed for a reason: see section 8.

### CloudProofs: life monitor

`LifeTypes`, `CursorSkipsNothing`, `HandedOverInOrder`, for any number of events and files,
any pages (the first not longer than the others), tries, faults and starts. The difficulty
is that places and events move against each other. `Pulling` says what the offset is worth:
every entry at a place before it is read, or is newer than all that the batch holds, or has
slipped up behind a vanished one. So when the pull ends, at a known event or at the end of
the list, whatever is older than an event of the batch has been dealt with (`Handing`), and
the cursor may be set to it. What was read has a `Fate`: it is in the batch, ignored, or
hidden by an event of its file.

The order across pages is `Ordered`: as long as no more events arrived than the first page
holds, an event of a later page is older. It rests on `Overtaken`: an entry that an older
one overtook was at a place so far within those passed that no arrivals allowed can push
it to the next page; `Before` counts the entries ahead of it since the pull began, which
only a vanishing changes, and then for all of them alike (the lemmas on ranks are about
cardinalities of sets of numbers). The same argument shows when an older event read first
can hide a younger one of its file, which is the exemption `hidden` of `NothingSkipped`.

### CloudProofs: OAuth session

`OAuthTypes`, `RefreshesKeepAuthorization`, `RevokedStaysRevoked`, for any set of calls of
any kinds, any broker states, and both token rules of HDHive. `AuthorizationKept` is not
inductive: a refresh that saves may overwrite a pair that is live. `Own` adds that a token
about to be saved was issued to one call, is in nobody else's hands and not yet in the
bundle, and is live unless somebody revokes; so whichever of two refreshes saves last, what
it saves is accepted. `Keyed` says that the instance key is there as long as nobody revokes:
a call that finds none makes one and saves an otherwise empty bundle over what the plugin
had (`NewKey`), which therefore happens after a revocation only. For the revocation,
`NothingBack` says that once the data were cleared with nothing under way, no request waits
for the answer to a refresh, and that a save still to come is one of a new authorization;
`KindAt` places the calls by their kind.

## 7. What is only model-checked

* Liveness (`StopEndsWorker`, `AcceptedIsSettled`, `CallsComplete`, `EveryOpAnswered`,
  `EveryTaskSettles`, `ArrivedIsSettled`, `QueuedSettles`, `EventsHandled`,
  `TasksTaken`, `ShutdownEnds`):
  temporal proofs under fairness need `ENABLED`, which the prover does not handle.
* `MarkedIsFetchedAgain`, which fails (section 9).

## 8. Abstractions and assumptions

* Sections under a Python lock or condition variable are atomic; everything between two
  of them is a separate action.
* `Thread.is_alive()` is true from `start` until the thread function has returned, also
  in the moment after its last statement (`exit`). `Thread.start` succeeds everywhere but in
  `HelperWorkers`.
* The delay window of the coordinator is a nondeterministic choice of when a batch is
  taken; timeouts of joins and waits may expire at any time.
* In the coordinator, an executor that raises a `BaseException` is left out: the code
  answers the group in `finally` and lets the thread die.
* The cloud has applied a request, wholly or in part, before the folder is listed after
  it. A request applied *after* the listing that said "not applied" would make a
  duplicate; whether that can happen is a question about the remote service.
* The cloud accepts several files of one name in a folder (which is why the code counts
  matches). Renames and moves keep a file's id.
* A listed file without id or pickcode makes an observation "unknown" in the code. When
  the host observes, this is covered by `Review`; in a confirmation only the failure of
  the whole listing is modelled (`ListingFails`), not that of one file of the group.
* One target folder and one storage instance; several folders only split batches
  further, which `BatchCoordinator` covers with its keys.
* The host (leases, ledger, retry policy) is outside the repository and is modelled from
  how `durable.py` and `patch/transfer_chain.py` use it. A lease that is lost is taken
  over at any moment; a write to the ledger without lease is refused.
* Post-processing removes directories only when they are empty, refuses symbolic links,
  and deletes the related files of a `.strm` file as it deletes that file: left out. Two
  checks of the cloud in a row without a side effect in between are one. A fingerprint
  contains inode and modification time, so that any two writings differ.
* Other programs do not take the library lock. What they write between the last check
  and `replace()` or `unlink()` is lost; `ActsOnPlanned` speaks of files made for events.
* `SettledLibrary` and `LiveOutputKept` exempt output paths shared by two cloud paths (two
  formats of one film): a later event writes over the earlier one's output, and a run cut
  short between publication and checkpoint leaves a file that nobody owns, which the
  clean-up of a move may delete. They also exempt files restored from the bin.
* The audit queue is modelled with one share; tasks of several shares meet only in the
  order in which they are due. `_process_task` is taken not to raise.
* Past its deadline a task of an approved share whose hand-over fails is due again at
  once, since the next attempt is cut to the deadline (`audit_download_queue.py:608`):
  retried without pause until it succeeds. `QueuedSettles` has finitely many failures.
* Life events have growing ids and times; several events of one second are not told apart
  by time in the code (`from_time` is inclusive, the id excludes what is known). The first
  page is not longer than the others (`FirstPage <= Page`; the code has 64 or 1000, then
  1000). Four kinds of events may be lost or repeated by the code as it is and are exempt by
  name:
  an older event hidden by a younger one of its file, also by one of an ignored type
  (`core/p115.py:436-440`); an entry that slips to a place already read when a younger one
  vanishes between two pages; the order after more arrivals between two pages than the
  first page holds; and, after such a burst, an event that is met only behind an older one
  of its file and is therefore passed over (`hidden`; preparing the proof showed that
  `NothingSkipped` fails without this exemption). A handler that always fails blocks all
  later events and makes the earlier ones of its batch be handed over again and again. In
  mode `last` the cursor is saved at a clean stop only, so a crash repeats everything
  since.
* Source cleanup: ids of directories deleted by a request whose answer was lost stay in the
  storage's caches until they expire or a listing drops them; `CacheClean` exempts them
  (`unsure`). A call that they lead to such a directory fails, and with it the job, which
  `EmptiedGone` exempts (`unclean`). A directory is its path, so folders that are moved,
  renamed or made during a call are left out, as is a job with a failed task, which is never
  cleaned up. A file uploaded after the second listing of its directory is deleted with it (`late`): the cloud
  has no conditional deletion. Outside of the configured directories the code requires a
  directory to have no entry at all (`cleanup.py`, `eligible`), so of nested empty folders a
  call deletes the innermost only, and the outer one stays unless a later job passes by:
  `EmptiedGone` speaks of `Removable` directories, below the configured ones or with no
  directory below.
* Helper workers: what makes a task eligible is its path and mode, and fixed. A shutdown
  called by a helper itself is left out; it joins the others only.
* OAuth: scopes, redirect addresses, quota errors and the expiry of refresh tokens are left
  out; a broker or network failure is one lost request or answer.
* Logging, caches that only save requests (the id caches are modelled where
  `SourceCleanup` uses them), formats and path mapping are left out.

Components without a model, and why, are in `PROJECT.json` (`components`): some are
planned (section 2), the rest is pure input and output, protocol code of a remote
service, generated or preceding code.

## 9. Disagreements between document and code

### The landed file of another task

`docs/p115strmhelper/V3_BATCH_TRANSFER.md:44` says of a copy that succeeded and whose
rename failed that the identity of the landed file is kept and that only the steps not
yet completed are recovered. `durable.py:116-132` recognises the outcome of a copy by
its name, size, SHA1 and its absence from the folder snapshot, and that snapshot is
taken once, before the task's *first* attempt. Path locks are held while a plan runs, not
while it waits for a retry. So with two sources of one name and one content:

1. task `a` captures the folder; its copy is not applied; it waits for a retry;
2. task `b` captures, copies, and its rename is not applied: it waits with its landed
   file, still under the source's name;
3. `a` is retried, its copy is again not applied, and the listing shows `b`'s file:
   right name, size and SHA1, not in `a`'s snapshot. `a` goes on with it.

Both tasks now have one landed file, and the rename of `a` takes it from `b`. The run
`durable_duplicates` finds this as a violation of `LandedFileKept`. In `durable_merged`,
where the sources' names differ, the landed file is always the task's own, and
`DurableBatchProofs!LandedKept` proves it for all sources that can be told apart.

### A marked file that is not downloaded again

`tests/test_share_audit_download_queue.py:265` and `:336` say that a file whose own
download failed is moved to the queue, and that one which waits already is marked so that
it is downloaded again. The worker pops the mark of every file it finds in place
(`audit_download_queue.py:519`) and drops the task without a look at the marks set since
it copied the task. So when a caller marks an item after the worker's download and before
the task is dropped, the caller is told that the file is deferred, removes the damaged
file and reports no failure, and nothing downloads it. The run `share_audit_deferred`
finds this as a violation of `MarkedIsFetchedAgain`.

### Observed while modelling, without a run

* `service/life/__init__.py:45` says of mode `last` that it goes on with the data after the
  last stop. The cursor is saved only when the stop is seen at the top of the loop; when it
  comes while a failed pull is handled or waits for its retry (lines 67-69 and 80-82), the
  thread returns without saving it. The next start then uses an older cursor and repeats
  events, or - when none was ever saved - begins with the present and drops the events in
  between (`StopAfterFailure`, `FirstCursor` of `LifeMonitor`).
* `helper/transfer/workers.py:140` promises a Boolean of `shutdown`. A helper whose start
  failed is still in `_threads`, and `join` of a thread that was never started raises
  (`JoinRaises` of `HelperWorkers`).
* `helper/hdhive/open/session.py:115-120`: a refresh that fails for a passing reason, such
  as an answer that was lost, is reported like one that needs a new authorization.
* `helper/hdhive/open/oauth.py:114` says of a revocation that the local data are cleared. A
  refresh that was under way at that moment saves tokens again when it returns (lines
  88-105); `BackOnlyFromUnderway` says that nothing else does.

## 10. How to run

```
tlc -config WorkerQueue.cfg WorkerQueue.tla
tlc -config PathLocks.cfg PathLocks.tla
tlc -config BatchCoordinator.cfg BatchCoordinator.tla
tlc -config DurableBatchMerged.cfg MCDurableBatch.tla
tlc -config DurableBatchDuplicates.cfg MCDurableBatch.tla
tlc -config PostProcess.cfg MCTransferPostprocess.tla
tlc -config ShareAudit.cfg ShareAuditQueue.tla
tlc -config ShareAuditDeferred.cfg ShareAuditQueue.tla
tlc -config LifeMonitor.cfg MCLifeMonitor.tla
tlc -config SourceCleanup.cfg MCSourceCleanup.tla
tlc -config HelperWorkers.cfg HelperWorkers.tla
tlc -config OAuthSession.cfg MCOAuthSession.tla
tlapm WorkerQueueProofs.tla
tlapm TransferThreadsProofs.tla
tlapm BatchCoordinatorProofs.tla
tlapm TransferPostprocessProofs.tla
tlapm ShareAuditQueueProofs.tla
tlapm DurableBatchProofs.tla
tlapm SourceCleanupProofs.tla
tlapm CloudProofs.tla
```

The longest run takes about two and a half minutes. The MC modules use TLC's `:>` and `@@`; the
proofs need the TLAPS library with `FiniteSetTheorems`, `SequenceTheorems` and
`WellFoundedInduction` in the search path.
