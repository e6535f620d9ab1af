-------------------------- MODULE ShareAuditQueue --------------------------
(***************************************************************************)
(* helper/strm/share/audit_download_queue.py: files of a share that is     *)
(* still being audited wait in a persisted queue.  A worker looks at a due *)
(* task, asks for the state of the share, downloads, hands the files over  *)
(* to MoviePilot, and drops or reschedules the task.  Callers meanwhile    *)
(* add tasks, and upgrade an item that waits already when their own        *)
(* download of it failed: it must then be downloaded whatever file is      *)
(* there.                                                                  *)
(*                                                                         *)
(* The dicts of the items are shared by the queue and the copy of the task *)
(* the worker holds, so "required" is one flag per item.  The lock covers  *)
(* an enqueue and each change of a task, not the download in between.      *)
(*                                                                         *)
(* One share.  Its state, the local files and the downloader are external; *)
(* notifications are left out except that an item given up is reported.    *)
(***************************************************************************)
EXTENDS Naturals, FiniteSets

CONSTANTS Item,       \* files of the share, one local path each
          Transfer,   \* items with mp_transfer_after_download
          Caller,     \* threads that call the queue
          None,
          MaxWait,    \* share_audit_max_wait_seconds
          Interval,   \* share_audit_retry_interval_seconds
          MaxTime,    \* bound: the clock stops there
          MaxFaults,  \* bound: failed downloads, saves and hand-overs, stops, restarts
          MaxFlips    \* bound: changes of the state of the share

ASSUME AuditAssumption ==
    /\ IsFiniteSet(Item) /\ Transfer \subseteq Item
    /\ None \notin Item \cup Caller \cup Nat
    /\ {MaxWait, Interval, MaxTime, MaxFaults, MaxFlips} \subseteq Nat
    /\ 0 < Interval /\ Interval <= MaxWait

TaskId == 1..Cardinality(Item)
Task == [items: SUBSET Item, deadline: Nat, next: Nat]

VARIABLES
    tasks,     \* _tasks[id]: a task, or None
    required,  \* waiting items marked download_required
    saved,     \* the tasks and marks in the persisted file
    alive,     \* _worker_thread is alive
    stopping,  \* _stop_event
    wpc,       \* where the worker is
    job,       \* its copy of the task: id, items, deadline reached
    results,   \* download results and hand-overs so far
    cpc,       \* cpc[c]: where caller c is
    citem,     \* citem[c]: the item whose download failed
    share,     \* share state: 0 audited, 1 normal, 7 expired
    file,      \* items with a local file long enough to pass for downloaded
    now,       \* time()
    faults, flips,
    handed     \* history: waiting items handed over since the queue was loaded

worker == <<wpc, job, results>>
callers == <<cpc, citem>>
queue == <<tasks, required, saved>>
outside == <<share, flips, now>>
vars == <<queue, alive, stopping, worker, callers, outside, file, faults, handed>>

ItemsOf(ts) == UNION {ts[id].items : id \in {k \in TaskId : ts[k] # None}}

Pending == ItemsOf(tasks)

NoJob == [id |-> None, items |-> {}, late |-> FALSE]
NoResults == [todo |-> {}, failed |-> {}, lost |-> {}, unmoved |-> {}]

Init ==
    /\ tasks = [id \in TaskId |-> None] /\ required = {}
    /\ saved = [tasks |-> tasks, required |-> {}]
    /\ alive = TRUE /\ stopping = FALSE
    /\ wpc = "wait" /\ job = NoJob /\ results = NoResults
    /\ cpc = [c \in Caller |-> "idle"] /\ citem = [c \in Caller |-> None]
    /\ share = 0 /\ now = 0
    /\ file = {}
    /\ faults = 0 /\ flips = 0
    /\ handed = {}

Fault == faults < MaxFaults /\ faults' = faults + 1
EarlierOf(a, b) == IF a < b THEN a ELSE b

(* Mutant: the marks are not written.                                      *)
SaveUnmarked(ts, req) ==
    saved' = [tasks |-> ts, required |-> saved.required] /\ UNCHANGED faults

(* _save_tasks_locked of new contents: it fails and keeps the old file.    *)
SaveDone(ts, req) == saved' = [tasks |-> ts, required |-> req] /\ UNCHANGED faults
SaveFails == Fault /\ UNCHANGED saved
Save(ts, req) == SaveDone(ts, req) \/ SaveFails

(***************************************************************************)
(* Callers.  _enqueue_items with items of set S, all of them marked or     *)
(* none.  A task is new only when its deadline lies within the bound; an   *)
(* id is free because every task has an item of its own.                   *)
(***************************************************************************)
NewTask(S) == [items |-> S, deadline |-> now + MaxWait, next |-> now + Interval]
FreeIds == {id \in TaskId : tasks[id] = None}
FreeId == CHOOSE id \in FreeIds : TRUE

Rollback == UNCHANGED <<tasks, required>>

Add(S, marked) ==
    LET new == S \ Pending
        ts  == IF new = {} THEN tasks ELSE [tasks EXCEPT ![FreeId] = NewTask(new)]
        req == IF marked THEN required \cup S ELSE required
    IN  IF new = {} /\ req = required
        THEN UNCHANGED <<queue, faults>>
        ELSE /\ new # {} => now + MaxWait <= MaxTime /\ FreeIds # {}
             /\ \/ tasks' = ts /\ required' = req /\ SaveDone(ts, req)
                \/ Rollback /\ SaveFails

(* partition_downloads of a share found in audit.                          *)
Enqueue(S) ==
    /\ share = 0
    /\ Add(S, FALSE)
    /\ UNCHANGED <<alive, stopping, worker, callers, outside, file, handed>>

(* A caller downloads on its own and fails, leaving a damaged file.        *)
OwnDownloadFails(c, i) ==
    /\ cpc[c] = "idle"
    /\ cpc' = [cpc EXCEPT ![c] = "ask"] /\ citem' = [citem EXCEPT ![c] = i]
    /\ file' = file \cup {i}
    /\ Fault
    /\ UNCHANGED <<queue, alive, stopping, worker, outside, handed>>

CallerGoes(c, where) ==
    /\ cpc' = [cpc EXCEPT ![c] = where]
    /\ citem' = IF where = "idle" THEN [citem EXCEPT ![c] = None] ELSE citem

(* enqueue_failed_auditing_downloads: ask, enqueue, remove the local file. *)
AskState(c) ==
    /\ cpc[c] = "ask"
    /\ CallerGoes(c, IF share = 0 THEN "enqueue" ELSE "idle")
    /\ UNCHANGED <<queue, alive, stopping, worker, outside, file, faults, handed>>

EnqueueFailed(c) ==
    /\ cpc[c] = "enqueue"
    /\ Add({citem[c]}, TRUE)
    /\ CallerGoes(c, IF citem[c] \in ItemsOf(tasks') \cap required' THEN "remove" ELSE "idle")
    /\ UNCHANGED <<alive, stopping, worker, outside, file, handed>>

RemoveInvalid(c) ==
    /\ cpc[c] = "remove"
    /\ file' = file \ {citem[c]}
    /\ CallerGoes(c, "idle")
    /\ UNCHANGED <<queue, alive, stopping, worker, outside, faults, handed>>

(***************************************************************************)
(* The worker.                                                             *)
(***************************************************************************)
Load ==
    /\ alive' = TRUE /\ stopping' = FALSE
    /\ tasks' = saved.tasks /\ required' = saved.required /\ handed' = {}

Start ==
    /\ ~alive
    /\ Load
    /\ UNCHANGED <<saved, worker, callers, outside, file, faults>>

RequestStop ==
    /\ alive /\ ~stopping
    /\ stopping' = TRUE
    /\ Fault
    /\ UNCHANGED <<queue, alive, worker, callers, outside, file, handed>>

WorkerExit ==
    /\ alive /\ stopping /\ wpc = "wait"
    /\ alive' = FALSE
    /\ UNCHANGED <<queue, stopping, worker, callers, outside, file, faults, handed>>

(* Mutant: a task is not looked at once its deadline has come.             *)
DueBeforeDeadline(id) ==
    tasks[id] # None /\ tasks[id].next <= now /\ now < tasks[id].deadline

Due(id) == tasks[id] # None /\ tasks[id].next <= now

Take(id) ==
    /\ alive /\ ~stopping /\ wpc = "wait"
    /\ Due(id) /\ \A k \in TaskId : Due(k) => tasks[id].next <= tasks[k].next
    /\ job' = [id |-> id, items |-> tasks[id].items, late |-> now >= tasks[id].deadline]
    /\ wpc' = "query"
    /\ UNCHANGED <<queue, alive, stopping, results, callers, outside, file, faults, handed>>

Idle == wpc' = "wait" /\ job' = NoJob /\ results' = NoResults

(* _remove_task, _finish_task: drop the task, save, whatever comes of it.  *)
Drop ==
    LET ts == [tasks EXCEPT ![job.id] = None]
    IN  /\ tasks' = ts /\ required' = required \ job.items
        /\ Save(ts, required \ job.items)
        /\ handed' = handed \ job.items

(* _reschedule_task, _replace_items_and_reschedule.                        *)
Reschedule(S) ==
    LET t   == tasks[job.id]
        ts  == [tasks EXCEPT ![job.id] =
                  [items |-> S, deadline |-> t.deadline,
                   next |-> EarlierOf(now + Interval, t.deadline)]]
        req == required \ (job.items \ S)
    IN  /\ tasks' = ts /\ required' = req
        /\ Save(ts, req)
        /\ handed' = handed \ (job.items \ S)

(* An unanswered query counts as audited.                                  *)
Query ==
    /\ wpc = "query"
    /\ \/ /\ share = 1 /\ wpc' = "choose"
          /\ UNCHANGED <<queue, job, results, faults, handed>>
       \/ /\ Idle
          /\ \/ job.late /\ Drop
             \/ ~job.late /\ Reschedule(job.items)
       \/ share = 7 /\ Idle /\ Drop
    /\ UNCHANGED <<alive, stopping, callers, outside, file>>

Wanted == {i \in job.items : i \in required \/ i \notin file}

Choose ==
    /\ wpc = "choose"
    /\ results' = [NoResults EXCEPT !.todo = Wanted]
    /\ wpc' = "download"
    /\ UNCHANGED <<queue, alive, stopping, job, callers, outside, file, faults, handed>>

(* The downloader reports some of the items as failed.                     *)
Download ==
    /\ wpc = "download"
    /\ \E failed \in SUBSET results.todo :
         /\ results' = [results EXCEPT !.failed = failed, !.todo = job.items]
         /\ file' = file \cup results.todo
    /\ wpc' = "settle"
    /\ UNCHANGED <<queue, alive, stopping, job, callers, outside, faults, handed>>

(* The loop over the items: a failed one loses its file; a downloaded one  *)
(* loses its mark and is handed over, which may fail.                      *)
Settle(i) ==
    /\ wpc = "settle" /\ i \in results.todo
    /\ \/ /\ i \in results.failed \/ i \notin file
          /\ file' = file \ {i}
          /\ results' = [results EXCEPT !.todo = @ \ {i}, !.lost = @ \cup {i}]
          /\ UNCHANGED <<required, faults, handed>>
       \/ /\ i \notin results.failed /\ i \in file
          /\ required' = required \ {i}
          /\ UNCHANGED file
          /\ \/ /\ results' = [results EXCEPT !.todo = @ \ {i}]
                /\ handed' = handed \cup ({i} \cap Transfer)
                /\ UNCHANGED faults
             \/ /\ i \in Transfer /\ Fault
                /\ results' = [results EXCEPT !.todo = @ \ {i}, !.unmoved = @ \cup {i}]
                /\ UNCHANGED handed
    /\ UNCHANGED <<tasks, saved, alive, stopping, wpc, job, callers, outside>>

(* Mutant: the whole task is tried again when anything in it failed.       *)
KeptAll(audited) == IF results.unmoved = {} /\ ~audited THEN {} ELSE job.items

(* What is kept of the task; the state is asked for again if a download    *)
(* failed.                                                                 *)
Kept(audited) == results.unmoved \cup (IF audited THEN results.lost ELSE {})

Conclude ==
    /\ wpc = "settle" /\ results.todo = {}
    /\ \E audited \in IF results.lost = {} THEN {FALSE} ELSE {share = 0, FALSE} :
         /\ IF Kept(audited) = {} THEN Drop ELSE Reschedule(Kept(audited))
    /\ Idle
    /\ UNCHANGED <<alive, stopping, callers, outside, file>>

Work == Query \/ Choose \/ Download \/ Conclude \/ \E i \in Item : Settle(i)

(* The steps of _worker.                                                   *)
Thread == WorkerExit \/ Work \/ \E id \in TaskId : Take(id)

(***************************************************************************)
(* The surroundings.                                                       *)
(***************************************************************************)
(* The process dies; the next one loads the file and starts the worker.   *)
Restart ==
    /\ Fault
    /\ Load /\ Idle
    /\ cpc' = [c \in Caller |-> "idle"] /\ citem' = [c \in Caller |-> None]
    /\ UNCHANGED <<saved, outside, file>>

Tick ==
    /\ now < MaxTime
    /\ now' = now + 1
    /\ UNCHANGED <<queue, alive, stopping, worker, callers, share, flips, file, faults, handed>>

Flip(s) ==
    /\ s # share /\ share # 7 /\ flips < MaxFlips
    /\ share' = s /\ flips' = flips + 1
    /\ UNCHANGED <<queue, alive, stopping, worker, callers, now, file, faults, handed>>

Next ==
    \/ \E S \in SUBSET Item \ {{}} : Enqueue(S)
    \/ \E c \in Caller : \/ \E i \in Item : OwnDownloadFails(c, i)
                         \/ AskState(c) \/ EnqueueFailed(c) \/ RemoveInvalid(c)
    \/ Start \/ RequestStop \/ Thread
    \/ Restart \/ Tick \/ \E s \in {0, 1, 7} : Flip(s)

Spec == Init /\ [][Next]_vars

(* The worker is a thread that wakes up every minute, and time passes.     *)
FairSpec == Spec /\ WF_vars(Thread) /\ WF_vars(Tick)
-----------------------------------------------------------------------------
(* The types; the worker holds a task that is still in the queue, as it    *)
(* is there: nobody else changes or drops a task (_reschedule_task's and   *)
(* _replace_items_and_reschedule's "if not task" is never taken).          *)
TypeOK ==
    /\ tasks \in [TaskId -> Task \cup {None}]
    /\ required \subseteq Item
    /\ saved \in [tasks: [TaskId -> Task \cup {None}], required: SUBSET Item]
    /\ {alive, stopping} \subseteq BOOLEAN
    /\ wpc \in {"wait", "query", "choose", "download", "settle"}
    /\ job \in [id: TaskId \cup {None}, items: SUBSET Item, late: BOOLEAN]
    /\ job.id = None <=> wpc = "wait"
    /\ job.id # None => tasks[job.id] # None /\ tasks[job.id].items = job.items
    /\ results \in [todo: SUBSET Item, failed: SUBSET Item, lost: SUBSET Item,
                    unmoved: SUBSET Item]
    /\ cpc \in [Caller -> {"idle", "ask", "enqueue", "remove"}]
    /\ citem \in [Caller -> Item \cup {None}]
    /\ share \in {0, 1, 7} /\ file \subseteq Item
    /\ {now, faults, flips} \subseteq Nat
    /\ handed \subseteq Item

(* What waits in memory is in the file, marks included, so that a restart  *)
(* at any moment, stops and failed saves included, loses no waiting file   *)
(* (_enqueue_items undoes what it could not save).                         *)
QueuedIsDurable ==
    /\ Pending \subseteq ItemsOf(saved.tasks)
    /\ required \subseteq saved.required

(* No file is in two tasks, whatever callers, failed saves and restarts    *)
(* come between (the keys of pending_items in _enqueue_items).             *)
OneTaskPerItem ==
    \A k, l \in TaskId :
        tasks[k] # None /\ tasks[l] # None /\ k # l => tasks[k].items \cap tasks[l].items = {}

(* A file handed to MoviePilot does not stay in the queue to be handed     *)
(* over again, also when other files of its task failed and are tried      *)
(* again (the two lists of failures in _process_task).  Only a queue       *)
(* loaded from a file not written since may do so.                         *)
HandedOverOnce == handed \cap Pending \subseteq job.items

(* A waiting file leaves the queue in the end, downloaded or given up, or  *)
(* the worker was stopped: next_retry_at never passes the deadline.        *)
QueuedSettles == \A i \in Item : i \in Pending ~> i \notin Pending \/ ~alive

(* When a task ends, the marks that go with it are those of files whose    *)
(* download failed: a caller whose file was marked, reported deferred and  *)
(* removed (enqueue_failed_auditing_downloads) has it downloaded again.    *)
(* Not so for an item marked when the worker has just dealt with it.       *)
MarkedIsFetchedAgain == [][Conclude => required \ required' \subseteq results.lost]_vars
=============================================================================
