---------------------------- MODULE WorkerQueue ----------------------------
(***************************************************************************)
(* core/worker_queue.py: the start/stop barrier and admission control      *)
(* shared by the directory-upload, sync-delete-webhook and Emby media-info *)
(* queues, together with the _worker loop of those subclasses.             *)
(*                                                                         *)
(* Every critical section of `_lock' is one action.  `_lifecycle_lock' is  *)
(* explicit because stop() holds it across a join that other threads run   *)
(* through.  Each _start_locked that succeeds makes one Queue and one      *)
(* Thread: both are named by a generation number, 0 standing for None, and *)
(* a worker reads self._queue by itself when it boots, which may be long   *)
(* after the start() that created it.                                      *)
(*                                                                         *)
(* Tasks are numbered in the order put_nowait accepts them.                *)
(***************************************************************************)
EXTENDS Naturals, Sequences

CONSTANTS Clients,     \* threads that call stop() from outside the worker
          NoClient,    \* the value of a free lifecycle lock
          LazyStart,   \* enqueue(lazy_start=...) of the subclass
          MaxGen,      \* bound: generations started
          MaxTasks,    \* bound: tasks accepted
          MaxDeaths    \* bound: workers ended by a BaseException

ASSUME ConstantsAssumption ==
    /\ NoClient \notin Clients
    /\ LazyStart \in BOOLEAN
    /\ MaxGen \in Nat
    /\ MaxTasks \in Nat
    /\ MaxDeaths \in Nat

VARIABLES
    queue,       \* self._queue: generation of the queue, 0 for None
    worker,      \* self._worker_thread: generation of the thread, 0 for None
    stopping,    \* self._stopping
    lifecycle,   \* holder of self._lifecycle_lock
    captured,    \* stop()'s locals [queue, worker], read under _lock
    gen,         \* generations created so far
    contents,    \* contents[g]: what queue g holds, Sentinel or task numbers
    unfinished,  \* unfinished[g]: Queue.unfinished_tasks of queue g
    wpc,         \* wpc[g]: where worker thread g is
    wqueue,      \* wqueue[g]: worker g's local q
    wtask,       \* wtask[g]: the task worker g is processing
    admitted,    \* number of tasks put_nowait has accepted
    handled,     \* history: the tasks settled, in order
    deaths       \* number of workers ended by a BaseException

vars == <<queue, worker, stopping, lifecycle, captured, gen, contents,
          unfinished, wpc, wqueue, wtask, admitted, handled, deaths>>

workerVars == <<wpc, wqueue, wtask, handled, deaths>>
stopVars   == <<lifecycle, captured>>

Gens     == 1..MaxGen
Sentinel == 0
WorkerPCs == {"unborn", "boot", "get", "busy", "exit", "dead"}

(* Thread.is_alive() of worker generation g; None is not alive. *)
Alive(g) == g \in Gens /\ wpc[g] \in {"boot", "get", "busy", "exit"}

-----------------------------------------------------------------------------
Init ==
    /\ queue = 0
    /\ worker = 0
    /\ stopping = FALSE
    /\ lifecycle = NoClient
    /\ captured = [queue |-> 0, worker |-> 0]
    /\ gen = 0
    /\ contents = [g \in Gens |-> <<>>]
    /\ unfinished = [g \in Gens |-> 0]
    /\ wpc = [g \in Gens |-> "unborn"]
    /\ wqueue = [g \in Gens |-> 0]
    /\ wtask = [g \in Gens |-> 0]
    /\ admitted = 0
    /\ handled = <<>>
    /\ deaths = 0

(* queue.unfinished_tasks of a queue that may be None. *)
Unsettled(q) == q # 0 /\ unfinished[q] # 0

(* Faulty variant: the guard on the old queue's backlog is missing.        *)
CanStartOverBacklog == /\ ~Alive(worker)
                       /\ gen < MaxGen

(* _start_locked gets past its two guards. *)
CanStart == /\ ~Alive(worker)
            /\ ~Unsettled(queue)
            /\ gen < MaxGen

(* The part of _start_locked that creates a queue and a thread. *)
NewGeneration ==
    /\ gen' = gen + 1
    /\ queue' = gen + 1
    /\ worker' = gen + 1
    /\ stopping' = FALSE
    /\ wpc' = [wpc EXCEPT ![gen + 1] = "boot"]
    /\ UNCHANGED <<wqueue, wtask, handled, deaths>>

(* start(): both locks, then _start_locked.  The outcomes that raise or    *)
(* find the worker running change nothing.                                 *)
Start ==
    /\ lifecycle = NoClient
    /\ CanStart
    /\ NewGeneration
    /\ UNCHANGED <<stopVars, contents, unfinished, admitted>>

(* Faulty variant: put_nowait of a last-in, first-out queue.               *)
PutFirst(q, e) ==
    /\ contents' = [contents EXCEPT ![q] = <<e>> \o @]
    /\ unfinished' = [unfinished EXCEPT ![q] = @ + 1]

(* Queue.put_nowait                                                        *)
Put(q, e) ==
    /\ contents' = [contents EXCEPT ![q] = Append(@, e)]
    /\ unfinished' = [unfinished EXCEPT ![q] = @ + 1]

Accept(q) ==
    /\ admitted < MaxTasks
    /\ admitted' = admitted + 1
    /\ Put(q, admitted + 1)

Ready == ~stopping /\ queue # 0 /\ Alive(worker)

(* _enqueue_task: under _lock only, so it runs while a stop() joins.       *)
EnqueueRunning ==
    /\ Ready
    /\ Accept(queue)
    /\ UNCHANGED <<queue, worker, stopping, stopVars, gen, workerVars>>

EnqueueLazily ==
    /\ ~stopping
    /\ LazyStart
    /\ CanStart
    /\ NewGeneration
    /\ Accept(gen + 1)
    /\ UNCHANGED stopVars

(* Faulty variant: nothing wakes the worker. *)
RequestStopWithoutSentinel ==
    /\ stopping' = TRUE
    /\ UNCHANGED <<contents, unfinished>>

(* _request_stop_locked: one sentinel, behind everything accepted.         *)
RequestStop ==
    /\ stopping' = TRUE
    /\ IF Alive(worker) /\ ~stopping
       THEN Put(queue, Sentinel)
       ELSE UNCHANGED <<contents, unfinished>>

(* stop() from another thread: takes the lifecycle lock, and under _lock   *)
(* remembers the queue and the thread and asks the worker to end.          *)
StopRequest(c) ==
    /\ lifecycle = NoClient
    /\ lifecycle' = c
    /\ captured' = [queue |-> queue, worker |-> worker]
    /\ RequestStop
    /\ UNCHANGED <<queue, worker, gen, workerVars, admitted>>

(* Faulty variant: the queue is forgotten after a join that timed out, and *)
(* without looking at what a dead worker left in it.                       *)
StopIncompleteNever == FALSE

StopIncomplete == Alive(captured.worker) \/ Unsettled(captured.queue)

(* The join has ended, by the worker's exit or by its timeout: the second  *)
(* critical section of stop() decides on what it then finds.               *)
StopFinish(c) ==
    /\ lifecycle = c
    /\ lifecycle' = NoClient
    /\ IF StopIncomplete
       THEN UNCHANGED <<queue, worker>>
       ELSE queue' = 0 /\ worker' = 0
    /\ captured' = [queue |-> 0, worker |-> 0]
    /\ UNCHANGED <<stopping, gen, contents, unfinished, workerVars, admitted>>

(* stop() called by a task on the worker thread: asks and returns False.   *)
WorkerSelfStop(g) ==
    /\ wpc[g] = "busy"
    /\ worker = g
    /\ RequestStop
    /\ UNCHANGED <<queue, worker, stopVars, gen, workerVars, admitted>>

-----------------------------------------------------------------------------
(* The _worker loop of the subclasses.                                     *)

TaskDone(q) == unfinished' = [unfinished EXCEPT ![q] = @ - 1]

WorkerBoot(g) ==
    /\ wpc[g] = "boot"
    /\ wqueue' = [wqueue EXCEPT ![g] = queue]
    /\ wpc' = [wpc EXCEPT ![g] = IF queue = 0 THEN "dead" ELSE "get"]
    /\ UNCHANGED <<queue, worker, stopping, stopVars, gen, contents,
                   unfinished, wtask, admitted, handled, deaths>>

WorkerTake(g) ==
    /\ wpc[g] = "get"
    /\ contents[wqueue[g]] # <<>>
    /\ Head(contents[wqueue[g]]) # Sentinel
    /\ wtask' = [wtask EXCEPT ![g] = Head(contents[wqueue[g]])]
    /\ contents' = [contents EXCEPT ![wqueue[g]] = Tail(@)]
    /\ wpc' = [wpc EXCEPT ![g] = "busy"]
    /\ UNCHANGED <<queue, worker, stopping, stopVars, gen, unfinished,
                   wqueue, admitted, handled, deaths>>

WorkerTakeSentinel(g) ==
    /\ wpc[g] = "get"
    /\ contents[wqueue[g]] # <<>>
    /\ Head(contents[wqueue[g]]) = Sentinel
    /\ contents' = [contents EXCEPT ![wqueue[g]] = Tail(@)]
    /\ TaskDone(wqueue[g])
    /\ wpc' = [wpc EXCEPT ![g] = "exit"]
    /\ UNCHANGED <<queue, worker, stopping, stopVars, gen, wqueue, wtask,
                   admitted, handled, deaths>>

(* The task returned or raised an Exception: `finally' settles it.         *)
WorkerSettle(g) ==
    /\ wpc[g] = "busy"
    /\ TaskDone(wqueue[g])
    /\ handled' = Append(handled, wtask[g])
    /\ wpc' = [wpc EXCEPT ![g] = "get"]
    /\ UNCHANGED <<queue, worker, stopping, stopVars, gen, contents, wqueue,
                   wtask, admitted, deaths>>

(* A BaseException passes `except Exception': `finally' still settles the  *)
(* task, and the thread ends with whatever is left in its queue.           *)
WorkerDies(g) ==
    /\ wpc[g] = "busy"
    /\ deaths < MaxDeaths
    /\ deaths' = deaths + 1
    /\ TaskDone(wqueue[g])
    /\ handled' = Append(handled, wtask[g])
    /\ wpc' = [wpc EXCEPT ![g] = "dead"]
    /\ UNCHANGED <<queue, worker, stopping, stopVars, gen, contents, wqueue,
                   wtask, admitted>>

WorkerExit(g) ==
    /\ wpc[g] = "exit"
    /\ wpc' = [wpc EXCEPT ![g] = "dead"]
    /\ UNCHANGED <<queue, worker, stopping, stopVars, gen, contents,
                   unfinished, wqueue, wtask, admitted, handled, deaths>>

(* What a worker does without being told to: the steps it owes its callers. *)
WorkerStep(g) == \/ WorkerBoot(g)
                 \/ WorkerTake(g)
                 \/ WorkerTakeSentinel(g)
                 \/ WorkerSettle(g)
                 \/ WorkerExit(g)

Next == \/ Start
        \/ EnqueueRunning
        \/ EnqueueLazily
        \/ \E c \in Clients : StopRequest(c) \/ StopFinish(c)
        \/ \E g \in Gens : \/ WorkerStep(g)
                           \/ WorkerSelfStop(g)
                           \/ WorkerDies(g)

Spec == Init /\ [][Next]_vars

(* A worker thread is scheduled and its tasks return.                      *)
Fairness == \A g \in Gens : WF_vars(WorkerStep(g))
FairSpec == Spec /\ Fairness

-----------------------------------------------------------------------------
TypeOK ==
    /\ queue \in 0..MaxGen
    /\ worker \in 0..MaxGen
    /\ stopping \in BOOLEAN
    /\ lifecycle \in Clients \cup {NoClient}
    /\ captured \in [queue : 0..MaxGen, worker : 0..MaxGen]
    /\ gen \in 0..MaxGen
    /\ contents \in [Gens -> Seq(0..MaxTasks)]
    /\ unfinished \in [Gens -> Nat]
    /\ wpc \in [Gens -> WorkerPCs]
    /\ wqueue \in [Gens -> 0..MaxGen]
    /\ wtask \in [Gens -> 0..MaxTasks]
    /\ admitted \in 0..MaxTasks
    /\ handled \in Seq(0..MaxTasks)
    /\ deaths \in 0..MaxDeaths

(* Tasks are settled exactly once and in the order they were accepted,     *)
(* across every stop and restart: the k-th task settled is task k.         *)
SettledInOrder == \A k \in 1..Len(handled) : handled[k] = k

(* stop() returns True, the only step that forgets the queue, only after   *)
(* the worker is gone and every accepted task is settled.                  *)
ForgottenOnlyWhenSettled ==
    queue = 0 => /\ \A g \in Gens : ~Alive(g)
                 /\ Len(handled) = admitted

(* A live worker is the one the object refers to and drains the queue that *)
(* admission puts into: no restart replaces either under a running thread. *)
LiveWorkerOwnsQueue ==
    \A g \in Gens : Alive(g) =>
        /\ worker = g
        /\ queue = g
        /\ wpc[g] # "boot" => wqueue[g] = g

(* Nothing is accepted behind the sentinel, where no worker would read it. *)
NothingBehindSentinel ==
    \A g \in Gens : \A i \in 1..Len(contents[g]) :
        contents[g][i] = Sentinel => i = Len(contents[g])

(* A stop that has been requested ends the worker, whatever is queued.     *)
StopEndsWorker ==
    \A g \in Gens : (Alive(g) /\ stopping) ~> (wpc[g] = "dead")

(* What was accepted is settled, unless a worker died of a BaseException.  *)
AcceptedIsSettled ==
    \A t \in 1..MaxTasks :
        (admitted >= t) ~> (Len(handled) >= t \/ deaths > 0)

(* The queue implements the abstract service.                              *)
Service == INSTANCE TaskService WITH
               open <- Alive(worker) /\ ~stopping,
               admitted <- admitted,
               handled <- Len(handled)
ServiceSpec == Service!Spec
=============================================================================
