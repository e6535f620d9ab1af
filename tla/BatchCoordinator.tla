-------------------------- MODULE BatchCoordinator --------------------------
(***************************************************************************)
(* helper/transfer/batch.py, and the gate around it in durable.py: host    *)
(* threads hand single-file operations to a coordinator that merges them   *)
(* into batches, and block on a future until their own file is answered.   *)
(*                                                                         *)
(* A caller enters the gate (DurableBatchTransfer.operation), submits      *)
(* operations one after the other and leaves it.  The coordinator's thread *)
(* exists only while there is work: submit starts one when there is none,  *)
(* and it ends itself under the same condition variable.  shutdown closes  *)
(* the gate, waits for the callers inside and then closes the coordinator. *)
(*                                                                         *)
(* Sections under a condition variable are one action.  The delay window   *)
(* is left out: a batch is taken at any time once something is pending.    *)
(* What _execute does with a group is any order of per-file answers,       *)
(* ended by a return or an exception.                                      *)
(***************************************************************************)
EXTENDS Naturals, Sequences, FiniteSets

CONSTANTS Callers,     \* host threads running transfer tasks
          Keys,        \* merge keys: operator instances, action, target folder
          NoKey,       \* the key of an operation not submitted yet
          MaxSize,     \* max_size of a batch
          MaxOps,      \* bound: operations submitted
          MaxThreads   \* bound: coordinator threads started

ASSUME ConstantsAssumption ==
    /\ IsFiniteSet(Callers)
    /\ NoKey \notin Keys
    /\ MaxSize \in Nat \ {0}
    /\ MaxOps \in Nat
    /\ MaxThreads \in Nat

VARIABLES
    gateClosing,  \* DurableBatchTransfer._closing
    active,       \* DurableBatchTransfer._active
    cpc,          \* cpc[c]: caller c is out of the gate, in it, or waiting
    cur,          \* cur[c]: the operation c waits for, 0 for none
    ops,          \* number of operations submitted; they are named 1..ops
    key,          \* key[o]: BatchOperation.key
    fut,          \* fut[o]: state of the future of o
    pending,      \* BatchCoordinator._pending
    closing,      \* BatchCoordinator._closing
    worker,       \* BatchCoordinator._worker: its number, 0 for None
    threads,      \* number of coordinator threads started
    tpc,          \* tpc[g]: where thread g is in _run
    batch,        \* batch[g]: taken operations not validated yet
    groups,       \* groups[g]: validated operations by key, as <<[key, ops]>>
    running,      \* running[g]: the group _execute has been called with
    spc,          \* where the thread in shutdown is
    joined,       \* the worker that shutdown captured
    down          \* history: shutdown has returned True

gateVars   == <<gateClosing, active>>
callerVars == <<cpc, cur, ops, key>>
queueVars  == <<pending, closing, worker, threads>>
threadVars == <<tpc, batch, groups, running>>
shutVars   == <<spc, joined, down>>
vars == <<gateVars, callerVars, fut, queueVars, threadVars, shutVars>>

Ops     == 1..MaxOps
Threads == 1..MaxThreads
TPCs    == {"unborn", "loop", "validate", "execute", "exit", "dead"}
Done    == {"result", "error"}

(* Thread.is_alive() of coordinator thread g. *)
Alive(g) == g \in Threads /\ tpc[g] \in {"loop", "validate", "execute", "exit"}

Init ==
    /\ gateClosing = FALSE
    /\ active = 0
    /\ cpc = [c \in Callers |-> "out"]
    /\ cur = [c \in Callers |-> 0]
    /\ ops = 0
    /\ key = [o \in Ops |-> NoKey]
    /\ fut = [o \in Ops |-> "none"]
    /\ pending = <<>>
    /\ closing = FALSE
    /\ worker = 0
    /\ threads = 0
    /\ tpc = [g \in Threads |-> "unborn"]
    /\ batch = [g \in Threads |-> <<>>]
    /\ groups = [g \in Threads |-> <<>>]
    /\ running = [g \in Threads |-> {}]
    /\ spc = "idle"
    /\ joined = 0
    /\ down = FALSE

-----------------------------------------------------------------------------
(* Callers.                                                                *)

(* operation(): refuse while closing, else count the host task in.         *)
Enter(c) ==
    /\ cpc[c] = "out"
    /\ ~gateClosing
    /\ active' = active + 1
    /\ cpc' = [cpc EXCEPT ![c] = "in"]
    /\ UNCHANGED <<gateClosing, cur, ops, key, fut, queueVars,
                   threadVars, shutVars>>

(* Faulty variant: every delay window gets a thread of its own.            *)
NeedsWorkerPerWindow == worker = 0 \/ ~Alive(worker) \/ pending = <<>>

NeedsWorker == worker = 0 \/ ~Alive(worker)

(* The thread that submit() finds missing or dead is replaced.             *)
StartWorker ==
    IF NeedsWorker
    THEN /\ threads < MaxThreads
         /\ threads' = threads + 1
         /\ worker' = threads + 1
         /\ tpc' = [tpc EXCEPT ![threads + 1] = "loop"]
    ELSE UNCHANGED <<threads, worker, tpc>>

(* submit() up to the wait on the future.  On a closing coordinator it     *)
(* raises and changes nothing.                                             *)
Submit(c, k) ==
    /\ cpc[c] = "in"
    /\ ~closing
    /\ ops < MaxOps
    /\ ops' = ops + 1
    /\ key' = [key EXCEPT ![ops + 1] = k]
    /\ fut' = [fut EXCEPT ![ops + 1] = "pending"]
    /\ pending' = Append(pending, ops + 1)
    /\ StartWorker
    /\ cpc' = [cpc EXCEPT ![c] = "wait"]
    /\ cur' = [cur EXCEPT ![c] = ops + 1]
    /\ UNCHANGED <<gateVars, closing, batch, groups, running,
                   shutVars>>

(* operation.future.result() returns or raises.                            *)
Answered(c) ==
    /\ cpc[c] = "wait"
    /\ fut[cur[c]] \in Done
    /\ cpc' = [cpc EXCEPT ![c] = "in"]
    /\ cur' = [cur EXCEPT ![c] = 0]
    /\ UNCHANGED <<gateVars, ops, key, fut, queueVars,
                   threadVars, shutVars>>

(* The host task is over, normally or not: `finally' counts it out.        *)
Leave(c) ==
    /\ cpc[c] = "in"
    /\ active' = active - 1
    /\ cpc' = [cpc EXCEPT ![c] = "out"]
    /\ UNCHANGED <<gateClosing, cur, ops, key, fut, queueVars,
                   threadVars, shutVars>>

-----------------------------------------------------------------------------
(* The coordinator thread, _run.                                           *)

(* Nothing pending: forget this thread and end, in one critical section.   *)
Retire(g) ==
    /\ tpc[g] = "loop"
    /\ pending = <<>>
    /\ worker' = 0
    /\ tpc' = [tpc EXCEPT ![g] = "exit"]
    /\ UNCHANGED <<gateVars, callerVars, fut, pending, closing, threads,
                   batch, groups, running, shutVars>>

Exit(g) ==
    /\ tpc[g] = "exit"
    /\ tpc' = [tpc EXCEPT ![g] = "dead"]
    /\ UNCHANGED <<gateVars, callerVars, fut, queueVars, batch, groups,
                   running, shutVars>>

Taken == IF Len(pending) < MaxSize THEN Len(pending) ELSE MaxSize

(* Take the first max_size operations.                                     *)
Take(g) ==
    /\ tpc[g] = "loop"
    /\ pending # <<>>
    /\ batch' = [batch EXCEPT ![g] = SubSeq(pending, 1, Taken)]
    /\ pending' = SubSeq(pending, Taken + 1, Len(pending))
    /\ tpc' = [tpc EXCEPT ![g] = "validate"]
    /\ UNCHANGED <<gateVars, callerVars, fut, closing, worker, threads,
                   groups, running, shutVars>>

(* groups.setdefault(key, []).append(o)                                    *)
Grouped(gs, o) ==
    IF \E i \in 1..Len(gs) : gs[i].key = key[o]
    THEN [i \in 1..Len(gs) |-> IF gs[i].key = key[o]
                               THEN [gs[i] EXCEPT !.ops = @ \cup {o}]
                               ELSE gs[i]]
    ELSE Append(gs, [key |-> key[o], ops |-> {o}])

(* validate() of the next operation raises: it is answered at once.        *)
ValidateFails(g) ==
    /\ tpc[g] = "validate"
    /\ batch[g] # <<>>
    /\ fut' = [fut EXCEPT ![Head(batch[g])] = "error"]
    /\ batch' = [batch EXCEPT ![g] = Tail(@)]
    /\ UNCHANGED <<gateVars, callerVars, queueVars, tpc, groups, running,
                   shutVars>>

(* validate() returns: the task's lease is still its own.                  *)
Validate(g) ==
    /\ tpc[g] = "validate"
    /\ batch[g] # <<>>
    /\ groups' = [groups EXCEPT ![g] = Grouped(@, Head(batch[g]))]
    /\ batch' = [batch EXCEPT ![g] = Tail(@)]
    /\ UNCHANGED <<gateVars, callerVars, fut, queueVars, tpc, running, shutVars>>

(* _execute(operations) of the next group is called.                       *)
ExecuteBegin(g) ==
    /\ tpc[g] = "validate"
    /\ batch[g] = <<>>
    /\ groups[g] # <<>>
    /\ running' = [running EXCEPT ![g] = Head(groups[g]).ops]
    /\ groups' = [groups EXCEPT ![g] = Tail(@)]
    /\ tpc' = [tpc EXCEPT ![g] = "execute"]
    /\ UNCHANGED <<gateVars, callerVars, fut, queueVars, batch, shutVars>>

(* The executor answers one file of the group.                             *)
ExecuteAnswer(g, o, answer) ==
    /\ tpc[g] = "execute"
    /\ o \in running[g]
    /\ fut[o] = "pending"
    /\ fut' = [fut EXCEPT ![o] = answer]
    /\ UNCHANGED <<gateVars, callerVars, queueVars, threadVars, shutVars>>

(* Faulty variant: futures without an answer are left as they are.         *)
UnansweredNone(g) == {}

(* The futures of the group that are not done().                           *)
Unanswered(g) == {o \in running[g] : fut[o] \notin Done}

(* The executor returns or raises: whoever has no answer gets an error.    *)
ExecuteEnd(g) ==
    /\ tpc[g] = "execute"
    /\ fut' = [o \in Ops |-> IF o \in Unanswered(g) THEN "error" ELSE fut[o]]
    /\ running' = [running EXCEPT ![g] = {}]
    /\ tpc' = [tpc EXCEPT ![g] = "validate"]
    /\ UNCHANGED <<gateVars, callerVars, queueVars, batch, groups,
                   shutVars>>

(* All groups are done: back to the top of the loop.                       *)
NextRound(g) ==
    /\ tpc[g] = "validate"
    /\ batch[g] = <<>>
    /\ groups[g] = <<>>
    /\ tpc' = [tpc EXCEPT ![g] = "loop"]
    /\ UNCHANGED <<gateVars, callerVars, fut, queueVars, batch, groups,
                   running, shutVars>>

ThreadStep(g) == \/ Retire(g) \/ Exit(g) \/ Take(g) \/ Validate(g) \/ ValidateFails(g)
                 \/ ExecuteBegin(g) \/ ExecuteEnd(g) \/ NextRound(g)

-----------------------------------------------------------------------------
(* DurableBatchTransfer.shutdown, then BatchCoordinator.shutdown.          *)

ShutdownBegin ==
    /\ spc = "idle"
    /\ ~down
    /\ gateClosing' = TRUE
    /\ spc' = "drain"
    /\ UNCHANGED <<active, callerVars, fut, queueVars, threadVars,
                   joined, down>>

(* The helper workers or the callers inside outlive the timeout: False.    *)
ShutdownTimeout ==
    /\ spc = "drain"
    /\ spc' = "idle"
    /\ UNCHANGED <<gateVars, callerVars, fut, queueVars, threadVars,
                   joined, down>>

(* Faulty variant: the coordinator is closed over the callers inside.      *)
DrainedUnchecked == TRUE

(* _wait_for_idle has seen the last caller leave.                          *)
Drained == active = 0

(* Nobody is inside: close the coordinator and capture its thread.         *)
ShutdownDrained ==
    /\ spc = "drain"
    /\ Drained
    /\ closing' = TRUE
    /\ joined' = worker
    /\ spc' = "join"
    /\ UNCHANGED <<gateVars, callerVars, fut, pending, worker, threads,
                   threadVars, down>>

(* Faulty variant: a join that timed out counts as stopped.                *)
WorkerGoneUnchecked == TRUE

WorkerGone == joined = 0 \/ ~Alive(joined)

(* The join has ended by the thread's exit or by its timeout.              *)
ShutdownEnd ==
    /\ spc = "join"
    /\ down' = WorkerGone
    /\ spc' = "idle"
    /\ joined' = 0
    /\ UNCHANGED <<gateVars, callerVars, fut, queueVars, threadVars>>

-----------------------------------------------------------------------------
Next ==
    \/ \E c \in Callers : \/ Enter(c)
                          \/ \E k \in Keys : Submit(c, k)
                          \/ Answered(c)
                          \/ Leave(c)
    \/ \E g \in Threads :
          \/ ThreadStep(g)
          \/ \E o \in Ops, answer \in Done : ExecuteAnswer(g, o, answer)
    \/ ShutdownBegin \/ ShutdownTimeout \/ ShutdownDrained \/ ShutdownEnd

Spec == Init /\ [][Next]_vars

(* The coordinator thread is scheduled and every _execute call ends.       *)
FairSpec == Spec /\ \A g \in Threads : WF_vars(ThreadStep(g))

-----------------------------------------------------------------------------
TypeOK ==
    /\ gateClosing \in BOOLEAN
    /\ active \in Nat
    /\ cpc \in [Callers -> {"out", "in", "wait"}]
    /\ cur \in [Callers -> 0..MaxOps]
    /\ ops \in 0..MaxOps
    /\ key \in [Ops -> Keys \cup {NoKey}]
    /\ fut \in [Ops -> {"none", "pending"} \cup Done]
    /\ pending \in Seq(Ops)
    /\ closing \in BOOLEAN
    /\ worker \in 0..MaxThreads
    /\ threads \in 0..MaxThreads
    /\ tpc \in [Threads -> TPCs]
    /\ batch \in [Threads -> Seq(Ops)]
    /\ groups \in [Threads -> Seq([key : Keys, ops : SUBSET Ops])]
    /\ running \in [Threads -> SUBSET Ops]
    /\ spc \in {"idle", "drain", "join"}
    /\ joined \in 0..MaxThreads
    /\ down \in BOOLEAN

(* The thread that retires and the thread that submit starts never work at *)
(* the same time: cloud requests of one coordinator do not overlap.        *)
OneThreadWorks ==
    \A g \in Threads :
        tpc[g] \in {"loop", "validate", "execute"} => worker = g

(* A pending operation is never left without a thread that will take it,   *)
(* however submit and the end of the thread interleave.                    *)
PendingHasWorker ==
    pending # <<>> => worker # 0 /\ tpc[worker] \in {"loop", "validate", "execute"}

(* A confirmed file keeps its result whatever happens to the batch after.  *)
AnswerIsFinal ==
    [][\A o \in Ops : fut[o] \in Done => fut'[o] = fut[o]]_vars

(* A host task inside the gate is never told that the batch is stopping.   *)
AdmittedNeverRefused == closing => \A c \in Callers : cpc[c] = "out"

(* shutdown returning True means that nothing is in flight, for good.      *)
DownIsQuiet ==
    down => /\ active = 0
            /\ pending = <<>>
            /\ \A g \in Threads : tpc[g] \notin {"loop", "validate", "execute"}
            /\ \A o \in Ops : fut[o] # "pending"

(* Every operation submitted is answered.                                  *)
EveryOpAnswered == \A o \in Ops : (fut[o] = "pending") ~> (fut[o] \in Done)
=============================================================================
