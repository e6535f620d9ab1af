---------------------------- MODULE HelperWorkers ----------------------------
(***************************************************************************)
(* helper/transfer/workers.py: BatchWorkers adds worker threads to the     *)
(* host's transfer queue.  ensure() starts as many as there are eligible   *)
(* tasks; each runs the host's own loop, whose queue.get() is replaced by  *)
(* one that serves a helper eligible tasks only and lets it retire when it *)
(* has found none for a second.  shutdown() waits for the helpers and puts *)
(* the original get() back.                                                *)
(*                                                                         *)
(* The queue's condition variable is modelled with its waiters in order:   *)
(* a put() notifies the first one, helper or host worker, whatever the     *)
(* task.  The host's threads, loop and queue are external.  ensure() is    *)
(* one step, as _lock is held all along; what its count of eligible tasks  *)
(* misses are tasks taken meanwhile.                                       *)
(***************************************************************************)
EXTENDS Naturals, Sequences, FiniteSets, SequencesExt

CONSTANTS Item,            \* tasks
          Eligible,        \* those _eligible() accepts
          Host,            \* the host's own worker threads
          Helper,          \* helper threads, used again once dead
          Limit,           \* workers.limit
          None,
          StartFailures,   \* bound: Thread.start() calls that fail
          MaxShutdowns     \* bound: shutdown() calls

Worker == Host \cup Helper

ASSUME HelperAssumption ==
    /\ Eligible \subseteq Item
    /\ Host \cap Helper = {}
    /\ None \notin Item
    /\ IsFiniteSet(Helper)
    /\ {Limit, StartFailures, MaxShutdowns} \subseteq Nat
    /\ Limit <= Cardinality(Helper)

VARIABLES
    queue,      \* the host's queue
    absent,     \* tasks not enqueued yet
    owed,       \* tasks whose enqueue() has yet to call ensure()
    waiters,    \* not_empty: threads that wait, first come first notified
    pc,         \* pc[w]: what thread w does
    item,       \* item[w]: the task it has, or None
    done,       \* tasks finished
    threads,    \* self._threads
    patched,    \* queue.get is the replacement
    stopping,   \* self._stopping
    hostStop,   \* the host's stop event
    shut,       \* the thread in shutdown()
    joining,    \* the threads it has still to join
    shutdowns,  \* calls of shutdown() so far
    failures    \* starts that failed

vars == <<queue, absent, owed, waiters, pc, item, done, threads, patched,
          stopping, hostStop, shut, joining, shutdowns, failures>>

Init ==
    /\ queue = <<>>
    /\ absent = Item /\ owed = {}
    /\ waiters = <<>>
    /\ pc = [w \in Worker |-> IF w \in Host THEN "get" ELSE "dead"]
    /\ item = [w \in Worker |-> None]
    /\ done = {}
    /\ threads = {}
    /\ patched = FALSE
    /\ stopping = FALSE /\ hostStop = FALSE
    /\ shut = "off" /\ joining = {} /\ shutdowns = 0
    /\ failures = 0

(* is_alive(): a thread whose start failed never was.                      *)
Alive(w) == pc[w] \notin {"dead", "unstarted"}

(***************************************************************************)
(* enqueue: put() notifies a waiter, then ensure().                        *)
(***************************************************************************)
Put(i) ==
    /\ i \in absent
    /\ absent' = absent \ {i}
    /\ queue' = Append(queue, i)
    /\ owed' = owed \cup {i}
    /\ IF waiters = <<>> THEN UNCHANGED <<waiters, pc>>
       ELSE /\ waiters' = Tail(waiters)
            /\ pc' = [pc EXCEPT ![Head(waiters)] = "notified"]
    /\ UNCHANGED <<item, done, threads, patched, stopping, hostStop, shut, joining,
                   shutdowns, failures>>

(* Mutant: helpers are added while the workers are being shut down.        *)
RefusesUnlessHost == hostStop

Refuses == stopping \/ hostStop
Pending == Cardinality({n \in 1..Len(queue) : queue[n] \in Eligible})
Lower(a, b) == IF a < b THEN a ELSE b

Room(kept) == IF Cardinality(kept) < Limit THEN Limit - Cardinality(kept) ELSE 0

(* Mutant: shutdown() keeps _lock while it joins.                          *)
LockedWhileJoining == shut = "join"

Locked == FALSE

(* The part of ensure() common to both of its callers: the threads that    *)
(* are alive are kept, get() is replaced, helpers started; if a start      *)
(* fails its thread stays in the list and the caller gets the error.       *)
Ensure(after) ==
    /\ ~Locked
    /\ IF Refuses
       THEN /\ pc' = after
            /\ UNCHANGED <<threads, patched, failures>>
       ELSE LET kept == {w \in threads : Alive(w)}
                count == Lower(Pending, Room(kept))
            IN /\ patched' = TRUE
               /\ \E new \in SUBSET {w \in Helper : ~Alive(w)} :
                    \/ /\ Cardinality(new) = count
                       /\ threads' = kept \cup new
                       /\ pc' = [w \in Worker |-> IF w \in new THEN "get" ELSE after[w]]
                       /\ UNCHANGED failures
                    \/ /\ failures < StartFailures
                       /\ Cardinality(new) \in 1..count
                       /\ threads' = kept \cup new
                       /\ \E bad \in new :
                            pc' = [w \in Worker |-> IF w = bad THEN "unstarted"
                                     ELSE IF w \in new THEN "get" ELSE after[w]]
                       /\ failures' = failures + 1

EnqueueEnsure(i) ==
    /\ i \in owed
    /\ owed' = owed \ {i}
    /\ Ensure(pc)
    /\ UNCHANGED <<queue, absent, waiters, item, done, stopping, hostStop, shut,
                   joining, shutdowns>>

(***************************************************************************)
(* queue.get: the original serves a host worker, and any thread once it is *)
(* back in place; the replacement serves a helper.                         *)
(***************************************************************************)
Selective(w) == w \in Helper /\ patched
Servable(w) == {n \in 1..Len(queue) : Selective(w) => queue[n] \in Eligible}
Ended(w) == IF w \in Host THEN hostStop
            ELSE Selective(w) /\ (stopping \/ hostStop)

Leave(w) == RemoveAt(waiters, CHOOSE n \in 1..Len(waiters) : waiters[n] = w)

Take(w) ==
    /\ pc[w] \in {"get", "notified", "timeout"}
    /\ w \in Helper => ~Ended(w)
    /\ \E n \in Servable(w) :
         /\ \A m \in Servable(w) : n <= m
         /\ item' = [item EXCEPT ![w] = queue[n]]
         /\ queue' = RemoveAt(queue, n)
    /\ pc' = [pc EXCEPT ![w] = "taken"]
    /\ UNCHANGED <<absent, owed, waiters, done, threads, patched, stopping, hostStop,
                   shut, joining, shutdowns, failures>>

Wait(w) ==
    /\ pc[w] \in {"get", "notified"}
    /\ Servable(w) = {} /\ ~Ended(w)
    /\ pc' = [pc EXCEPT ![w] = "wait"]
    /\ waiters' = Append(waiters, w)
    /\ UNCHANGED <<queue, absent, owed, item, done, threads, patched, stopping,
                   hostStop, shut, joining, shutdowns, failures>>

(* Mutant: the replacement forgets the timeout of a host worker's call.    *)
HostWaitsForever(w) == w \in Helper

TimesOut(w) == TRUE

Timeout(w) ==
    /\ pc[w] = "wait" /\ TimesOut(w)
    /\ pc' = [pc EXCEPT ![w] = "timeout"]
    /\ waiters' = Leave(w)
    /\ UNCHANGED <<queue, absent, owed, item, done, threads, patched, stopping,
                   hostStop, shut, joining, shutdowns, failures>>

(* Empty: a helper retires, a host worker goes on unless the host stops.   *)
Empty(w) ==
    /\ \/ pc[w] = "timeout" /\ Servable(w) = {}
       \/ pc[w] \in {"get", "notified", "timeout"} /\ Ended(w)
    /\ pc' = [pc EXCEPT ![w] =
                IF w \in Helper THEN "retired" ELSE IF hostStop THEN "dead" ELSE "get"]
    /\ UNCHANGED <<queue, absent, owed, waiters, item, done, threads, patched,
                   stopping, hostStop, shut, joining, shutdowns, failures>>

(* The helper's thread ends; until then it counts as alive.                *)
End(w) ==
    /\ pc[w] = "retired"
    /\ pc' = [pc EXCEPT ![w] = "dead"]
    /\ UNCHANGED <<queue, absent, owed, waiters, item, done, threads, patched,
                   stopping, hostStop, shut, joining, shutdowns, failures>>

(* handle: ensure() first, then the transfer itself.                       *)
Handle(w) ==
    /\ pc[w] = "taken"
    /\ Ensure([pc EXCEPT ![w] = "busy"])
    /\ UNCHANGED <<queue, absent, owed, waiters, item, done, stopping, hostStop, shut,
                   joining, shutdowns>>

Finish(w) ==
    /\ pc[w] = "busy"
    /\ done' = done \cup {item[w]}
    /\ item' = [item EXCEPT ![w] = None]
    /\ pc' = [pc EXCEPT ![w] = "get"]
    /\ UNCHANGED <<queue, absent, owed, waiters, threads, patched, stopping, hostStop,
                   shut, joining, shutdowns, failures>>

StopHost ==
    /\ ~hostStop
    /\ hostStop' = TRUE
    /\ UNCHANGED <<queue, absent, owed, waiters, pc, item, done, threads, patched,
                   stopping, shut, joining, shutdowns, failures>>

(***************************************************************************)
(* shutdown, not called by a helper.                                       *)
(***************************************************************************)
ShutdownBegin ==
    /\ shut \in {"off", "raised"} /\ shutdowns < MaxShutdowns
    /\ shut' = "begin" /\ shutdowns' = shutdowns + 1
    /\ stopping' = TRUE
    /\ UNCHANGED <<queue, absent, owed, waiters, pc, item, done, threads, patched,
                   hostStop, joining, failures>>

Snapshot ==
    /\ shut = "begin"
    /\ shut' = "join" /\ joining' = threads
    /\ UNCHANGED <<queue, absent, owed, waiters, pc, item, done, threads, patched,
                   stopping, hostStop, shutdowns, failures>>

Joined ==
    /\ shut = "join"
    /\ \E w \in joining :
         /\ pc[w] = "dead"
         /\ joining' = joining \ {w}
    /\ UNCHANGED <<queue, absent, owed, waiters, pc, item, done, threads, patched,
                   stopping, hostStop, shut, shutdowns, failures>>

(* The deadline has passed: the remaining joins return at once.            *)
GiveUp ==
    /\ shut = "join"
    /\ \E w \in joining : Alive(w)
    /\ \A w \in joining : pc[w] # "unstarted"
    /\ joining' = {}
    /\ UNCHANGED <<queue, absent, owed, waiters, pc, item, done, threads, patched,
                   stopping, hostStop, shut, shutdowns, failures>>

(* join() of a thread that was not started raises RuntimeError.            *)
JoinRaises ==
    /\ shut = "join"
    /\ \E w \in joining : pc[w] = "unstarted"
    /\ joining' = {}
    /\ shut' = "raised"
    /\ UNCHANGED <<queue, absent, owed, waiters, pc, item, done, threads, patched,
                   stopping, hostStop, shutdowns, failures>>

(* Mutant: joined once, the helpers are not asked again.                   *)
AllDeadAssumed == TRUE

AllDead == \A w \in threads : ~Alive(w)

Restore ==
    /\ shut = "join" /\ joining = {}
    /\ IF AllDead THEN /\ patched' = FALSE /\ threads' = {} /\ shut' = "true"
                  ELSE shut' = "off" /\ UNCHANGED <<patched, threads>>
    /\ UNCHANGED <<queue, absent, owed, waiters, pc, item, done, stopping, hostStop,
                   joining, shutdowns, failures>>

WorkerStep(w) == Take(w) \/ Wait(w) \/ Timeout(w) \/ Empty(w) \/ End(w) \/ Handle(w)
                 \/ Finish(w)
Next == \/ \E i \in Item : Put(i) \/ EnqueueEnsure(i)
        \/ \E w \in Worker : WorkerStep(w)
        \/ StopHost \/ ShutdownBegin \/ Snapshot \/ Joined \/ GiveUp \/ JoinRaises
        \/ Restore

Spec == Init /\ [][Next]_vars

(* Threads run, transfers end, waits time out.  No fairness for the calls  *)
(* of others, nor for the deadline of shutdown().                          *)
Fairness == /\ \A w \in Worker : WF_vars(WorkerStep(w))
            /\ \A i \in Item : WF_vars(EnqueueEnsure(i))
            /\ WF_vars(Snapshot \/ Joined \/ JoinRaises \/ Restore)
FairSpec == Spec /\ Fairness

(***************************************************************************)
(* Properties.                                                             *)
(***************************************************************************)
Status == {"get", "wait", "notified", "timeout", "taken", "busy", "retired", "dead",
           "unstarted"}

TypeOK ==
    /\ queue \in Seq(Item) /\ absent \subseteq Item /\ owed \subseteq Item
    /\ waiters \in Seq(Worker)
    /\ pc \in [Worker -> Status]
    /\ item \in [Worker -> Item \cup {None}]
    /\ done \subseteq Item
    /\ threads \subseteq Helper /\ joining \subseteq Helper
    /\ {patched, stopping, hostStop} \subseteq BOOLEAN
    /\ shut \in {"off", "begin", "join", "true", "raised"}
    /\ shutdowns \in 0..MaxShutdowns /\ failures \in 0..StartFailures

(* A helper never gets a task that is not for it, although it calls the    *)
(* same get() as everyone: the original is back only when no helper can    *)
(* call it any more (workers.py:151).                                      *)
OnlyEligible == \A w \in Helper : item[w] \in Eligible \cup {None}

(* There are never more helpers than the limit, those that are retiring    *)
(* included, and every one alive is in the list shutdown() joins.          *)
HelpersBounded ==
    LET alive == {w \in Helper : Alive(w)}
    IN Cardinality(alive) <= Limit /\ alive \subseteq threads

(* Once shutdown() has returned True no helper runs, and none is started   *)
(* by a transfer or an enqueue that is still going on.                     *)
StoppedForGood == shut = "true" => ~patched /\ \A w \in Helper : ~Alive(w)

(* Every task is taken, also when the notification of its put() went to a  *)
(* helper that has no use for it: the wait of a host worker times out.     *)
TasksTaken == \A i \in Item :
    i \notin absent ~> hostStop \/ \A n \in 1..Len(queue) : queue[n] # i

(* shutdown() comes to its end without the help of its deadline: no helper *)
(* waits for anything that shutdown() holds.                               *)
ShutdownEnds == (shut = "begin") ~> (shut \notin {"begin", "join"})
=============================================================================
