----------------------- MODULE ShareAuditQueueProofs -----------------------
(***************************************************************************)
(* Proofs about ShareAuditQueue, for any files, callers, times and number  *)
(* of faults.                                                              *)
(*                                                                         *)
(* A task is made of items that wait nowhere else and only ever loses some *)
(* of them, so tasks stay disjoint, in memory and in every file a restart  *)
(* may load.  What was handed over lies in the task in the worker's hands, *)
(* apart from all that task will keep.                                     *)
(***************************************************************************)
EXTENDS ShareAuditQueue, TLAPS

Table == [TaskId -> Task \cup {None}]

OneTask(ts) ==
    \A k, l \in TaskId :
        ts[k] # None /\ ts[l] # None /\ k # l => ts[k].items \cap ts[l].items = {}

(* What an operation on the queue needs and keeps.                         *)
QueueSound ==
    /\ tasks \in Table /\ required \subseteq Item
    /\ saved \in [tasks: Table, required: SUBSET Item]
    /\ OneTask(tasks) /\ OneTask(saved.tasks)
    /\ QueuedIsDurable
    /\ faults \in Nat

(* The worker's copy is the task, which is in nobody else's hands.         *)
JobSound ==
    /\ wpc \in {"wait", "query", "choose", "download", "settle"}
    /\ job \in [id: TaskId \cup {None}, items: SUBSET Item, late: BOOLEAN]
    /\ job.id = None <=> wpc = "wait"
    /\ job.id # None => tasks[job.id] # None /\ tasks[job.id].items = job.items
    /\ ~alive => wpc = "wait"

(* Items of the task in hand are handed over, or kept, or to be settled.   *)
ResultsSound ==
    /\ results \in [todo: SUBSET job.items, failed: SUBSET Item,
                    lost: SUBSET job.items, unmoved: SUBSET job.items]
    /\ wpc = "wait" => job.items = {}
    /\ wpc # "settle" => handed = {} /\ results.lost = {} /\ results.unmoved = {}
    /\ handed \subseteq job.items
    /\ handed \cap (results.todo \cup results.lost \cup results.unmoved) = {}
    /\ results.todo \cap (results.lost \cup results.unmoved) = {}

(* A caller past its own download knows its item.                          *)
CallersSound ==
    /\ cpc \in [Caller -> {"idle", "ask", "enqueue", "remove"}]
    /\ citem \in [Caller -> Item \cup {None}]
    /\ \A c \in Caller : cpc[c] # "idle" => citem[c] \in Item

OutsideSound ==
    /\ alive \in BOOLEAN /\ stopping \in BOOLEAN
    /\ share \in {0, 1, 7} /\ file \subseteq Item
    /\ now \in Nat /\ flips \in Nat

(* The inductive invariant.                                                *)
IInv == QueueSound /\ JobSound /\ ResultsSound /\ CallersSound /\ OutsideSound
-----------------------------------------------------------------------------
LEMMA Numbers ==
    /\ MaxWait \in Nat /\ Interval \in Nat
    /\ None \notin TaskId /\ None \notin Item
  BY AuditAssumption DEF AuditAssumption, TaskId

LEMMA EarlierTyped == ASSUME NEW a \in Nat, NEW b \in Nat PROVE EarlierOf(a, b) \in Nat
  BY DEF EarlierOf

LEMMA FreeIdIsFree ==
  ASSUME FreeIds # {}
  PROVE  FreeId \in TaskId /\ tasks[FreeId] = None
  BY DEF FreeId, FreeIds

(* Items that wait nowhere make a task of their own.                       *)
LEMMA NewKeepsApart ==
  ASSUME NEW ts \in Table, OneTask(ts), NEW id \in TaskId, ts[id] = None,
         NEW t \in Task, t.items \cap ItemsOf(ts) = {}
  PROVE  LET us == [ts EXCEPT ![id] = t] IN us \in Table /\ OneTask(us)
  <1> DEFINE us == [ts EXCEPT ![id] = t]
  <1>1. us \in Table
    BY DEF Table
  <1>2. us[id] = t /\ \A k \in TaskId \ {id} : us[k] = ts[k]
    BY DEF Table
  <1>3. \A k \in TaskId : ts[k] # None => ts[k].items \cap t.items = {}
    BY DEF ItemsOf
  <1> HIDE DEF us
  <1>4. OneTask(us)
    BY <1>2, <1>3 DEF OneTask
  <1> QED
    BY <1>1, <1>4 DEF us

(* A task dropped, or cut down to some of its items.                       *)
LEMMA LessKeepsApart ==
  ASSUME NEW ts \in Table, OneTask(ts), NEW id \in TaskId, ts[id] # None,
         NEW t \in Task \cup {None}, t # None => t.items \subseteq ts[id].items
  PROVE  LET us == [ts EXCEPT ![id] = t]
         IN  us \in Table /\ OneTask(us) /\ ItemsOf(us) \subseteq ItemsOf(ts)
  <1> DEFINE us == [ts EXCEPT ![id] = t]
  <1>1. us \in Table
    BY DEF Table
  <1>2. us[id] = t /\ \A k \in TaskId \ {id} : us[k] = ts[k]
    BY DEF Table
  <1> HIDE DEF us
  <1>3. OneTask(us)
    BY <1>2 DEF OneTask
  <1>4. ItemsOf(us) \subseteq ItemsOf(ts)
    BY <1>2 DEF ItemsOf
  <1> QED
    BY <1>1, <1>3, <1>4 DEF us

(* The contents of the file after a save that may fail.                    *)
LEMMA SaveKeeps ==
  ASSUME QueueSound, NEW ts \in Table, NEW req \in SUBSET Item, Save(ts, req),
         OneTask(ts), tasks' = ts, required' = req,
         ItemsOf(ts) \subseteq Pending, req \subseteq required
  PROVE  QueueSound'
  <1>1. CASE SaveDone(ts, req)
    BY <1>1 DEF QueueSound, SaveDone, QueuedIsDurable, Pending
  <1>2. CASE SaveFails
    BY <1>2 DEF QueueSound, SaveFails, Fault, QueuedIsDurable, Pending
  <1> QED
    BY <1>1, <1>2 DEF Save

LEMMA AddKeeps ==
  ASSUME QueueSound, JobSound, now \in Nat,
         NEW S \in SUBSET Item, NEW marked \in BOOLEAN, Add(S, marked)
  PROVE  /\ QueueSound'
         /\ job.id # None => tasks'[job.id] = tasks[job.id]
  <1> DEFINE new == S \ Pending
             ts == IF new = {} THEN tasks ELSE [tasks EXCEPT ![FreeId] = NewTask(new)]
             req == IF marked THEN required \cup S ELSE required
  <1>1. req \in SUBSET Item
    BY DEF QueueSound
  <1>2. ASSUME new # {}, FreeIds # {}
        PROVE  /\ [tasks EXCEPT ![FreeId] = NewTask(new)] \in Table
               /\ OneTask([tasks EXCEPT ![FreeId] = NewTask(new)])
               /\ job.id # None =>
                    [tasks EXCEPT ![FreeId] = NewTask(new)][job.id] = tasks[job.id]
    <2>1. FreeId \in TaskId /\ tasks[FreeId] = None
      BY <1>2, FreeIdIsFree
    <2>2. NewTask(new) \in Task /\ NewTask(new).items = new
      BY Numbers DEF NewTask, Task
    <2>3. NewTask(new).items \cap ItemsOf(tasks) = {}
      BY <2>2 DEF Pending
    <2>4. job.id # None => job.id \in TaskId /\ job.id # FreeId
      BY <2>1 DEF JobSound
    <2>5. tasks \in Table /\ OneTask(tasks)
      BY DEF QueueSound
    <2> QED
      BY <2>1, <2>2, <2>3, <2>4, <2>5, NewKeepsApart DEF Table
  <1>3. CASE UNCHANGED <<queue, faults>>
    BY <1>3 DEF QueueSound, QueuedIsDurable, Pending, queue
  <1>4. CASE /\ new # {} => FreeIds # {}
             /\ tasks' = ts /\ required' = req /\ SaveDone(ts, req)
    <2>1. ts \in Table /\ OneTask(ts) /\ (job.id # None => ts[job.id] = tasks[job.id])
      BY <1>2, <1>4 DEF QueueSound
    <2> HIDE DEF ts, req
    <2>2. saved' = [tasks |-> ts, required |-> req] /\ faults' = faults
      BY <1>4 DEF SaveDone
    <2> QED
      BY <1>1, <1>4, <2>1, <2>2 DEF QueueSound, QueuedIsDurable, Pending
  <1>5. CASE Rollback /\ SaveFails
    BY <1>5 DEF QueueSound, QueuedIsDurable, Pending, Rollback, SaveFails, Fault
  <1> QED
    BY <1>3, <1>4, <1>5 DEF Add

LEMMA DropKeeps ==
  ASSUME QueueSound, JobSound, job.id # None, Drop
  PROVE  QueueSound' /\ handed' = handed \ job.items
  <1> DEFINE ts == [tasks EXCEPT ![job.id] = None]
  <1>1. job.id \in TaskId /\ tasks[job.id] # None
    BY DEF JobSound
  <1>2. ts \in Table /\ OneTask(ts) /\ ItemsOf(ts) \subseteq Pending
    BY <1>1, LessKeepsApart DEF QueueSound, Pending
  <1>3. /\ tasks' = ts /\ required' = required \ job.items
        /\ Save(ts, required \ job.items) /\ handed' = handed \ job.items
    BY DEF Drop
  <1> HIDE DEF ts
  <1>4. required \ job.items \in SUBSET Item
    BY DEF QueueSound
  <1> QED
    BY <1>2, <1>3, <1>4, SaveKeeps

LEMMA RescheduleKeeps ==
  ASSUME QueueSound, JobSound, job.id # None, now \in Nat,
         NEW S \in SUBSET job.items, Reschedule(S)
  PROVE  QueueSound' /\ handed' = handed \ (job.items \ S)
  <1> DEFINE t == tasks[job.id]
             u == [items |-> S, deadline |-> t.deadline,
                   next |-> EarlierOf(now + Interval, t.deadline)]
             ts == [tasks EXCEPT ![job.id] = u]
             req == required \ (job.items \ S)
  <1>1. job.id \in TaskId /\ t \in Task /\ t # None /\ t.items = job.items
    BY DEF JobSound, QueueSound, Table
  <1>2. u \in Task /\ u.items = S
    <2>1. t.deadline \in Nat /\ S \in SUBSET Item
      BY <1>1 DEF Task, JobSound
    <2>2. EarlierOf(now + Interval, t.deadline) \in Nat
      <3>1. now + Interval \in Nat
        BY Numbers
      <3> QED
        BY <2>1, <3>1, EarlierTyped
    <2> QED
      BY <2>1, <2>2 DEF Task
  <1>3. /\ tasks' = ts /\ required' = req /\ Save(ts, req)
        /\ handed' = handed \ (job.items \ S)
    BY DEF Reschedule
  <1> HIDE DEF t, u
  <1>4. ts \in Table /\ OneTask(ts) /\ ItemsOf(ts) \subseteq Pending
    BY <1>1, <1>2, LessKeepsApart DEF QueueSound, Pending, t
  <1> HIDE DEF ts
  <1>5. req \in SUBSET Item /\ req \subseteq required
    BY DEF QueueSound
  <1> HIDE DEF req
  <1> QED
    BY <1>3, <1>4, <1>5, SaveKeeps
-----------------------------------------------------------------------------
(***************************************************************************)
(* The steps.                                                              *)
(***************************************************************************)
LEMMA Parts ==
  ASSUME IInv
  PROVE  QueueSound /\ JobSound /\ ResultsSound /\ CallersSound /\ OutsideSound
  BY DEF IInv

(* A step that leaves the queue and the worker alone.                      *)
LEMMA Apart ==
  ASSUME QueueSound, JobSound, ResultsSound,
         UNCHANGED <<queue, worker, alive, handed>>,
         faults' \in Nat
  PROVE  QueueSound' /\ JobSound' /\ ResultsSound'
  <1>1. QueueSound'
    BY DEF QueueSound, QueuedIsDurable, Pending, queue
  <1>2. JobSound'
    BY DEF JobSound, queue, worker
  <1>3. ResultsSound'
    BY DEF ResultsSound, worker
  <1> QED
    BY <1>1, <1>2, <1>3

(* The worker done with its task, nothing of which counts as handed over.  *)
LEMMA IdleKeeps ==
  ASSUME Idle, handed' = {}
  PROVE  JobSound' /\ ResultsSound'
  BY DEF Idle, NoJob, NoResults, JobSound, ResultsSound

LEMMA InitIInv == Init => IInv
  <1> SUFFICES ASSUME Init PROVE IInv
    OBVIOUS
  <1>1. QueueSound
    <2> DEFINE none == [id \in TaskId |-> None]
    <2>1. none \in Table /\ OneTask(none) /\ ItemsOf(none) = {}
      BY DEF Table, OneTask, ItemsOf
    <2>2. tasks = none /\ saved = [tasks |-> none, required |-> {}]
      BY DEF Init
    <2> HIDE DEF none
    <2> QED
      BY <2>1, <2>2 DEF Init, QueueSound, QueuedIsDurable, Pending
  <1>2. JobSound
    BY Numbers DEF Init, JobSound, NoJob
  <1>3. ResultsSound
    BY DEF Init, ResultsSound, NoJob, NoResults
  <1>4. CallersSound
    BY DEF Init, CallersSound
  <1>5. OutsideSound
    BY DEF Init, OutsideSound
  <1> QED
    BY <1>1, <1>2, <1>3, <1>4, <1>5 DEF IInv

LEMMA CallersStep ==
  ASSUME IInv, NEW c \in Caller
  PROVE  /\ \A i \in Item : OwnDownloadFails(c, i) => IInv'
         /\ AskState(c) => IInv'
         /\ EnqueueFailed(c) => IInv'
         /\ RemoveInvalid(c) => IInv'
  <1> USE Parts
  <1>1. ASSUME NEW i \in Item, OwnDownloadFails(c, i) PROVE IInv'
    <2>1. QueueSound' /\ JobSound' /\ ResultsSound'
      <3>1. faults' \in Nat
        BY <1>1 DEF OwnDownloadFails, Fault, QueueSound
      <3> QED
        BY <1>1, <3>1, Apart DEF OwnDownloadFails
    <2>2. CallersSound'
      BY <1>1 DEF OwnDownloadFails, CallersSound
    <2>3. OutsideSound'
      BY <1>1 DEF OwnDownloadFails, OutsideSound, outside
    <2> QED
      BY <2>1, <2>2, <2>3 DEF IInv
  <1>2. ASSUME NEW where \in {"idle", "enqueue", "remove"}, CallerGoes(c, where),
               cpc[c] # "idle"
        PROVE  CallersSound'
    BY <1>2 DEF CallerGoes, CallersSound
  <1>3. ASSUME AskState(c) PROVE IInv'
    <2>1. QueueSound' /\ JobSound' /\ ResultsSound'
      <3>1. faults' \in Nat
        BY <1>3 DEF AskState, QueueSound
      <3> QED
        BY <1>3, <3>1, Apart DEF AskState
    <2>2. CallersSound'
      BY <1>2, <1>3 DEF AskState
    <2>3. OutsideSound'
      BY <1>3 DEF AskState, OutsideSound, outside
    <2> QED
      BY <2>1, <2>2, <2>3 DEF IInv
  <1>4. ASSUME EnqueueFailed(c) PROVE IInv'
    <2>1. {citem[c]} \in SUBSET Item /\ now \in Nat
      BY <1>4 DEF EnqueueFailed, CallersSound, OutsideSound
    <2>2. QueueSound' /\ (job.id # None => tasks'[job.id] = tasks[job.id])
      BY <1>4, <2>1, AddKeeps DEF EnqueueFailed
    <2>3. UNCHANGED <<alive, stopping, worker, outside, file, handed>>
      BY <1>4 DEF EnqueueFailed
    <2>4. JobSound' /\ ResultsSound' /\ OutsideSound'
      BY <2>2, <2>3 DEF JobSound, ResultsSound, OutsideSound, worker, outside
    <2>5. CallersSound'
      BY <1>2, <1>4 DEF EnqueueFailed
    <2> QED
      BY <2>2, <2>4, <2>5 DEF IInv
  <1>5. ASSUME RemoveInvalid(c) PROVE IInv'
    <2>1. QueueSound' /\ JobSound' /\ ResultsSound'
      <3>1. faults' \in Nat
        BY <1>5 DEF RemoveInvalid, QueueSound
      <3> QED
        BY <1>5, <3>1, Apart DEF RemoveInvalid
    <2>2. CallersSound'
      BY <1>2, <1>5 DEF RemoveInvalid
    <2>3. OutsideSound'
      BY <1>5 DEF RemoveInvalid, OutsideSound, outside
    <2> QED
      BY <2>1, <2>2, <2>3 DEF IInv
  <1> QED
    BY <1>1, <1>3, <1>4, <1>5

LEMMA EnqueueStep ==
  ASSUME IInv, NEW S \in SUBSET Item, Enqueue(S)
  PROVE  IInv'
  <1> USE Parts
  <1>1. QueueSound' /\ (job.id # None => tasks'[job.id] = tasks[job.id])
    BY AddKeeps DEF Enqueue, OutsideSound
  <1>2. UNCHANGED <<alive, stopping, worker, callers, outside, file, handed>>
    BY DEF Enqueue
  <1>3. JobSound' /\ ResultsSound'
    BY <1>1, <1>2 DEF JobSound, ResultsSound, worker
  <1>4. CallersSound' /\ OutsideSound'
    BY <1>2 DEF CallersSound, OutsideSound, callers, outside
  <1> QED
    BY <1>1, <1>3, <1>4 DEF IInv

(* A queue loaded is the one saved, and nobody holds a task of it.         *)
LEMMA LoadStep ==
  ASSUME IInv, Start \/ Restart
  PROVE  IInv'
  <1> USE Parts
  <1>1. tasks' = saved.tasks /\ required' = saved.required /\ saved' = saved
    BY DEF Start, Restart, Load
  <1>2. faults' \in Nat
    BY DEF Start, Restart, Fault, QueueSound
  <1>3. QueueSound'
    BY <1>1, <1>2 DEF QueueSound, QueuedIsDurable, Pending
  <1>4. JobSound' /\ ResultsSound'
    <2>1. CASE Start
      <3>1. wpc = "wait" /\ UNCHANGED worker /\ handed' = {}
        BY <2>1 DEF Start, Load, JobSound
      <3> QED
        BY <3>1 DEF JobSound, ResultsSound, worker
    <2>2. CASE Restart
      BY <2>2, IdleKeeps, Numbers DEF Restart, Load
    <2> QED
      BY <2>1, <2>2
  <1>5. CallersSound'
    BY DEF Start, Restart, CallersSound, callers
  <1>6. OutsideSound'
    BY DEF Start, Restart, Load, OutsideSound, outside
  <1> QED
    BY <1>3, <1>4, <1>5, <1>6 DEF IInv

LEMMA OutsideStep ==
  ASSUME IInv, RequestStop \/ WorkerExit \/ Tick \/ \E s \in {0, 1, 7} : Flip(s)
  PROVE  IInv'
  <1> USE Parts
  <1>1. UNCHANGED <<queue, worker, callers, handed, file>> /\ faults' \in Nat
    BY DEF RequestStop, WorkerExit, Tick, Flip, Fault, QueueSound
  <1>2. QueueSound' /\ ResultsSound'
    BY <1>1 DEF QueueSound, QueuedIsDurable, Pending, queue, ResultsSound, worker
  <1>3. JobSound'
    <2>1. UNCHANGED alive \/ wpc = "wait"
      BY DEF RequestStop, WorkerExit, Tick, Flip
    <2> QED
      BY <1>1, <2>1 DEF JobSound, queue, worker
  <1>4. CallersSound'
    BY <1>1 DEF CallersSound, callers
  <1>5. OutsideSound'
    <2>1. CASE RequestStop
      BY <2>1 DEF RequestStop, OutsideSound, outside
    <2>2. CASE WorkerExit
      BY <2>2 DEF WorkerExit, OutsideSound, outside
    <2>3. CASE Tick
      BY <2>3 DEF Tick, OutsideSound
    <2>4. CASE \E s \in {0, 1, 7} : Flip(s)
      BY <2>4 DEF Flip, OutsideSound
    <2> QED
      BY <2>1, <2>2, <2>3, <2>4
  <1> QED
    BY <1>2, <1>3, <1>4, <1>5 DEF IInv
-----------------------------------------------------------------------------
LEMMA TakeStep ==
  ASSUME IInv, NEW id \in TaskId, Take(id)
  PROVE  IInv'
  <1> USE Parts
  <1>1. UNCHANGED <<queue, alive, results, callers, outside, file, handed, faults, stopping>>
    BY DEF Take
  <1>2. /\ alive /\ tasks[id] # None /\ wpc' = "query"
        /\ job' = [id |-> id, items |-> tasks[id].items, late |-> now >= tasks[id].deadline]
    BY DEF Take, Due
  <1>3. tasks[id] \in Task
    BY <1>2 DEF QueueSound, Table
  <1>4. QueueSound'
    BY <1>1 DEF QueueSound, QueuedIsDurable, Pending, queue
  <1>5. JobSound'
    <2>1. tasks[id].items \subseteq Item /\ (now >= tasks[id].deadline) \in BOOLEAN
      BY <1>3 DEF Task
    <2>2. job' \in [id: TaskId \cup {None}, items: SUBSET Item, late: BOOLEAN]
      BY <1>2, <2>1
    <2>3. job'.id = id /\ job'.items = tasks[id].items
      BY <1>2
    <2> QED
      BY <1>1, <1>2, <2>2, <2>3, Numbers DEF JobSound, queue
  <1>6. ResultsSound'
    <2>1. wpc = "wait" /\ job.items = {}
      BY DEF Take, ResultsSound
    <2>2. /\ results = [todo |-> {}, failed |-> results.failed, lost |-> {}, unmoved |-> {}]
          /\ results.failed \in SUBSET Item /\ handed = {}
      BY <2>1 DEF ResultsSound
    <2>3. results \in [todo: SUBSET job'.items, failed: SUBSET Item,
                      lost: SUBSET job'.items, unmoved: SUBSET job'.items]
      BY <2>2
    <2> QED
      BY <1>1, <1>2, <2>2, <2>3 DEF ResultsSound
  <1>7. CallersSound' /\ OutsideSound'
    BY <1>1 DEF CallersSound, OutsideSound, callers, outside
  <1> QED
    BY <1>4, <1>5, <1>6, <1>7 DEF IInv

LEMMA QueryStep ==
  ASSUME IInv, Query
  PROVE  IInv'
  <1> USE Parts
  <1>1. /\ wpc = "query" /\ job.id # None /\ handed = {}
        /\ UNCHANGED <<alive, stopping, callers, outside, file>>
    BY DEF Query, JobSound, ResultsSound
  <1>2. CallersSound' /\ OutsideSound'
    BY <1>1 DEF CallersSound, OutsideSound, callers, outside
  <1>3. CASE wpc' = "choose" /\ UNCHANGED <<queue, job, results, faults, handed>>
    <2>1. QueueSound'
      BY <1>3 DEF QueueSound, QueuedIsDurable, Pending, queue
    <2>2. JobSound' /\ ResultsSound'
      BY <1>1, <1>3 DEF queue, JobSound, ResultsSound
    <2> QED
      BY <1>2, <2>1, <2>2 DEF IInv
  <1>4. CASE Idle /\ Drop
    <2>1. QueueSound' /\ handed' = {}
      BY <1>1, <1>4, DropKeeps
    <2> QED
      BY <1>2, <1>4, <2>1, IdleKeeps DEF IInv
  <1>5. CASE Idle /\ Reschedule(job.items)
    <2>1. QueueSound' /\ handed' = {}
      BY <1>1, <1>5, RescheduleKeeps DEF OutsideSound
    <2> QED
      BY <1>2, <1>5, <2>1, IdleKeeps DEF IInv
  <1> QED
    BY <1>3, <1>4, <1>5 DEF Query

LEMMA ChooseStep ==
  ASSUME IInv, Choose
  PROVE  IInv'
  <1> USE Parts
  <1>1. /\ wpc = "choose" /\ wpc' = "download"
        /\ results' = [NoResults EXCEPT !.todo = Wanted]
        /\ UNCHANGED <<queue, alive, stopping, job, callers, outside, file, faults, handed>>
    BY DEF Choose
  <1>2. QueueSound' /\ CallersSound' /\ OutsideSound'
    BY <1>1 DEF QueueSound, QueuedIsDurable, Pending, queue, CallersSound, OutsideSound,
                callers, outside
  <1>3. JobSound'
    BY <1>1 DEF JobSound, queue
  <1>4. ResultsSound'
    <2>1. results' = [todo |-> Wanted, failed |-> {}, lost |-> {}, unmoved |-> {}]
      BY <1>1 DEF NoResults
    <2>2. Wanted \in SUBSET job.items
      BY DEF Wanted
    <2>3. results' \in [todo: SUBSET job.items, failed: SUBSET Item,
                       lost: SUBSET job.items, unmoved: SUBSET job.items]
      BY <2>1, <2>2
    <2>4. handed' = {} /\ job' = job
      BY <1>1 DEF ResultsSound
    <2> QED
      BY <1>1, <2>1, <2>3, <2>4 DEF ResultsSound
  <1> QED
    BY <1>2, <1>3, <1>4 DEF IInv

LEMMA DownloadStep ==
  ASSUME IInv, Download
  PROVE  IInv'
  <1> USE Parts
  <1>1. /\ wpc = "download" /\ wpc' = "settle"
        /\ UNCHANGED <<queue, alive, stopping, job, callers, outside, faults, handed>>
    BY DEF Download
  <1>2. PICK failed \in SUBSET results.todo :
          /\ results' = [results EXCEPT !.failed = failed, !.todo = job.items]
          /\ file' = file \cup results.todo
    BY DEF Download
  <1>3. results.todo \subseteq Item /\ job.items \subseteq Item
    BY DEF ResultsSound, JobSound
  <1>4. QueueSound' /\ CallersSound'
    BY <1>1 DEF QueueSound, QueuedIsDurable, Pending, queue, CallersSound, callers
  <1>5. OutsideSound'
    BY <1>1, <1>2, <1>3 DEF OutsideSound, outside
  <1>6. JobSound'
    BY <1>1 DEF JobSound, queue
  <1>7. ResultsSound'
    <2>1. /\ results'.todo = job.items /\ results'.lost = {} /\ results'.unmoved = {}
          /\ results' \in [todo: SUBSET job.items, failed: SUBSET Item,
                            lost: SUBSET job.items, unmoved: SUBSET job.items]
      BY <1>1, <1>2, <1>3 DEF ResultsSound
    <2>2. handed = {}
      BY <1>1 DEF ResultsSound
    <2> QED
      BY <1>1, <2>1, <2>2 DEF ResultsSound
  <1> QED
    BY <1>4, <1>5, <1>6, <1>7 DEF IInv

LEMMA SettleStep ==
  ASSUME IInv, NEW i \in Item, Settle(i)
  PROVE  IInv'
  <1> USE Parts
  <1>1. /\ wpc = "settle" /\ i \in results.todo
        /\ UNCHANGED <<tasks, saved, alive, stopping, wpc, job, callers, outside>>
    BY DEF Settle
  <1>2. required' \in SUBSET required /\ faults' \in Nat /\ file' \subseteq file
    BY DEF Settle, Fault, QueueSound
  <1>3. QueueSound'
    BY <1>1, <1>2 DEF QueueSound, QueuedIsDurable, Pending
  <1>4. JobSound' /\ CallersSound' /\ OutsideSound'
    BY <1>1, <1>2 DEF JobSound, CallersSound, OutsideSound, callers, outside
  <1>5. ResultsSound'
    <2> DEFINE rest == results.todo \ {i}
    <2>1. i \in job.items
      BY <1>1 DEF ResultsSound
    <2>2. CASE results' = [results EXCEPT !.todo = @ \ {i}, !.lost = @ \cup {i}]
               /\ UNCHANGED handed
      BY <1>1, <2>1, <2>2 DEF ResultsSound
    <2>3. CASE results' = [results EXCEPT !.todo = @ \ {i}]
               /\ handed' = handed \cup ({i} \cap Transfer)
      BY <1>1, <2>1, <2>3 DEF ResultsSound
    <2>4. CASE results' = [results EXCEPT !.todo = @ \ {i}, !.unmoved = @ \cup {i}]
               /\ UNCHANGED handed
      BY <1>1, <2>1, <2>4 DEF ResultsSound
    <2> QED
      BY <2>2, <2>3, <2>4 DEF Settle
  <1> QED
    BY <1>3, <1>4, <1>5 DEF IInv

LEMMA ConcludeStep ==
  ASSUME IInv, Conclude
  PROVE  IInv'
  <1> USE Parts
  <1>1. /\ wpc = "settle" /\ job.id # None /\ Idle
        /\ UNCHANGED <<alive, stopping, callers, outside, file>>
    BY DEF Conclude, JobSound
  <1>2. PICK audited \in BOOLEAN :
          IF Kept(audited) = {} THEN Drop ELSE Reschedule(Kept(audited))
    BY DEF Conclude
  <1>3. Kept(audited) \subseteq job.items /\ handed \cap Kept(audited) = {}
    BY DEF Kept, ResultsSound
  <1>4. handed \subseteq job.items
    BY DEF ResultsSound
  <1>5. CASE Drop
    <2>1. QueueSound' /\ handed' = {}
      BY <1>1, <1>4, <1>5, DropKeeps
    <2> QED
      BY <1>1, <2>1, IdleKeeps DEF IInv, CallersSound, OutsideSound, callers, outside
  <1>6. CASE Reschedule(Kept(audited))
    <2>1. QueueSound' /\ handed' = handed \ (job.items \ Kept(audited))
      BY <1>1, <1>3, <1>6, RescheduleKeeps DEF OutsideSound
    <2>2. handed' = {}
      BY <1>3, <1>4, <2>1
    <2> QED
      BY <1>1, <2>1, <2>2, IdleKeeps DEF IInv, CallersSound, OutsideSound, callers, outside
  <1> QED
    BY <1>2, <1>5, <1>6
-----------------------------------------------------------------------------
(* The inductive invariant holds throughout.                               *)
THEOREM Invariance == Spec => []IInv
  <1>1. IInv /\ [Next]_vars => IInv'
    <2> SUFFICES ASSUME IInv, [Next]_vars PROVE IInv'
      OBVIOUS
    <2>1. CASE \E S \in SUBSET Item \ {{}} : Enqueue(S)
      BY <2>1, EnqueueStep
    <2>2. CASE \E c \in Caller : \/ \E i \in Item : OwnDownloadFails(c, i)
                                \/ AskState(c) \/ EnqueueFailed(c) \/ RemoveInvalid(c)
      BY <2>2, CallersStep
    <2>3. CASE Start \/ Restart
      BY <2>3, LoadStep
    <2>4. CASE RequestStop \/ WorkerExit \/ Tick \/ \E s \in {0, 1, 7} : Flip(s)
      BY <2>4, OutsideStep
    <2>5. CASE Work
      BY <2>5, QueryStep, ChooseStep, DownloadStep, SettleStep, ConcludeStep DEF Work
    <2>6. CASE \E id \in TaskId : Take(id)
      BY <2>6, TakeStep
    <2>7. CASE UNCHANGED vars
      <3>1. UNCHANGED <<queue, worker, alive, handed, faults, stopping, callers, outside, file>>
        BY <2>7 DEF vars
      <3>2. QueueSound' /\ JobSound' /\ ResultsSound'
        BY <3>1, Parts, Apart DEF QueueSound
      <3> QED
        BY <3>1, <3>2, Parts DEF IInv, CallersSound, OutsideSound, callers, outside
    <2> QED
      BY <2>1, <2>2, <2>3, <2>4, <2>5, <2>6, <2>7 DEF Next, Thread
  <1> QED
    BY InitIInv, <1>1, PTL DEF Spec

(* Every variable keeps its type, and the worker's task stays in the queue *)
(* as it copied it.                                                        *)
THEOREM Typed == Spec => []TypeOK
  <1>1. IInv => TypeOK
    <2> SUFFICES ASSUME IInv PROVE TypeOK
      OBVIOUS
    <2>1. /\ {alive, stopping} \subseteq BOOLEAN /\ {now, faults, flips} \subseteq Nat
      BY Parts DEF OutsideSound, QueueSound
    <2>2. /\ tasks \in [TaskId -> Task \cup {None}] /\ required \subseteq Item
          /\ saved \in [tasks: [TaskId -> Task \cup {None}], required: SUBSET Item]
      BY Parts DEF QueueSound, Table
    <2>3. results \in [todo: SUBSET Item, failed: SUBSET Item, lost: SUBSET Item,
                       unmoved: SUBSET Item] /\ handed \subseteq Item
      BY Parts DEF ResultsSound, JobSound
    <2> QED
      BY <2>1, <2>2, <2>3, Parts DEF TypeOK, JobSound, CallersSound, OutsideSound
  <1> QED
    BY <1>1, Invariance, PTL

(* What waits is in the file a restart loads.                              *)
THEOREM Durable == Spec => []QueuedIsDurable
  <1>1. IInv => QueuedIsDurable
    BY DEF IInv, QueueSound
  <1> QED
    BY <1>1, Invariance, PTL

(* No file waits in two tasks.                                             *)
THEOREM OneTaskEach == Spec => []OneTaskPerItem
  <1>1. IInv => OneTaskPerItem
    BY DEF IInv, QueueSound, OneTask, OneTaskPerItem
  <1> QED
    BY <1>1, Invariance, PTL

(* A file handed to MoviePilot waits no more, but in the task in hand.     *)
THEOREM HandedOnce == Spec => []HandedOverOnce
  <1>1. IInv => HandedOverOnce
    BY DEF IInv, ResultsSound, HandedOverOnce
  <1> QED
    BY <1>1, Invariance, PTL
=============================================================================
