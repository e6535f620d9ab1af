---------------------------- MODULE DurableBatch ----------------------------
(***************************************************************************)
(* helper/transfer/durable.py: one file is transferred in three durable    *)
(* steps of the host - capture the target folder, materialize (move or     *)
(* copy), rename - whose cloud requests are merged with those of other     *)
(* tasks, and whose outcome is read back from the cloud file by file.      *)
(*                                                                         *)
(* Host threads claim a task under a lease, take its path locks and run    *)
(* the steps.  A lease may be taken over, a request may be applied for     *)
(* some files only, its reply does not matter, a listing may fail, and the *)
(* process may die between any two actions; the ledger of steps and the    *)
(* cloud survive.  What the code observes decides between going on,        *)
(* retrying and manual review.                                             *)
(*                                                                         *)
(* Outside this repository, and modelled from how it is used: the host's   *)
(* ledger and step runner, its leases, and the cloud drive, which takes    *)
(* any number of files of one name in a folder and has applied a request   *)
(* before the folder is listed again.                                      *)
(*                                                                         *)
(* All tasks have one target folder and one storage instance, so the merge *)
(* key of an operation is its kind.  Path locks are taken all at once:     *)
(* PathLocks shows that they can be.                                       *)
(***************************************************************************)
EXTENDS Naturals, Sequences, FiniteSets

CONSTANTS Tasks,       \* transfer tasks; a task also names its source file
          OldFiles,    \* files the target folder already holds
          Threads,     \* host worker threads
          None,        \* no thread, no task, no file
          Mode,        \* Mode[t]: "move" or "copy"
          SrcName,     \* SrcName[f]: the name a file starts with
          TgtName,     \* TgtName[t]: the name the plan gives it
          Content,     \* Content[f]: size and SHA1 of a file
          MaxBatch,    \* max_size of a batch
          MaxCopies,   \* bound: copies the cloud makes of one file
          MaxRetries,  \* bound: retries of a task before manual review
          MaxCrashes,  \* bound: deaths of the process
          MaxLost,     \* bound: leases taken over
          MaxVanished  \* bound: source files removed by somebody else

ASSUME ConstantsAssumption ==
    /\ Tasks \cap OldFiles = {}
    /\ None \notin Tasks \cup OldFiles \cup Threads
    /\ \A f \in Tasks \cup OldFiles \cup {None} : f \notin Tasks \X (1..MaxCopies)
    /\ Mode \in [Tasks -> {"move", "copy"}]
    /\ DOMAIN SrcName = Tasks \cup OldFiles
    /\ DOMAIN Content = Tasks \cup OldFiles
    /\ DOMAIN TgtName = Tasks
    /\ MaxBatch \in Nat \ {0}
    /\ {MaxCopies, MaxRetries, MaxCrashes, MaxLost, MaxVanished} \subseteq Nat

VARIABLES
    dir,      \* cloud: dir[f] is "src", "dst" or "gone"
    name,     \* cloud: name[f]
    made,     \* cloud: made[t], number of copies made of task t's source
    ledger,   \* host database: state, step and evidence of each task
    owner,    \* host database: thread whose lease is valid, or None
    pc,       \* pc[w]: what host thread w does
    task,     \* task[w]: the task it runs
    op,       \* op[w]: kind of the operation it submitted
    probing,  \* probing[w]: it runs the observe callback of the capture step
    answer,   \* answer[w]: its future
    pending,  \* BatchCoordinator._pending, as the submitting threads
    todo,     \* validated operations of the taken batch, not executed yet
    request,  \* the group being executed: its phase, kind and operations
    crashes, lost, vanished

cloudVars  == <<dir, name, made>>
hostVars   == <<ledger, owner>>
threadVars == <<pc, task, op, probing, answer>>
batchVars  == <<pending, todo, request>>
envVars    == <<crashes, lost, vanished>>
vars == <<cloudVars, hostVars, threadVars, batchVars, envVars>>

Copies == Tasks \X (1..MaxCopies)
Files  == Tasks \cup OldFiles \cup Copies
Kinds  == {"capture", "move", "copy", "rename"}

(* The file whose content f has. *)
Origin(f) == IF f \in Copies THEN f[1] ELSE f

NoAnswer   == [state |-> "none",  known |-> {}, file |-> None, name |-> None]
Failed     == [state |-> "error", known |-> {}, file |-> None, name |-> None]
Captured(k) == [state |-> "ok", known |-> k, file |-> None, name |-> None]
Confirmed(f) == [state |-> "ok", known |-> {}, file |-> f, name |-> name[f]]

NoRequest == [phase |-> "none", kind |-> "capture", ops |-> {}]

Init ==
    /\ dir = [f \in Files |-> IF f \in Tasks THEN "src"
                              ELSE IF f \in OldFiles THEN "dst" ELSE "gone"]
    /\ name = [f \in Files |-> SrcName[Origin(f)]]
    /\ made = [t \in Tasks |-> 0]
    /\ ledger = [t \in Tasks |->
          [state |-> "planned", step |-> "capture", begun |-> FALSE,
           known |-> {}, file |-> None, name |-> None, retries |-> 0]]
    /\ owner = [t \in Tasks |-> None]
    /\ pc = [w \in Threads |-> "free"]
    /\ task = [w \in Threads |-> None]
    /\ op = [w \in Threads |-> None]
    /\ probing = [w \in Threads |-> FALSE]
    /\ answer = [w \in Threads |-> NoAnswer]
    /\ pending = <<>>
    /\ todo = {}
    /\ request = NoRequest
    /\ crashes = 0
    /\ lost = 0
    /\ vanished = 0

-----------------------------------------------------------------------------
(* What the code reads back from the cloud.                                *)

InTarget == {f \in Files : dir[f] = "dst"}

(* Faulty variant: the baseline is not consulted. *)
BaselineEmpty(t) == {}

(* The files the capture step saw in the target folder.                    *)
Baseline(t) == ledger[t].known

(* Files that may be the outcome of materializing t: the same id for a     *)
(* move; for a copy a file of the source's name, size and SHA1 that the    *)
(* captured folder did not have.                                           *)
Matches(t) ==
    IF Mode[t] = "move"
    THEN InTarget \cap {t}
    ELSE {f \in InTarget : /\ name[f] = SrcName[t]
                           /\ f \notin Baseline(t)
                           /\ Content[Origin(f)] = Content[t]}

(* Faulty variant: a source in its place means that nothing was done.      *)
ObserveSourceFirst(t) ==
    IF dir[t] = "src" THEN "not_applied"
    ELSE IF \E f \in Matches(t) : Matches(t) = {f} THEN "applied"
    ELSE IF Matches(t) # {} THEN "conflict" ELSE "unknown"

(* _observe_materialize: NOT_APPLIED is concluded only with the source     *)
(* still in its place.                                                     *)
ObserveMaterialize(t) ==
    IF \E f \in Matches(t) : Matches(t) = {f}
    THEN "applied"
    ELSE IF Matches(t) # {} THEN "conflict"
    ELSE IF dir[t] = "src" THEN "not_applied" ELSE "unknown"

(* _observe_rename: by the id of the landed file. *)
ObserveRename(t) ==
    LET f == ledger[t].file IN
    IF dir[f] # "dst" THEN "unknown"
    ELSE IF name[f] = TgtName[t] THEN "applied"
    ELSE IF name[f] = ledger[t].name THEN "not_applied" ELSE "conflict"

Observe(t) == IF ledger[t].step = "rename" THEN ObserveRename(t)
                                           ELSE ObserveMaterialize(t)

(* The evidence of an APPLIED observation. *)
Evidence(t) == IF ledger[t].step = "rename"
               THEN Confirmed(ledger[t].file)
               ELSE Confirmed(CHOOSE f \in Matches(t) : TRUE)

-----------------------------------------------------------------------------
(* The host: claims, locks and the ledger.                                 *)

(* The keys execute_plan locks: source, final target and landing path.     *)
PathKeys(t) == {<<"src", t>>, <<"dst", TgtName[t]>>, <<"dst", SrcName[t]>>}

HoldsLocks(w) == pc[w] \in {"step", "wait", "observe"}

Claim(w, t) ==
    /\ pc[w] = "free"
    /\ owner[t] = None
    /\ ledger[t].state \in {"planned", "retry_wait"}
    /\ owner' = [owner EXCEPT ![t] = w]
    /\ task' = [task EXCEPT ![w] = t]
    /\ pc' = [pc EXCEPT ![w] = "lock"]
    /\ UNCHANGED <<cloudVars, ledger, op, probing, answer, batchVars, envVars>>

(* Faulty variant: the lease alone protects a task. *)
LocksUnneeded(w) == TRUE

LocksFree(w) ==
    \A v \in Threads :
        v # w /\ HoldsLocks(v) => PathKeys(task[v]) \cap PathKeys(task[w]) = {}

TakeLocks(w) ==
    /\ pc[w] = "lock"
    /\ LocksFree(w)
    /\ pc' = [pc EXCEPT ![w] = "step"]
    /\ UNCHANGED <<cloudVars, hostVars, task, op, probing, answer, batchVars,
                   envVars>>

(* The thread is back in the pool, its locks released. *)
Released(w) ==
    /\ pc' = [pc EXCEPT ![w] = "free"]
    /\ task' = [task EXCEPT ![w] = None]
    /\ op' = [op EXCEPT ![w] = None]
    /\ probing' = [probing EXCEPT ![w] = FALSE]
    /\ answer' = [answer EXCEPT ![w] = NoAnswer]

(* The ledger refuses whatever a thread without lease wants to record.     *)
Abandon(w) ==
    /\ HoldsLocks(w)
    /\ pc[w] = "wait" => answer[w] # NoAnswer
    /\ owner[task[w]] # w
    /\ Released(w)
    /\ UNCHANGED <<cloudVars, hostVars, batchVars, envVars>>

(* coordinator.submit *)
Submitted(w, kind) ==
    /\ pending' = Append(pending, w)
    /\ op' = [op EXCEPT ![w] = kind]
    /\ pc' = [pc EXCEPT ![w] = "wait"]
    /\ answer' = [answer EXCEPT ![w] = NoAnswer]

(* A step the ledger has not begun, or has seen fail: begin it, and call   *)
(* its execute callback.                                                   *)
ExecuteStep(w) ==
    LET t == task[w] IN
    /\ pc[w] = "step"
    /\ owner[t] = w
    /\ ~ledger[t].begun
    /\ ~(ledger[t].step = "rename" /\ ledger[t].name = TgtName[t])
    /\ ledger' = [ledger EXCEPT ![t].begun = TRUE]
    /\ Submitted(w, IF ledger[t].step = "materialize" THEN Mode[t]
                                                      ELSE ledger[t].step)
    /\ UNCHANGED <<cloudVars, owner, task, probing, todo, request, envVars>>

(* A step begun by a thread that is gone: the observe callback.  For the   *)
(* capture step it takes the snapshot again, for the others it lists.      *)
RecoverCapture(w) ==
    LET t == task[w] IN
    /\ pc[w] = "step"
    /\ owner[t] = w
    /\ ledger[t].begun
    /\ ledger[t].step = "capture"
    /\ probing' = [probing EXCEPT ![w] = TRUE]
    /\ Submitted(w, "capture")
    /\ UNCHANGED <<cloudVars, hostVars, task, todo, request, envVars>>

RecoverStep(w) ==
    /\ pc[w] = "step"
    /\ owner[task[w]] = w
    /\ ledger[task[w]].begun
    /\ ledger[task[w]].step # "capture"
    /\ pc' = [pc EXCEPT ![w] = "observe"]
    /\ UNCHANGED <<cloudVars, hostVars, task, op, probing, answer, batchVars,
                   envVars>>

(* The step succeeded with evidence e: record it, and go on.               *)
Succeed(w, e) ==
    LET t == task[w] IN
    CASE ledger[t].step = "capture" ->
           /\ ledger' = [ledger EXCEPT ![t].step = "materialize",
                                       ![t].begun = FALSE,
                                       ![t].known = e.known]
           /\ pc' = [pc EXCEPT ![w] = "step"]
           /\ answer' = [answer EXCEPT ![w] = NoAnswer]
           /\ probing' = [probing EXCEPT ![w] = FALSE]
           /\ UNCHANGED <<owner, task, op>>
      [] ledger[t].step = "materialize" ->
           /\ ledger' = [ledger EXCEPT ![t].step = "rename",
                                       ![t].begun = FALSE,
                                       ![t].file = e.file,
                                       ![t].name = e.name]
           /\ pc' = [pc EXCEPT ![w] = "step"]
           /\ answer' = [answer EXCEPT ![w] = NoAnswer]
           /\ UNCHANGED <<owner, task, op, probing>>
      [] OTHER ->
           /\ ledger' = [ledger EXCEPT ![t].state = "completed"]
           /\ owner' = [owner EXCEPT ![t] = None]
           /\ Released(w)

(* The file already has its name: the execute callback of the rename step  *)
(* returns the materialize result.                                         *)
SkipRename(w) ==
    LET t == task[w] IN
    /\ pc[w] = "step"
    /\ owner[t] = w
    /\ ledger[t].step = "rename"
    /\ ~ledger[t].begun
    /\ ledger[t].name = TgtName[t]
    /\ Succeed(w, NoAnswer)
    /\ UNCHANGED <<cloudVars, batchVars, envVars>>

RecordSuccess(w) ==
    /\ pc[w] = "wait"
    /\ answer[w].state = "ok"
    /\ owner[task[w]] = w
    /\ Succeed(w, answer[w])
    /\ UNCHANGED <<cloudVars, batchVars, envVars>>

(* The execute callback raised: the host observes before it decides.       *)
ObserveFailure(w) ==
    LET t == task[w] IN
    /\ pc[w] = "wait"
    /\ answer[w].state = "error"
    /\ owner[t] = w
    /\ IF op[w] = "capture"
       THEN /\ ~probing[w]
            /\ probing' = [probing EXCEPT ![w] = TRUE]
            /\ Submitted(w, "capture")
       ELSE /\ pc' = [pc EXCEPT ![w] = "observe"]
            /\ answer' = [answer EXCEPT ![w] = NoAnswer]
            /\ UNCHANGED <<op, probing, pending>>
    /\ UNCHANGED <<cloudVars, hostVars, task, todo, request, envVars>>

(* The host's verdicts that end the run of a task. *)
Verdict(w, state) ==
    LET t == task[w] IN
    /\ ledger' = [ledger EXCEPT ![t].state = state]
    /\ owner' = [owner EXCEPT ![t] = None]
    /\ Released(w)

(* The observe callback raised, or could not tell: manual review.          *)
Review(w) ==
    /\ \/ pc[w] = "observe"    \* listing the folder may always fail
       \/ pc[w] = "wait" /\ answer[w].state = "error" /\ probing[w]
    /\ owner[task[w]] = w
    /\ Verdict(w, "manual_review")
    /\ UNCHANGED <<cloudVars, batchVars, envVars>>

ObservedApplied(w) ==
    /\ pc[w] = "observe"
    /\ owner[task[w]] = w
    /\ Observe(task[w]) = "applied"
    /\ Succeed(w, Evidence(task[w]))
    /\ UNCHANGED <<cloudVars, batchVars, envVars>>

ObservedNotApplied(w) ==
    LET t == task[w] IN
    /\ pc[w] = "observe"
    /\ owner[t] = w
    /\ Observe(t) = "not_applied"
    /\ ledger' = [ledger EXCEPT
          ![t].begun = FALSE,
          ![t].retries = IF @ < MaxRetries THEN @ + 1 ELSE @,
          ![t].state = IF ledger[t].retries < MaxRetries THEN "retry_wait"
                                                         ELSE "manual_review"]
    /\ owner' = [owner EXCEPT ![t] = None]
    /\ Released(w)
    /\ UNCHANGED <<cloudVars, batchVars, envVars>>

-----------------------------------------------------------------------------
(* The coordinator thread and the executor.                                *)

Leased(w) == owner[task[w]] = w

(* Faulty variant: nobody is told. *)
FailSilently(ws) == answer

Fail(ws) == [w \in Threads |-> IF w \in ws THEN Failed ELSE answer[w]]

SeqRange(s) == {s[i] : i \in 1..Len(s)}

(* BatchCoordinator._run: take a batch, answer those without lease.        *)
TakeBatch ==
    LET n     == IF Len(pending) < MaxBatch THEN Len(pending) ELSE MaxBatch
        taken == SeqRange(SubSeq(pending, 1, n))
    IN  /\ pending # <<>>
        /\ todo = {}
        /\ request = NoRequest
        /\ pending' = SubSeq(pending, n + 1, Len(pending))
        /\ todo' = {w \in taken : Leased(w)}
        /\ answer' = Fail({w \in taken : ~Leased(w)})
        /\ UNCHANGED <<cloudVars, hostVars, pc, task, op, probing, request,
                       envVars>>

Remaining(group) == todo \ group

(* _execute_batch of one group: validate every lease again.                *)
ExecuteBatch(kind) ==
    LET group == {w \in todo : op[w] = kind}
        valid == {w \in group : Leased(w)}
    IN  /\ request = NoRequest
        /\ group # {}
        /\ todo' = Remaining(group)
        /\ answer' = Fail(group \ valid)
        /\ request' = IF valid = {} THEN NoRequest
                      ELSE [phase |-> "valid", kind |-> kind, ops |-> valid]
        /\ UNCHANGED <<cloudVars, hostVars, pc, task, op, probing, pending,
                       envVars>>

(* kind = "capture": list the target folder, and check that every source   *)
(* is still the file the plan was frozen for.                              *)
CaptureTarget ==
    /\ request.phase = "valid"
    /\ request.kind = "capture"
    /\ answer' = [w \in Threads |->
          IF w \notin request.ops THEN answer[w]
          ELSE IF dir[task[w]] = "src" THEN Captured(InTarget) ELSE Failed]
    /\ request' = NoRequest
    /\ UNCHANGED <<cloudVars, hostVars, pc, task, op, probing, pending, todo,
                   envVars>>

(* fs_move, fs_copy or fs_rename of the whole group: the cloud applies it  *)
(* to the operations `applied', and its reply decides nothing.             *)
SendRequest(applied) ==
    LET at == {task[w] : w \in applied} IN
    /\ request.phase = "valid"
    /\ request.kind # "capture"
    /\ applied \subseteq request.ops
    /\ CASE request.kind = "move" ->
              /\ dir' = [f \in Files |-> IF f \in at /\ dir[f] = "src"
                                         THEN "dst" ELSE dir[f]]
              /\ UNCHANGED <<name, made>>
         [] request.kind = "copy" ->
              LET new(t) == t \in at /\ dir[t] = "src" /\ made[t] < MaxCopies IN
              /\ dir' = [f \in Files |->
                    IF f \in Copies /\ new(f[1]) /\ f[2] = made[f[1]] + 1
                    THEN "dst" ELSE dir[f]]
              /\ made' = [t \in Tasks |-> IF new(t) THEN made[t] + 1 ELSE made[t]]
              /\ UNCHANGED name
         [] OTHER ->
              /\ name' = [f \in Files |->
                    IF dir[f] = "dst" /\ \E t \in at : ledger[t].file = f
                    THEN TgtName[CHOOSE t \in at : ledger[t].file = f]
                    ELSE name[f]]
              /\ UNCHANGED <<dir, made>>
    /\ request' = [request EXCEPT !.phase = "sent"]
    /\ UNCHANGED <<hostVars, threadVars, pending, todo, envVars>>

(* Faulty variant: the reply to a rename is believed. *)
SeenOrRenamed(t) == request.kind = "rename" \/ Observe(t) = "applied"

Seen(t) == Observe(t) = "applied"

(* List the target folder and answer every file by what is found there.    *)
ConfirmRequest ==
    /\ request.phase = "sent"
    /\ answer' = [w \in Threads |->
          IF w \notin request.ops THEN answer[w]
          ELSE IF Seen(task[w]) THEN Evidence(task[w]) ELSE Failed]
    /\ request' = NoRequest
    /\ UNCHANGED <<cloudVars, hostVars, pc, task, op, probing, pending, todo,
                   envVars>>

(* The listing raises: the coordinator fails the whole group.              *)
ListingFails ==
    /\ \/ request.phase = "sent"
       \/ request.phase = "valid" /\ request.kind = "capture"
    /\ answer' = Fail(request.ops)
    /\ request' = NoRequest
    /\ UNCHANGED <<cloudVars, hostVars, pc, task, op, probing, pending, todo,
                   envVars>>

-----------------------------------------------------------------------------
(* What happens to the process and around it.                              *)

LoseLease(t) ==
    /\ owner[t] # None
    /\ lost < MaxLost
    /\ lost' = lost + 1
    /\ owner' = [owner EXCEPT ![t] = None]
    /\ UNCHANGED <<cloudVars, ledger, threadVars, batchVars, crashes, vanished>>

(* Everything in memory is gone; leases of the dead process run out.       *)
Crash ==
    /\ crashes < MaxCrashes
    /\ crashes' = crashes + 1
    /\ owner' = [t \in Tasks |-> None]
    /\ pc' = [w \in Threads |-> "free"]
    /\ task' = [w \in Threads |-> None]
    /\ op' = [w \in Threads |-> None]
    /\ probing' = [w \in Threads |-> FALSE]
    /\ answer' = [w \in Threads |-> NoAnswer]
    /\ pending' = <<>>
    /\ todo' = {}
    /\ request' = NoRequest
    /\ UNCHANGED <<cloudVars, ledger, lost, vanished>>

SourceVanishes(t) ==
    /\ dir[t] = "src"
    /\ vanished < MaxVanished
    /\ vanished' = vanished + 1
    /\ dir' = [dir EXCEPT ![t] = "gone"]
    /\ UNCHANGED <<name, made, hostVars, threadVars, batchVars, crashes, lost>>

-----------------------------------------------------------------------------
ThreadStep(w) ==
    \/ TakeLocks(w) \/ Abandon(w)
    \/ ExecuteStep(w) \/ SkipRename(w) \/ RecoverCapture(w) \/ RecoverStep(w)
    \/ RecordSuccess(w) \/ ObserveFailure(w)
    \/ Review(w) \/ ObservedApplied(w) \/ ObservedNotApplied(w)

Coordinator ==
    \/ TakeBatch
    \/ \E kind \in Kinds : ExecuteBatch(kind)
    \/ CaptureTarget
    \/ \E applied \in SUBSET request.ops : SendRequest(applied)
    \/ ConfirmRequest
    \/ ListingFails

Next == \/ \E w \in Threads, t \in Tasks : Claim(w, t)
        \/ \E w \in Threads : ThreadStep(w)
        \/ Coordinator
        \/ \E t \in Tasks : LoseLease(t) \/ SourceVanishes(t)
        \/ Crash

Spec == Init /\ [][Next]_vars

(* Threads are scheduled, cloud calls end, and a claimable task is claimed *)
(* as long as a thread is free.                                            *)
FairSpec == /\ Spec
            /\ WF_vars(Coordinator)
            /\ \A w \in Threads : WF_vars(ThreadStep(w))
            /\ \A t \in Tasks : SF_vars(\E w \in Threads : Claim(w, t))

-----------------------------------------------------------------------------
States == {"planned", "retry_wait", "manual_review", "completed"}

TypeOK ==
    /\ dir \in [Files -> {"src", "dst", "gone"}]
    /\ made \in [Tasks -> 0..MaxCopies]
    /\ \A t \in Tasks :
          /\ ledger[t].state \in States
          /\ ledger[t].step \in {"capture", "materialize", "rename"}
          /\ ledger[t].known \subseteq Files
          /\ ledger[t].file \in Files \cup {None}
          /\ ledger[t].step = "rename" <=> ledger[t].file # None
    /\ owner \in [Tasks -> Threads \cup {None}]
    /\ pc \in [Threads -> {"free", "lock", "step", "wait", "observe"}]
    /\ \A w \in Threads : task[w] \in Tasks <=> pc[w] # "free"
    /\ SeqRange(pending) \cup todo \cup request.ops
          \subseteq {w \in Threads : pc[w] = "wait"}

(* A copy is made once, whatever is lost, retried, taken over or crashed.  *)
NoDuplicateCopy == \A t \in Tasks : made[t] <= 1

(* The file a task goes on with is the one that was made for it: its own   *)
(* source for a move, its own new copy for a copy, never a file the folder *)
(* had before nor the copy of another task.                                *)
LandedIsOwn ==
    \A t \in Tasks : ledger[t].file # None =>
        IF Mode[t] = "move" THEN ledger[t].file = t
                            ELSE ledger[t].file \in {t} \X (1..MaxCopies)

(* A task the host reports as completed is in the target folder under its  *)
(* planned name.                                                           *)
CompletedIsInPlace ==
    \A t \in Tasks : ledger[t].state = "completed" =>
        /\ dir[ledger[t].file] = "dst"
        /\ name[ledger[t].file] = TgtName[t]

(* What V3_BATCH_TRANSFER.md says of a copy that succeeded and whose       *)
(* rename failed, "the identity of the landed file is kept": it stays that *)
(* task's, so no two tasks go on with one file.                            *)
LandedFileKept ==
    \A t, u \in Tasks :
        t # u /\ ledger[t].file # None => ledger[t].file # ledger[u].file

(* Every task is completed or handed to a person.                          *)
EveryTaskSettles ==
    \A t \in Tasks : <>(ledger[t].state \in {"completed", "manual_review"})
=============================================================================
