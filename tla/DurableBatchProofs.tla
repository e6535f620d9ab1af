------------------------- MODULE DurableBatchProofs -------------------------
(***************************************************************************)
(* Proofs about DurableBatch, for any tasks, files, threads, batch size    *)
(* and number of faults.                                                   *)
(*                                                                         *)
(* First what holds whatever the files are: who may record a step of a     *)
(* task, and where an unanswered operation can be (Base).  Second what     *)
(* becomes of the files (Outcome).                                         *)
(***************************************************************************)
EXTENDS DurableBatch, TLAPS

Names == {SrcName[f] : f \in Tasks \cup OldFiles} \cup {TgtName[t] : t \in Tasks} \cup {None}

Row == [state: States, step: {"capture", "materialize", "rename"}, begun: BOOLEAN,
        known: SUBSET Files, file: Files \cup {None}, name: Names, retries: Nat]

Reply == [state: {"none", "ok", "error"}, known: SUBSET Files,
          file: Files \cup {None}, name: Names]

CloudTyped ==
    /\ dir \in [Files -> {"src", "dst", "gone"}]
    /\ name \in [Files -> Names]
    /\ made \in [Tasks -> 0..MaxCopies]

HostTyped ==
    /\ ledger \in [Tasks -> Row]
    /\ owner \in [Tasks -> Threads \cup {None}]

ThreadsTyped ==
    /\ pc \in [Threads -> {"free", "lock", "step", "wait", "observe"}]
    /\ task \in [Threads -> Tasks \cup {None}]
    /\ op \in [Threads -> Kinds \cup {None}]
    /\ answer \in [Threads -> Reply]

BatchTyped ==
    /\ pending \in Seq(Threads) /\ todo \subseteq Threads
    /\ request \in [phase: {"none", "valid", "sent"}, kind: Kinds, ops: SUBSET Threads]

Open(t) == ledger[t].state \in {"planned", "retry_wait"}
KindOf(t) == IF ledger[t].step = "materialize" THEN Mode[t] ELSE ledger[t].step
Queued == SeqRange(pending) \cup todo \cup request.ops

RowSound(r) == r.step = "rename" <=> r.file # None
RowsSound == \A t \in Tasks : RowSound(ledger[t])

(* A lease is that of a thread at work, on a task that is not settled.     *)
Leases ==
    \A t \in Tasks, w \in Threads :
        owner[t] = w => pc[w] # "free" /\ task[w] = t /\ Open(t)

(* The path locks hold apart the threads that may work on one task.        *)
Exclusive ==
    \A v, w \in Threads :
        v # w /\ HoldsLocks(v) /\ HoldsLocks(w) => task[v] # task[w]

(* A thread with an operation under way finds the ledger as it left it,    *)
(* lease or no lease.                                                      *)
WorkingOf(w) ==
    /\ pc[w] # "free" <=> task[w] \in Tasks
    /\ pc[w] = "wait" =>
          /\ ledger[task[w]].begun /\ Open(task[w]) /\ op[w] = KindOf(task[w])
          /\ answer[w].state = "ok" /\ ledger[task[w]].step = "materialize"
                => answer[w].file # None
    /\ pc[w] = "observe" =>
          ledger[task[w]].begun /\ Open(task[w]) /\ ledger[task[w]].step # "capture"

(* An operation not answered is in one place: the pending list, the rest   *)
(* of the taken batch, or the request under way.                           *)
QueueSound ==
    /\ \A w \in Queued : pc[w] = "wait" /\ answer[w] = NoAnswer
    /\ \A i, j \in 1..Len(pending) : i # j => pending[i] # pending[j]
    /\ SeqRange(pending) \cap (todo \cup request.ops) = {}
    /\ todo \cap request.ops = {}
    /\ \A w \in request.ops : op[w] = request.kind

(* The inductive invariant.                                                *)
Base ==
    /\ CloudTyped /\ HostTyped /\ ThreadsTyped /\ BatchTyped
    /\ RowsSound /\ Leases /\ Exclusive /\ QueueSound
    /\ \A w \in Threads : WorkingOf(w)
-----------------------------------------------------------------------------
(* Sequences and values.                                                   *)
LEMMA AppendFacts ==
  ASSUME NEW S, NEW s \in Seq(S), NEW x \in S
  PROVE  /\ Append(s, x) \in Seq(S)
         /\ SeqRange(Append(s, x)) = SeqRange(s) \cup {x}
         /\ (\A i, j \in 1..Len(s) : i # j => s[i] # s[j]) /\ x \notin SeqRange(s)
              => \A i, j \in 1..Len(Append(s, x)) :
                    i # j => Append(s, x)[i] # Append(s, x)[j]
  <1> DEFINE a == Append(s, x)
  <1>1. /\ a \in Seq(S) /\ Len(a) = Len(s) + 1 /\ a[Len(s) + 1] = x
        /\ \A i \in 1..Len(s) : a[i] = s[i]
    OBVIOUS
  <1>2. Len(s) \in Nat
    OBVIOUS
  <1> HIDE DEF a
  <1>3. SeqRange(a) = SeqRange(s) \cup {x}
    <2>1. SeqRange(a) \subseteq SeqRange(s) \cup {x}
      BY <1>1, <1>2 DEF SeqRange
    <2>2. x \in SeqRange(a)
      BY <1>1, <1>2 DEF SeqRange
    <2>3. SeqRange(s) \subseteq SeqRange(a)
      <3>1. ASSUME NEW i \in 1..Len(s) PROVE s[i] \in SeqRange(a)
        BY <1>1, <1>2 DEF SeqRange
      <3> QED
        BY <3>1 DEF SeqRange
    <2> QED
      BY <2>1, <2>2, <2>3
  <1>4. ASSUME \A i, j \in 1..Len(s) : i # j => s[i] # s[j], x \notin SeqRange(s),
               NEW i \in 1..Len(a), NEW j \in 1..Len(a), i # j
        PROVE  a[i] # a[j]
    <2>1. \A k \in 1..Len(s) : s[k] # x
      BY <1>4 DEF SeqRange
    <2> QED
      BY <1>1, <1>2, <1>4, <2>1
  <1> QED
    BY <1>1, <1>3, <1>4 DEF a

LEMMA SplitFacts ==
  ASSUME NEW S, NEW s \in Seq(S), NEW n \in 0..Len(s),
         \A i, j \in 1..Len(s) : i # j => s[i] # s[j]
  PROVE  LET a == SubSeq(s, 1, n)
             b == SubSeq(s, n + 1, Len(s))
         IN  /\ b \in Seq(S) /\ SeqRange(a) \subseteq S
             /\ SeqRange(a) \subseteq SeqRange(s) /\ SeqRange(b) \subseteq SeqRange(s)
             /\ SeqRange(a) \cap SeqRange(b) = {}
             /\ \A i, j \in 1..Len(b) : i # j => b[i] # b[j]
  <1> DEFINE a == SubSeq(s, 1, n)
             b == SubSeq(s, n + 1, Len(s))
  <1>1. Len(s) \in Nat /\ n \in Nat /\ n <= Len(s)
    OBVIOUS
  <1>2. a \in Seq(S) /\ Len(a) = n /\ \A i \in 1..n : a[i] = s[i]
    BY <1>1
  <1>3. b \in Seq(S) /\ Len(b) = Len(s) - n /\ \A i \in 1..(Len(s) - n) : b[i] = s[n + i]
    BY <1>1
  <1> HIDE DEF a, b
  <1>4. SeqRange(a) \subseteq SeqRange(s) /\ SeqRange(a) \subseteq S
    BY <1>1, <1>2 DEF SeqRange
  <1>5. ASSUME NEW i \in 1..Len(b) PROVE n + i \in 1..Len(s) /\ b[i] = s[n + i]
    BY <1>1, <1>3
  <1>6. SeqRange(b) \subseteq SeqRange(s)
    BY <1>5 DEF SeqRange
  <1>7. SeqRange(a) \cap SeqRange(b) = {}
    <2>1. ASSUME NEW i \in 1..n, NEW j \in 1..Len(b) PROVE a[i] # b[j]
      <3>1. i \in 1..Len(s) /\ n + j \in 1..Len(s) /\ i # n + j
        BY <1>1, <1>3
      <3> QED
        BY <1>2, <1>5, <3>1
    <2> QED
      BY <1>2, <2>1 DEF SeqRange
  <1>8. ASSUME NEW i \in 1..Len(b), NEW j \in 1..Len(b), i # j PROVE b[i] # b[j]
    <2>1. n + i # n + j
      BY <1>1, <1>3, <1>8
    <2> QED
      BY <1>5, <2>1
  <1> QED
    BY <1>3, <1>4, <1>6, <1>7, <1>8 DEF a, b

LEMMA ConstantFacts ==
    /\ None \notin Tasks /\ None \notin Threads /\ None \notin Files
    /\ None \in Names /\ Tasks \subseteq Files /\ OldFiles \subseteq Files
    /\ Copies \subseteq Files /\ MaxCopies \in Nat /\ MaxRetries \in Nat
    /\ \A f \in Files : SrcName[Origin(f)] \in Names
    /\ \A t \in Tasks : TgtName[t] \in Names /\ Mode[t] \in {"move", "copy"}
  <1>1. \A f \in Files : Origin(f) \in Tasks \cup OldFiles
    BY ConstantsAssumption DEF Files, Copies, Origin
  <1> QED
    BY <1>1, ConstantsAssumption DEF Files, Copies, Names

LEMMA ReplyFacts ==
    /\ NoAnswer \in Reply /\ Failed \in Reply
    /\ NoAnswer.state = "none" /\ Failed.state = "error"
    /\ Failed # NoAnswer
    /\ \A k \in SUBSET Files : /\ Captured(k) \in Reply
                               /\ Captured(k).state = "ok" /\ Captured(k).known = k
    /\ \A f \in Files : name[f] \in Names =>
          /\ Confirmed(f) \in Reply
          /\ Confirmed(f).state = "ok" /\ Confirmed(f).file = f
          /\ Confirmed(f).name = name[f]
  BY ConstantFacts DEF NoAnswer, Failed, Captured, Confirmed, Reply

LEMMA InitBase == Init => Base
  <1> SUFFICES ASSUME Init PROVE Base
    OBVIOUS
  <1>1. CloudTyped
    BY ConstantFacts DEF Init, CloudTyped
  <1>2. HostTyped
    <2>1. \A t \in Tasks : ledger[t] \in Row
      BY ConstantFacts DEF Init, Row, States
    <2> QED
      BY <2>1, ConstantFacts DEF Init, HostTyped
  <1>3. ThreadsTyped
    BY ReplyFacts DEF Init, ThreadsTyped
  <1>4. BatchTyped
    BY DEF Init, BatchTyped, NoRequest, Kinds
  <1>5. RowsSound /\ Leases /\ Exclusive
    BY ConstantFacts DEF Init, RowsSound, RowSound, Leases, Exclusive, HoldsLocks
  <1>6. QueueSound
    BY DEF Init, QueueSound, Queued, SeqRange, NoRequest
  <1>7. \A w \in Threads : WorkingOf(w)
    BY ConstantFacts DEF Init, WorkingOf
  <1> QED
    BY <1>1, <1>2, <1>3, <1>4, <1>5, <1>6, <1>7 DEF Base
-----------------------------------------------------------------------------
(* What the steps of a thread have in common.                              *)
LEMMA BaseFacts ==
  ASSUME Base, NEW w \in Threads
  PROVE  /\ HoldsLocks(w) => task[w] \in Tasks /\ ledger[task[w]] \in Row
         /\ pc[w] # "wait" \/ answer[w] # NoAnswer => w \notin Queued
         /\ \A t \in Tasks : owner[t] = w => task[w] = t /\ Open(t)
  BY DEF Base, WorkingOf, HoldsLocks, QueueSound, Leases, HostTyped

(* Only thread w moves, and only its own task's row changes.               *)
Alone(w) ==
    /\ \A v \in Threads \ {w} : /\ pc'[v] = pc[v] /\ task'[v] = task[v]
                                /\ op'[v] = op[v] /\ answer'[v] = answer[v]
    /\ \A t \in Tasks : ledger'[t] # ledger[t] => HoldsLocks(w) /\ task[w] = t

LEMMA OthersWork ==
  ASSUME Base, NEW w \in Threads, Alone(w), NEW v \in Threads \ {w}
  PROVE  WorkingOf(v)'
  <1>1. WorkingOf(v) /\ pc'[v] = pc[v] /\ task'[v] = task[v] /\ op'[v] = op[v]
        /\ answer'[v] = answer[v]
    BY DEF Base, Alone
  <1>2. ASSUME HoldsLocks(v)
        PROVE  task[v] \in Tasks /\ ledger'[task[v]] = ledger[task[v]]
    <2>1. task[v] \in Tasks
      BY <1>2, BaseFacts
    <2>2. HoldsLocks(w) => task[w] # task[v]
      BY <1>2 DEF Base, Exclusive
    <2> QED
      BY <2>1, <2>2 DEF Alone
  <1>3. pc[v] \in {"wait", "observe"} => HoldsLocks(v)
    BY DEF HoldsLocks
  <1> QED
    BY <1>1, <1>2, <1>3 DEF WorkingOf, Open, KindOf

(* The queue when w has nothing in it before and after.                    *)
LEMMA QueueAlone ==
  ASSUME Base, NEW w \in Threads, Alone(w), w \notin Queued, UNCHANGED batchVars
  PROVE  QueueSound'
  <1>1. Queued' = Queued /\ Queued \subseteq Threads
    BY DEF batchVars, Queued, Base, BatchTyped, SeqRange
  <1>2. \A v \in Queued : pc'[v] = pc[v] /\ answer'[v] = answer[v] /\ op'[v] = op[v]
    BY <1>1 DEF Alone
  <1>3. request.ops \subseteq Queued
    BY DEF Queued
  <1> QED
    BY <1>1, <1>2, <1>3 DEF Base, QueueSound, batchVars

LEMMA RowsKept ==
  ASSUME Base, NEW t \in Tasks, NEW r \in Row, RowSound(r),
         ledger' = [ledger EXCEPT ![t] = r], owner' \in [Tasks -> Threads \cup {None}]
  PROVE  HostTyped' /\ RowsSound' /\ ledger'[t] = r
         /\ \A u \in Tasks \ {t} : ledger'[u] = ledger[u]
  BY DEF Base, HostTyped, RowsSound

(* A thread back in the pool: its task's row written or not.               *)
LEMMA ReleaseBase ==
  ASSUME Base, NEW w \in Threads, HoldsLocks(w), Released(w),
         pc[w] = "wait" => answer[w] # NoAnswer,
         UNCHANGED <<cloudVars, batchVars>>,
         \/ UNCHANGED hostVars /\ owner[task[w]] # w
         \/ /\ owner[task[w]] = w /\ owner' = [owner EXCEPT ![task[w]] = None]
            /\ \E r \in Row : RowSound(r) /\ ledger' = [ledger EXCEPT ![task[w]] = r]
  PROVE  Base'
  <1> DEFINE t == task[w]
  <1>1. t \in Tasks /\ w \notin Queued /\ \A u \in Tasks : owner[u] = w => t = u
    BY BaseFacts
  <1>2. Alone(w)
    <2>1. \A v \in Threads \ {w} : /\ pc'[v] = pc[v] /\ task'[v] = task[v]
                                  /\ op'[v] = op[v] /\ answer'[v] = answer[v]
      BY DEF Released, Base, ThreadsTyped
    <2>2. ASSUME NEW u \in Tasks, u # t PROVE ledger'[u] = ledger[u]
      BY <2>2 DEF hostVars, Base, HostTyped
    <2> QED
      BY <2>1, <2>2 DEF Alone
  <1>3. HostTyped' /\ RowsSound'
    <2>1. CASE UNCHANGED hostVars
      BY <2>1 DEF Base, HostTyped, RowsSound, hostVars
    <2>2. CASE /\ owner' = [owner EXCEPT ![task[w]] = None]
               /\ \E r \in Row : RowSound(r) /\ ledger' = [ledger EXCEPT ![task[w]] = r]
      <3>1. owner' \in [Tasks -> Threads \cup {None}]
        BY <2>2 DEF Base, HostTyped
      <3>2. PICK r \in Row : RowSound(r) /\ ledger' = [ledger EXCEPT ![t] = r]
        BY <2>2
      <3> QED
        BY <1>1, <3>1, <3>2, RowsKept
    <2> QED
      BY <2>1, <2>2
  <1>4. pc'[w] = "free" /\ task'[w] = None /\ ThreadsTyped'
    BY ReplyFacts DEF Released, Base, ThreadsTyped
  <1>5. Leases'
    <2>1. ASSUME NEW u \in Tasks, NEW v \in Threads, owner'[u] = v
          PROVE  v # w /\ owner[u] = v /\ ledger'[u] = ledger[u]
      <3>1. CASE UNCHANGED hostVars /\ owner[t] # w
        BY <1>1, <2>1, <3>1 DEF hostVars
      <3>2. CASE owner[t] = w /\ owner' = [owner EXCEPT ![t] = None]
        <4>1. u # t
          BY <1>1, <2>1, <3>2, ConstantFacts DEF Base, HostTyped
        <4> QED
          BY <1>1, <1>2, <2>1, <3>2, <4>1 DEF Alone, Base, HostTyped
      <3> QED
        BY <3>1, <3>2
    <2> QED
      BY <1>2, <2>1 DEF Base, Leases, Open, Alone
  <1>6. Exclusive'
    BY <1>2, <1>4 DEF Base, Exclusive, HoldsLocks, Alone
  <1>7. QueueSound'
    BY <1>1, <1>2, QueueAlone
  <1>8. WorkingOf(w)'
    BY <1>4, ConstantFacts DEF WorkingOf
  <1>9. CloudTyped' /\ BatchTyped'
    BY DEF Base, CloudTyped, BatchTyped, cloudVars, batchVars
  <1> QED
    BY <1>2, <1>3, <1>4, <1>5, <1>6, <1>7, <1>8, <1>9, OthersWork DEF Base

(* A thread that goes on with its task under its lease.                    *)
LEMMA GoOnBase ==
  ASSUME Base, NEW w \in Threads, HoldsLocks(w), owner[task[w]] = w,
         NEW stage \in {"step", "wait", "observe"}, pc' = [pc EXCEPT ![w] = stage],
         answer' \in {answer, [answer EXCEPT ![w] = NoAnswer]},
         op' \in [Threads -> Kinds \cup {None}],
         \A v \in Threads \ {w} : op'[v] = op[v],
         UNCHANGED <<cloudVars, owner, task>>,
         NEW r \in Row, ledger' = [ledger EXCEPT ![task[w]] = r],
         r.state = ledger[task[w]].state, RowSound(r),
         WorkingOf(w)', BatchTyped', QueueSound'
  PROVE  Base'
  <1> DEFINE t == task[w]
  <1>1. t \in Tasks
    BY BaseFacts
  <1>2. HostTyped' /\ RowsSound' /\ ledger'[t] = r
        /\ \A u \in Tasks \ {t} : ledger'[u] = ledger[u]
    BY <1>1, RowsKept DEF Base, HostTyped
  <1>3. Alone(w)
    BY <1>1, <1>2 DEF Alone, Base, ThreadsTyped
  <1>4. ThreadsTyped' /\ pc'[w] = stage
    BY ReplyFacts DEF Base, ThreadsTyped
  <1>5. Leases'
    BY <1>1, <1>2, <1>3, <1>4 DEF Base, Leases, Open, Alone
  <1>6. Exclusive'
    BY <1>3, <1>4 DEF Base, Exclusive, HoldsLocks, Alone
  <1>7. CloudTyped'
    BY DEF Base, CloudTyped, cloudVars
  <1> QED
    BY <1>2, <1>3, <1>4, <1>5, <1>6, <1>7, OthersWork DEF Base

(* ... submitting an operation of the step it is in,                       *)
LEMMA SubmitBase ==
  ASSUME Base, NEW w \in Threads, HoldsLocks(w), owner[task[w]] = w,
         pc[w] = "wait" => answer[w] # NoAnswer,
         Submitted(w, KindOf(task[w])),
         UNCHANGED <<cloudVars, owner, task, todo, request>>,
         ledger' = [ledger EXCEPT ![task[w]].begun = TRUE]
  PROVE  Base'
  <1> DEFINE t == task[w]
             r == [ledger[t] EXCEPT !.begun = TRUE]
  <1>1. t \in Tasks /\ ledger[t] \in Row /\ w \notin Queued /\ Open(t)
    BY BaseFacts
  <1>2. ledger' = [ledger EXCEPT ![t] = r]
    OBVIOUS
  <1>3. /\ r \in Row /\ r.state = ledger[t].state /\ r.step = ledger[t].step
        /\ r.file = ledger[t].file /\ r.begun = TRUE
    BY <1>1 DEF Row
  <1> HIDE DEF r
  <1>4. RowSound(r)
    BY <1>1, <1>3 DEF Base, RowsSound, RowSound
  <1>5. /\ pc' = [pc EXCEPT ![w] = "wait"] /\ answer' = [answer EXCEPT ![w] = NoAnswer]
        /\ op' = [op EXCEPT ![w] = KindOf(t)] /\ pending' = Append(pending, w)
    BY DEF Submitted
  <1>6. KindOf(t) \in Kinds
    BY <1>1, ConstantFacts DEF KindOf, Kinds, Row
  <1>7. /\ pc'[w] = "wait" /\ answer'[w] = NoAnswer /\ op'[w] = KindOf(t)
        /\ \A v \in Threads \ {w} : /\ pc'[v] = pc[v] /\ op'[v] = op[v]
                                     /\ answer'[v] = answer[v]
    BY <1>5 DEF Base, ThreadsTyped
  <1>8. ledger'[t] = r
    BY <1>1, <1>2 DEF Base, HostTyped
  <1>9. WorkingOf(w)'
    <2>1. KindOf(t)' = KindOf(t) /\ Open(t)' /\ task'[w] = t
      BY <1>1, <1>3, <1>8 DEF KindOf, Open
    <2> QED
      BY <1>1, <1>3, <1>7, <1>8, <2>1, ReplyFacts DEF WorkingOf
  <1>10. /\ pending \in Seq(Threads) /\ pending' \in Seq(Threads)
         /\ SeqRange(pending') = SeqRange(pending) \cup {w}
         /\ \A i, j \in 1..Len(pending') : i # j => pending'[i] # pending'[j]
    <2>1. pending \in Seq(Threads) /\ w \notin SeqRange(pending)
      BY <1>1 DEF Base, BatchTyped, Queued
    <2>2. \A i, j \in 1..Len(pending) : i # j => pending[i] # pending[j]
      BY DEF Base, QueueSound
    <2> QED
      BY <1>5, <2>1, <2>2, AppendFacts
  <1>11. BatchTyped'
    BY <1>10 DEF Base, BatchTyped
  <1>12. QueueSound'
    <2>1. /\ SeqRange(pending)' = SeqRange(pending) \cup {w} /\ Queued' = Queued \cup {w}
          /\ Queued \subseteq Threads
      <3>1. SeqRange(pending)' = SeqRange(pending')
        BY DEF SeqRange
      <3>2. SeqRange(pending) \subseteq Threads
        BY <1>10 DEF SeqRange
      <3> QED
        BY <1>10, <3>1, <3>2 DEF Queued, Base, BatchTyped
    <2>2. \A v \in Queued' : pc'[v] = "wait" /\ answer'[v] = NoAnswer
      BY <1>7, <2>1 DEF Base, QueueSound
    <2>3. w \notin todo \cup request.ops
      BY <1>1 DEF Queued
    <2>4. \A v \in request.ops : v \in Threads \ {w} /\ op[v] = request.kind
      BY <2>1, <2>3 DEF Base, QueueSound, Queued
    <2> QED
      BY <1>7, <1>10, <2>1, <2>2, <2>3, <2>4 DEF Base, QueueSound
  <1>13. op' \in [Threads -> Kinds \cup {None}]
    BY <1>5, <1>6 DEF Base, ThreadsTyped
  <1> QED
    BY <1>2, <1>3, <1>4, <1>5, <1>7, <1>9, <1>11, <1>12, <1>13, GoOnBase

(* ... or going to another stage, with its step recorded or not.           *)
LEMMA TurnBase ==
  ASSUME Base, NEW w \in Threads, HoldsLocks(w), owner[task[w]] = w,
         pc[w] = "wait" => answer[w] # NoAnswer,
         NEW stage \in {"step", "observe"}, pc' = [pc EXCEPT ![w] = stage],
         answer' \in {answer, [answer EXCEPT ![w] = NoAnswer]},
         UNCHANGED <<cloudVars, owner, task, op, batchVars>>,
         NEW r \in Row, ledger' = [ledger EXCEPT ![task[w]] = r],
         r.state = ledger[task[w]].state, RowSound(r),
         stage = "observe" => r.begun /\ r.step # "capture"
  PROVE  Base'
  <1> DEFINE t == task[w]
  <1>1. t \in Tasks /\ w \notin Queued /\ Open(t)
    BY BaseFacts
  <1>2. ledger'[t] = r /\ \A u \in Tasks \ {t} : ledger'[u] = ledger[u]
    BY <1>1 DEF Base, HostTyped
  <1>3. Alone(w)
    BY <1>1, <1>2 DEF Alone, Base, ThreadsTyped
  <1>4. pc'[w] = stage /\ task'[w] = t
    BY DEF Base, ThreadsTyped
  <1>5. WorkingOf(w)'
    BY <1>1, <1>2, <1>4 DEF WorkingOf, Open
  <1>6. QueueSound'
    BY <1>1, <1>3, QueueAlone
  <1>7. BatchTyped' /\ op' \in [Threads -> Kinds \cup {None}]
    BY DEF Base, BatchTyped, ThreadsTyped, batchVars
  <1> QED
    BY <1>5, <1>6, <1>7, GoOnBase
-----------------------------------------------------------------------------
(* The steps of a thread.                                                  *)
CapturedRow(row, e) == [row EXCEPT !.step = "materialize", !.begun = FALSE, !.known = e.known]
LandedRow(row, e) == [row EXCEPT !.step = "rename", !.begun = FALSE, !.file = e.file,
                                 !.name = e.name]
SettledRow(row, state) == [row EXCEPT !.state = state]

LEMMA RowFacts ==
  ASSUME NEW row \in Row, NEW e \in Reply, NEW state \in States
  PROVE  /\ CapturedRow(row, e) \in Row /\ LandedRow(row, e) \in Row
         /\ SettledRow(row, state) \in Row
         /\ CapturedRow(row, e).state = row.state /\ CapturedRow(row, e).file = row.file
         /\ CapturedRow(row, e).step = "materialize" /\ ~CapturedRow(row, e).begun
         /\ CapturedRow(row, e).known = e.known
         /\ LandedRow(row, e).state = row.state /\ LandedRow(row, e).step = "rename"
         /\ LandedRow(row, e).file = e.file /\ LandedRow(row, e).name = e.name
         /\ LandedRow(row, e).known = row.known /\ ~LandedRow(row, e).begun
         /\ SettledRow(row, state).state = state /\ SettledRow(row, state).step = row.step
         /\ SettledRow(row, state).file = row.file /\ SettledRow(row, state).name = row.name
         /\ SettledRow(row, state).known = row.known /\ SettledRow(row, state).begun = row.begun
  BY DEF CapturedRow, LandedRow, SettledRow, Row, Reply

(* The three ways to record a success.                                     *)
LEMMA SucceedForm ==
  ASSUME Base, NEW w \in Threads, HoldsLocks(w), NEW e, Succeed(w, e)
  PROVE  \/ /\ ledger[task[w]].step = "capture"
            /\ ledger' = [ledger EXCEPT ![task[w]] = CapturedRow(ledger[task[w]], e)]
            /\ pc' = [pc EXCEPT ![w] = "step"] /\ answer' = [answer EXCEPT ![w] = NoAnswer]
            /\ UNCHANGED <<owner, task, op>>
         \/ /\ ledger[task[w]].step = "materialize"
            /\ ledger' = [ledger EXCEPT ![task[w]] = LandedRow(ledger[task[w]], e)]
            /\ pc' = [pc EXCEPT ![w] = "step"] /\ answer' = [answer EXCEPT ![w] = NoAnswer]
            /\ UNCHANGED <<owner, task, op>>
         \/ /\ ledger[task[w]].step = "rename"
            /\ ledger' = [ledger EXCEPT ![task[w]] = SettledRow(ledger[task[w]], "completed")]
            /\ owner' = [owner EXCEPT ![task[w]] = None]
            /\ Released(w)
  <1>1. task[w] \in Tasks /\ ledger[task[w]].step \in {"capture", "materialize", "rename"}
    BY BaseFacts DEF Row
  <1>2. CASE ledger[task[w]].step = "capture"
    BY <1>2 DEF Succeed, CapturedRow
  <1>3. CASE ledger[task[w]].step = "materialize"
    BY <1>3 DEF Succeed, LandedRow
  <1>4. CASE ledger[task[w]].step = "rename"
    BY <1>4 DEF Succeed, SettledRow
  <1> QED
    BY <1>1, <1>2, <1>3, <1>4

LEMMA SucceedBase ==
  ASSUME Base, NEW w \in Threads, HoldsLocks(w), owner[task[w]] = w,
         pc[w] = "wait" => answer[w] # NoAnswer,
         NEW e \in Reply, Succeed(w, e),
         ledger[task[w]].step = "materialize" => e.file # None,
         UNCHANGED <<cloudVars, batchVars>>
  PROVE  Base'
  <1> DEFINE t == task[w]
  <1>1. /\ t \in Tasks /\ ledger[t] \in Row /\ RowSound(ledger[t])
        /\ "completed" \in States
    BY BaseFacts DEF Base, RowsSound, States
  <1>2. ASSUME NEW r \in Row, ledger' = [ledger EXCEPT ![t] = r], RowSound(r),
               r.state = ledger[t].state, pc' = [pc EXCEPT ![w] = "step"],
               answer' = [answer EXCEPT ![w] = NoAnswer], UNCHANGED <<owner, task, op>>
        PROVE  Base'
    BY <1>2, TurnBase
  <1>3. CASE /\ ledger[task[w]].step = "capture"
             /\ ledger' = [ledger EXCEPT ![task[w]] = CapturedRow(ledger[task[w]], e)]
             /\ pc' = [pc EXCEPT ![w] = "step"] /\ answer' = [answer EXCEPT ![w] = NoAnswer]
             /\ UNCHANGED <<owner, task, op>>
    <2>1. RowSound(CapturedRow(ledger[t], e))
      BY <1>1, <1>3, RowFacts DEF RowSound
    <2> QED
      BY <1>1, <1>2, <1>3, <2>1, RowFacts
  <1>4. CASE /\ ledger[task[w]].step = "materialize"
             /\ ledger' = [ledger EXCEPT ![task[w]] = LandedRow(ledger[task[w]], e)]
             /\ pc' = [pc EXCEPT ![w] = "step"] /\ answer' = [answer EXCEPT ![w] = NoAnswer]
             /\ UNCHANGED <<owner, task, op>>
    <2>1. RowSound(LandedRow(ledger[t], e))
      BY <1>1, <1>4, RowFacts DEF RowSound
    <2> QED
      BY <1>1, <1>2, <1>4, <2>1, RowFacts
  <1>5. CASE /\ ledger[task[w]].step = "rename"
             /\ ledger' = [ledger EXCEPT ![task[w]] = SettledRow(ledger[task[w]], "completed")]
             /\ owner' = [owner EXCEPT ![task[w]] = None]
             /\ Released(w)
    <2>1. SettledRow(ledger[t], "completed") \in Row
          /\ RowSound(SettledRow(ledger[t], "completed"))
      BY <1>1, RowFacts DEF RowSound
    <2> QED
      BY <1>5, <2>1, ReleaseBase
  <1> QED
    BY <1>3, <1>4, <1>5, SucceedForm

(* The evidence of an APPLIED observation.                                 *)
LEMMA EvidenceFacts ==
  ASSUME Base, NEW t \in Tasks, Observe(t) = "applied"
  PROVE  /\ Evidence(t) \in Reply /\ Evidence(t).state = "ok"
         /\ Evidence(t).file \in Files /\ Evidence(t).name = name[Evidence(t).file]
         /\ ledger[t].step # "rename" => Evidence(t).file \in Matches(t)
  <1>1. ledger[t] \in Row /\ RowSound(ledger[t]) /\ \A f \in Files : name[f] \in Names
    BY DEF Base, HostTyped, RowsSound, CloudTyped
  <1>2. CASE ledger[t].step = "rename"
    <2>1. ledger[t].file \in Files /\ Evidence(t) = Confirmed(ledger[t].file)
      BY <1>1, <1>2 DEF RowSound, Row, Evidence
    <2> QED
      BY <1>1, <1>2, <2>1, ReplyFacts
  <1>3. CASE ledger[t].step # "rename"
    <2>1. Matches(t) # {} /\ Matches(t) \subseteq Files
      BY <1>3, ConstantFacts DEF Observe, ObserveMaterialize, Matches, InTarget
    <2>2. PICK f \in Matches(t) : Evidence(t) = Confirmed(f)
      BY <1>3, <2>1 DEF Evidence
    <2> QED
      BY <1>1, <1>3, <2>1, <2>2, ReplyFacts
  <1> QED
    BY <1>2, <1>3

LEMMA ClaimBase ==
  ASSUME Base, NEW w \in Threads, NEW t \in Tasks, Claim(w, t)
  PROVE  Base'
  <1>1. /\ pc[w] = "free" /\ owner[t] = None /\ Open(t)
        /\ owner' = [owner EXCEPT ![t] = w] /\ task' = [task EXCEPT ![w] = t]
        /\ pc' = [pc EXCEPT ![w] = "lock"]
        /\ UNCHANGED <<cloudVars, ledger, op, probing, answer, batchVars, envVars>>
    BY DEF Claim, Open
  <1>2. pc'[w] = "lock" /\ task'[w] = t /\ Alone(w)
    BY <1>1 DEF Alone, Base, ThreadsTyped
  <1>3. w \notin Queued
    BY <1>1, BaseFacts
  <1>4. HostTyped' /\ ThreadsTyped' /\ RowsSound' /\ CloudTyped' /\ BatchTyped'
    BY <1>1 DEF Base, HostTyped, ThreadsTyped, RowsSound, CloudTyped, BatchTyped, cloudVars,
                batchVars
  <1>5. Leases'
    BY <1>1, <1>2 DEF Base, Leases, Open, Alone, HostTyped
  <1>6. Exclusive'
    BY <1>2 DEF Base, Exclusive, HoldsLocks, Alone
  <1>7. QueueSound'
    BY <1>1, <1>2, <1>3, QueueAlone
  <1>8. WorkingOf(w)'
    BY <1>2 DEF WorkingOf
  <1> QED
    BY <1>2, <1>4, <1>5, <1>6, <1>7, <1>8, OthersWork DEF Base

LEMMA TakeLocksBase ==
  ASSUME Base, NEW w \in Threads, TakeLocks(w)
  PROVE  Base'
  <1>1. /\ pc[w] = "lock" /\ LocksFree(w) /\ pc' = [pc EXCEPT ![w] = "step"]
        /\ UNCHANGED <<cloudVars, hostVars, task, op, probing, answer, batchVars, envVars>>
    BY DEF TakeLocks
  <1>2. pc'[w] = "step" /\ Alone(w) /\ w \notin Queued /\ task[w] \in Tasks
    BY <1>1, BaseFacts DEF Alone, Base, ThreadsTyped, WorkingOf, hostVars
  <1>3. HostTyped' /\ ThreadsTyped' /\ RowsSound' /\ CloudTyped' /\ BatchTyped'
    BY <1>1 DEF Base, HostTyped, ThreadsTyped, RowsSound, CloudTyped, BatchTyped, cloudVars,
                batchVars, hostVars
  <1>4. Leases'
    BY <1>1, <1>2 DEF Base, Leases, Open, Alone, hostVars
  <1>5. ASSUME NEW v \in Threads \ {w}, HoldsLocks(v) PROVE task[v] # task[w]
    <2>1. PathKeys(task[v]) \cap PathKeys(task[w]) = {}
      BY <1>1, <1>5 DEF LocksFree
    <2> QED
      BY <2>1 DEF PathKeys
  <1>6. Exclusive'
    BY <1>1, <1>2, <1>5 DEF Base, Exclusive, HoldsLocks, Alone
  <1>7. QueueSound'
    BY <1>1, <1>2, QueueAlone
  <1>8. WorkingOf(w)'
    BY <1>1, <1>2 DEF WorkingOf
  <1> QED
    BY <1>2, <1>3, <1>4, <1>6, <1>7, <1>8, OthersWork DEF Base

(* A row with nothing changed.                                             *)
LEMMA SameRow ==
  ASSUME Base, NEW w \in Threads, HoldsLocks(w), UNCHANGED ledger
  PROVE  /\ ledger' = [ledger EXCEPT ![task[w]] = ledger[task[w]]]
         /\ ledger[task[w]] \in Row /\ RowSound(ledger[task[w]])
         /\ ledger[task[w]].begun
              => ledger' = [ledger EXCEPT ![task[w]].begun = TRUE]
  <1>1. task[w] \in Tasks /\ ledger[task[w]] \in Row
    BY BaseFacts
  <1>2. ledger[task[w]].begun
          => ledger[task[w]] = [ledger[task[w]] EXCEPT !.begun = TRUE]
    BY <1>1 DEF Row
  <1> QED
    BY <1>1, <1>2 DEF Base, HostTyped, RowsSound

LEMMA ExecuteBase ==
  ASSUME Base, NEW w \in Threads, ExecuteStep(w) \/ RecoverCapture(w)
  PROVE  Base'
  <1>1. pc[w] = "step" /\ HoldsLocks(w) /\ owner[task[w]] = w
        /\ UNCHANGED <<cloudVars, owner, task, todo, request>>
    BY DEF ExecuteStep, RecoverCapture, HoldsLocks, hostVars
  <1>2. Submitted(w, KindOf(task[w]))
    BY DEF ExecuteStep, RecoverCapture, KindOf
  <1>3. ledger' = [ledger EXCEPT ![task[w]].begun = TRUE]
    <2>1. CASE ExecuteStep(w)
      BY <2>1 DEF ExecuteStep
    <2>2. CASE RecoverCapture(w)
      BY <1>1, <2>2, SameRow DEF RecoverCapture, hostVars
    <2> QED
      BY <2>1, <2>2
  <1> QED
    BY <1>1, <1>2, <1>3, SubmitBase

LEMMA ToObserveBase ==
  ASSUME Base, NEW w \in Threads, HoldsLocks(w), owner[task[w]] = w,
         pc[w] = "wait" => answer[w] # NoAnswer,
         ledger[task[w]].begun, ledger[task[w]].step # "capture",
         pc' = [pc EXCEPT ![w] = "observe"],
         answer' \in {answer, [answer EXCEPT ![w] = NoAnswer]},
         UNCHANGED <<cloudVars, hostVars, task, op, batchVars>>
  PROVE  Base'
  <1>1. UNCHANGED <<ledger, owner>>
    BY DEF hostVars
  <1> QED
    BY <1>1, SameRow, TurnBase

LEMMA ObserveFailureBase ==
  ASSUME Base, NEW w \in Threads, ObserveFailure(w)
  PROVE  Base'
  <1>1. /\ pc[w] = "wait" /\ answer[w].state = "error" /\ owner[task[w]] = w /\ HoldsLocks(w)
        /\ UNCHANGED <<cloudVars, hostVars, task, todo, request>>
    BY DEF ObserveFailure, HoldsLocks
  <1>2. answer[w] # NoAnswer /\ task[w] \in Tasks
    BY <1>1, ReplyFacts, BaseFacts
  <1>3. ledger[task[w]].begun /\ op[w] = KindOf(task[w])
    BY <1>1 DEF Base, WorkingOf
  <1>4. op[w] = "capture" <=> ledger[task[w]].step = "capture"
    BY <1>2, <1>3, ConstantFacts DEF KindOf
  <1>5. CASE op[w] = "capture"
    <2>1. Submitted(w, KindOf(task[w]))
      BY <1>3, <1>5 DEF ObserveFailure
    <2>2. ledger' = [ledger EXCEPT ![task[w]].begun = TRUE]
      BY <1>1, <1>3, SameRow DEF hostVars
    <2> QED
      BY <1>1, <1>2, <2>1, <2>2, SubmitBase DEF hostVars
  <1>6. CASE op[w] # "capture"
    <2>1. /\ pc' = [pc EXCEPT ![w] = "observe"]
          /\ answer' = [answer EXCEPT ![w] = NoAnswer]
          /\ UNCHANGED <<op, pending>>
      BY <1>6 DEF ObserveFailure
    <2> QED
      BY <1>1, <1>2, <1>3, <1>4, <1>6, <2>1, ToObserveBase DEF batchVars
  <1> QED
    BY <1>5, <1>6
LEMMA RecoverStepBase ==
  ASSUME Base, NEW w \in Threads, RecoverStep(w)
  PROVE  Base'
  <1>1. /\ pc[w] = "step" /\ HoldsLocks(w) /\ owner[task[w]] = w
        /\ ledger[task[w]].begun /\ ledger[task[w]].step # "capture"
        /\ pc' = [pc EXCEPT ![w] = "observe"]
        /\ UNCHANGED <<cloudVars, hostVars, task, op, answer, batchVars>>
    BY DEF RecoverStep, HoldsLocks
  <1> QED
    BY <1>1, ToObserveBase

LEMMA SuccessBase ==
  ASSUME Base, NEW w \in Threads, SkipRename(w) \/ RecordSuccess(w) \/ ObservedApplied(w)
  PROVE  Base'
  <1>1. HoldsLocks(w) /\ owner[task[w]] = w /\ UNCHANGED <<cloudVars, batchVars>>
    BY DEF SkipRename, RecordSuccess, ObservedApplied, HoldsLocks
  <1>2. task[w] \in Tasks
    BY <1>1, BaseFacts
  <1>3. CASE SkipRename(w)
    <2>1. Succeed(w, NoAnswer) /\ pc[w] = "step" /\ ledger[task[w]].step = "rename"
      BY <1>3 DEF SkipRename
    <2> QED
      BY <1>1, <2>1, ReplyFacts, SucceedBase
  <1>4. CASE RecordSuccess(w)
    <2>1. Succeed(w, answer[w]) /\ pc[w] = "wait" /\ answer[w].state = "ok"
      BY <1>4 DEF RecordSuccess
    <2>2. answer[w] \in Reply /\ answer[w] # NoAnswer
      BY <2>1, ReplyFacts DEF Base, ThreadsTyped
    <2>3. ledger[task[w]].step = "materialize" => answer[w].file # None
      BY <2>1 DEF Base, WorkingOf
    <2> QED
      BY <1>1, <2>1, <2>2, <2>3, SucceedBase
  <1>5. CASE ObservedApplied(w)
    <2>1. Succeed(w, Evidence(task[w])) /\ pc[w] = "observe" /\ Observe(task[w]) = "applied"
      BY <1>5 DEF ObservedApplied
    <2>2. Evidence(task[w]) \in Reply /\ Evidence(task[w]).file # None
      BY <1>2, <2>1, EvidenceFacts, ConstantFacts
    <2> QED
      BY <1>1, <2>1, <2>2, SucceedBase
  <1> QED
    BY <1>3, <1>4, <1>5

(* The row of a task not applied, or handed to a person.                   *)
RetryRow(row) ==
    [row EXCEPT !.begun = FALSE,
                !.retries = IF @ < MaxRetries THEN @ + 1 ELSE @,
                !.state = IF row.retries < MaxRetries THEN "retry_wait" ELSE "manual_review"]

LEMMA RetryRowFacts ==
  ASSUME NEW row \in Row
  PROVE  /\ RetryRow(row) \in Row /\ RetryRow(row).step = row.step
         /\ RetryRow(row).file = row.file /\ RetryRow(row).name = row.name
         /\ RetryRow(row).known = row.known /\ ~RetryRow(row).begun
         /\ RetryRow(row).state \in {"retry_wait", "manual_review"}
  <1>1. row.retries \in Nat /\ MaxRetries \in Nat
    BY ConstantFacts DEF Row
  <1>2. (IF row.retries < MaxRetries THEN row.retries + 1 ELSE row.retries) \in Nat
    BY <1>1
  <1>3. (IF row.retries < MaxRetries THEN "retry_wait" ELSE "manual_review") \in States
    BY DEF States
  <1> QED
    BY <1>2, <1>3 DEF RetryRow, Row

LEMMA NotAppliedForm ==
  ASSUME Base, NEW w \in Threads, ObservedNotApplied(w)
  PROVE  /\ HoldsLocks(w) /\ owner[task[w]] = w /\ pc[w] = "observe"
         /\ task[w] \in Tasks /\ ledger[task[w]] \in Row
         /\ Observe(task[w]) = "not_applied"
         /\ ledger' = [ledger EXCEPT ![task[w]] = RetryRow(ledger[task[w]])]
         /\ owner' = [owner EXCEPT ![task[w]] = None]
         /\ Released(w) /\ UNCHANGED <<cloudVars, batchVars>>
  <1>1. HoldsLocks(w) /\ task[w] \in Tasks /\ ledger[task[w]] \in Row
    <2>1. HoldsLocks(w)
      BY DEF ObservedNotApplied, HoldsLocks
    <2> QED
      BY <2>1, BaseFacts
  <1>2. ledger' = [ledger EXCEPT ![task[w]] = RetryRow(ledger[task[w]])]
    BY <1>1 DEF ObservedNotApplied, RetryRow, Base, HostTyped
  <1> QED
    BY <1>1, <1>2 DEF ObservedNotApplied

LEMMA SettleBase ==
  ASSUME Base, NEW w \in Threads, Abandon(w) \/ Review(w) \/ ObservedNotApplied(w)
  PROVE  Base'
  <1>1. CASE Abandon(w)
    BY <1>1, ReleaseBase DEF Abandon
  <1>2. CASE Review(w)
    <2>1. /\ HoldsLocks(w) /\ owner[task[w]] = w /\ Verdict(w, "manual_review")
          /\ pc[w] = "wait" => answer[w] # NoAnswer
          /\ UNCHANGED <<cloudVars, batchVars>>
      BY <1>2, ReplyFacts DEF Review, HoldsLocks
    <2>2. task[w] \in Tasks /\ ledger[task[w]] \in Row /\ RowSound(ledger[task[w]])
      BY <2>1, BaseFacts DEF Base, RowsSound
    <2>3. "manual_review" \in States
      BY DEF States
    <2>4. SettledRow(ledger[task[w]], "manual_review") \in Row
          /\ RowSound(SettledRow(ledger[task[w]], "manual_review"))
      BY <2>2, <2>3, RowFacts, ReplyFacts DEF RowSound
    <2>5. ledger' = [ledger EXCEPT ![task[w]] = SettledRow(ledger[task[w]], "manual_review")]
          /\ owner' = [owner EXCEPT ![task[w]] = None] /\ Released(w)
      BY <2>1 DEF Verdict, SettledRow
    <2> QED
      BY <2>1, <2>4, <2>5, ReleaseBase
  <1>3. CASE ObservedNotApplied(w)
    <2>1. RowSound(RetryRow(ledger[task[w]])) /\ RetryRow(ledger[task[w]]) \in Row
      BY <1>3, NotAppliedForm, RetryRowFacts DEF Base, RowsSound, RowSound
    <2> QED
      BY <1>3, <2>1, NotAppliedForm, ReleaseBase
  <1> QED
    BY <1>1, <1>2, <1>3

LEMMA ThreadBase ==
  ASSUME Base, NEW w \in Threads, ThreadStep(w)
  PROVE  Base'
  BY TakeLocksBase, ExecuteBase, RecoverStepBase, SuccessBase, ObserveFailureBase, SettleBase
  DEF ThreadStep
-----------------------------------------------------------------------------
(* The coordinator and the executor; the surroundings.                     *)
LEMMA AnswerBase ==
  ASSUME Base, UNCHANGED <<hostVars, pc, task, op>>, CloudTyped', BatchTyped', QueueSound',
         answer' \in [Threads -> Reply],
         \A w \in Threads :
            answer'[w].state = "ok" /\ pc[w] = "wait" /\ ledger[task[w]].step = "materialize"
               => answer'[w].file # None
  PROVE  Base'
  <1>1. HostTyped' /\ ThreadsTyped' /\ RowsSound' /\ Leases' /\ Exclusive'
    BY DEF Base, HostTyped, ThreadsTyped, RowsSound, Leases, Exclusive, HoldsLocks, Open, hostVars
  <1>2. \A w \in Threads : WorkingOf(w)'
    BY DEF Base, WorkingOf, Open, KindOf, hostVars
  <1> QED
    BY <1>1, <1>2 DEF Base

LEMMA FailFacts ==
  ASSUME Base, NEW ws
  PROVE  /\ Fail(ws) \in [Threads -> Reply]
         /\ \A w \in Threads : w \notin ws => Fail(ws)[w] = answer[w]
         /\ \A w \in Threads : w \in ws => Fail(ws)[w] = Failed
  BY ReplyFacts DEF Fail, Base, ThreadsTyped

(* An answer kept, or a failure, needs no file.                            *)
LEMMA OldAnswer ==
  ASSUME Base, NEW w \in Threads, NEW r \in {answer[w], Failed},
         r.state = "ok", pc[w] = "wait", ledger[task[w]].step = "materialize"
  PROVE  r.file # None
  BY ReplyFacts DEF Base, WorkingOf

LEMMA TakeBatchForm ==
  ASSUME Base, TakeBatch
  PROVE  \E taken \in SUBSET SeqRange(pending) :
            /\ taken \subseteq Threads
            /\ todo = {} /\ request = NoRequest
            /\ pending' \in Seq(Threads) /\ SeqRange(pending') \subseteq SeqRange(pending)
            /\ taken \cap SeqRange(pending') = {}
            /\ \A i, j \in 1..Len(pending') : i # j => pending'[i] # pending'[j]
            /\ todo' = {w \in taken : Leased(w)}
            /\ answer' = Fail({w \in taken : ~Leased(w)})
  <1> DEFINE n == IF Len(pending) < MaxBatch THEN Len(pending) ELSE MaxBatch
             taken == SeqRange(SubSeq(pending, 1, n))
  <1>1. /\ todo = {} /\ request = NoRequest
        /\ pending' = SubSeq(pending, n + 1, Len(pending))
        /\ todo' = {w \in taken : Leased(w)}
        /\ answer' = Fail({w \in taken : ~Leased(w)})
    BY DEF TakeBatch
  <1>2. pending \in Seq(Threads) /\ n \in 0..Len(pending)
    BY ConstantsAssumption DEF Base, BatchTyped
  <1>3. \A i, j \in 1..Len(pending) : i # j => pending[i] # pending[j]
    BY DEF Base, QueueSound
  <1> HIDE DEF n
  <1>4. /\ pending' \in Seq(Threads) /\ taken \subseteq Threads
        /\ taken \subseteq SeqRange(pending) /\ SeqRange(pending') \subseteq SeqRange(pending)
        /\ taken \cap SeqRange(pending') = {}
        /\ \A i, j \in 1..Len(pending') : i # j => pending'[i] # pending'[j]
    BY <1>1, <1>2, <1>3, SplitFacts
  <1> QED
    BY <1>1, <1>4

LEMMA TakeBatchBase ==
  ASSUME Base, TakeBatch
  PROVE  Base'
  <1>1. PICK taken \in SUBSET SeqRange(pending) :
            /\ taken \subseteq Threads
            /\ todo = {} /\ request = NoRequest
            /\ pending' \in Seq(Threads) /\ SeqRange(pending') \subseteq SeqRange(pending)
            /\ taken \cap SeqRange(pending') = {}
            /\ \A i, j \in 1..Len(pending') : i # j => pending'[i] # pending'[j]
            /\ todo' = {w \in taken : Leased(w)}
            /\ answer' = Fail({w \in taken : ~Leased(w)})
    BY TakeBatchForm
  <1>2. UNCHANGED <<cloudVars, hostVars, pc, task, op, request>>
    BY DEF TakeBatch
  <1>3. CloudTyped' /\ BatchTyped'
    BY <1>1, <1>2 DEF Base, CloudTyped, BatchTyped, cloudVars
  <1>4. request.ops = {} /\ Queued = SeqRange(pending) /\ Queued \subseteq Threads
    BY <1>1 DEF NoRequest, Queued, Base, BatchTyped, SeqRange
  <1>5. SeqRange(pending)' = SeqRange(pending') /\ Queued' = SeqRange(pending') \cup todo'
    BY <1>2, <1>4 DEF Queued, SeqRange
  <1>6. QueueSound'
    <2>1. ASSUME NEW w \in Queued' PROVE pc'[w] = "wait" /\ answer'[w] = NoAnswer
      <3>1. w \in Queued /\ w \in Threads /\ w \notin {v \in taken : ~Leased(v)}
        BY <1>1, <1>4, <1>5, <2>1
      <3> QED
        BY <1>1, <1>2, <3>1, FailFacts DEF Base, QueueSound
    <2>2. SeqRange(pending') \cap (todo' \cup request'.ops) = {} /\ request'.ops = {}
      BY <1>1, <1>2, <1>4
    <2> QED
      BY <1>1, <1>5, <2>1, <2>2 DEF QueueSound
  <1>7. answer' \in [Threads -> Reply] /\ \A w \in Threads : answer'[w] \in {answer[w], Failed}
    BY <1>1, FailFacts
  <1> QED
    BY <1>2, <1>3, <1>6, <1>7, OldAnswer, AnswerBase

LEMMA ExecuteBatchBase ==
  ASSUME Base, NEW kind \in Kinds, ExecuteBatch(kind)
  PROVE  Base'
  <1> DEFINE group == {w \in todo : op[w] = kind}
             valid == {w \in group : Leased(w)}
  <1>1. /\ request = NoRequest /\ todo' = todo \ group /\ answer' = Fail(group \ valid)
        /\ request' = IF valid = {} THEN NoRequest
                      ELSE [phase |-> "valid", kind |-> kind, ops |-> valid]
        /\ UNCHANGED <<cloudVars, hostVars, pc, task, op, pending>>
    BY DEF ExecuteBatch, Remaining
  <1>2. valid \subseteq group /\ group \subseteq todo /\ todo \subseteq Threads
        /\ \A w \in valid : op[w] = kind
    BY DEF Base, BatchTyped
  <1> HIDE DEF group, valid
  <1>3. request'.ops = valid /\ (valid # {} => request'.kind = kind)
        /\ request' \in [phase: {"none", "valid", "sent"}, kind: Kinds, ops: SUBSET Threads]
    BY <1>1, <1>2 DEF NoRequest, Kinds
  <1>4. CloudTyped' /\ BatchTyped'
    BY <1>1, <1>2, <1>3 DEF Base, CloudTyped, BatchTyped, cloudVars
  <1>5. SeqRange(pending)' = SeqRange(pending) /\ SeqRange(pending) \subseteq Threads
    BY <1>1 DEF SeqRange, Base, BatchTyped
  <1>6. Queued' = (SeqRange(pending) \cup todo) \ (group \ valid)
    <2>1. SeqRange(pending) \cap todo = {}
      BY DEF Base, QueueSound
    <2> QED
      BY <1>1, <1>2, <1>3, <1>5, <2>1 DEF Queued
  <1>7. QueueSound'
    <2>1. ASSUME NEW w \in Queued' PROVE pc'[w] = "wait" /\ answer'[w] = NoAnswer
      <3>1. w \in Queued /\ w \in Threads /\ w \notin group \ valid
        BY <1>2, <1>5, <1>6, <2>1 DEF Queued
      <3> QED
        BY <1>1, <3>1, FailFacts DEF Base, QueueSound
    <2>2. SeqRange(pending) \cap (todo' \cup request'.ops) = {} /\ todo' \cap request'.ops = {}
      BY <1>1, <1>2, <1>3 DEF Base, QueueSound
    <2> QED
      BY <1>1, <1>2, <1>3, <1>5, <2>1, <2>2 DEF Base, QueueSound
  <1>8. answer' \in [Threads -> Reply] /\ \A w \in Threads : answer'[w] \in {answer[w], Failed}
    BY <1>1, FailFacts
  <1> QED
    BY <1>1, <1>4, <1>7, <1>8, OldAnswer, AnswerBase

(* The group of a request has been answered.                               *)
LEMMA AnsweredBase ==
  ASSUME Base, request' = NoRequest,
         UNCHANGED <<cloudVars, hostVars, pc, task, op, pending, todo>>,
         answer' \in [Threads -> Reply],
         \A w \in Threads : w \notin request.ops => answer'[w] = answer[w],
         \A w \in request.ops :
            answer'[w].state = "ok" /\ ledger[task[w]].step = "materialize"
               => answer'[w].file # None
  PROVE  Base'
  <1>1. CloudTyped' /\ BatchTyped'
    BY DEF Base, CloudTyped, BatchTyped, cloudVars, NoRequest, Kinds
  <1>2. SeqRange(pending)' = SeqRange(pending) /\ SeqRange(pending) \subseteq Threads
        /\ todo \subseteq Threads /\ request'.ops = {}
    BY DEF SeqRange, Base, BatchTyped, NoRequest
  <1>3. QueueSound'
    <2>1. ASSUME NEW w \in Queued' PROVE pc'[w] = "wait" /\ answer'[w] = NoAnswer
      <3>1. w \in Queued /\ w \in Threads /\ w \notin request.ops
        BY <1>2, <2>1 DEF Queued, Base, QueueSound
      <3> QED
        BY <3>1 DEF Base, QueueSound
    <2> QED
      BY <1>2, <2>1 DEF Base, QueueSound
  <1>4. ASSUME NEW w \in Threads, answer'[w].state = "ok", pc[w] = "wait",
               ledger[task[w]].step = "materialize"
        PROVE  answer'[w].file # None
    BY <1>4, OldAnswer
  <1> QED
    BY <1>1, <1>3, <1>4, AnswerBase

LEMMA RequestFacts ==
  ASSUME Base, NEW w \in request.ops
  PROVE  /\ w \in Threads /\ pc[w] = "wait" /\ HoldsLocks(w) /\ answer[w] = NoAnswer
         /\ task[w] \in Tasks /\ request.kind = KindOf(task[w]) /\ op[w] = request.kind
         /\ ledger[task[w]].begun
  <1>1. w \in Threads /\ w \in Queued /\ op[w] = request.kind
    BY DEF Base, BatchTyped, QueueSound, Queued
  <1>2. pc[w] = "wait" /\ answer[w] = NoAnswer
    BY <1>1 DEF Base, QueueSound
  <1> QED
    BY <1>1, <1>2 DEF Base, WorkingOf, HoldsLocks

LEMMA CaptureBase ==
  ASSUME Base, CaptureTarget
  PROVE  Base'
  <1>1. /\ request.kind = "capture" /\ request' = NoRequest
        /\ answer' = [w \in Threads |->
              IF w \notin request.ops THEN answer[w]
              ELSE IF dir[task[w]] = "src" THEN Captured(InTarget) ELSE Failed]
        /\ UNCHANGED <<cloudVars, hostVars, pc, task, op, pending, todo>>
    BY DEF CaptureTarget
  <1>2. Captured(InTarget) \in Reply /\ Failed \in Reply /\ answer \in [Threads -> Reply]
    <2>1. InTarget \in SUBSET Files
      BY DEF InTarget
    <2> QED
      BY <2>1, ReplyFacts DEF Base, ThreadsTyped
  <1>3. answer' \in [Threads -> Reply]
        /\ \A w \in Threads : w \notin request.ops => answer'[w] = answer[w]
    BY <1>1, <1>2
  <1>4. ASSUME NEW w \in request.ops PROVE ledger[task[w]].step # "materialize"
    BY <1>1, RequestFacts, ConstantFacts DEF KindOf
  <1> QED
    BY <1>1, <1>3, <1>4, AnsweredBase

LEMMA ConfirmBase ==
  ASSUME Base, ConfirmRequest
  PROVE  Base'
  <1>1. /\ request' = NoRequest
        /\ answer' = [w \in Threads |->
              IF w \notin request.ops THEN answer[w]
              ELSE IF Seen(task[w]) THEN Evidence(task[w]) ELSE Failed]
        /\ UNCHANGED <<cloudVars, hostVars, pc, task, op, pending, todo>>
    BY DEF ConfirmRequest
  <1>2. ASSUME NEW w \in request.ops
        PROVE  /\ answer'[w] \in Reply
               /\ answer'[w].state = "ok" => answer'[w].file # None
    <2>1. w \in Threads /\ task[w] \in Tasks
      BY RequestFacts
    <2>2. CASE Seen(task[w])
      BY <1>1, <2>1, <2>2, EvidenceFacts, ConstantFacts DEF Seen
    <2>3. CASE ~Seen(task[w])
      BY <1>1, <2>1, <2>3, ReplyFacts
    <2> QED
      BY <2>2, <2>3
  <1>3. \A w \in Threads : w \notin request.ops => answer'[w] = answer[w]
    BY <1>1
  <1>4. answer' \in [Threads -> Reply]
    BY <1>1, <1>2, <1>3 DEF Base, ThreadsTyped
  <1> QED
    BY <1>1, <1>2, <1>3, <1>4, AnsweredBase

LEMMA ListingFailsBase ==
  ASSUME Base, ListingFails
  PROVE  Base'
  <1>1. answer' = Fail(request.ops) /\ request' = NoRequest
        /\ UNCHANGED <<cloudVars, hostVars, pc, task, op, pending, todo>>
    BY DEF ListingFails
  <1>2. request.ops \subseteq Threads
    BY DEF Base, BatchTyped
  <1> QED
    BY <1>1, <1>2, FailFacts, ReplyFacts, AnsweredBase
(* The tasks a request is applied to.                                      *)
At(applied) == {task[w] : w \in applied}

(* What the cloud does with each kind of request.                          *)
Moved(at) ==
    /\ dir' = [f \in Files |-> IF f \in at /\ dir[f] = "src" THEN "dst" ELSE dir[f]]
    /\ UNCHANGED <<name, made>>

NewCopy(at, t) == t \in at /\ dir[t] = "src" /\ made[t] < MaxCopies

Copied(at) ==
    /\ dir' = [f \in Files |->
          IF f \in Copies /\ NewCopy(at, f[1]) /\ f[2] = made[f[1]] + 1 THEN "dst" ELSE dir[f]]
    /\ made' = [t \in Tasks |-> IF NewCopy(at, t) THEN made[t] + 1 ELSE made[t]]
    /\ UNCHANGED name

Renamed(at) ==
    /\ name' = [f \in Files |->
          IF dir[f] = "dst" /\ \E t \in at : ledger[t].file = f
          THEN TgtName[CHOOSE t \in at : ledger[t].file = f] ELSE name[f]]
    /\ UNCHANGED <<dir, made>>

LEMMA SendForm ==
  ASSUME Base, NEW applied \in SUBSET request.ops, SendRequest(applied)
  PROVE  /\ request.phase = "valid" /\ request' = [request EXCEPT !.phase = "sent"]
         /\ UNCHANGED <<hostVars, pc, task, op, answer, pending, todo>>
         /\ At(applied) \subseteq Tasks
         /\ \A t \in At(applied) : \E w \in applied : task[w] = t
         /\ \/ request.kind = "move" /\ Moved(At(applied))
            \/ request.kind = "copy" /\ Copied(At(applied))
            \/ request.kind = "rename" /\ Renamed(At(applied))
  <1>1. request.phase = "valid" /\ request' = [request EXCEPT !.phase = "sent"]
        /\ UNCHANGED <<hostVars, pc, task, op, answer, pending, todo>>
        /\ request.kind # "capture"
    BY DEF SendRequest, threadVars
  <1>2. At(applied) \subseteq Tasks /\ \A t \in At(applied) : \E w \in applied : task[w] = t
    BY RequestFacts DEF At
  <1>3. request.kind \in {"move", "copy", "rename"}
    BY <1>1 DEF Base, BatchTyped, Kinds
  <1>4. CASE request.kind = "move"
    BY <1>1, <1>2, <1>4 DEF SendRequest, At, Moved
  <1>5. CASE request.kind = "copy"
    BY <1>1, <1>2, <1>5 DEF SendRequest, At, Copied, NewCopy
  <1>6. CASE request.kind = "rename"
    BY <1>1, <1>2, <1>6 DEF SendRequest, At, Renamed
  <1> QED
    BY <1>1, <1>2, <1>3, <1>4, <1>5, <1>6

LEMMA SendBase ==
  ASSUME Base, NEW applied \in SUBSET request.ops, SendRequest(applied)
  PROVE  Base'
  <1> DEFINE at == At(applied)
  <1>1. /\ request' = [request EXCEPT !.phase = "sent"]
        /\ UNCHANGED <<hostVars, pc, task, op, answer, pending, todo>>
        /\ at \subseteq Tasks
    BY SendForm
  <1>2. CloudTyped
    BY DEF Base
  <1>3. ASSUME Moved(at) PROVE CloudTyped'
    BY <1>2, <1>3 DEF Moved, CloudTyped
  <1>4. ASSUME Copied(at) PROVE CloudTyped'
    <2>1. \A t \in Tasks : made[t] \in 0..MaxCopies
                          /\ (made[t] < MaxCopies => made[t] + 1 \in 0..MaxCopies)
      BY <1>2, ConstantFacts DEF CloudTyped
    <2>2. made' \in [Tasks -> 0..MaxCopies]
      BY <1>4, <2>1 DEF Copied, NewCopy
    <2>3. dir' \in [Files -> {"src", "dst", "gone"}]
      BY <1>2, <1>4 DEF Copied, CloudTyped
    <2> QED
      BY <1>2, <1>4, <2>2, <2>3 DEF Copied, CloudTyped
  <1>5. ASSUME Renamed(at) PROVE CloudTyped'
    <2>1. ASSUME NEW f \in Files, \E t \in at : ledger[t].file = f
          PROVE  TgtName[CHOOSE t \in at : ledger[t].file = f] \in Names
      <3>1. (CHOOSE t \in at : ledger[t].file = f) \in at
        BY <2>1
      <3> QED
        BY <1>1, <3>1, ConstantFacts
    <2>2. name' \in [Files -> Names]
      BY <1>2, <1>5, <2>1 DEF Renamed, CloudTyped
    <2> QED
      BY <1>2, <1>5, <2>2 DEF Renamed, CloudTyped
  <1>6. CloudTyped'
    BY <1>3, <1>4, <1>5, SendForm
  <1>7. request'.ops = request.ops /\ request'.kind = request.kind /\ BatchTyped'
    BY <1>1 DEF Base, BatchTyped
  <1>8. QueueSound'
    BY <1>1, <1>7 DEF Base, QueueSound, Queued, SeqRange
  <1>9. answer' \in [Threads -> Reply] /\ \A w \in Threads : answer'[w] \in {answer[w], Failed}
    BY <1>1 DEF Base, ThreadsTyped
  <1> QED
    BY <1>1, <1>6, <1>7, <1>8, <1>9, OldAnswer, AnswerBase

LEMMA CoordinatorBase ==
  ASSUME Base, Coordinator
  PROVE  Base'
  BY TakeBatchBase, ExecuteBatchBase, CaptureBase, SendBase, ConfirmBase, ListingFailsBase
  DEF Coordinator

LEMMA LoseLeaseBase ==
  ASSUME Base, NEW t \in Tasks, LoseLease(t)
  PROVE  Base'
  <1>1. owner' = [owner EXCEPT ![t] = None]
        /\ UNCHANGED <<cloudVars, ledger, threadVars, batchVars>>
    BY DEF LoseLease
  <1>2. /\ UNCHANGED <<dir, name, made, ledger, pc, task, op, answer, pending, todo, request>>
    BY <1>1 DEF cloudVars, threadVars, batchVars
  <1>3. HostTyped' /\ RowsSound'
    BY <1>1, <1>2 DEF Base, HostTyped, RowsSound
  <1>4. Leases'
    BY <1>1, <1>2, ConstantFacts DEF Base, Leases, Open, HostTyped
  <1>5. CloudTyped' /\ ThreadsTyped' /\ BatchTyped' /\ Exclusive'
    BY <1>2 DEF Base, CloudTyped, ThreadsTyped, BatchTyped, Exclusive, HoldsLocks
  <1>6. QueueSound'
    BY <1>2 DEF Base, QueueSound, Queued, SeqRange
  <1>7. \A w \in Threads : WorkingOf(w)'
    BY <1>2 DEF Base, WorkingOf, Open, KindOf
  <1> QED
    BY <1>3, <1>4, <1>5, <1>6, <1>7 DEF Base

LEMMA CrashBase ==
  ASSUME Base, Crash
  PROVE  Base'
  <1>1. /\ owner' = [t \in Tasks |-> None] /\ pc' = [w \in Threads |-> "free"]
        /\ task' = [w \in Threads |-> None] /\ op' = [w \in Threads |-> None]
        /\ answer' = [w \in Threads |-> NoAnswer] /\ pending' = <<>> /\ todo' = {}
        /\ request' = NoRequest /\ UNCHANGED <<cloudVars, ledger>>
    BY DEF Crash
  <1>2. HostTyped' /\ RowsSound' /\ CloudTyped'
    BY <1>1 DEF Base, HostTyped, RowsSound, CloudTyped, cloudVars
  <1>3. ThreadsTyped' /\ BatchTyped'
    BY <1>1, ReplyFacts DEF ThreadsTyped, BatchTyped, NoRequest, Kinds
  <1>4. Leases' /\ Exclusive'
    BY <1>1, ConstantFacts DEF Leases, Exclusive, HoldsLocks
  <1>5. QueueSound'
    BY <1>1 DEF QueueSound, Queued, SeqRange, NoRequest
  <1>6. \A w \in Threads : WorkingOf(w)'
    BY <1>1, ConstantFacts DEF WorkingOf
  <1> QED
    BY <1>2, <1>3, <1>4, <1>5, <1>6 DEF Base

LEMMA VanishBase ==
  ASSUME Base, NEW t \in Tasks, SourceVanishes(t)
  PROVE  Base'
  <1>1. dir' = [dir EXCEPT ![t] = "gone"] /\ UNCHANGED <<name, made, hostVars, threadVars, batchVars>>
    BY DEF SourceVanishes
  <1>2. UNCHANGED <<name, made, hostVars, pc, task, op, answer, pending, todo, request>>
    BY <1>1 DEF threadVars, batchVars
  <1>3. CloudTyped' /\ BatchTyped'
    BY <1>1, <1>2 DEF Base, CloudTyped, BatchTyped
  <1>4. QueueSound'
    BY <1>2 DEF Base, QueueSound, Queued, SeqRange
  <1>5. answer' \in [Threads -> Reply] /\ \A w \in Threads : answer'[w] \in {answer[w], Failed}
    BY <1>2 DEF Base, ThreadsTyped
  <1> QED
    BY <1>2, <1>3, <1>4, <1>5, OldAnswer, AnswerBase

LEMMA NextBase == Base /\ [Next]_vars => Base'
  <1> SUFFICES ASSUME Base, [Next]_vars PROVE Base'
    OBVIOUS
  <1>1. CASE Next
    BY <1>1, ClaimBase, ThreadBase, CoordinatorBase, LoseLeaseBase, VanishBase, CrashBase
    DEF Next
  <1>2. CASE UNCHANGED vars
    <2>1. UNCHANGED <<cloudVars, hostVars, pc, task, op, answer, pending, todo, request>>
      BY <1>2 DEF vars, threadVars, batchVars
    <2>2. CloudTyped' /\ BatchTyped'
      BY <2>1 DEF Base, CloudTyped, BatchTyped, cloudVars
    <2>3. QueueSound'
      BY <2>1 DEF Base, QueueSound, Queued, SeqRange
    <2>4. answer' \in [Threads -> Reply] /\ \A w \in Threads : answer'[w] \in {answer[w], Failed}
      BY <2>1 DEF Base, ThreadsTyped
    <2> QED
      BY <2>1, <2>2, <2>3, <2>4, OldAnswer, AnswerBase
  <1> QED
    BY <1>1, <1>2

(* Who may record a step and where an operation is, for any behaviour.     *)
THEOREM Invariance == Spec => []Base
  BY InitBase, NextBase, PTL DEF Spec

(* Types; whatever is pending, taken or requested belongs to a thread that *)
(* waits for its answer (BatchCoordinator futures in durable.py).          *)
THEOREM Typed == Spec => []TypeOK
  <1>1. Base => TypeOK
    <2> SUFFICES ASSUME Base PROVE TypeOK
      OBVIOUS
    <2>1. ASSUME NEW t \in Tasks
          PROVE  /\ ledger[t].state \in States
                 /\ ledger[t].step \in {"capture", "materialize", "rename"}
                 /\ ledger[t].known \subseteq Files
                 /\ ledger[t].file \in Files \cup {None}
                 /\ ledger[t].step = "rename" <=> ledger[t].file # None
      BY DEF Base, HostTyped, Row, RowsSound, RowSound
    <2>2. ASSUME NEW w \in Threads PROVE task[w] \in Tasks <=> pc[w] # "free"
      BY DEF Base, WorkingOf
    <2>3. SeqRange(pending) \cup todo \cup request.ops \subseteq {w \in Threads : pc[w] = "wait"}
      <3>1. SeqRange(pending) \cup todo \cup request.ops \subseteq Threads
        BY DEF Base, BatchTyped, SeqRange
      <3> QED
        BY <3>1 DEF Base, QueueSound, Queued
    <2> QED
      BY <2>1, <2>2, <2>3 DEF TypeOK, Base, CloudTyped, HostTyped, ThreadsTyped
  <1> QED
    BY <1>1, Invariance, PTL

(***************************************************************************)
(* Second, what becomes of the files.                                      *)
(*                                                                         *)
(* _observe_materialize recognises a copy by name, size and SHA1.  That is *)
(* enough if no file of another task can carry the name and the content of *)
(* a source, before or after its own rename: SourcesApart.  Under this     *)
(* hypothesis no copy is made twice, every landed file is the task's own,  *)
(* and a completed task is in place, for any number of tasks, files,       *)
(* threads and faults.  (Without it LandedFileKept is violated.)           *)
(***************************************************************************)
SourcesApart ==
    \A t, u \in Tasks :
        t # u => \/ Content[t] # Content[u]
                 \/ SrcName[t] \notin {SrcName[u], TgtName[u]}

CopiesOf(t) == {t} \X (1..MaxCopies)
OwnFiles(t) == {t} \cup CopiesOf(t)
OwnFile(t, f) == IF Mode[t] = "move" THEN f = t ELSE f \in CopiesOf(t)

(* The files of a task, whatever its ledger says.                          *)
CloudOf(t) ==
    /\ made[t] <= 1
    /\ Mode[t] = "move" => made[t] = 0
    /\ \A i \in 1..MaxCopies : dir[<<t, i>>] = "dst" <=> i <= made[t]
    /\ Mode[t] = "copy" => dir[t] # "dst"
    /\ \A f \in OwnFiles(t) : name[f] \in {SrcName[t], TgtName[t]}

(* What a row of the ledger says is so in the cloud.                       *)
RowFits(t, r) ==
    /\ r.step = "capture" => made[t] = 0
    /\ r.step = "materialize" =>
          /\ ~r.begun => made[t] = 0
          /\ OldFiles \subseteq r.known /\ r.known \cap CopiesOf(t) = {}
    /\ r.step # "rename" => \A f \in OwnFiles(t) : name[f] = SrcName[t]
    /\ r.step = "rename" =>
          /\ OwnFile(t, r.file) /\ dir[r.file] = "dst"
          /\ name[r.file] \in {r.name, TgtName[t]}
    /\ r.state = "completed" => r.step = "rename" /\ name[r.file] = TgtName[t]

(* So is an answer a thread has not recorded yet.                          *)
ReplyFits(t, r) ==
    /\ ledger[t].step = "capture" => OldFiles \subseteq r.known /\ r.known \cap CopiesOf(t) = {}
    /\ ledger[t].step = "materialize" =>
          OwnFile(t, r.file) /\ dir[r.file] = "dst" /\ name[r.file] = r.name
    /\ ledger[t].step = "rename" => name[ledger[t].file] = TgtName[t]

AnswerOf(w) == pc[w] = "wait" /\ answer[w].state = "ok" => ReplyFits(task[w], answer[w])

(* A copy that is asked for has not been made.                             *)
Unsent == SeqRange(pending) \cup todo \cup (IF request.phase = "valid" THEN request.ops ELSE {})
CopyOnce(w) == w \in Unsent /\ op[w] = "copy" => made[task[w]] = 0

Outcome ==
    /\ \A f \in OldFiles : dir[f] = "dst"
    /\ \A t \in Tasks : CloudOf(t) /\ RowFits(t, ledger[t])
    /\ \A w \in Threads : AnswerOf(w) /\ CopyOnce(w)
    /\ request.phase = "sent" => request.kind # "capture"

(* The inductive invariant.                                                *)
IInv == Base /\ Outcome
-----------------------------------------------------------------------------
(* Files and values.                                                       *)
LEMMA FileFacts ==
  ASSUME NEW t \in Tasks
  PROVE  /\ OwnFiles(t) \subseteq Files /\ CopiesOf(t) \subseteq Copies
         /\ t \notin Copies /\ t \notin OldFiles /\ Origin(t) = t
         /\ \A f \in CopiesOf(t) : Origin(f) = t /\ f \notin OldFiles /\ f \notin Tasks
         /\ \A u \in Tasks \ {t} : OwnFiles(t) \cap OwnFiles(u) = {}
  BY ConstantsAssumption DEF OwnFiles, CopiesOf, Copies, Files, Origin

LEMMA FileKinds ==
  ASSUME NEW f \in Files, f \notin OldFiles
  PROVE  \E u \in Tasks : f \in OwnFiles(u) /\ Origin(f) = u /\ (f = u \/ f \in CopiesOf(u))
  <1>1. CASE f \in Tasks
    BY <1>1, FileFacts DEF OwnFiles
  <1>2. CASE f \in Copies
    <2>1. PICK u \in Tasks : f \in CopiesOf(u)
      BY <1>2 DEF Copies, CopiesOf
    <2> QED
      BY <2>1, FileFacts DEF OwnFiles
  <1> QED
    BY <1>1, <1>2 DEF Files

LEMMA InitOutcome == Init => Outcome
  <1> SUFFICES ASSUME Init PROVE Outcome
    OBVIOUS
  <1>1. \A f \in OldFiles : dir[f] = "dst"
    BY ConstantsAssumption DEF Init, Files
  <1>2. ASSUME NEW t \in Tasks PROVE CloudOf(t)
    <2>1. made[t] = 0 /\ dir[t] = "src"
      BY ConstantFacts DEF Init
    <2>2. \A f \in OwnFiles(t) : name[f] = SrcName[t]
      BY FileFacts DEF Init, OwnFiles
    <2>3. ASSUME NEW i \in 1..MaxCopies PROVE dir[<<t, i>>] = "gone" /\ ~(i <= made[t])
      <3>1. <<t, i>> \in CopiesOf(t)
        BY DEF CopiesOf
      <3> QED
        BY <2>1, <3>1, FileFacts DEF Init, OwnFiles
    <2> QED
      BY <2>1, <2>2, <2>3 DEF CloudOf
  <1>3. ASSUME NEW t \in Tasks PROVE RowFits(t, ledger[t])
    <2>1. \A f \in OwnFiles(t) : name[f] = SrcName[t]
      BY FileFacts DEF Init, OwnFiles
    <2> QED
      BY <2>1 DEF Init, RowFits
  <1>4. \A w \in Threads : AnswerOf(w) /\ CopyOnce(w)
    BY DEF Init, AnswerOf, CopyOnce, Unsent, SeqRange, NoRequest
  <1> QED
    BY <1>1, <1>2, <1>3, <1>4 DEF Outcome, Init, NoRequest
-----------------------------------------------------------------------------
(* What an observation tells.                                              *)
LEMMA EvidenceOwn ==
  ASSUME SourcesApart, Base, Outcome, NEW t \in Tasks, Observe(t) = "applied",
         ledger[t].step # "capture"
  PROVE  ReplyFits(t, Evidence(t))
  <1>1. /\ ledger[t] \in Row /\ CloudOf(t) /\ RowFits(t, ledger[t])
        /\ Evidence(t).file \in Files /\ Evidence(t).name = name[Evidence(t).file]
        /\ ledger[t].step # "rename" => Evidence(t).file \in Matches(t)
    BY EvidenceFacts DEF Outcome, Base, HostTyped
  <1>2. CASE ledger[t].step = "rename"
    BY <1>2 DEF Observe, ObserveRename, ReplyFits
  <1>3. CASE ledger[t].step = "materialize"
    <2> DEFINE f == Evidence(t).file
    <2>1. f \in Matches(t) /\ dir[f] = "dst"
      BY <1>1, <1>3 DEF Matches, InTarget
    <2>2. CASE Mode[t] = "move"
      BY <1>1, <1>3, <2>1, <2>2 DEF Matches, ReplyFits, OwnFile
    <2>3. CASE Mode[t] = "copy"
      <3>1. /\ name[f] = SrcName[t] /\ f \notin ledger[t].known
            /\ Content[Origin(f)] = Content[t]
        BY <2>1, <2>3 DEF Matches, Baseline
      <3>2. f \notin OldFiles
        BY <1>1, <1>3, <3>1 DEF RowFits
      <3>3. PICK u \in Tasks : /\ f \in OwnFiles(u) /\ Origin(f) = u
                               /\ f = u \/ f \in CopiesOf(u)
        BY <1>1, <3>2, FileKinds
      <3>4. CloudOf(u)
        BY DEF Outcome
      <3>5. name[f] \in {SrcName[u], TgtName[u]}
        BY <3>3, <3>4 DEF CloudOf
      <3>6. u = t
        BY <3>1, <3>3, <3>5 DEF SourcesApart
      <3>7. f # t
        BY <1>1, <2>1, <2>3 DEF CloudOf
      <3> QED
        BY <1>1, <1>3, <2>1, <2>3, <3>3, <3>6, <3>7 DEF ReplyFits, OwnFile
    <2> QED
      BY <2>2, <2>3, ConstantFacts
  <1> QED
    BY <1>1, <1>2, <1>3 DEF Row

LEMMA NotMade ==
  ASSUME Base, Outcome, NEW t \in Tasks, Observe(t) = "not_applied",
         ledger[t].step = "materialize"
  PROVE  made[t] = 0
  <1>1. CloudOf(t) /\ RowFits(t, ledger[t]) /\ made[t] \in 0..MaxCopies /\ MaxCopies \in Nat
    BY ConstantFacts DEF Outcome, Base, CloudTyped
  <1>2. Matches(t) = {}
    BY DEF Observe, ObserveMaterialize
  <1>3. CASE Mode[t] = "move"
    BY <1>1, <1>3 DEF CloudOf
  <1>4. CASE Mode[t] = "copy" /\ made[t] # 0
    <2>1. 1 \in 1..MaxCopies /\ 1 <= made[t]
      BY <1>1, <1>4
    <2>2. <<t, 1>> \in CopiesOf(t) /\ dir[<<t, 1>>] = "dst"
      BY <1>1, <2>1 DEF CloudOf, CopiesOf
    <2>3. /\ name[<<t, 1>>] = SrcName[t] /\ <<t, 1>> \notin ledger[t].known
          /\ <<t, 1>> \in Files /\ Origin(<<t, 1>>) = t
      BY <1>1, <2>2, FileFacts DEF RowFits, OwnFiles
    <2>4. <<t, 1>> \in Matches(t)
      BY <1>4, <2>2, <2>3 DEF Matches, InTarget, Baseline
    <2> QED
      BY <1>2, <2>4
  <1> QED
    BY <1>3, <1>4, ConstantFacts
-----------------------------------------------------------------------------
(* The steps of a thread.                                                  *)
LEMMA ThreadAlone ==
  ASSUME Base, NEW w \in Threads, ThreadStep(w)
  PROVE  Alone(w) /\ UNCHANGED <<cloudVars, todo, request>>
         /\ pending' \in {pending, Append(pending, w)}
  <1>1. ASSUME Released(w)
        PROVE  \A v \in Threads \ {w} : /\ pc'[v] = pc[v] /\ task'[v] = task[v]
                                         /\ op'[v] = op[v] /\ answer'[v] = answer[v]
    BY <1>1 DEF Released, Base, ThreadsTyped
  <1>2. ASSUME HoldsLocks(w), NEW e, Succeed(w, e), UNCHANGED <<cloudVars, batchVars>>
        PROVE  Alone(w) /\ UNCHANGED <<cloudVars, batchVars>>
    <2>1. \A t \in Tasks \ {task[w]} : ledger'[t] = ledger[t]
      BY <1>2, SucceedForm DEF Base, HostTyped
    <2>2. \A v \in Threads \ {w} : /\ pc'[v] = pc[v] /\ task'[v] = task[v]
                                    /\ op'[v] = op[v] /\ answer'[v] = answer[v]
      <3>1. CASE /\ pc' = [pc EXCEPT ![w] = "step"] /\ answer' = [answer EXCEPT ![w] = NoAnswer]
                 /\ UNCHANGED <<owner, task, op>>
        BY <3>1 DEF Base, ThreadsTyped
      <3> QED
        BY <1>1, <1>2, <3>1, SucceedForm
    <2> QED
      BY <1>2, <2>1, <2>2 DEF Alone
  <1>3. CASE TakeLocks(w)
    BY <1>3 DEF TakeLocks, Alone, hostVars, batchVars, Base, ThreadsTyped
  <1>4. CASE Abandon(w)
    BY <1>1, <1>4 DEF Abandon, Alone, hostVars, batchVars
  <1>5. CASE ExecuteStep(w)
    BY <1>5 DEF ExecuteStep, Submitted, Alone, HoldsLocks, Base, ThreadsTyped, HostTyped
  <1>6. CASE SkipRename(w)
    BY <1>2, <1>6 DEF SkipRename, HoldsLocks, batchVars
  <1>7. CASE RecoverCapture(w)
    BY <1>7 DEF RecoverCapture, Submitted, Alone, hostVars, Base, ThreadsTyped
  <1>8. CASE RecoverStep(w)
    BY <1>8 DEF RecoverStep, Alone, hostVars, batchVars, Base, ThreadsTyped
  <1>9. CASE RecordSuccess(w)
    BY <1>2, <1>9 DEF RecordSuccess, HoldsLocks, batchVars
  <1>10. CASE ObserveFailure(w)
    <2>1. /\ UNCHANGED <<cloudVars, hostVars, task, todo, request>>
          /\ \/ Submitted(w, "capture")
             \/ /\ pc' = [pc EXCEPT ![w] = "observe"]
                /\ answer' = [answer EXCEPT ![w] = NoAnswer]
                /\ UNCHANGED <<op, pending>>
      BY <1>10 DEF ObserveFailure
    <2> QED
      BY <2>1 DEF Submitted, Alone, hostVars, Base, ThreadsTyped
  <1>11. CASE Review(w)
    BY <1>1, <1>11 DEF Review, Verdict, HoldsLocks, Alone, batchVars, Base, HostTyped
  <1>12. CASE ObservedApplied(w)
    BY <1>2, <1>12 DEF ObservedApplied, HoldsLocks, batchVars
  <1>13. CASE ObservedNotApplied(w)
    BY <1>1, <1>13, NotAppliedForm DEF Alone, batchVars, Base, HostTyped
  <1> QED
    BY <1>3, <1>4, <1>5, <1>6, <1>7, <1>8, <1>9, <1>10, <1>11, <1>12, <1>13 DEF ThreadStep

(* The invariant after a step of w: the row it wrote fits the cloud, and   *)
(* what it submitted has not been done.                                    *)
LEMMA ThreadOutcome ==
  ASSUME Base, Outcome, Base', NEW w \in Threads, Alone(w),
         UNCHANGED <<cloudVars, todo, request>>, pending' \in {pending, Append(pending, w)},
         \A t \in Tasks : ledger'[t] # ledger[t] => RowFits(t, ledger'[t]),
         \/ pc'[w] # "wait"
         \/ answer'[w] = NoAnswer /\ (op'[w] = "copy" => made[task'[w]] = 0)
  PROVE  Outcome'
  <1>1. UNCHANGED <<dir, name, made>>
    BY DEF cloudVars
  <1>2. \A t \in Tasks : CloudOf(t)'
    BY <1>1 DEF Outcome, CloudOf
  <1>3. ASSUME NEW t \in Tasks PROVE RowFits(t, ledger[t])'
    <2>1. RowFits(t, ledger'[t])
      BY DEF Outcome
    <2> QED
      BY <1>1, <2>1 DEF RowFits, OwnFile
  <1>4. ASSUME NEW v \in Threads \ {w} PROVE AnswerOf(v)'
    <2>1. pc'[v] = pc[v] /\ task'[v] = task[v] /\ answer'[v] = answer[v] /\ AnswerOf(v)
      BY DEF Alone, Outcome
    <2>2. CASE pc[v] = "wait"
      <3>1. HoldsLocks(v) /\ task[v] \in Tasks
        BY <2>2, BaseFacts DEF HoldsLocks
      <3>2. ledger'[task[v]] = ledger[task[v]]
        BY <3>1 DEF Alone, Base, Exclusive
      <3> QED
        BY <1>1, <2>1, <3>2 DEF AnswerOf, ReplyFits, OwnFile
    <2> QED
      BY <2>1, <2>2 DEF AnswerOf
  <1>5. AnswerOf(w)'
    BY ReplyFacts DEF AnswerOf
  <1>6. Unsent' \subseteq Unsent \cup {w} /\ Unsent' \subseteq Queued'
    <2>1. pending \in Seq(Threads)
      BY DEF Base, BatchTyped
    <2>2. SeqRange(pending') \subseteq SeqRange(pending) \cup {w}
      BY <2>1, AppendFacts
    <2>3. SeqRange(pending)' = SeqRange(pending')
      BY DEF SeqRange
    <2> QED
      BY <2>2, <2>3 DEF Unsent, Queued
  <1>7. ASSUME NEW v \in Threads \ {w} PROVE CopyOnce(v)'
    BY <1>1, <1>6 DEF CopyOnce, Outcome, Alone
  <1>8. CopyOnce(w)'
    <2>1. w \in Unsent' => pc'[w] = "wait"
      BY <1>6 DEF Base, QueueSound
    <2> QED
      BY <1>1, <2>1 DEF CopyOnce
  <1> QED
    BY <1>1, <1>2, <1>3, <1>4, <1>5, <1>7, <1>8 DEF Outcome

(* A success recorded with evidence that fits.                             *)
LEMMA SucceedOutcome ==
  ASSUME Base, Outcome, Base', NEW w \in Threads, ThreadStep(w), HoldsLocks(w),
         NEW e \in Reply, Succeed(w, e),
         \/ ReplyFits(task[w], e)
         \/ ledger[task[w]].step = "rename" /\ ledger[task[w]].name = TgtName[task[w]]
  PROVE  Outcome'
  <1> DEFINE t == task[w]
             row == ledger[t]
  <1>1. /\ t \in Tasks /\ row \in Row /\ RowFits(t, row) /\ "completed" \in States
    BY BaseFacts DEF Outcome, States
  <1>2. pc'[w] # "wait"
    <2>1. pc \in [Threads -> {"free", "lock", "step", "wait", "observe"}]
      BY DEF Base, ThreadsTyped
    <2> QED
      BY <2>1, SucceedForm DEF Released
  <1>3. /\ row.step = "capture" => ledger' = [ledger EXCEPT ![t] = CapturedRow(row, e)]
        /\ row.step = "materialize" => ledger' = [ledger EXCEPT ![t] = LandedRow(row, e)]
        /\ row.step = "rename" => ledger' = [ledger EXCEPT ![t] = SettledRow(row, "completed")]
    BY SucceedForm
  <1>4. CASE row.step = "capture"
    <2>1. RowFits(t, CapturedRow(row, e))
      BY <1>1, <1>4, RowFacts DEF RowFits, ReplyFits
    <2> QED
      BY <1>2, <1>3, <1>4, <2>1, ThreadAlone, ThreadOutcome DEF Base, HostTyped
  <1>5. CASE row.step = "materialize"
    <2>1. RowFits(t, LandedRow(row, e))
      BY <1>1, <1>5, RowFacts DEF RowFits, ReplyFits
    <2> QED
      BY <1>2, <1>3, <1>5, <2>1, ThreadAlone, ThreadOutcome DEF Base, HostTyped
  <1>6. CASE row.step = "rename"
    <2>1. name[row.file] = TgtName[t]
      BY <1>1, <1>6 DEF RowFits, ReplyFits
    <2>2. RowFits(t, SettledRow(row, "completed"))
      BY <1>1, <1>6, <2>1, RowFacts DEF RowFits
    <2> QED
      BY <1>2, <1>3, <1>6, <2>2, ThreadAlone, ThreadOutcome DEF Base, HostTyped
  <1> QED
    BY <1>1, <1>4, <1>5, <1>6 DEF Row

LEMMA SuccessOutcome ==
  ASSUME SourcesApart, Base, Outcome, Base', NEW w \in Threads, ThreadStep(w),
         SkipRename(w) \/ RecordSuccess(w) \/ ObservedApplied(w)
  PROVE  Outcome'
  <1>1. HoldsLocks(w) /\ task[w] \in Tasks
    <2>1. HoldsLocks(w)
      BY DEF SkipRename, RecordSuccess, ObservedApplied, HoldsLocks
    <2> QED
      BY <2>1, BaseFacts
  <1>2. CASE SkipRename(w)
    <2>1. /\ Succeed(w, NoAnswer) /\ ledger[task[w]].step = "rename"
          /\ ledger[task[w]].name = TgtName[task[w]]
      BY <1>2 DEF SkipRename
    <2> QED
      BY <1>1, <2>1, ReplyFacts, SucceedOutcome
  <1>3. CASE RecordSuccess(w)
    <2>1. Succeed(w, answer[w]) /\ pc[w] = "wait" /\ answer[w].state = "ok"
      BY <1>3 DEF RecordSuccess
    <2>2. answer[w] \in Reply /\ ReplyFits(task[w], answer[w])
      BY <2>1 DEF Base, ThreadsTyped, Outcome, AnswerOf
    <2> QED
      BY <1>1, <2>1, <2>2, SucceedOutcome
  <1>4. CASE ObservedApplied(w)
    <2>1. Succeed(w, Evidence(task[w])) /\ pc[w] = "observe" /\ Observe(task[w]) = "applied"
      BY <1>4 DEF ObservedApplied
    <2>2. ledger[task[w]].step # "capture"
      BY <2>1 DEF Base, WorkingOf
    <2>3. Evidence(task[w]) \in Reply /\ ReplyFits(task[w], Evidence(task[w]))
      BY <1>1, <2>1, <2>2, EvidenceFacts, EvidenceOwn
    <2> QED
      BY <1>1, <2>1, <2>3, SucceedOutcome
  <1> QED
    BY <1>2, <1>3, <1>4

(* A retry or a review leaves the file where it is.                        *)
LEMMA SettleOutcome ==
  ASSUME Base, Outcome, Base', NEW w \in Threads, ThreadStep(w),
         Review(w) \/ ObservedNotApplied(w)
  PROVE  Outcome'
  <1> DEFINE t == task[w]
  <1>1. /\ HoldsLocks(w) /\ Released(w) /\ t \in Tasks /\ ledger[t] \in Row
    <2>1. HoldsLocks(w) /\ Released(w)
      BY DEF Review, Verdict, ObservedNotApplied, HoldsLocks
    <2> QED
      BY <2>1, BaseFacts
  <1>2. RowFits(t, ledger[t]) /\ pc'[w] # "wait"
    BY <1>1 DEF Outcome, Released, Base, ThreadsTyped
  <1>3. ASSUME NEW r, ledger' = [ledger EXCEPT ![t] = r], RowFits(t, r)
        PROVE  Outcome'
    BY <1>1, <1>2, <1>3, ThreadAlone, ThreadOutcome DEF Base, HostTyped
  <1>4. CASE Review(w)
    <2> DEFINE r == SettledRow(ledger[t], "manual_review")
    <2>1. ledger' = [ledger EXCEPT ![t] = r] /\ "manual_review" \in States
      BY <1>4 DEF Review, Verdict, SettledRow, States
    <2>2. /\ r.state = "manual_review" /\ r.step = ledger[t].step /\ r.file = ledger[t].file
          /\ r.name = ledger[t].name /\ r.known = ledger[t].known /\ r.begun = ledger[t].begun
      BY <1>1, <2>1, RowFacts, ReplyFacts
    <2> HIDE DEF r
    <2>3. RowFits(t, r)
      BY <1>2, <2>2 DEF RowFits
    <2> QED
      BY <1>3, <2>1, <2>3
  <1>5. CASE ObservedNotApplied(w)
    <2>1. /\ ledger' = [ledger EXCEPT ![t] = RetryRow(ledger[t])]
          /\ Observe(t) = "not_applied"
      BY <1>5, NotAppliedForm
    <2>2. RowFits(t, RetryRow(ledger[t]))
      BY <1>1, <1>2, <2>1, NotMade, RetryRowFacts DEF RowFits
    <2> QED
      BY <1>3, <2>1, <2>2
  <1> QED
    BY <1>4, <1>5

(* A copy is submitted only for a step not begun.                          *)
LEMMA SubmitOutcome ==
  ASSUME Base, Outcome, Base', NEW w \in Threads, ThreadStep(w),
         ExecuteStep(w) \/ RecoverCapture(w)
  PROVE  Outcome'
  <1> DEFINE t == task[w]
  <1>1. HoldsLocks(w) /\ UNCHANGED task
    BY DEF ExecuteStep, RecoverCapture, HoldsLocks
  <1>2. t \in Tasks /\ ledger[t] \in Row /\ RowFits(t, ledger[t])
    BY <1>1, BaseFacts DEF Outcome
  <1>3. CASE ExecuteStep(w)
    <2> DEFINE r == [ledger[t] EXCEPT !.begun = TRUE]
    <2>1. /\ ledger' = [ledger EXCEPT ![t] = r] /\ ~ledger[t].begun
          /\ answer'[w] = NoAnswer /\ op'[w] = KindOf(t)
      BY <1>3 DEF ExecuteStep, Submitted, KindOf, Base, ThreadsTyped
    <2>2. /\ r.state = ledger[t].state /\ r.step = ledger[t].step /\ r.file = ledger[t].file
          /\ r.name = ledger[t].name /\ r.known = ledger[t].known /\ r.begun = TRUE
      BY <1>2 DEF Row
    <2> HIDE DEF r
    <2>3. RowFits(t, r)
      BY <1>2, <2>2 DEF RowFits
    <2>4. KindOf(t) = "copy" => made[t] = 0
      <3>1. KindOf(t) = "copy" => ledger[t].step = "materialize"
        BY <1>2 DEF KindOf, Row
      <3> QED
        BY <1>2, <2>1, <3>1 DEF RowFits
    <2>5. \A u \in Tasks : ledger'[u] # ledger[u] => RowFits(u, ledger'[u])
      BY <1>2, <2>1, <2>3 DEF Base, HostTyped
    <2>6. op'[w] = "copy" => made[task'[w]] = 0
      BY <1>1, <2>1, <2>4
    <2> QED
      BY <2>1, <2>5, <2>6, ThreadAlone, ThreadOutcome
  <1>4. CASE RecoverCapture(w)
    <2>1. UNCHANGED ledger /\ answer'[w] = NoAnswer /\ op'[w] = "capture"
      BY <1>4 DEF RecoverCapture, Submitted, hostVars, Base, ThreadsTyped
    <2> QED
      BY <2>1, ThreadAlone, ThreadOutcome
  <1> QED
    BY <1>3, <1>4

(* The other steps write nothing.                                          *)
LEMMA QuietOutcome ==
  ASSUME Base, Outcome, Base', NEW w \in Threads, ThreadStep(w),
         TakeLocks(w) \/ Abandon(w) \/ RecoverStep(w) \/ ObserveFailure(w)
  PROVE  Outcome'
  <1>1. UNCHANGED ledger
    BY DEF TakeLocks, Abandon, RecoverStep, ObserveFailure, hostVars
  <1>2. pc'[w] # "wait" \/ (answer'[w] = NoAnswer /\ op'[w] = "capture")
    BY DEF TakeLocks, Abandon, Released, RecoverStep, ObserveFailure, Submitted, Base, ThreadsTyped
  <1> QED
    BY <1>1, <1>2, ThreadAlone, ThreadOutcome

LEMMA StepOutcome ==
  ASSUME SourcesApart, Base, Outcome, Base', NEW w \in Threads, ThreadStep(w)
  PROVE  Outcome'
  BY QuietOutcome, SubmitOutcome, SuccessOutcome, SettleOutcome DEF ThreadStep

LEMMA ClaimOutcome ==
  ASSUME Base, Outcome, Base', NEW w \in Threads, NEW t \in Tasks, Claim(w, t)
  PROVE  Outcome'
  <1>1. Alone(w) /\ pc'[w] = "lock" /\ UNCHANGED ledger
    BY DEF Claim, Alone, Base, ThreadsTyped
  <1>2. UNCHANGED <<cloudVars, todo, request, pending>>
    BY DEF Claim, batchVars
  <1> QED
    BY <1>1, <1>2, ThreadOutcome
-----------------------------------------------------------------------------
(* The coordinator: batches and answers.                                   *)
LEMMA BatchOutcome ==
  ASSUME Base, Outcome, UNCHANGED <<cloudVars, hostVars, pc, task, op>>, Unsent' \subseteq Unsent,
         \A w \in Threads :
            answer'[w].state = "ok" /\ pc[w] = "wait" /\ answer'[w] # answer[w]
               => ReplyFits(task[w], answer'[w]),
         request'.phase = "sent" => request'.kind # "capture"
  PROVE  Outcome'
  <1>1. UNCHANGED <<dir, name, made, ledger>>
    BY DEF cloudVars, hostVars
  <1>2. \A t \in Tasks : CloudOf(t)' /\ RowFits(t, ledger[t])'
    BY <1>1 DEF Outcome, CloudOf, RowFits, OwnFile
  <1>3. ASSUME NEW w \in Threads PROVE AnswerOf(w)'
    <2>1. answer'[w].state = "ok" /\ pc[w] = "wait" => ReplyFits(task[w], answer'[w])
      BY DEF Outcome, AnswerOf
    <2> QED
      BY <1>1, <2>1 DEF AnswerOf, ReplyFits, OwnFile
  <1>4. \A w \in Threads : CopyOnce(w)'
    BY <1>1 DEF Outcome, CopyOnce
  <1> QED
    BY <1>1, <1>2, <1>3, <1>4 DEF Outcome

LEMMA TakeBatchOutcome ==
  ASSUME Base, Outcome, TakeBatch
  PROVE  Outcome'
  <1>1. PICK taken \in SUBSET SeqRange(pending) :
            /\ taken \subseteq Threads
            /\ request = NoRequest /\ SeqRange(pending') \subseteq SeqRange(pending)
            /\ todo' = {w \in taken : Leased(w)}
            /\ answer' = Fail({w \in taken : ~Leased(w)})
    BY TakeBatchForm
  <1>2. UNCHANGED <<cloudVars, hostVars, pc, task, op, request>>
    BY DEF TakeBatch
  <1>3. Unsent' \subseteq Unsent
    <2>1. SeqRange(pending)' = SeqRange(pending')
      BY DEF SeqRange
    <2> QED
      BY <1>1, <1>2, <2>1 DEF Unsent, NoRequest
  <1>4. \A w \in Threads : answer'[w] \in {answer[w], Failed}
    BY <1>1, FailFacts
  <1> QED
    BY <1>1, <1>2, <1>3, <1>4, ReplyFacts, BatchOutcome DEF NoRequest

LEMMA ExecuteBatchOutcome ==
  ASSUME Base, Outcome, NEW kind \in Kinds, ExecuteBatch(kind)
  PROVE  Outcome'
  <1> DEFINE group == {w \in todo : op[w] = kind}
             valid == {w \in group : Leased(w)}
  <1>1. /\ request = NoRequest /\ todo' = todo \ group /\ answer' = Fail(group \ valid)
        /\ request' = IF valid = {} THEN NoRequest
                      ELSE [phase |-> "valid", kind |-> kind, ops |-> valid]
        /\ UNCHANGED <<cloudVars, hostVars, pc, task, op, pending>>
    BY DEF ExecuteBatch, Remaining
  <1>2. valid \subseteq todo /\ request'.ops = valid /\ request'.phase # "sent"
    BY <1>1 DEF NoRequest
  <1>3. Unsent' \subseteq Unsent
    BY <1>1, <1>2 DEF Unsent, SeqRange
  <1>4. \A w \in Threads : answer'[w] \in {answer[w], Failed}
    BY <1>1, FailFacts
  <1> QED
    BY <1>1, <1>2, <1>3, <1>4, ReplyFacts, BatchOutcome

LEMMA AnsweredOutcome ==
  ASSUME Base, Outcome, request' = NoRequest,
         UNCHANGED <<cloudVars, hostVars, pc, task, op, pending, todo>>,
         \A w \in Threads : w \notin request.ops => answer'[w] = answer[w],
         \A w \in request.ops :
            answer'[w].state = "ok" => ReplyFits(task[w], answer'[w])
  PROVE  Outcome'
  <1>1. Unsent' \subseteq Unsent /\ request'.phase # "sent"
    BY DEF Unsent, SeqRange, NoRequest
  <1> QED
    BY <1>1, BatchOutcome

LEMMA CaptureOutcome ==
  ASSUME Base, Outcome, CaptureTarget
  PROVE  Outcome'
  <1>1. /\ request.kind = "capture" /\ request' = NoRequest
        /\ answer' = [w \in Threads |->
              IF w \notin request.ops THEN answer[w]
              ELSE IF dir[task[w]] = "src" THEN Captured(InTarget) ELSE Failed]
        /\ UNCHANGED <<cloudVars, hostVars, pc, task, op, pending, todo>>
    BY DEF CaptureTarget
  <1>2. ASSUME NEW w \in request.ops, answer'[w].state = "ok"
        PROVE  ReplyFits(task[w], answer'[w])
    <2> DEFINE t == task[w]
    <2>1. w \in Threads /\ t \in Tasks /\ ledger[t].step = "capture"
      BY <1>1, RequestFacts, ConstantFacts DEF KindOf
    <2>2. answer'[w].known = InTarget
      <3>1. InTarget \in SUBSET Files
        BY DEF InTarget
      <3> QED
        BY <1>1, <1>2, <2>1, <3>1, ReplyFacts
    <2>3. made[t] = 0 /\ CloudOf(t)
      BY <2>1 DEF Outcome, RowFits
    <2>4. OldFiles \subseteq InTarget
      BY ConstantFacts DEF Outcome, InTarget
    <2>5. InTarget \cap CopiesOf(t) = {}
      <3>1. ASSUME NEW i \in 1..MaxCopies PROVE dir[<<t, i>>] # "dst"
        BY <2>3, ConstantFacts DEF CloudOf
      <3> QED
        BY <3>1 DEF CopiesOf, InTarget
    <2> QED
      BY <2>1, <2>2, <2>4, <2>5 DEF ReplyFits
  <1> QED
    BY <1>1, <1>2, AnsweredOutcome

LEMMA ConfirmOutcome ==
  ASSUME SourcesApart, Base, Outcome, ConfirmRequest
  PROVE  Outcome'
  <1>1. /\ request.phase = "sent" /\ request' = NoRequest
        /\ answer' = [w \in Threads |->
              IF w \notin request.ops THEN answer[w]
              ELSE IF Seen(task[w]) THEN Evidence(task[w]) ELSE Failed]
        /\ UNCHANGED <<cloudVars, hostVars, pc, task, op, pending, todo>>
    BY DEF ConfirmRequest
  <1>2. ASSUME NEW w \in request.ops, answer'[w].state = "ok"
        PROVE  ReplyFits(task[w], answer'[w])
    <2>1. w \in Threads /\ task[w] \in Tasks /\ ledger[task[w]].step # "capture"
      BY <1>1, RequestFacts DEF KindOf, Outcome
    <2>2. Observe(task[w]) = "applied" /\ answer'[w] = Evidence(task[w])
      BY <1>1, <1>2, <2>1, ReplyFacts DEF Seen
    <2> QED
      BY <2>1, <2>2, EvidenceOwn
  <1> QED
    BY <1>1, <1>2, AnsweredOutcome

LEMMA ListingFailsOutcome ==
  ASSUME Base, Outcome, ListingFails
  PROVE  Outcome'
  <1>1. answer' = Fail(request.ops) /\ request' = NoRequest
        /\ UNCHANGED <<cloudVars, hostVars, pc, task, op, pending, todo>>
    BY DEF ListingFails
  <1>2. request.ops \subseteq Threads
    BY DEF Base, BatchTyped
  <1> QED
    BY <1>1, <1>2, FailFacts, ReplyFacts, AnsweredOutcome
-----------------------------------------------------------------------------
(* Requests sent to the cloud, and what happens around the process.        *)

(* Files only arrive in the target folder.                                 *)
LEMMA ArriveOutcome ==
  ASSUME Base, Outcome, UNCHANGED <<name, ledger, pc, task, op, answer>>,
         \A f \in Files : dir[f] = "dst" => dir'[f] = "dst",
         \A t \in Tasks : \/ made'[t] = made[t]
                          \/ ledger[t].step = "materialize" /\ ledger[t].begun,
         \A t \in Tasks : CloudOf(t)', \A w \in Threads : CopyOnce(w)',
         request'.phase = "sent" => request'.kind # "capture"
  PROVE  Outcome'
  <1>1. \A f \in OldFiles : dir'[f] = "dst"
    BY ConstantFacts DEF Outcome
  <1>2. ASSUME NEW t \in Tasks, NEW f, OwnFile(t, f), dir[f] = "dst" PROVE dir'[f] = "dst"
    <2>1. f \in Files
      BY <1>2, FileFacts DEF OwnFile, OwnFiles
    <2> QED
      BY <1>2, <2>1
  <1>3. ASSUME NEW t \in Tasks PROVE RowFits(t, ledger[t])'
    <2>1. RowFits(t, ledger[t])
      BY DEF Outcome
    <2> QED
      BY <1>2, <2>1 DEF RowFits, OwnFile
  <1>4. ASSUME NEW w \in Threads PROVE AnswerOf(w)'
    <2>1. pc[w] = "wait" => task[w] \in Tasks
      BY BaseFacts DEF HoldsLocks
    <2>2. AnswerOf(w)
      BY DEF Outcome
    <2> QED
      BY <1>2, <2>1, <2>2 DEF AnswerOf, ReplyFits, OwnFile
  <1> QED
    BY <1>1, <1>3, <1>4 DEF Outcome

LEMMA MovedOutcome ==
  ASSUME Base, Outcome, NEW at \in SUBSET Tasks, \A t \in at : Mode[t] = "move", Moved(at),
         UNCHANGED <<ledger, pc, task, op, answer>>,
         Unsent' \subseteq Unsent, request'.kind # "capture"
  PROVE  Outcome'
  <1>1. /\ dir' = [f \in Files |-> IF f \in at /\ dir[f] = "src" THEN "dst" ELSE dir[f]]
        /\ UNCHANGED <<name, made>>
    BY DEF Moved
  <1>2. ASSUME NEW t \in Tasks PROVE CloudOf(t)'
    <2>1. CloudOf(t)
      BY DEF Outcome
    <2>2. \A f \in CopiesOf(t) : dir'[f] = dir[f]
      BY <1>1, FileFacts DEF OwnFiles
    <2>3. Mode[t] = "copy" => dir'[t] = dir[t]
      BY <1>1, ConstantFacts
    <2> QED
      BY <1>1, <2>1, <2>2, <2>3 DEF CloudOf, CopiesOf
  <1>3. \A w \in Threads : CopyOnce(w)'
    BY <1>1 DEF Outcome, CopyOnce
  <1> QED
    BY <1>1, <1>2, <1>3, ArriveOutcome

LEMMA CopiedOutcome ==
  ASSUME Base, Outcome, NEW at \in SUBSET Tasks, Copied(at),
         UNCHANGED <<ledger, pc, task, op, answer>>,
         \A t \in at : /\ Mode[t] = "copy" /\ made[t] = 0
                       /\ ledger[t].step = "materialize" /\ ledger[t].begun,
         \A w \in Threads : w \in Unsent' => w \in Unsent /\ task[w] \in Tasks \ at,
         request'.kind # "capture"
  PROVE  Outcome'
  <1>1. /\ dir' = [f \in Files |->
              IF f \in Copies /\ NewCopy(at, f[1]) /\ f[2] = made[f[1]] + 1 THEN "dst" ELSE dir[f]]
        /\ made' = [t \in Tasks |-> IF NewCopy(at, t) THEN made[t] + 1 ELSE made[t]]
        /\ UNCHANGED name
    BY DEF Copied
  <1>2. \A t \in Tasks \ at : made'[t] = made[t]
    BY <1>1 DEF NewCopy
  <1>3. ASSUME NEW t \in Tasks PROVE CloudOf(t)'
    <2>1. CloudOf(t) /\ made[t] \in 0..MaxCopies /\ MaxCopies \in Nat
      BY ConstantFacts DEF Outcome, Base, CloudTyped
    <2>2. dir'[t] = dir[t]
      BY <1>1, FileFacts, ConstantFacts
    <2>3. ASSUME NEW i \in 1..MaxCopies
          PROVE  /\ <<t, i>> \in CopiesOf(t)
                 /\ dir'[<<t, i>>] = IF NewCopy(at, t) /\ i = made[t] + 1
                                     THEN "dst" ELSE dir[<<t, i>>]
      <3>1. <<t, i>> \in CopiesOf(t)
        BY DEF CopiesOf
      <3>2. <<t, i>> \in Files /\ <<t, i>> \in Copies
        BY <3>1, FileFacts, ConstantFacts
      <3> QED
        BY <1>1, <3>1, <3>2
    <2>4. CASE NewCopy(at, t)
      <3>1. t \in at /\ made[t] = 0 /\ made'[t] = 1 /\ Mode[t] = "copy"
        BY <1>1, <2>4 DEF NewCopy
      <3>2. ASSUME NEW i \in 1..MaxCopies PROVE (dir'[<<t, i>>] = "dst") <=> (i <= 1)
        BY <2>1, <2>3, <2>4, <3>1 DEF CloudOf
      <3> QED
        BY <1>1, <2>1, <2>2, <3>1, <3>2 DEF CloudOf
    <2>5. CASE ~NewCopy(at, t)
      <3>1. made'[t] = made[t] /\ \A i \in 1..MaxCopies : dir'[<<t, i>>] = dir[<<t, i>>]
        BY <1>1, <2>3, <2>5
      <3> QED
        BY <1>1, <2>1, <2>2, <3>1 DEF CloudOf
    <2> QED
      BY <2>4, <2>5
  <1>4. \A w \in Threads : CopyOnce(w)'
    BY <1>2 DEF Outcome, CopyOnce
  <1>5. \A f \in Files : dir[f] = "dst" => dir'[f] = "dst"
    BY <1>1
  <1> QED
    BY <1>1, <1>2, <1>3, <1>4, <1>5, ArriveOutcome

LEMMA RenamedOutcome ==
  ASSUME Base, Outcome, NEW at \in SUBSET Tasks, Renamed(at),
         \A t \in at : ledger[t].step = "rename",
         UNCHANGED <<ledger, pc, task, op, answer>>,
         Unsent' \subseteq Unsent, request'.kind # "capture"
  PROVE  Outcome'
  <1>1. /\ name' = [f \in Files |->
              IF dir[f] = "dst" /\ \E t \in at : ledger[t].file = f
              THEN TgtName[CHOOSE t \in at : ledger[t].file = f] ELSE name[f]]
        /\ UNCHANGED <<dir, made>>
    BY DEF Renamed
  <1>2. ASSUME NEW t \in Tasks, NEW f \in OwnFiles(t)
        PROVE  name'[f] = IF dir[f] = "dst" /\ t \in at /\ ledger[t].file = f
                          THEN TgtName[t] ELSE name[f]
    <2>1. ASSUME NEW u \in at, ledger[u].file = f PROVE u = t
      <3>1. OwnFile(u, f)
        BY <2>1 DEF Outcome, RowFits
      <3>2. f \in OwnFiles(u)
        BY <3>1 DEF OwnFile, OwnFiles
      <3> QED
        BY <1>2, <2>1, <3>2, FileFacts
    <2>2. CASE t \in at /\ ledger[t].file = f
      <3>1. (CHOOSE u \in at : ledger[u].file = f) = t
        BY <2>1, <2>2
      <3> QED
        BY <1>1, <2>2, <3>1, FileFacts
    <2>3. CASE ~(t \in at /\ ledger[t].file = f)
      <3>1. ~\E u \in at : ledger[u].file = f
        BY <2>1, <2>3
      <3> QED
        BY <1>1, <2>3, <3>1, FileFacts
    <2> QED
      BY <2>2, <2>3
  <1>3. ASSUME NEW t \in Tasks PROVE CloudOf(t)'
    <2>1. CloudOf(t)
      BY DEF Outcome
    <2>2. \A f \in OwnFiles(t) : name'[f] \in {name[f], TgtName[t]}
      BY <1>2
    <2>3. \A f \in OwnFiles(t) : name'[f] \in {SrcName[t], TgtName[t]}
      BY <2>1, <2>2 DEF CloudOf
    <2> QED
      BY <1>1, <2>1, <2>3 DEF CloudOf
  <1>4. ASSUME NEW t \in Tasks, NEW f, OwnFile(t, f) PROVE f \in OwnFiles(t)
    BY <1>4 DEF OwnFile, OwnFiles
  <1>5. ASSUME NEW t \in Tasks PROVE RowFits(t, ledger[t])'
    <2>1. RowFits(t, ledger[t])
      BY DEF Outcome
    <2>2. ledger[t].step # "rename" => \A f \in OwnFiles(t) : name'[f] = name[f]
      BY <1>2
    <2>3. ledger[t].step = "rename" =>
             /\ OwnFile(t, ledger[t].file)
             /\ name'[ledger[t].file] \in {name[ledger[t].file], TgtName[t]}
      BY <1>2, <1>4, <2>1 DEF RowFits
    <2> QED
      BY <1>1, <2>1, <2>2, <2>3 DEF RowFits, OwnFile
  <1>6. ASSUME NEW w \in Threads PROVE AnswerOf(w)'
    <2>1. AnswerOf(w)
      BY DEF Outcome
    <2>2. ASSUME pc[w] = "wait", answer[w].state = "ok" PROVE ReplyFits(task[w], answer[w])'
      <3> DEFINE t == task[w]
      <3>1. t \in Tasks /\ ReplyFits(t, answer[w]) /\ RowFits(t, ledger[t])
        BY <2>1, <2>2, BaseFacts DEF HoldsLocks, AnswerOf, Outcome
      <3>2. CASE ledger[t].step = "rename"
        <4>1. name'[ledger[t].file] \in {name[ledger[t].file], TgtName[t]}
          BY <1>2, <1>4, <3>1, <3>2 DEF RowFits
        <4> QED
          BY <3>1, <3>2, <4>1 DEF ReplyFits
      <3>3. CASE ledger[t].step = "materialize"
        <4>1. OwnFile(t, answer[w].file) /\ name'[answer[w].file] = name[answer[w].file]
          BY <1>2, <1>4, <3>1, <3>3 DEF ReplyFits
        <4> QED
          BY <1>1, <3>1, <3>3, <4>1 DEF ReplyFits, OwnFile
      <3>4. CASE ledger[t].step = "capture"
        BY <3>1, <3>4 DEF ReplyFits
      <3> QED
        BY <3>1, <3>2, <3>3, <3>4 DEF Base, HostTyped, Row
    <2> QED
      BY <2>2 DEF AnswerOf
  <1>7. \A w \in Threads : CopyOnce(w)'
    BY <1>1 DEF Outcome, CopyOnce
  <1> QED
    BY <1>1, <1>3, <1>5, <1>6, <1>7 DEF Outcome

LEMMA SendOutcome ==
  ASSUME Base, Outcome, NEW applied \in SUBSET request.ops, SendRequest(applied)
  PROVE  Outcome'
  <1> DEFINE at == At(applied)
  <1>1. /\ request.phase = "valid" /\ request' = [request EXCEPT !.phase = "sent"]
        /\ UNCHANGED <<ledger, pc, task, op, answer, pending, todo>>
        /\ at \in SUBSET Tasks /\ \A t \in at : \E w \in applied : task[w] = t
        /\ request.kind # "capture"
    BY SendForm DEF hostVars
  <1>2. /\ request'.phase = "sent" /\ request'.kind = request.kind
        /\ Unsent' = SeqRange(pending) \cup todo
    BY <1>1 DEF Base, BatchTyped, Unsent, SeqRange
  <1>3. Unsent' \subseteq Unsent
    BY <1>2 DEF Unsent
  <1>4. ASSUME NEW t \in at
        PROVE  \E w \in request.ops : /\ w \in Threads /\ task[w] = t /\ HoldsLocks(w)
                                      /\ op[w] = request.kind /\ request.kind = KindOf(t)
                                      /\ ledger[t].begun /\ ledger[t] \in Row
    BY <1>1, RequestFacts DEF Base, HostTyped
  <1> HIDE DEF at
  <1>5. CASE request.kind = "move" /\ Moved(at)
    <2>1. \A t \in at : Mode[t] = "move"
      BY <1>4, <1>5 DEF KindOf, Row
    <2> QED
      BY <1>1, <1>2, <1>3, <1>5, <2>1, MovedOutcome
  <1>6. CASE request.kind = "copy" /\ Copied(at)
    <2>1. ASSUME NEW t \in at
          PROVE  /\ Mode[t] = "copy" /\ made[t] = 0
                 /\ ledger[t].step = "materialize" /\ ledger[t].begun
      <3>1. PICK w \in request.ops : /\ w \in Threads /\ task[w] = t /\ op[w] = "copy"
                                     /\ KindOf(t) = "copy" /\ ledger[t].begun /\ ledger[t] \in Row
        BY <1>4, <1>6
      <3>2. ledger[t].step = "materialize" /\ Mode[t] = "copy"
        BY <3>1 DEF KindOf, Row
      <3>3. w \in Unsent
        BY <1>1 DEF Unsent
      <3> QED
        BY <3>1, <3>2, <3>3 DEF Outcome, CopyOnce
    <2>2. ASSUME NEW v \in Threads, v \in Unsent' PROVE task[v] \in Tasks \ at
      <3>1. v \in Queued /\ v \notin request.ops
        BY <1>2, <2>2 DEF Queued, Base, QueueSound
      <3>2. HoldsLocks(v) /\ task[v] \in Tasks
        BY <3>1, BaseFacts DEF Base, QueueSound, HoldsLocks
      <3> QED
        BY <1>4, <3>1, <3>2 DEF Base, Exclusive
    <2> QED
      BY <1>1, <1>2, <1>3, <1>6, <2>1, <2>2, CopiedOutcome
  <1>7. CASE request.kind = "rename" /\ Renamed(at)
    <2>1. \A t \in at : ledger[t].step = "rename"
      BY <1>1, <1>4, <1>7, ConstantFacts DEF KindOf
    <2> QED
      BY <1>1, <1>2, <1>3, <1>7, <2>1, RenamedOutcome
  <1> QED
    BY <1>5, <1>6, <1>7, SendForm DEF at

LEMMA CoordinatorOutcome ==
  ASSUME SourcesApart, Base, Outcome, Coordinator
  PROVE  Outcome'
  BY TakeBatchOutcome, ExecuteBatchOutcome, CaptureOutcome, SendOutcome, ConfirmOutcome,
     ListingFailsOutcome
  DEF Coordinator

(* Leases, sources of others and the process may go at any time.           *)
LEMMA AroundOutcome ==
  ASSUME Base, Outcome,
         Crash \/ (\E t \in Tasks : LoseLease(t) \/ SourceVanishes(t)) \/ UNCHANGED vars
  PROVE  Outcome'
  <1>1. CASE Crash
    <2>1. /\ pc' = [w \in Threads |-> "free"] /\ pending' = <<>> /\ todo' = {}
          /\ request' = NoRequest /\ UNCHANGED <<dir, name, made, ledger>>
      BY <1>1 DEF Crash, cloudVars
    <2>2. \A w \in Threads : AnswerOf(w)' /\ CopyOnce(w)'
      BY <2>1 DEF AnswerOf, CopyOnce, Unsent, SeqRange, NoRequest
    <2>3. \A t \in Tasks : CloudOf(t)' /\ RowFits(t, ledger[t])'
      BY <2>1 DEF Outcome, CloudOf, RowFits, OwnFile
    <2> QED
      BY <2>1, <2>2, <2>3 DEF Outcome, NoRequest
  <1>2. CASE UNCHANGED vars \/ \E t \in Tasks : LoseLease(t)
    <2>1. UNCHANGED <<dir, name, made, ledger, pc, task, op, answer, pending, todo, request>>
      BY <1>2 DEF vars, LoseLease, cloudVars, hostVars, threadVars, batchVars
    <2>2. \A t \in Tasks : CloudOf(t)'
      BY <2>1 DEF Outcome, CloudOf
    <2>3. \A w \in Threads : CopyOnce(w)'
      BY <2>1 DEF Outcome, CopyOnce, Unsent, SeqRange
    <2> QED
      BY <2>1, <2>2, <2>3, ArriveOutcome DEF Outcome
  <1>3. ASSUME NEW t \in Tasks, SourceVanishes(t) PROVE Outcome'
    <2>1. /\ dir[t] = "src" /\ dir' = [dir EXCEPT ![t] = "gone"]
          /\ UNCHANGED <<name, made, ledger, pc, task, op, answer, pending, todo, request>>
      BY <1>3 DEF SourceVanishes, hostVars, threadVars, batchVars
    <2>2. \A f \in Files \ {t} : dir'[f] = dir[f]
      BY <2>1 DEF Base, CloudTyped
    <2>3. dir'[t] = "gone"
      BY <2>1, ConstantFacts DEF Base, CloudTyped
    <2>4. ASSUME NEW u \in Tasks PROVE CloudOf(u)'
      <3>1. CloudOf(u)
        BY DEF Outcome
      <3>2. \A f \in CopiesOf(u) : dir'[f] = dir[f]
        BY <2>2, FileFacts, ConstantFacts
      <3>3. dir[u] # "dst" => dir'[u] # "dst"
        BY <2>2, <2>3, ConstantFacts
      <3> QED
        BY <2>1, <3>1, <3>2, <3>3 DEF CloudOf, CopiesOf
    <2>5. \A w \in Threads : CopyOnce(w)'
      BY <2>1 DEF Outcome, CopyOnce, Unsent, SeqRange
    <2>6. \A f \in Files : dir[f] = "dst" => dir'[f] = "dst"
      BY <2>1, <2>2
    <2> QED
      BY <2>1, <2>4, <2>5, <2>6, ArriveOutcome DEF Outcome
  <1> QED
    BY <1>1, <1>2, <1>3

(* The inductive invariant, as long as sources can be told apart.          *)
THEOREM OutcomeInvariance == SourcesApart => (Spec => []IInv)
  <1> SUFFICES ASSUME SourcesApart PROVE Spec => []IInv
    OBVIOUS
  <1>1. Init => IInv
    BY InitBase, InitOutcome DEF IInv
  <1>2. IInv /\ [Next]_vars => IInv'
    <2> SUFFICES ASSUME IInv, [Next]_vars PROVE IInv'
      OBVIOUS
    <2>1. Base /\ Outcome /\ Base'
      BY NextBase DEF IInv
    <2>2. Outcome'
      <3>1. CASE \E w \in Threads, t \in Tasks : Claim(w, t)
        BY <2>1, <3>1, ClaimOutcome
      <3>2. CASE \E w \in Threads : ThreadStep(w)
        BY <2>1, <3>2, StepOutcome
      <3>3. CASE Coordinator
        BY <2>1, <3>3, CoordinatorOutcome
      <3>4. CASE Crash \/ (\E t \in Tasks : LoseLease(t) \/ SourceVanishes(t)) \/ UNCHANGED vars
        BY <2>1, <3>4, AroundOutcome
      <3> QED
        BY <3>1, <3>2, <3>3, <3>4 DEF Next
    <2> QED
      BY <2>1, <2>2 DEF IInv
  <1> QED
    BY <1>1, <1>2, PTL DEF Spec

(* A copy is made once, whatever is lost, retried, taken over or crashed   *)
(* (NOT_APPLIED of _observe_materialize is never concluded of a copy that  *)
(* was made).                                                              *)
THEOREM CopiedOnce == SourcesApart => (Spec => []NoDuplicateCopy)
  <1> SUFFICES ASSUME SourcesApart PROVE Spec => []NoDuplicateCopy
    OBVIOUS
  <1>1. IInv => NoDuplicateCopy
    BY DEF IInv, Outcome, CloudOf, NoDuplicateCopy
  <1> QED
    BY <1>1, OutcomeInvariance, PTL

(* The file a task goes on with is its own (the evidence of                *)
(* _observe_materialize).                                                  *)
THEOREM LandedOwn == SourcesApart => (Spec => []LandedIsOwn)
  <1> SUFFICES ASSUME SourcesApart PROVE Spec => []LandedIsOwn
    OBVIOUS
  <1>1. IInv => LandedIsOwn
    BY DEF IInv, Base, RowsSound, RowSound, Outcome, RowFits, OwnFile, CopiesOf, LandedIsOwn
  <1> QED
    BY <1>1, OutcomeInvariance, PTL

(* A task reported as completed is in the target folder under its planned  *)
(* name (_observe_rename, and the lease the ledger checks).                *)
THEOREM CompletedInPlace == SourcesApart => (Spec => []CompletedIsInPlace)
  <1> SUFFICES ASSUME SourcesApart PROVE Spec => []CompletedIsInPlace
    OBVIOUS
  <1>1. IInv => CompletedIsInPlace
    BY DEF IInv, Outcome, RowFits, CompletedIsInPlace
  <1> QED
    BY <1>1, OutcomeInvariance, PTL

(* No two tasks go on with one file: what the documentation promises of a  *)
(* landed file holds exactly under the hypothesis its violation lacks.     *)
THEOREM LandedKept == SourcesApart => (Spec => []LandedFileKept)
  <1> SUFFICES ASSUME SourcesApart PROVE Spec => []LandedFileKept
    OBVIOUS
  <1>1. IInv => LandedFileKept
    <2> SUFFICES ASSUME IInv, NEW t \in Tasks, NEW u \in Tasks, t # u, ledger[t].file # None
                 PROVE  ledger[t].file # ledger[u].file
      BY DEF LandedFileKept
    <2>1. OwnFile(t, ledger[t].file) /\ (ledger[u].file # None => OwnFile(u, ledger[u].file))
      BY DEF IInv, Base, RowsSound, RowSound, Outcome, RowFits
    <2> QED
      BY <2>1, FileFacts DEF OwnFile, OwnFiles
  <1> QED
    BY <1>1, OutcomeInvariance, PTL
=============================================================================
