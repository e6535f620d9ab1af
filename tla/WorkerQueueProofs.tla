------------------------- MODULE WorkerQueueProofs --------------------------
(***************************************************************************)
(* Proofs about WorkerQueue, for any number of stoppers, generations,      *)
(* tasks and worker deaths.                                                *)
(*                                                                         *)
(* The inductive invariant IInv says that only the last generation counts: *)
(* its queue holds, in order and without a gap, the tasks after those that *)
(* are settled or in the worker's hands, up to the last one accepted, with *)
(* at most one sentinel behind them.                                       *)
(***************************************************************************)
EXTENDS WorkerQueue, TLAPS

(* Is the worker of generation q busy with a task? *)
Busy(q) == IF q \in Gens /\ wpc[q] = "busy" THEN 1 ELSE 0

(* Is the last entry of queue q a sentinel? *)
Sentinels(q) == IF /\ Len(contents[q]) > 0
                   /\ contents[q][Len(contents[q])] = Sentinel
                THEN 1 ELSE 0

LastGeneration ==
    /\ queue \in {0, gen}
    /\ worker = queue
    /\ \A g \in Gens : /\ Alive(g) => g = worker
                       /\ wpc[g] \in {"get", "busy", "exit"} => wqueue[g] = g

OthersEmpty == \A g \in Gens : g # queue => /\ contents[g] = <<>>
                                            /\ unfinished[g] = 0

Counted == queue # 0 => unfinished[queue] = Len(contents[queue]) + Busy(queue)

Consecutive ==
    queue # 0 => \A i \in 1..Len(contents[queue]) :
        \/ contents[queue][i] = Len(handled) + Busy(queue) + i
        \/ i = Len(contents[queue]) /\ contents[queue][i] = Sentinel

NothingLost ==
    admitted = IF queue = 0 THEN Len(handled)
               ELSE Len(handled) + Busy(queue) + Len(contents[queue])
                                               - Sentinels(queue)

InHand == \A g \in Gens : wpc[g] = "busy" => wtask[g] = Len(handled) + 1

Stopping ==
    /\ queue # 0 /\ ~stopping => Sentinels(queue) = 0
    /\ lifecycle # NoClient =>
          stopping /\ captured = [queue |-> queue, worker |-> worker]

IInv == /\ TypeOK
        /\ SettledInOrder
        /\ LastGeneration
        /\ OthersEmpty
        /\ Counted
        /\ Consecutive
        /\ NothingLost
        /\ InHand
        /\ Stopping
-----------------------------------------------------------------------------
(* Facts about the sequences of task numbers a queue is made of. *)

LEMMA AppendFacts ==
    ASSUME NEW S, NEW s \in Seq(S), NEW e \in S
    PROVE  /\ Append(s, e) \in Seq(S)
           /\ Len(Append(s, e)) = Len(s) + 1
           /\ Len(s) \in Nat
           /\ Append(s, e)[Len(s) + 1] = e
           /\ \A i \in 1..Len(s) : Append(s, e)[i] = s[i]
  OBVIOUS

LEMMA TailFacts ==
    ASSUME NEW S, NEW s \in Seq(S), s # <<>>
    PROVE  /\ Head(s) \in S
           /\ Head(s) = s[1]
           /\ Tail(s) \in Seq(S)
           /\ Len(s) \in Nat \ {0}
           /\ Len(Tail(s)) = Len(s) - 1
           /\ \A i \in 1..Len(Tail(s)) : Tail(s)[i] = s[i + 1]
  OBVIOUS

(* What holds of a worker past its boot: it is the current one.            *)
LEMMA Current ==
    ASSUME IInv, NEW g \in Gens, wpc[g] \in {"get", "busy", "exit"}
    PROVE  /\ queue = g /\ worker = g /\ wqueue[g] = g /\ queue # 0
           /\ Len(contents[g]) \in Nat /\ Len(handled) \in Nat
           /\ contents[g] \in Seq(0..MaxTasks)
           /\ unfinished[g] \in Nat
  BY DEF IInv, TypeOK, LastGeneration, Alive, Gens

THEOREM InitIInv == Init => IInv
<1> SUFFICES ASSUME Init PROVE IInv
  OBVIOUS
<1> USE DEF Init, Gens
<1>1. TypeOK
  <2>1. <<>> \in Seq(0..MaxTasks)
    OBVIOUS
  <2>2. captured \in [queue : 0..MaxGen, worker : 0..MaxGen]
    BY ConstantsAssumption
  <2>3. contents \in [Gens -> Seq(0..MaxTasks)] /\ handled \in Seq(0..MaxTasks)
    BY <2>1
  <2>4. /\ queue \in 0..MaxGen /\ worker \in 0..MaxGen /\ gen \in 0..MaxGen
        /\ admitted \in 0..MaxTasks /\ deaths \in 0..MaxDeaths
    BY ConstantsAssumption
  <2>5. /\ unfinished \in [Gens -> Nat]
        /\ wqueue \in [Gens -> 0..MaxGen]
        /\ wtask \in [Gens -> 0..MaxTasks]
    BY ConstantsAssumption
  <2>6. wpc \in [Gens -> WorkerPCs]
    BY DEF WorkerPCs
  <2>7. stopping \in BOOLEAN /\ lifecycle \in Clients \cup {NoClient}
    OBVIOUS
  <2> QED
    BY <2>2, <2>3, <2>4, <2>5, <2>6, <2>7 DEF TypeOK
<1>2. SettledInOrder
  BY DEF SettledInOrder
<1>3. LastGeneration
  BY DEF LastGeneration, Alive
<1>4. OthersEmpty /\ Counted /\ Consecutive /\ InHand /\ Stopping
  BY DEF OthersEmpty, Counted, Consecutive, InHand, Stopping
<1>5. NothingLost
  BY DEF NothingLost
<1> QED
  BY <1>1, <1>2, <1>3, <1>4, <1>5 DEF IInv
-----------------------------------------------------------------------------
(* A new generation begins with nothing left over from the ones before.    *)
LEMMA CleanStart ==
    ASSUME IInv, CanStart
    PROVE  /\ gen + 1 \in Gens /\ gen + 1 # 0
           /\ \A g \in Gens : /\ contents[g] = <<>>
                              /\ unfinished[g] = 0
                              /\ ~Alive(g)
           /\ Len(handled) = admitted
<1> USE DEF IInv, TypeOK
<1>1. gen + 1 \in Gens /\ gen + 1 # 0
  BY ConstantsAssumption DEF CanStart, Gens
<1>2. \A g \in Gens : ~Alive(g)
  BY DEF CanStart, LastGeneration
<1>3. CASE queue = 0
  BY <1>1, <1>2, <1>3 DEF OthersEmpty, NothingLost, Gens
<1>4. CASE queue # 0
  <2>1. queue \in Gens /\ unfinished[queue] = 0
    BY <1>4 DEF CanStart, Unsettled, Gens
  <2>2. wpc[queue] # "busy"
    BY <1>2, <2>1 DEF Alive
  <2>3. contents[queue] \in Seq(0..MaxTasks) /\ Len(contents[queue]) \in Nat
    BY <2>1
  <2>4. Len(contents[queue]) = 0 /\ Busy(queue) = 0
    BY <1>4, <2>1, <2>2, <2>3 DEF Counted, Busy
  <2>5. contents[queue] = <<>>
    BY <2>3, <2>4
  <2>6. Sentinels(queue) = 0
    BY <2>4 DEF Sentinels
  <2>7. Len(handled) = admitted
    BY <1>4, <2>4, <2>6 DEF NothingLost
  <2> QED
    BY <1>1, <1>2, <2>1, <2>5, <2>7 DEF OthersEmpty
<1> QED
  BY <1>3, <1>4

LEMMA StartStep ==
    ASSUME IInv, Start
    PROVE  IInv'
<1> USE DEF Start, NewGeneration
<1>1. /\ gen + 1 \in Gens /\ gen + 1 # 0
      /\ \A g \in Gens : contents[g] = <<>> /\ unfinished[g] = 0 /\ ~Alive(g)
      /\ Len(handled) = admitted
  BY CleanStart
<1>2. /\ queue' = gen + 1 /\ worker' = gen + 1 /\ gen' = gen + 1
      /\ contents' = contents /\ unfinished' = unfinished
      /\ handled' = handled /\ admitted' = admitted
      /\ wqueue' = wqueue /\ wtask' = wtask /\ stopping' = FALSE
  BY DEF stopVars
<1>3. /\ wpc' \in [Gens -> WorkerPCs]
      /\ wpc'[gen + 1] = "boot"
      /\ \A g \in Gens : wpc'[g] # "busy"
      /\ \A g \in Gens : g # gen + 1 => wpc'[g] = wpc[g] 
  BY <1>1 DEF IInv, TypeOK, Alive, WorkerPCs
<1>4. TypeOK'
  <2>1. queue' \in 0..MaxGen /\ worker' \in 0..MaxGen /\ gen' \in 0..MaxGen
    BY <1>1, <1>2, ConstantsAssumption DEF Gens
  <2> QED
    BY <1>2, <1>3, <2>1 DEF IInv, TypeOK, stopVars
<1>5. SettledInOrder'
  BY <1>2 DEF IInv, SettledInOrder
<1>6. LastGeneration'
  BY <1>1, <1>2, <1>3 DEF LastGeneration, Alive
<1>7. OthersEmpty'
  BY <1>1, <1>2 DEF OthersEmpty
<1>8. Busy(queue)' = 0 /\ Len(contents[queue])' = 0 /\ Sentinels(queue)' = 0
  BY <1>1, <1>2, <1>3 DEF Busy, Sentinels
<1>9. Counted' /\ Consecutive'
  BY <1>1, <1>2, <1>8 DEF Counted, Consecutive
<1>10. NothingLost'
  BY <1>1, <1>2, <1>8 DEF IInv, TypeOK, NothingLost
<1>11. InHand'
  BY <1>3 DEF InHand
<1>12. Stopping'
  BY <1>2, <1>8 DEF Stopping, stopVars
<1> QED
  BY <1>4, <1>5, <1>6, <1>7, <1>9, <1>10, <1>11, <1>12 DEF IInv

LEMMA EnqueueLazilyStep ==
    ASSUME IInv, EnqueueLazily
    PROVE  IInv'
<1> USE DEF EnqueueLazily, NewGeneration, Accept, Put
<1>1. /\ gen + 1 \in Gens /\ gen + 1 # 0
      /\ \A g \in Gens : contents[g] = <<>> /\ unfinished[g] = 0 /\ ~Alive(g)
      /\ Len(handled) = admitted
  BY CleanStart
<1>2. /\ queue' = gen + 1 /\ worker' = gen + 1 /\ gen' = gen + 1
      /\ handled' = handled /\ admitted' = admitted + 1
      /\ wqueue' = wqueue /\ wtask' = wtask /\ stopping' = FALSE
      /\ lifecycle' = lifecycle /\ captured' = captured
  BY DEF stopVars
<1>3. /\ wpc' \in [Gens -> WorkerPCs]
      /\ wpc'[gen + 1] = "boot"
      /\ \A g \in Gens : wpc'[g] # "busy"
      /\ \A g \in Gens : g # gen + 1 => wpc'[g] = wpc[g]
  BY <1>1 DEF IInv, TypeOK, Alive, WorkerPCs
<1>4. /\ admitted' \in 0..MaxTasks /\ admitted' # 0
      /\ admitted + 1 \in 0..MaxTasks
  BY <1>2, ConstantsAssumption DEF IInv, TypeOK
<1>5. /\ Append(<<>>, admitted') \in Seq(0..MaxTasks)
      /\ Len(Append(<<>>, admitted')) = 1
      /\ Append(<<>>, admitted')[1] = admitted'
  BY <1>4
<1>6. /\ contents' \in [Gens -> Seq(0..MaxTasks)]
      /\ contents'[gen + 1] = Append(<<>>, admitted')
      /\ \A g \in Gens : g # gen + 1 => contents'[g] = <<>>
  BY <1>1, <1>2, <1>5 DEF IInv, TypeOK
<1>7. /\ unfinished' \in [Gens -> Nat]
      /\ unfinished'[gen + 1] = 1
      /\ \A g \in Gens : g # gen + 1 => unfinished'[g] = 0
  BY <1>1 DEF IInv, TypeOK
<1>8. TypeOK'
  <2>1. queue' \in 0..MaxGen /\ worker' \in 0..MaxGen /\ gen' \in 0..MaxGen
    BY <1>1, <1>2, ConstantsAssumption DEF Gens
  <2> QED
    BY <1>2, <1>3, <1>4, <1>6, <1>7, <2>1 DEF IInv, TypeOK
<1>9. SettledInOrder'
  BY <1>2 DEF IInv, SettledInOrder
<1>10. LastGeneration'
  BY <1>1, <1>2, <1>3 DEF LastGeneration, Alive
<1>11. OthersEmpty'
  BY <1>2, <1>6, <1>7 DEF OthersEmpty
<1>12. Busy(queue)' = 0 /\ Len(contents[queue])' = 1 /\ Sentinels(queue)' = 0
  BY <1>1, <1>2, <1>3, <1>4, <1>5, <1>6 DEF Busy, Sentinels, Sentinel
<1>13. Counted' /\ NothingLost' /\ InHand'
  BY <1>1, <1>2, <1>3, <1>7, <1>12
  DEF IInv, TypeOK, Counted, NothingLost, InHand
<1>14. Consecutive'
  BY <1>1, <1>2, <1>5, <1>6, <1>12 DEF IInv, TypeOK, Consecutive
<1>15. Stopping'
  BY <1>1, <1>2, <1>12 DEF IInv, Stopping
<1> QED
  BY <1>8, <1>9, <1>10, <1>11, <1>13, <1>14, <1>15 DEF IInv

-----------------------------------------------------------------------------
(* Steps that leave the workers alone.                                     *)
LEMMA WorkersUntouched ==
    ASSUME IInv, UNCHANGED <<queue, worker, gen, workerVars>>
    PROVE  /\ SettledInOrder' /\ LastGeneration' /\ InHand'
           /\ Busy(queue)' = Busy(queue)
           /\ wpc' = wpc /\ handled' = handled /\ queue' = queue
           /\ UNCHANGED <<queue, worker, gen, wpc, wqueue, wtask, handled, deaths>>
<1>1. UNCHANGED <<queue, worker, gen, wpc, wqueue, wtask, handled, deaths>>
  BY DEF workerVars
<1>2. SettledInOrder'
  BY <1>1 DEF IInv, SettledInOrder
<1>3. LastGeneration'
  BY <1>1 DEF IInv, LastGeneration, Alive
<1>4. InHand'
  BY <1>1 DEF IInv, InHand
<1>5. Busy(queue)' = Busy(queue)
  BY <1>1 DEF Busy
<1> QED
  BY <1>1, <1>2, <1>3, <1>4, <1>5

(* Putting e behind everything in the current queue.                       *)
LEMMA PutFacts ==
    ASSUME IInv, queue \in Gens, NEW e \in 0..MaxTasks, queue' = queue,
           contents' = [contents EXCEPT ![queue] = Append(@, e)],
           unfinished' = [unfinished EXCEPT ![queue] = @ + 1]
    PROVE  /\ contents' \in [Gens -> Seq(0..MaxTasks)]
           /\ unfinished' \in [Gens -> Nat]
           /\ Len(contents[queue]) \in Nat
           /\ Len(contents[queue])' = Len(contents[queue]) + 1
           /\ contents'[queue][Len(contents[queue]) + 1] = e
           /\ \A i \in 1..Len(contents[queue]) :
                  contents'[queue][i] = contents[queue][i]
           /\ OthersEmpty'
           /\ Busy(queue)' = Busy(queue) => Counted'
<1>1. contents \in [Gens -> Seq(0..MaxTasks)] /\ unfinished \in [Gens -> Nat]
  BY DEF IInv, TypeOK
<1>2. contents[queue] \in Seq(0..MaxTasks)
  BY <1>1
<1>3. /\ Append(contents[queue], e) \in Seq(0..MaxTasks)
      /\ Len(Append(contents[queue], e)) = Len(contents[queue]) + 1
      /\ Len(contents[queue]) \in Nat
      /\ Append(contents[queue], e)[Len(contents[queue]) + 1] = e
      /\ \A i \in 1..Len(contents[queue]) :
             Append(contents[queue], e)[i] = contents[queue][i]
  BY <1>2, AppendFacts
<1>4. contents'[queue] = Append(contents[queue], e)
  BY <1>1
<1>5. /\ contents' \in [Gens -> Seq(0..MaxTasks)]
      /\ unfinished' \in [Gens -> Nat]
      /\ unfinished'[queue] = unfinished[queue] + 1
  BY <1>1, <1>3
<1>6. OthersEmpty'
  BY <1>1 DEF IInv, OthersEmpty
<1>7. Busy(queue)' = Busy(queue) => Counted'
  BY <1>1, <1>3, <1>4, <1>5 DEF IInv, Counted, Busy
<1> QED
  BY <1>3, <1>4, <1>5, <1>6, <1>7

LEMMA EnqueueRunningStep ==
    ASSUME IInv, EnqueueRunning
    PROVE  IInv'
<1>1. queue \in Gens /\ queue # 0 /\ ~stopping /\ admitted + 1 \in 0..MaxTasks
  BY ConstantsAssumption
  DEF EnqueueRunning, Ready, Accept, IInv, TypeOK, Gens
<1>2. /\ admitted' = admitted + 1 /\ UNCHANGED <<stopping, lifecycle, captured>>
      /\ UNCHANGED <<queue, worker, gen, workerVars>>
      /\ contents' = [contents EXCEPT ![queue] = Append(@, admitted + 1)]
      /\ unfinished' = [unfinished EXCEPT ![queue] = @ + 1]
  BY DEF EnqueueRunning, Ready, Accept, Put, stopVars
<1>3. /\ SettledInOrder' /\ LastGeneration' /\ InHand'
      /\ Busy(queue)' = Busy(queue)
      /\ UNCHANGED <<queue, worker, gen, wpc, wqueue, wtask, handled, deaths>>
  BY <1>2, WorkersUntouched
<1>4. /\ contents' \in [Gens -> Seq(0..MaxTasks)]
      /\ unfinished' \in [Gens -> Nat]
      /\ Len(contents[queue]) \in Nat
      /\ Len(contents[queue])' = Len(contents[queue]) + 1
      /\ contents'[queue][Len(contents[queue]) + 1] = admitted + 1
      /\ \A i \in 1..Len(contents[queue]) :
             contents'[queue][i] = contents[queue][i]
      /\ OthersEmpty' /\ Counted'
  BY <1>1, <1>2, <1>3, PutFacts
<1>5. TypeOK'
  BY <1>1, <1>2, <1>3, <1>4 DEF IInv, TypeOK
<1>6. /\ Busy(queue) \in Nat /\ Len(handled) \in Nat /\ admitted \in Nat
      /\ Sentinels(queue) = 0
      /\ admitted = Len(handled) + Busy(queue) + Len(contents[queue])
  <2>1. Busy(queue) \in Nat /\ Len(handled) \in Nat /\ admitted \in Nat
    BY DEF IInv, TypeOK, Busy
  <2>2. Sentinels(queue) = 0
    BY <1>1 DEF IInv, Stopping
  <2> QED
    BY <1>1, <1>4, <2>1, <2>2 DEF IInv, NothingLost
<1>7. Sentinels(queue)' = 0
  BY <1>3, <1>4, <1>6 DEF Sentinels, Sentinel
<1>8. Consecutive'
  <2>1. Len(contents[queue]) > 0
           => contents[queue][Len(contents[queue])] # Sentinel
    BY <1>6 DEF Sentinels
  <2>2. ASSUME NEW i \in 1..Len(contents[queue])
        PROVE  contents[queue][i] = Len(handled) + Busy(queue) + i
    BY <1>1, <1>4, <2>1 DEF IInv, Consecutive
  <2>3. ASSUME NEW i \in 1..Len(contents[queue])'
        PROVE  contents'[queue][i] = Len(handled) + Busy(queue) + i
    <3>1. CASE i = Len(contents[queue]) + 1
      BY <1>4, <1>6, <3>1
    <3>2. CASE i # Len(contents[queue]) + 1
      BY <1>3, <1>4, <2>2, <3>2
    <3> QED
      BY <3>1, <3>2
  <2> QED
    BY <1>3, <2>3 DEF Consecutive
<1>9. NothingLost'
  BY <1>1, <1>2, <1>3, <1>4, <1>6, <1>7 DEF NothingLost
<1>10. Stopping'
  BY <1>2, <1>3, <1>7 DEF IInv, Stopping
<1> QED
  BY <1>3, <1>4, <1>5, <1>8, <1>9, <1>10 DEF IInv

(* _request_stop_locked, whoever calls it: it disturbs only what is said   *)
(* of the queue.                                                           *)
LEMMA RequestStopStep ==
    ASSUME IInv, RequestStop, UNCHANGED <<queue, worker, gen, workerVars, admitted>>
    PROVE  /\ contents' \in [Gens -> Seq(0..MaxTasks)]
           /\ unfinished' \in [Gens -> Nat]
           /\ OthersEmpty' /\ Counted' /\ Consecutive' /\ NothingLost'
<1>1. /\ Busy(queue)' = Busy(queue)
      /\ UNCHANGED <<queue, worker, gen, wpc, wqueue, wtask, handled, deaths>>
      /\ admitted' = admitted
  BY WorkersUntouched
<1>2. CASE Alive(worker) /\ ~stopping
  <2>1. queue \in Gens /\ queue # 0 /\ 0 \in 0..MaxTasks
    BY <1>2, ConstantsAssumption DEF IInv, TypeOK, LastGeneration, Alive, Gens
  <2>2. /\ contents' = [contents EXCEPT ![queue] = Append(@, Sentinel)]
        /\ unfinished' = [unfinished EXCEPT ![queue] = @ + 1]
    BY <1>2 DEF RequestStop, Put
  <2>3. /\ contents' \in [Gens -> Seq(0..MaxTasks)]
        /\ unfinished' \in [Gens -> Nat]
        /\ Len(contents[queue]) \in Nat
        /\ Len(contents[queue])' = Len(contents[queue]) + 1
        /\ contents'[queue][Len(contents[queue]) + 1] = Sentinel
        /\ \A i \in 1..Len(contents[queue]) :
               contents'[queue][i] = contents[queue][i]
        /\ OthersEmpty' /\ Counted'
    BY <1>1, <2>1, <2>2, PutFacts DEF Sentinel
  <2>4. /\ Sentinels(queue) = 0 /\ Sentinels(queue)' = 1
        /\ Busy(queue) \in Nat /\ Len(handled) \in Nat
    BY <1>1, <1>2, <2>1, <2>3 DEF IInv, TypeOK, Stopping, Sentinels, Busy
  <2>5. NothingLost'
    BY <1>1, <2>1, <2>3, <2>4 DEF IInv, NothingLost
  <2>6. Consecutive'
    <3>1. Len(contents[queue]) > 0
             => contents[queue][Len(contents[queue])] # Sentinel
      BY <2>4 DEF Sentinels
    <3>2. ASSUME NEW i \in 1..Len(contents[queue])
          PROVE  contents[queue][i] = Len(handled) + Busy(queue) + i
      BY <2>1, <2>3, <3>1 DEF IInv, Consecutive
    <3> QED
      BY <1>1, <2>3, <3>2 DEF Consecutive
  <2> QED
    BY <2>3, <2>5, <2>6
<1>3. CASE ~(Alive(worker) /\ ~stopping)
  <2>1. UNCHANGED <<contents, unfinished>>
    BY <1>3 DEF RequestStop
  <2>2. Sentinels(queue)' = Sentinels(queue)
    BY <1>1, <2>1 DEF Sentinels
  <2> QED
    BY <1>1, <2>1, <2>2
    DEF IInv, TypeOK, OthersEmpty, Counted, Consecutive, NothingLost
<1> QED
  BY <1>2, <1>3

LEMMA StopRequestStep ==
    ASSUME IInv, NEW c \in Clients, StopRequest(c)
    PROVE  IInv'
<1>1. /\ UNCHANGED <<queue, worker, gen, workerVars, admitted>>
      /\ RequestStop /\ stopping' = TRUE
      /\ lifecycle' = c /\ captured' = [queue |-> queue, worker |-> worker]
  BY DEF StopRequest, RequestStop
<1>2. /\ contents' \in [Gens -> Seq(0..MaxTasks)]
      /\ unfinished' \in [Gens -> Nat]
      /\ OthersEmpty' /\ Counted' /\ Consecutive' /\ NothingLost'
  BY <1>1, RequestStopStep
<1>3. /\ SettledInOrder' /\ LastGeneration' /\ InHand'
      /\ UNCHANGED <<queue, worker, gen, wpc, wqueue, wtask, handled, deaths>>
      /\ admitted' = admitted
  BY <1>1, WorkersUntouched
<1>4. TypeOK'
  BY <1>1, <1>2, <1>3 DEF IInv, TypeOK
<1>5. Stopping'
  BY <1>1, <1>3 DEF Stopping
<1> QED
  BY <1>2, <1>3, <1>4, <1>5 DEF IInv

LEMMA WorkerSelfStopStep ==
    ASSUME IInv, NEW g \in Gens, WorkerSelfStop(g)
    PROVE  IInv'
<1>1. /\ UNCHANGED <<queue, worker, gen, workerVars, admitted>>
      /\ RequestStop /\ stopping' = TRUE
      /\ UNCHANGED <<lifecycle, captured>>
  BY DEF WorkerSelfStop, RequestStop, stopVars
<1>2. /\ contents' \in [Gens -> Seq(0..MaxTasks)]
      /\ unfinished' \in [Gens -> Nat]
      /\ OthersEmpty' /\ Counted' /\ Consecutive' /\ NothingLost'
  BY <1>1, RequestStopStep
<1>3. /\ SettledInOrder' /\ LastGeneration' /\ InHand'
      /\ UNCHANGED <<queue, worker, gen, wpc, wqueue, wtask, handled, deaths>>
      /\ admitted' = admitted
  BY <1>1, WorkersUntouched
<1>4. TypeOK'
  BY <1>1, <1>2, <1>3 DEF IInv, TypeOK
<1>5. Stopping'
  BY <1>1, <1>3 DEF IInv, Stopping
<1> QED
  BY <1>2, <1>3, <1>4, <1>5 DEF IInv

(* stop() forgets the queue it captured, which is still the current one.   *)
LEMMA StopFinishStep ==
    ASSUME IInv, NEW c \in Clients, StopFinish(c)
    PROVE  IInv'
<1>1. /\ stopping /\ captured = [queue |-> queue, worker |-> worker]
  BY ConstantsAssumption DEF StopFinish, IInv, Stopping
<1>2. /\ lifecycle' = NoClient /\ captured' = [queue |-> 0, worker |-> 0]
      /\ UNCHANGED <<stopping, gen, contents, unfinished, wpc, wqueue, wtask,
                     handled, deaths, admitted>>
  BY DEF StopFinish, workerVars
<1>3. captured' \in [queue : 0..MaxGen, worker : 0..MaxGen]
  BY <1>2, ConstantsAssumption
<1>4. CASE UNCHANGED <<queue, worker>>
  <2>1. Busy(queue)' = Busy(queue) /\ Sentinels(queue)' = Sentinels(queue)
    BY <1>2, <1>4 DEF Busy, Sentinels
  <2>2. TypeOK'
    BY <1>2, <1>3, <1>4 DEF IInv, TypeOK
  <2>3. LastGeneration'
    BY <1>2, <1>4 DEF IInv, LastGeneration, Alive
  <2> QED
    BY <1>2, <1>4, <2>1, <2>2, <2>3
    DEF IInv, SettledInOrder, OthersEmpty, Counted, Consecutive, NothingLost,
        InHand, Stopping
<1>5. CASE ~UNCHANGED <<queue, worker>>
  <2>1. queue' = 0 /\ worker' = 0 /\ ~Alive(worker) /\ ~Unsettled(queue)
    BY <1>1, <1>5 DEF StopFinish, StopIncomplete
  <2>2. \A g \in Gens : ~Alive(g)
    BY <2>1 DEF IInv, LastGeneration
  <2>3. /\ \A g \in Gens : contents[g] = <<>> /\ unfinished[g] = 0
        /\ admitted = Len(handled)
    <3>1. CASE queue = 0
      BY <3>1 DEF IInv, TypeOK, OthersEmpty, NothingLost, Gens
    <3>2. CASE queue # 0
      <4>1. queue \in Gens /\ unfinished[queue] = 0
        BY <2>1, <3>2 DEF Unsettled, IInv, TypeOK, Gens
      <4>2. Len(contents[queue]) \in Nat /\ contents[queue] \in Seq(0..MaxTasks)
        BY <4>1 DEF IInv, TypeOK
      <4>3. Len(contents[queue]) = 0 /\ Busy(queue) = 0
        <5>1. Busy(queue) = 0
          BY <2>2, <4>1 DEF Busy, Alive
        <5> QED
          BY <3>2, <4>1, <4>2, <5>1 DEF IInv, Counted
      <4>4. contents[queue] = <<>> /\ Sentinels(queue) = 0
        BY <4>2, <4>3 DEF Sentinels
      <4> QED
        BY <3>2, <4>1, <4>3, <4>4 DEF IInv, TypeOK, OthersEmpty, NothingLost
    <3> QED
      BY <3>1, <3>2
  <2>4. TypeOK'
    BY <1>2, <1>3, <2>1, ConstantsAssumption DEF IInv, TypeOK
  <2>5. LastGeneration' /\ InHand'
    BY <1>2, <2>1, <2>2 DEF IInv, LastGeneration, InHand, Alive
  <2>6. OthersEmpty' /\ Counted' /\ Consecutive' /\ NothingLost'
    BY <1>2, <2>1, <2>3 DEF OthersEmpty, Counted, Consecutive, NothingLost
  <2>7. SettledInOrder' /\ Stopping'
    BY <1>2, <2>1 DEF IInv, SettledInOrder, Stopping
  <2> QED
    BY <2>4, <2>5, <2>6, <2>7 DEF IInv
<1> QED
  BY <1>4, <1>5
-----------------------------------------------------------------------------
(* The worker loop.                                                        *)

LEMMA WorkerBootStep ==
    ASSUME IInv, NEW g \in Gens, WorkerBoot(g)
    PROVE  IInv'
<1>1. queue = g /\ worker = g /\ queue # 0
  BY ConstantsAssumption DEF WorkerBoot, IInv, LastGeneration, Alive, Gens
<1>2. /\ UNCHANGED <<queue, worker, stopping, lifecycle, captured, gen,
                     contents, unfinished, wtask, admitted, handled, deaths>>
      /\ wqueue' = [wqueue EXCEPT ![g] = g]
      /\ wpc' = [wpc EXCEPT ![g] = "get"]
  BY <1>1 DEF WorkerBoot, stopVars
<1>3. TypeOK'
  BY <1>1, <1>2 DEF IInv, TypeOK, WorkerPCs, Gens
<1>4. Busy(queue)' = Busy(queue) /\ Sentinels(queue)' = Sentinels(queue)
  BY <1>1, <1>2 DEF IInv, TypeOK, WorkerBoot, Busy, Sentinels
<1>5. LastGeneration'
  BY <1>1, <1>2 DEF IInv, TypeOK, LastGeneration, Alive
<1>6. InHand'
  BY <1>2 DEF IInv, TypeOK, InHand
<1> QED
  BY <1>2, <1>3, <1>4, <1>5, <1>6
  DEF IInv, SettledInOrder, OthersEmpty, Counted, Consecutive, NothingLost,
      Stopping

(* What taking the head does to the current queue.                         *)
LEMMA TakeFacts ==
    ASSUME IInv, NEW g \in Gens, wpc[g] = "get", contents[wqueue[g]] # <<>>,
           contents' = [contents EXCEPT ![wqueue[g]] = Tail(@)]
    PROVE  /\ contents' \in [Gens -> Seq(0..MaxTasks)]
           /\ Head(contents[g]) \in 0..MaxTasks
           /\ Head(contents[g]) = contents[g][1]
           /\ Len(contents[g]) \in Nat \ {0}
           /\ Len(contents'[g]) = Len(contents[g]) - 1
           /\ \A i \in 1..Len(contents'[g]) :
                  contents'[g][i] = contents[g][i + 1]
           /\ \A h \in Gens : h # g => contents'[h] = contents[h]
<1>1. queue = g /\ wqueue[g] = g /\ contents[g] \in Seq(0..MaxTasks)
  BY Current
<1>2. contents' = [contents EXCEPT ![g] = Tail(@)] /\ contents[g] # <<>>
  BY <1>1
<1>3. /\ Head(contents[g]) \in 0..MaxTasks
      /\ Head(contents[g]) = contents[g][1]
      /\ Tail(contents[g]) \in Seq(0..MaxTasks)
      /\ Len(contents[g]) \in Nat \ {0}
      /\ Len(Tail(contents[g])) = Len(contents[g]) - 1
      /\ \A i \in 1..Len(Tail(contents[g])) :
             Tail(contents[g])[i] = contents[g][i + 1]
  <2>1. contents[g] \in Seq(0..MaxTasks) /\ contents[g] # <<>>
    BY <1>1, <1>2
  <2> QED
    BY <2>1, TailFacts, Zenon
<1>4. contents \in [Gens -> Seq(0..MaxTasks)]
  BY DEF IInv, TypeOK
<1>5. contents'[g] = Tail(contents[g])
  BY <1>2, <1>4
<1> QED
  BY <1>2, <1>3, <1>4, <1>5

LEMMA WorkerTakeStep ==
    ASSUME IInv, NEW g \in Gens, WorkerTake(g)
    PROVE  IInv'
<1>1. /\ queue = g /\ worker = g /\ wqueue[g] = g /\ queue # 0
      /\ Len(contents[g]) \in Nat /\ Len(handled) \in Nat
  BY Current DEF WorkerTake
<1>2. /\ contents' \in [Gens -> Seq(0..MaxTasks)]
      /\ Head(contents[g]) \in 0..MaxTasks
      /\ Head(contents[g]) = contents[g][1]
      /\ Len(contents[g]) \in Nat \ {0}
      /\ Len(contents'[g]) = Len(contents[g]) - 1
      /\ \A i \in 1..Len(contents'[g]) : contents'[g][i] = contents[g][i + 1]
      /\ \A h \in Gens : h # g => contents'[h] = contents[h]
  BY TakeFacts DEF WorkerTake
<1>3. /\ UNCHANGED <<queue, worker, stopping, lifecycle, captured, gen,
                     unfinished, wqueue, admitted, handled, deaths>>
      /\ wtask' = [wtask EXCEPT ![g] = Head(contents[g])]
      /\ wpc' = [wpc EXCEPT ![g] = "busy"]
      /\ wpc[g] = "get" /\ Head(contents[g]) # Sentinel
  BY <1>1 DEF WorkerTake, stopVars
<1>4. /\ wpc' \in [Gens -> WorkerPCs] /\ wpc'[g] = "busy"
      /\ wtask' \in [Gens -> 0..MaxTasks] /\ wtask'[g] = Head(contents[g])
      /\ \A h \in Gens : h # g => wpc'[h] = wpc[h]
  BY <1>2, <1>3 DEF IInv, TypeOK, WorkerPCs
<1>5. Busy(queue) = 0 /\ Busy(queue)' = 1
  BY <1>1, <1>3, <1>4 DEF Busy
<1>6. /\ Head(contents[g]) = Len(handled) + 1
      /\ \A i \in 1..Len(contents[g]) :
            \/ contents[g][i] = Len(handled) + i
            \/ i = Len(contents[g]) /\ contents[g][i] = Sentinel
  <2>1. \A i \in 1..Len(contents[g]) :
            \/ contents[g][i] = Len(handled) + i
            \/ i = Len(contents[g]) /\ contents[g][i] = Sentinel
    BY <1>1, <1>5 DEF IInv, Consecutive
  <2>2. 1 \in 1..Len(contents[g]) /\ contents[g][1] # Sentinel
    BY <1>2, <1>3
  <2> QED
    BY <1>1, <1>2, <2>1, <2>2
<1>7. Sentinels(queue)' = Sentinels(queue)
  BY <1>1, <1>2, <1>3 DEF Sentinels
<1>8. TypeOK'
  BY <1>2, <1>3, <1>4 DEF IInv, TypeOK
<1>9. LastGeneration'
  BY <1>1, <1>3, <1>4 DEF IInv, LastGeneration, Alive
<1>10. InHand'
  <2>1. \A h \in Gens : h # g => wpc[h] # "busy"
    BY <1>1 DEF IInv, LastGeneration, Alive
  <2> QED
    BY <1>3, <1>4, <1>6, <2>1 DEF InHand
<1>11. Counted' /\ OthersEmpty'
  BY <1>1, <1>2, <1>3, <1>5 DEF IInv, Counted, OthersEmpty
<1>12. Consecutive'
  <2>1. ASSUME NEW i \in 1..Len(contents'[g])
        PROVE  \/ contents'[g][i] = Len(handled) + 1 + i
               \/ i = Len(contents'[g]) /\ contents'[g][i] = Sentinel
    <3>1. i + 1 \in 1..Len(contents[g]) /\ contents'[g][i] = contents[g][i + 1]
      BY <1>2
    <3> QED
      BY <1>1, <1>2, <1>6, <3>1
  <2> QED
    BY <1>1, <1>3, <1>5, <2>1 DEF Consecutive
<1>13. NothingLost'
  <2>1. admitted = Len(handled) + 0 + Len(contents[g]) - Sentinels(queue)
    BY <1>1, <1>5 DEF IInv, NothingLost
  <2>2. Sentinels(queue) \in {0, 1}
    BY DEF Sentinels
  <2> DEFINE l == Len(contents[g])
             m == Len(contents'[g])
             h == Len(handled)
  <2>3. l \in Nat /\ h \in Nat /\ m = l - 1 /\ admitted = h + 0 + l - Sentinels(queue)
    BY <1>1, <1>2, <2>1
  <2> HIDE DEF l, m, h
  <2>4. admitted = h + 1 + m - Sentinels(queue)
    BY <2>2, <2>3
  <2> USE DEF l, m, h
  <2> QED
    BY <1>1, <1>3, <1>5, <1>7, <2>4 DEF NothingLost
<1>14. SettledInOrder' /\ Stopping'
  BY <1>3, <1>7 DEF IInv, SettledInOrder, Stopping
<1> QED
  BY <1>8, <1>9, <1>10, <1>11, <1>12, <1>13, <1>14 DEF IInv

LEMMA WorkerTakeSentinelStep ==
    ASSUME IInv, NEW g \in Gens, WorkerTakeSentinel(g)
    PROVE  IInv'
<1>1. /\ queue = g /\ worker = g /\ wqueue[g] = g /\ queue # 0
      /\ Len(contents[g]) \in Nat /\ Len(handled) \in Nat
      /\ unfinished[g] \in Nat
  BY Current DEF WorkerTakeSentinel
<1>2. /\ contents' \in [Gens -> Seq(0..MaxTasks)]
      /\ Head(contents[g]) = contents[g][1]
      /\ Len(contents[g]) \in Nat \ {0}
      /\ Len(contents'[g]) = Len(contents[g]) - 1
      /\ \A h \in Gens : h # g => contents'[h] = contents[h]
  BY TakeFacts DEF WorkerTakeSentinel
<1>3. /\ UNCHANGED <<queue, worker, stopping, lifecycle, captured, gen,
                     wqueue, wtask, admitted, handled, deaths>>
      /\ unfinished' = [unfinished EXCEPT ![g] = @ - 1]
      /\ wpc' = [wpc EXCEPT ![g] = "exit"]
      /\ wpc[g] = "get" /\ contents[g][1] = Sentinel
  BY <1>1, <1>2 DEF WorkerTakeSentinel, TaskDone, stopVars
<1>4. /\ wpc' \in [Gens -> WorkerPCs] /\ wpc'[g] = "exit"
      /\ \A h \in Gens : h # g => wpc'[h] = wpc[h]
  BY <1>3 DEF IInv, TypeOK, WorkerPCs
<1>5. Busy(queue) = 0 /\ Busy(queue)' = 0
  BY <1>1, <1>3, <1>4 DEF Busy
<1>6. Len(contents[g]) = 1
  <2>1. \A i \in 1..Len(contents[g]) :
            \/ contents[g][i] = Len(handled) + i
            \/ i = Len(contents[g]) /\ contents[g][i] = Sentinel
    BY <1>1, <1>5 DEF IInv, Consecutive
  <2>2. 1 \in 1..Len(contents[g]) /\ contents[g][1] = 0
    BY <1>2, <1>3 DEF Sentinel
  <2>3. Len(handled) + 1 # 0
    BY <1>1
  <2> QED
    BY <2>1, <2>2, <2>3
<1>7. Sentinels(queue) = 1 /\ Sentinels(queue)' = 0 /\ Len(contents'[g]) = 0
  BY <1>1, <1>2, <1>3, <1>6 DEF Sentinels
<1>8. unfinished[g] = 1 /\ unfinished' \in [Gens -> Nat] /\ unfinished'[g] = 0
  BY <1>1, <1>3, <1>5, <1>6 DEF IInv, TypeOK, Counted
<1>9. TypeOK'
  BY <1>2, <1>3, <1>4, <1>8 DEF IInv, TypeOK
<1>10. LastGeneration' /\ InHand'
  BY <1>1, <1>3, <1>4 DEF IInv, LastGeneration, InHand, Alive
<1>11. Counted' /\ Consecutive'
  BY <1>1, <1>3, <1>5, <1>7, <1>8 DEF Counted, Consecutive
<1>12. OthersEmpty'
  BY <1>1, <1>2, <1>3 DEF IInv, TypeOK, OthersEmpty
<1>13. NothingLost'
  <2>1. admitted = Len(handled) + 0 + 1 - 1
    BY <1>1, <1>5, <1>6, <1>7 DEF IInv, NothingLost
  <2>2. admitted' = Len(handled)' + 0 + 0 - 0
    BY <1>1, <1>3, <2>1
  <2> QED
    BY <1>1, <1>3, <1>5, <1>7, <2>2 DEF NothingLost
<1>14. SettledInOrder' /\ Stopping'
  BY <1>3, <1>7 DEF IInv, SettledInOrder, Stopping
<1> QED
  BY <1>9, <1>10, <1>11, <1>12, <1>13, <1>14 DEF IInv

(* `finally: queue.task_done()', whether the loop goes on or the thread    *)
(* ends.                                                                   *)
LEMMA SettleStep ==
    ASSUME IInv, NEW g \in Gens, NEW next \in {"get", "dead"}, wpc[g] = "busy",
           unfinished' = [unfinished EXCEPT ![wqueue[g]] = @ - 1],
           handled' = Append(handled, wtask[g]),
           wpc' = [wpc EXCEPT ![g] = next],
           deaths' \in 0..MaxDeaths,
           UNCHANGED <<queue, worker, stopping, stopVars, gen, contents, wqueue,
                       wtask, admitted>>
    PROVE  IInv'
<1>1. /\ queue = g /\ worker = g /\ wqueue[g] = g /\ queue # 0
      /\ Len(contents[g]) \in Nat /\ Len(handled) \in Nat
      /\ unfinished[g] \in Nat
  BY Current
<1>2. /\ UNCHANGED <<queue, worker, stopping, lifecycle, captured, gen, contents,
                     wqueue, wtask, admitted>>
      /\ unfinished' = [unfinished EXCEPT ![g] = @ - 1]
  BY <1>1 DEF stopVars
<1>3. /\ wpc' \in [Gens -> WorkerPCs] /\ wpc'[g] = next
      /\ \A h \in Gens : h # g => wpc'[h] = wpc[h]
  BY DEF IInv, TypeOK, WorkerPCs
<1>4. Busy(queue) = 1 /\ Busy(queue)' = 0 /\ Sentinels(queue)' = Sentinels(queue)
  BY <1>1, <1>2, <1>3 DEF Busy, Sentinels
<1>5. wtask[g] = Len(handled) + 1 /\ wtask[g] \in 0..MaxTasks
  BY DEF IInv, TypeOK, InHand
<1>6. /\ handled' \in Seq(0..MaxTasks)
      /\ Len(handled') = Len(handled) + 1
      /\ handled'[Len(handled) + 1] = Len(handled) + 1
      /\ \A k \in 1..Len(handled) : handled'[k] = handled[k]
  BY <1>5, AppendFacts DEF IInv, TypeOK
<1>7. /\ unfinished[g] = Len(contents[g]) + 1
      /\ unfinished' \in [Gens -> Nat]
      /\ unfinished'[g] = Len(contents[g])
      /\ \A h \in Gens : h # g => unfinished'[h] = unfinished[h]
  BY <1>1, <1>2, <1>4 DEF IInv, TypeOK, Counted
<1>8. TypeOK'
  BY <1>2, <1>3, <1>6, <1>7 DEF IInv, TypeOK
<1>9. SettledInOrder'
  BY <1>1, <1>6 DEF IInv, SettledInOrder
<1>10. LastGeneration'
  BY <1>1, <1>2, <1>3 DEF IInv, LastGeneration, Alive
<1>11. OthersEmpty' /\ Counted'
  BY <1>1, <1>2, <1>4, <1>7 DEF IInv, OthersEmpty, Counted
<1>12. Consecutive'
  <2>1. ASSUME NEW i \in 1..Len(contents[g])
        PROVE  \/ contents[g][i] = Len(handled) + 1 + i
               \/ i = Len(contents[g]) /\ contents[g][i] = Sentinel
    BY <1>1, <1>4 DEF IInv, Consecutive
  <2> QED
    BY <1>1, <1>2, <1>4, <1>6, <2>1 DEF Consecutive
<1>13. NothingLost'
  <2> DEFINE l == Len(contents[g])
             h == Len(handled)
  <2>1. l \in Nat /\ h \in Nat /\ admitted = h + 1 + l - Sentinels(queue)
    BY <1>1, <1>4 DEF IInv, NothingLost
  <2>2. admitted' = Len(handled') + 0 + l - Sentinels(queue)'
    BY <1>2, <1>4, <1>6, <2>1
  <2> QED
    BY <1>1, <1>2, <1>4, <2>2 DEF NothingLost
<1>14. InHand'
  BY <1>1, <1>3 DEF IInv, InHand, LastGeneration, Alive
<1>15. Stopping'
  BY <1>2, <1>4 DEF IInv, Stopping
<1> QED
  BY <1>8, <1>9, <1>10, <1>11, <1>12, <1>13, <1>14, <1>15 DEF IInv

LEMMA WorkerExitStep ==
    ASSUME IInv, NEW g \in Gens, WorkerExit(g)
    PROVE  IInv'
<1>1. /\ UNCHANGED <<queue, worker, stopping, lifecycle, captured, gen, contents,
                     unfinished, wqueue, wtask, admitted, handled, deaths>>
      /\ wpc' = [wpc EXCEPT ![g] = "dead"] /\ wpc[g] = "exit"
  BY DEF WorkerExit, stopVars
<1>2. TypeOK'
  BY <1>1 DEF IInv, TypeOK, WorkerPCs
<1>3. Busy(queue)' = Busy(queue) /\ Sentinels(queue)' = Sentinels(queue)
  BY <1>1 DEF IInv, TypeOK, Busy, Sentinels
<1>4. LastGeneration' /\ InHand'
  BY <1>1 DEF IInv, TypeOK, LastGeneration, InHand, Alive
<1> QED
  BY <1>1, <1>2, <1>3, <1>4
  DEF IInv, SettledInOrder, OthersEmpty, Counted, Consecutive, NothingLost,
      Stopping

-----------------------------------------------------------------------------
THEOREM NextIInv == IInv /\ [Next]_vars => IInv'
<1> SUFFICES ASSUME IInv, [Next]_vars PROVE IInv'
  OBVIOUS
<1>1. CASE Start
  BY <1>1, StartStep
<1>2. CASE EnqueueRunning
  BY <1>2, EnqueueRunningStep
<1>3. CASE EnqueueLazily
  BY <1>3, EnqueueLazilyStep
<1>4. ASSUME NEW c \in Clients, StopRequest(c) \/ StopFinish(c)
      PROVE  IInv'
  BY <1>4, StopRequestStep, StopFinishStep
<1>5. ASSUME NEW g \in Gens,
             WorkerStep(g) \/ WorkerSelfStop(g) \/ WorkerDies(g)
      PROVE  IInv'
  <2>1. CASE WorkerBoot(g)
    BY <2>1, WorkerBootStep
  <2>2. CASE WorkerTake(g)
    BY <2>2, WorkerTakeStep
  <2>3. CASE WorkerTakeSentinel(g)
    BY <2>3, WorkerTakeSentinelStep
  <2>4. CASE WorkerSettle(g)
    <3>1. deaths' \in 0..MaxDeaths
      BY <2>4 DEF WorkerSettle, IInv, TypeOK
    <3> QED
      BY <2>4, <3>1, SettleStep DEF WorkerSettle, TaskDone
  <2>5. CASE WorkerExit(g)
    BY <2>5, WorkerExitStep
  <2>6. CASE WorkerSelfStop(g)
    BY <2>6, WorkerSelfStopStep
  <2>7. CASE WorkerDies(g)
    <3>1. deaths' \in 0..MaxDeaths
      BY <2>7, ConstantsAssumption DEF WorkerDies, IInv, TypeOK
    <3> QED
      BY <2>7, <3>1, SettleStep DEF WorkerDies, TaskDone
  <2> QED
    BY <1>5, <2>1, <2>2, <2>3, <2>4, <2>5, <2>6, <2>7 DEF WorkerStep
<1>6. CASE UNCHANGED vars
  <2>1. Busy(queue)' = Busy(queue) /\ Sentinels(queue)' = Sentinels(queue)
    BY <1>6 DEF vars, Busy, Sentinels
  <2> QED
    BY <1>6, <2>1
    DEF vars, IInv, TypeOK, SettledInOrder, LastGeneration, OthersEmpty,
        Counted, Consecutive, NothingLost, InHand, Stopping, Alive
<1> QED
  BY <1>1, <1>2, <1>3, <1>4, <1>5, <1>6 DEF Next

THEOREM Invariance == Spec => []IInv
<1> QED
  BY InitIInv, NextIInv, PTL DEF Spec

(* Every variable keeps its type. *)
THEOREM Typed == Spec => []TypeOK
<1>1. IInv => TypeOK
  BY DEF IInv
<1> QED
  BY <1>1, Invariance, PTL

(* Across any number of stops, restarts and worker deaths, tasks are       *)
(* settled exactly once, in the order in which they were accepted.         *)
THEOREM InOrder == Spec => []SettledInOrder
<1>1. IInv => SettledInOrder
  BY DEF IInv
<1> QED
  BY <1>1, Invariance, PTL

(* stop() returns True only when the worker is gone and nothing that was   *)
(* accepted is left.                                                       *)
THEOREM NothingForgotten == Spec => []ForgottenOnlyWhenSettled
<1>1. IInv => ForgottenOnlyWhenSettled
  BY DEF IInv, TypeOK, LastGeneration, NothingLost, ForgottenOnlyWhenSettled,
         Alive, Gens
<1> QED
  BY <1>1, Invariance, PTL

(* No restart replaces the queue or the thread under a live worker.        *)
THEOREM OneWorker == Spec => []LiveWorkerOwnsQueue
<1>1. IInv => LiveWorkerOwnsQueue
  BY DEF IInv, LastGeneration, LiveWorkerOwnsQueue, Alive
<1> QED
  BY <1>1, Invariance, PTL

(* No task is ever put behind the sentinel. *)
THEOREM SentinelLast == Spec => []NothingBehindSentinel
<1>1. IInv => NothingBehindSentinel
  <2> SUFFICES ASSUME IInv, NEW g \in Gens, NEW i \in 1..Len(contents[g]),
                      contents[g][i] = Sentinel
               PROVE  i = Len(contents[g])
    BY DEF NothingBehindSentinel
  <2>1. queue = g /\ queue # 0
    BY DEF IInv, OthersEmpty, Gens
  <2>2. Len(handled) + Busy(queue) + i # 0
    BY DEF IInv, TypeOK, Busy
  <2> QED
    BY <2>1, <2>2 DEF IInv, Consecutive, Sentinel
<1> QED
  BY <1>1, Invariance, PTL
-----------------------------------------------------------------------------
(* The steps of the abstract service that the code's steps are.            *)

Accepting == Alive(worker) /\ ~stopping

LEMMA OpenStep ==
    ASSUME IInv, CanStart, NewGeneration
    PROVE  /\ ~Accepting /\ Accepting'
           /\ Len(handled) = admitted /\ handled' = handled
<1>1. gen + 1 \in Gens /\ Len(handled) = admitted
  BY CleanStart
<1>2. /\ worker' = gen + 1 /\ stopping' = FALSE /\ handled' = handled
      /\ wpc'[gen + 1] = "boot"
  BY <1>1 DEF NewGeneration, IInv, TypeOK
<1>3. ~Alive(worker)
  BY DEF CanStart
<1> QED
  BY <1>1, <1>2, <1>3 DEF Accepting, Alive

(* A task being worked on is one of those accepted. *)
LEMMA BusyIsBehind ==
    ASSUME IInv, NEW g \in Gens, wpc[g] = "busy"
    PROVE  /\ Len(handled) < admitted
           /\ \A e : Len(Append(handled, e)) = Len(handled) + 1
           /\ worker = g
<1>1. /\ queue = g /\ worker = g /\ queue # 0
      /\ Len(contents[g]) \in Nat /\ Len(handled) \in Nat
  BY Current
<1>2. Busy(queue) = 1
  BY <1>1 DEF Busy
<1>3. Sentinels(queue) = 0 \/ (Sentinels(queue) = 1 /\ Len(contents[queue]) > 0)
  BY DEF Sentinels
<1> DEFINE l == Len(contents[queue])
           h == Len(handled)
<1>4. /\ l \in Nat /\ h \in Nat
      /\ admitted = h + 1 + l - Sentinels(queue)
      /\ Sentinels(queue) = 0 \/ (Sentinels(queue) = 1 /\ l > 0)
  BY <1>1, <1>2, <1>3 DEF IInv, NothingLost
<1> HIDE DEF l, h
<1>5. h < admitted
  BY <1>4
<1> USE DEF l, h
<1>6. \A e : Len(Append(handled, e)) = Len(handled) + 1
  BY DEF IInv, TypeOK
<1> QED
  BY <1>1, <1>5, <1>6

LEMMA ServiceStep ==
    ASSUME IInv, [Next]_vars
    PROVE  [Service!Next]_(Service!vars)
<1> USE DEF Service!Next, Service!vars
<1>1. CASE Start
  <2>1. CanStart /\ NewGeneration /\ admitted' = admitted
    BY <1>1 DEF Start
  <2> QED
    BY <2>1, OpenStep DEF Service!Open, Accepting
<1>2. CASE EnqueueLazily
  <2>1. CanStart /\ NewGeneration /\ admitted' = admitted + 1
    BY <1>2 DEF EnqueueLazily, Accept
  <2> QED
    BY <2>1, OpenStep DEF Service!OpenAndAdmit, Accepting
<1>3. CASE EnqueueRunning
  BY <1>3 DEF EnqueueRunning, Ready, Accept, workerVars, Service!Admit, Alive
<1>4. ASSUME NEW c \in Clients, StopRequest(c) PROVE [Service!Next]_(Service!vars)
  BY <1>4 DEF StopRequest, RequestStop, workerVars, Service!Close
<1>5. ASSUME NEW c \in Clients, StopFinish(c) PROVE [Service!Next]_(Service!vars)
  <2>1. stopping /\ stopping' = stopping
    BY <1>5, ConstantsAssumption DEF StopFinish, IInv, Stopping
  <2> QED
    BY <1>5, <2>1 DEF StopFinish, workerVars
<1>6. ASSUME NEW g \in Gens, WorkerSelfStop(g)
      PROVE  [Service!Next]_(Service!vars)
  BY <1>6 DEF WorkerSelfStop, RequestStop, workerVars, Service!Close
<1>7. ASSUME NEW g \in Gens, WorkerBoot(g) \/ WorkerTake(g) \/ WorkerTakeSentinel(g)
      PROVE  [Service!Next]_(Service!vars)
  <2>1. /\ UNCHANGED <<worker, stopping, admitted, handled>>
        /\ \A h \in Gens : h # g => wpc'[h] = wpc[h]
        /\ wpc[g] \in {"boot", "get"}
        /\ wpc'[g] \in {"get", "busy", "exit"}
    <3>1. CASE WorkerBoot(g)
      <4>1. queue # 0
        BY <3>1 DEF WorkerBoot, IInv, LastGeneration, Alive, Gens
      <4> QED
        BY <3>1, <4>1 DEF WorkerBoot, IInv, TypeOK
    <3>2. CASE WorkerTake(g)
      BY <3>2 DEF WorkerTake, IInv, TypeOK
    <3>3. CASE WorkerTakeSentinel(g)
      BY <3>3 DEF WorkerTakeSentinel, IInv, TypeOK
    <3> QED
      BY <1>7, <3>1, <3>2, <3>3
  <2>2. Alive(worker)' = Alive(worker)
    BY <2>1 DEF Alive
  <2> QED
    BY <2>1, <2>2
<1>8. ASSUME NEW g \in Gens, WorkerSettle(g) PROVE [Service!Next]_(Service!vars)
  <2>1. /\ Len(handled) < admitted /\ Len(handled') = Len(handled) + 1
        /\ worker = g /\ UNCHANGED <<worker, stopping, admitted>>
        /\ wpc[g] = "busy" /\ wpc'[g] = "get"
    BY <1>8, BusyIsBehind DEF WorkerSettle, IInv, TypeOK
  <2>2. Alive(worker)' = Alive(worker)
    BY <2>1 DEF Alive
  <2> QED
    BY <2>1, <2>2 DEF Service!Settle
<1>9. ASSUME NEW g \in Gens, WorkerDies(g) PROVE [Service!Next]_(Service!vars)
  <2>1. /\ Len(handled) < admitted /\ Len(handled') = Len(handled) + 1
        /\ worker' = g /\ admitted' = admitted
        /\ wpc'[g] = "dead"
    BY <1>9, BusyIsBehind DEF WorkerDies, IInv, TypeOK
  <2>2. Alive(worker)' = FALSE
    BY <2>1 DEF Alive
  <2> QED
    BY <2>1, <2>2 DEF Service!SettleAndClose
<1>10. ASSUME NEW g \in Gens, WorkerExit(g) PROVE [Service!Next]_(Service!vars)
  <2>1. /\ worker = g /\ UNCHANGED <<worker, stopping, admitted, handled>>
        /\ wpc[g] = "exit" /\ wpc'[g] = "dead"
    BY <1>10, Current DEF WorkerExit, IInv, TypeOK
  <2>2. Alive(worker) /\ Alive(worker)' = FALSE
    BY <2>1 DEF Alive
  <2> QED
    BY <2>1, <2>2 DEF Service!Close
<1>11. CASE UNCHANGED vars
  BY <1>11 DEF vars, Alive
<1> QED
  BY <1>1, <1>2, <1>3, <1>4, <1>5, <1>6, <1>7, <1>8, <1>9, <1>10, <1>11
  DEF Next, WorkerStep

(* The queue, with its threads, sentinels and restarts, implements a       *)
(* service that settles one task after the other and opens again only with *)
(* nothing left over.                                                      *)
THEOREM ImplementsService == Spec => ServiceSpec
<1>1. Init => Service!Init
  BY DEF Init, Service!Init, Alive, Gens
<1> QED
  BY <1>1, Invariance, ServiceStep, PTL DEF Spec, ServiceSpec, Service!Spec

=============================================================================
