----------------------- MODULE BatchCoordinatorProofs -----------------------
(***************************************************************************)
(* Proofs about BatchCoordinator, for any finite set of callers, any keys, *)
(* batch size, and number of operations and coordinator threads.           *)
(*                                                                         *)
(* Everything follows from where an unanswered operation can be: among the *)
(* pending ones, or in the hands of the one thread that _worker refers to. *)
(* Once the gate is closed and drained nobody submits, so a _worker that   *)
(* is None, or a dead thread that was captured, stays the last one.        *)
(***************************************************************************)
EXTENDS BatchCoordinator, FiniteSetTheorems, SequenceTheorems, TLAPS

Working(g) == tpc[g] \in {"loop", "validate", "execute"}

Inside == {c \in Callers : cpc[c] # "out"}

(* _worker is the thread that works, and has been started.                 *)
WorkerWorks ==
    /\ \A g \in Threads : g > threads => tpc[g] = "unborn"
    /\ worker # 0 => Working(worker)
    /\ pending # <<>> => worker # 0

(* A thread has its locals only where _run uses them.                      *)
EmptyHands ==
    \A g \in Threads :
        /\ tpc[g] \notin {"validate", "execute"} => groups[g] = <<>>
        /\ tpc[g] # "validate" => batch[g] = <<>>
        /\ tpc[g] # "execute" => running[g] = {}

InSeq(s, o)     == \E i \in 1..Len(s) : s[i] = o
InGroups(gs, o) == \E i \in 1..Len(gs) : o \in gs[i].ops

InHand(g, o) == InSeq(batch[g], o) \/ InGroups(groups[g], o) \/ o \in running[g]

(* Operations exist, with key and future, up to the last one submitted.    *)
Numbered ==
    \A o \in Ops :
        /\ o <= ops => key[o] \in Keys /\ fut[o] # "none"
        /\ fut[o] # "none" => o <= ops
        /\ \A g \in Threads : InHand(g, o) => o <= ops

(* What waits is not answered yet.                                         *)
Waiting ==
    \A o \in Ops : /\ InSeq(pending, o) => fut[o] = "pending"
                   /\ \A g \in Threads : InSeq(batch[g], o) => fut[o] = "pending"

Increasing(s) == \A i, j \in 1..Len(s) : i < j => s[i] < s[j]

(* Operations are taken in the order of their numbers.                     *)
Ordered ==
    /\ Increasing(pending)
    /\ \A g \in Threads :
          /\ Increasing(batch[g])
          /\ \A o, q \in Ops : InHand(g, o) /\ InSeq(pending, q) => o < q

Located ==
    \A o \in Ops : fut[o] = "pending" =>
        InSeq(pending, o) \/ \E g \in Threads : InHand(g, o)

(* The gate counts the callers, and closes before the coordinator does.    *)
Gate == /\ active = Cardinality(Inside)
        /\ spc # "idle" => gateClosing
        /\ closing => gateClosing /\ active = 0

Closed == /\ spc = "join" => closing /\ worker \in {0, joined}
          /\ down => closing /\ worker = 0

IInv == /\ TypeOK
        /\ Numbered
        /\ OneThreadWorks
        /\ WorkerWorks
        /\ EmptyHands
        /\ Waiting
        /\ Ordered
        /\ Located
        /\ Gate
        /\ Closed
-----------------------------------------------------------------------------
(* Facts about sequences of operations and of groups. *)

LEMMA AppendFacts ==
    ASSUME NEW S, NEW s \in Seq(S), NEW e \in S
    PROVE  /\ Append(s, e) \in Seq(S)
           /\ Len(s) \in Nat
           /\ Len(Append(s, e)) = Len(s) + 1
           /\ Append(s, e)[Len(s) + 1] = e
           /\ \A i \in 1..Len(s) : Append(s, e)[i] = s[i]
           /\ \A i \in 1..(Len(s) + 1) : i = Len(s) + 1 \/ i \in 1..Len(s)
           /\ Append(s, e) # <<>>
           /\ \A q : InSeq(Append(s, e), q) <=> q = e \/ InSeq(s, q)
<1>1. /\ Append(s, e) \in Seq(S)
      /\ Len(s) \in Nat
      /\ Len(Append(s, e)) = Len(s) + 1
      /\ Append(s, e)[Len(s) + 1] = e
      /\ \A i \in 1..Len(s) : Append(s, e)[i] = s[i]
      /\ Append(s, e) # <<>>
  OBVIOUS
<1>2. \A i \in 1..(Len(s) + 1) : i = Len(s) + 1 \/ i \in 1..Len(s)
  BY <1>1
<1>3. \A q : InSeq(Append(s, e), q) <=> q = e \/ InSeq(s, q)
  BY <1>1, <1>2 DEF InSeq
<1> QED
  BY <1>1, <1>2, <1>3

LEMMA TailFacts ==
    ASSUME NEW S, NEW s \in Seq(S), s # <<>>
    PROVE  /\ Head(s) \in S
           /\ Tail(s) \in Seq(S)
           /\ Len(s) \in Nat \ {0}
           /\ Head(s) = s[1]
           /\ Len(Tail(s)) = Len(s) - 1
           /\ \A i \in 1..Len(Tail(s)) : Tail(s)[i] = s[i + 1]
           /\ \A q : InSeq(s, q) <=> q = Head(s) \/ InSeq(Tail(s), q)
<1>1. /\ Head(s) \in S
      /\ Tail(s) \in Seq(S)
      /\ Len(s) \in Nat \ {0}
      /\ Head(s) = s[1]
      /\ Len(Tail(s)) = Len(s) - 1
      /\ \A i \in 1..Len(Tail(s)) : Tail(s)[i] = s[i + 1]
  OBVIOUS
<1>2. ASSUME NEW q PROVE InSeq(s, q) <=> q = Head(s) \/ InSeq(Tail(s), q)
  <2>1. ASSUME NEW i \in 1..Len(s), s[i] = q
        PROVE  q = Head(s) \/ InSeq(Tail(s), q)
    <3>1. CASE i = 1
      BY <1>1, <2>1, <3>1
    <3>2. CASE i # 1
      <4>1. i - 1 \in 1..Len(Tail(s)) /\ Tail(s)[i - 1] = q
        BY <1>1, <2>1, <3>2
      <4> QED
        BY <4>1 DEF InSeq
    <3> QED
      BY <3>1, <3>2
  <2>2. ASSUME NEW i \in 1..Len(Tail(s)), Tail(s)[i] = q PROVE InSeq(s, q)
    <3>1. i + 1 \in 1..Len(s) /\ s[i + 1] = q
      BY <1>1, <2>2
    <3> QED
      BY <3>1 DEF InSeq
  <2>3. 1 \in 1..Len(s)
    BY <1>1
  <2> QED
    BY <1>1, <2>1, <2>2, <2>3 DEF InSeq
<1> QED
  BY <1>1, <1>2

LEMMA IncreasingTail ==
    ASSUME NEW S, S \subseteq Int, NEW s \in Seq(S), s # <<>>, Increasing(s)
    PROVE  /\ Increasing(Tail(s))
           /\ \A q : InSeq(Tail(s), q) => Head(s) < q
<1>1. \A i \in 1..Len(Tail(s)) : i + 1 \in 1..Len(s) /\ Tail(s)[i] = s[i + 1]
  BY TailFacts
<1>2. Increasing(Tail(s))
  BY <1>1 DEF Increasing
<1>3. 1 \in 1..Len(s) /\ Head(s) = s[1]
  BY TailFacts
<1>4. ASSUME NEW i \in 1..Len(Tail(s)) PROVE Head(s) < Tail(s)[i]
  BY <1>1, <1>3 DEF Increasing
<1> QED
  BY <1>2, <1>4 DEF InSeq

(* A sequence is cut in two.                                               *)
LEMMA CutFacts ==
    ASSUME NEW S, S \subseteq Int, NEW s \in Seq(S), Increasing(s), NEW n \in 0..Len(s)
    PROVE  LET a == SubSeq(s, 1, n)
               b == SubSeq(s, n + 1, Len(s))
           IN  /\ a \in Seq(S) /\ b \in Seq(S)
               /\ Len(s) > n <=> b # <<>>
               /\ Increasing(a) /\ Increasing(b)
               /\ \A q : InSeq(s, q) <=> InSeq(a, q) \/ InSeq(b, q)
               /\ \A o, q : InSeq(a, o) /\ InSeq(b, q) => o < q
<1> DEFINE a == SubSeq(s, 1, n)
           b == SubSeq(s, n + 1, Len(s))
<1>1. /\ a \in Seq(S) /\ Len(a) = n /\ Len(s) \in Nat /\ n \in Nat
      /\ \A i \in 1..n : a[i] = s[i]
  OBVIOUS
<1>2. /\ b \in Seq(S) /\ Len(b) = Len(s) - n
      /\ \A i \in 1..(Len(s) - n) : b[i] = s[n + i]
  OBVIOUS
<1> HIDE DEF a, b
<1>3. Len(s) > n <=> b # <<>>
  <2>1. Len(b) > 0 => b # <<>>
    BY Len(<<>>) = 0
  <2>2. b # <<>> => Len(b) \in Nat \ {0}
    BY <1>2, EmptySeq
  <2> QED
    BY <1>1, <1>2, <2>1, <2>2
<1>4. Increasing(a)
  BY <1>1 DEF Increasing
<1>5. \A i \in 1..(Len(s) - n) : n + i \in 1..Len(s)
  BY <1>1
<1>6. Increasing(b)
  BY <1>1, <1>2, <1>5 DEF Increasing
<1>7. ASSUME NEW q PROVE InSeq(s, q) <=> InSeq(a, q) \/ InSeq(b, q)
  <2>1. ASSUME NEW i \in 1..Len(s), s[i] = q PROVE InSeq(a, q) \/ InSeq(b, q)
    <3>1. CASE i <= n
      BY <1>1, <2>1, <3>1 DEF InSeq
    <3>2. CASE i > n
      <4>1. i - n \in 1..(Len(s) - n) /\ n + (i - n) = i
        BY <1>1, <3>2
      <4>2. i - n \in 1..Len(b) /\ b[i - n] = q
        BY <1>2, <2>1, <4>1
      <4> QED
        BY <4>2 DEF InSeq
    <3> QED
      BY <1>1, <3>1, <3>2
  <2>2. InSeq(a, q) => InSeq(s, q)
    BY <1>1 DEF InSeq
  <2>3. InSeq(b, q) => InSeq(s, q)
    BY <1>2, <1>5 DEF InSeq
  <2> QED
    BY <2>1, <2>2, <2>3 DEF InSeq
<1>8. ASSUME NEW i \in 1..Len(a), NEW j \in 1..Len(b) PROVE a[i] < b[j]
  <2>1. /\ i \in 1..Len(s) /\ n + j \in 1..Len(s) /\ i < n + j
        /\ a[i] = s[i] /\ b[j] = s[n + j]
    BY <1>1, <1>2
  <2> QED
    BY <2>1 DEF Increasing
<1>9. \A o, q : InSeq(a, o) /\ InSeq(b, q) => o < q
  BY <1>8 DEF InSeq
<1> QED
  BY <1>1, <1>2, <1>3, <1>4, <1>6, <1>7, <1>9 DEF a, b

Groups == [key : Keys, ops : SUBSET Ops]

(* Grouped adds one operation and drops none.                              *)
LEMMA GroupedFacts ==
    ASSUME NEW gs \in Seq(Groups), NEW o \in Ops, key[o] \in Keys
    PROVE  /\ Grouped(gs, o) \in Seq(Groups)
           /\ \A q : InGroups(Grouped(gs, o), q) <=> q = o \/ InGroups(gs, q)
<1> DEFINE new == [key |-> key[o], ops |-> {o}]
           put(i) == IF gs[i].key = key[o] THEN [gs[i] EXCEPT !.ops = @ \cup {o}]
                                           ELSE gs[i]
<1>1. Len(gs) \in Nat /\ \A i \in 1..Len(gs) : gs[i] \in Groups
  OBVIOUS
<1>2. CASE \E i \in 1..Len(gs) : gs[i].key = key[o]
  <2>1. Grouped(gs, o) = [i \in 1..Len(gs) |-> put(i)]
    BY <1>2 DEF Grouped
  <2>2. ASSUME NEW i \in 1..Len(gs)
        PROVE  /\ put(i) \in Groups
               /\ put(i).ops = IF gs[i].key = key[o] THEN gs[i].ops \cup {o}
                                                     ELSE gs[i].ops
    BY <1>1 DEF Groups
  <2> HIDE DEF put
  <2>3. /\ Grouped(gs, o) \in Seq(Groups)
        /\ Len(Grouped(gs, o)) = Len(gs)
        /\ \A i \in 1..Len(gs) : Grouped(gs, o)[i] = put(i)
    <3>1. [i \in 1..Len(gs) |-> put(i)] \in [1..Len(gs) -> Groups]
      BY <2>2
    <3>2. \A n \in Nat : \A t \in [1..n -> Groups] : t \in Seq(Groups) /\ Len(t) = n
      OBVIOUS
    <3> QED
      BY <1>1, <2>1, <3>1, <3>2
  <2>4. ASSUME NEW q
        PROVE  InGroups(Grouped(gs, o), q) <=> q = o \/ InGroups(gs, q)
    BY <1>2, <2>2, <2>3 DEF InGroups
  <2> QED
    BY <2>3, <2>4
<1>3. CASE ~\E i \in 1..Len(gs) : gs[i].key = key[o]
  <2>1. Grouped(gs, o) = Append(gs, new)
    BY <1>3 DEF Grouped
  <2>2. new \in Groups /\ new.ops = {o}
    BY DEF Groups
  <2> HIDE DEF new
  <2>3. /\ Append(gs, new) \in Seq(Groups)
        /\ Len(Append(gs, new)) = Len(gs) + 1
        /\ Append(gs, new)[Len(gs) + 1] = new
        /\ \A i \in 1..Len(gs) : Append(gs, new)[i] = gs[i]
    BY <2>2, AppendFacts
  <2>4. ASSUME NEW q
        PROVE  InGroups(Append(gs, new), q) <=> q = o \/ InGroups(gs, q)
    <3>1. \A i \in 1..(Len(gs) + 1) : i = Len(gs) + 1 \/ i \in 1..Len(gs)
      BY <1>1
    <3>2. Len(gs) + 1 \in 1..(Len(gs) + 1) /\ \A i \in 1..Len(gs) : i \in 1..(Len(gs) + 1)
      BY <1>1
    <3> QED
      BY <2>2, <2>3, <3>1, <3>2 DEF InGroups
  <2> QED
    BY <2>1, <2>3, <2>4
<1> QED
  BY <1>2, <1>3

(* The first group is taken off.                                           *)
LEMMA GroupsTail ==
    ASSUME NEW gs \in Seq(Groups), gs # <<>>
    PROVE  /\ Tail(gs) \in Seq(Groups)
           /\ Head(gs).ops \subseteq Ops
           /\ \A q : InGroups(gs, q) <=> q \in Head(gs).ops \/ InGroups(Tail(gs), q)
<1>1. Head(gs) \in Groups /\ Tail(gs) \in Seq(Groups)
  BY TailFacts
<1>2. ASSUME NEW q
      PROVE  InGroups(gs, q) <=> q \in Head(gs).ops \/ InGroups(Tail(gs), q)
  <2>1. \A x : InSeq(gs, x) <=> x = Head(gs) \/ InSeq(Tail(gs), x)
    BY TailFacts
  <2>2. InGroups(gs, q) <=> \E x : InSeq(gs, x) /\ q \in x.ops
    BY DEF InGroups, InSeq
  <2>3. InGroups(Tail(gs), q) <=> \E x : InSeq(Tail(gs), x) /\ q \in x.ops
    BY DEF InGroups, InSeq
  <2> QED
    BY <2>1, <2>2, <2>3
<1> QED
  BY <1>1, <1>2 DEF Groups

-----------------------------------------------------------------------------
LEMMA NothingInEmpty ==
    ASSUME NEW o
    PROVE  ~InSeq(<<>>, o) /\ ~InGroups(<<>>, o)
<1>1. Len(<<>>) = 0
  OBVIOUS
<1> QED
  BY <1>1 DEF InSeq, InGroups

THEOREM InitIInv == Init => IInv
<1> SUFFICES ASSUME Init PROVE IInv
  OBVIOUS
<1> USE DEF Init
<1>1. TypeOK
  <2>1. <<>> \in Seq(Ops) /\ <<>> \in Seq([key : Keys, ops : SUBSET Ops])
    OBVIOUS
  <2>2. /\ batch \in [Threads -> Seq(Ops)]
        /\ groups \in [Threads -> Seq([key : Keys, ops : SUBSET Ops])]
        /\ pending \in Seq(Ops)
    BY <2>1
  <2>3. /\ ops \in 0..MaxOps /\ cur \in [Callers -> 0..MaxOps]
        /\ worker \in 0..MaxThreads /\ threads \in 0..MaxThreads
        /\ joined \in 0..MaxThreads /\ active \in Nat
    BY ConstantsAssumption
  <2>4. /\ gateClosing \in BOOLEAN /\ closing \in BOOLEAN /\ down \in BOOLEAN
        /\ cpc \in [Callers -> {"out", "in", "wait"}]
        /\ key \in [Ops -> Keys \cup {NoKey}]
        /\ fut \in [Ops -> {"none", "pending"} \cup Done]
        /\ tpc \in [Threads -> TPCs]
        /\ running \in [Threads -> SUBSET Ops]
        /\ spc \in {"idle", "drain", "join"}
    BY DEF TPCs
  <2> QED
    BY <2>2, <2>3, <2>4 DEF TypeOK
<1>2. \A g \in Threads : \A o : ~InHand(g, o)
  BY NothingInEmpty DEF InHand
<1>3. Numbered
  BY <1>2, ConstantsAssumption DEF Numbered, Ops
<1>4. OneThreadWorks /\ WorkerWorks /\ EmptyHands /\ Closed
  BY DEF OneThreadWorks, WorkerWorks, EmptyHands, Closed
<1>5. Waiting /\ Located
  BY <1>2, NothingInEmpty DEF Waiting, Located, InHand
<1>6. Ordered
  <2>1. Increasing(<<>>)
    BY Len(<<>>) = 0 DEF Increasing
  <2> QED
    BY <1>2, <2>1 DEF Ordered
<1>7. Gate
  <2>1. Inside = {}
    BY DEF Inside
  <2> QED
    BY <2>1, FS_EmptySet DEF Gate
<1> QED
  BY <1>1, <1>3, <1>4, <1>5, <1>6, <1>7 DEF IInv

(* What the coordinator and its threads have, apart from closing.          *)
QueueInv == /\ Numbered /\ OneThreadWorks /\ WorkerWorks /\ EmptyHands
            /\ Waiting /\ Ordered /\ Located

LEMMA QueueFrame ==
    ASSUME QueueInv, UNCHANGED <<ops, key, fut, pending, worker, threads, threadVars>>
    PROVE  QueueInv'
<1>1. \A g, o : InHand(g, o)' <=> InHand(g, o)
  BY DEF InHand, InSeq, InGroups, threadVars
<1>2. \A o : InSeq(pending, o)' <=> InSeq(pending, o)
  BY DEF InSeq
<1>3. Numbered' /\ Waiting' /\ Located'
  BY <1>1, <1>2 DEF QueueInv, Numbered, Waiting, Located, InSeq, threadVars
<1>4. Ordered'
  BY <1>1, <1>2 DEF QueueInv, Ordered, Increasing, threadVars
<1>5. OneThreadWorks' /\ WorkerWorks' /\ EmptyHands'
  BY DEF QueueInv, OneThreadWorks, WorkerWorks, Working, EmptyHands, threadVars
<1> QED
  BY <1>3, <1>4, <1>5 DEF QueueInv

LEMMA GateFrame ==
    ASSUME IInv, UNCHANGED <<gateVars, cpc, closing, spc>>
    PROVE  Gate'
  BY DEF IInv, Gate, Inside, gateVars

LEMMA ClosedFrame ==
    ASSUME IInv, UNCHANGED <<closing, spc, joined, down>>, worker' \in {0, worker}
    PROVE  Closed'
  BY DEF IInv, Closed

(* A thread that works is the only one with anything in its hands.         *)
LEMMA Owner ==
    ASSUME IInv, NEW g \in Threads, Working(g)
    PROVE  /\ worker = g /\ g # 0
           /\ \A h \in Threads : h # g =>
                 /\ ~Working(h)
                 /\ batch[h] = <<>> /\ groups[h] = <<>> /\ running[h] = {}
                 /\ \A o : ~InHand(h, o)
<1>1. worker = g /\ g # 0
  BY ConstantsAssumption DEF IInv, OneThreadWorks, Working, Threads
<1>2. ASSUME NEW h \in Threads, h # g
      PROVE  ~Working(h) /\ batch[h] = <<>> /\ groups[h] = <<>> /\ running[h] = {}
  BY <1>1, <1>2 DEF IInv, OneThreadWorks, Working, EmptyHands
<1> QED
  BY <1>1, <1>2, NothingInEmpty DEF InHand

-----------------------------------------------------------------------------
(* Callers. *)

LEMMA InsideFinite ==
    ASSUME NEW S \in SUBSET Callers
    PROVE  IsFiniteSet(S) /\ Cardinality(S) \in Nat
  BY ConstantsAssumption, FS_Subset, FS_CardinalityType

LEMMA EnterStep ==
    ASSUME IInv, NEW c \in Callers, Enter(c)
    PROVE  IInv'
<1> USE DEF Enter
<1>1. TypeOK'
  <2>1. active' \in Nat /\ cpc' \in [Callers -> {"out", "in", "wait"}]
    BY DEF IInv, TypeOK
  <2> QED
    BY <2>1 DEF IInv, TypeOK, queueVars, threadVars, shutVars
<1>2. QueueInv'
  BY QueueFrame DEF IInv, QueueInv, queueVars
<1>3. Gate'
  <2>1. Inside' = Inside \cup {c} /\ c \notin Inside /\ Inside \in SUBSET Callers
    BY DEF Inside, IInv, TypeOK
  <2>2. Cardinality(Inside') = Cardinality(Inside) + 1
    BY <2>1, InsideFinite, FS_AddElement
  <2>3. active' = Cardinality(Inside')
    BY <2>2 DEF IInv, Gate
  <2>4. ~closing' /\ spc' = "idle"
    BY DEF IInv, Gate, TypeOK, queueVars, shutVars
  <2> QED
    BY <2>3, <2>4 DEF Gate
<1>4. Closed'
  BY ClosedFrame DEF queueVars, shutVars
<1> QED
  BY <1>1, <1>2, <1>3, <1>4 DEF IInv, QueueInv

LEMMA AnsweredStep ==
    ASSUME IInv, NEW c \in Callers, Answered(c)
    PROVE  IInv'
<1> USE DEF Answered
<1>1. TypeOK'
  <2>1. cur' \in [Callers -> 0..MaxOps]
    BY ConstantsAssumption DEF IInv, TypeOK
  <2> QED
    BY <2>1 DEF IInv, TypeOK, gateVars, queueVars, threadVars, shutVars
<1>2. QueueInv'
  BY QueueFrame DEF IInv, QueueInv, queueVars
<1>3. Gate'
  <2>1. Inside' = Inside
    BY DEF Inside, IInv, TypeOK
  <2> QED
    BY <2>1 DEF IInv, Gate, gateVars, queueVars, shutVars
<1>4. Closed'
  BY ClosedFrame DEF queueVars, shutVars
<1> QED
  BY <1>1, <1>2, <1>3, <1>4 DEF IInv, QueueInv

LEMMA LeaveStep ==
    ASSUME IInv, NEW c \in Callers, Leave(c)
    PROVE  IInv'
<1> USE DEF Leave
<1>1. Inside' = Inside \ {c} /\ c \in Inside /\ Inside \in SUBSET Callers
  BY DEF Inside, IInv, TypeOK
<1>2. /\ Cardinality(Inside) \in Nat /\ Cardinality(Inside') \in Nat
      /\ Cardinality(Inside') = Cardinality(Inside) - 1
  BY <1>1, InsideFinite, FS_RemoveElement
<1>3. active' = Cardinality(Inside') /\ active # 0
  BY <1>2 DEF IInv, Gate
<1>4. TypeOK'
  BY <1>2, <1>3 DEF IInv, TypeOK, queueVars, threadVars, shutVars
<1>5. QueueInv'
  BY QueueFrame DEF IInv, QueueInv, queueVars
<1>6. Gate'
  BY <1>3 DEF IInv, Gate, queueVars, shutVars
<1>7. Closed'
  BY ClosedFrame DEF queueVars, shutVars
<1> QED
  BY <1>4, <1>5, <1>6, <1>7 DEF IInv, QueueInv

LEMMA SubmitStep ==
    ASSUME IInv, NEW c \in Callers, NEW k \in Keys, Submit(c, k)
    PROVE  IInv'
<1> DEFINE o == ops + 1
<1>1. /\ o \in Ops /\ o \in 1..MaxOps /\ ops \in Nat /\ ops' = o
      /\ o \notin 1..ops
      /\ \A q \in Ops : q \in Int /\ (q <= o <=> q <= ops \/ q = o)
  BY ConstantsAssumption DEF Submit, IInv, TypeOK, Ops
<1> USE DEF Submit
<1>2. /\ key' = [key EXCEPT ![o] = k] /\ fut' = [fut EXCEPT ![o] = "pending"]
      /\ key \in [Ops -> Keys \cup {NoKey}]
      /\ fut \in [Ops -> {"none", "pending"} \cup Done]
      /\ key'[o] = k /\ fut'[o] = "pending"
      /\ \A q \in Ops : q # o => key'[q] = key[q] /\ fut'[q] = fut[q]
  BY <1>1 DEF IInv, TypeOK
<1>3. /\ pending \in Seq(Ops) /\ pending' = Append(pending, o)
      /\ pending' \in Seq(Ops) /\ pending' # <<>>
      /\ \A q : InSeq(pending, q)' <=> q = o \/ InSeq(pending, q)
  <2>1. pending \in Seq(Ops) /\ pending' = Append(pending, o)
    BY DEF IInv, TypeOK
  <2>2. \A q : InSeq(pending', q) <=> q = o \/ InSeq(pending, q)
    BY <1>1, <2>1, AppendFacts
  <2> QED
    BY <1>1, <2>1, <2>2, AppendFacts DEF InSeq
<1>4. /\ worker = 0 => /\ threads' = threads + 1 /\ worker' = threads + 1
                       /\ threads < MaxThreads
                       /\ tpc' = [tpc EXCEPT ![threads + 1] = "loop"]
      /\ worker # 0 => UNCHANGED <<threads, worker, tpc>>
  BY DEF StartWorker, NeedsWorker, Alive, IInv, TypeOK, WorkerWorks, Working, Threads
<1>5. TypeOK'
  <2>1. ops' \in 0..MaxOps /\ cur' \in [Callers -> 0..MaxOps]
    BY <1>1, ConstantsAssumption DEF IInv, TypeOK
  <2>2. /\ worker' \in 0..MaxThreads /\ threads' \in 0..MaxThreads
        /\ tpc' \in [Threads -> TPCs]
    <3>1. /\ worker \in 0..MaxThreads /\ threads \in 0..MaxThreads
          /\ tpc \in [Threads -> TPCs] /\ "loop" \in TPCs
      BY DEF IInv, TypeOK, TPCs
    <3>2. CASE worker = 0
      BY <1>4, <3>1, <3>2, ConstantsAssumption
    <3>3. CASE worker # 0
      BY <1>4, <3>1, <3>3
    <3> QED
      BY <3>2, <3>3
  <2>3. /\ key' \in [Ops -> Keys \cup {NoKey}]
        /\ fut' \in [Ops -> {"none", "pending"} \cup Done]
    BY <1>1, <1>2
  <2>4. cpc' \in [Callers -> {"out", "in", "wait"}]
    BY DEF IInv, TypeOK
  <2> QED
    BY <1>3, <2>1, <2>2, <2>3, <2>4 DEF IInv, TypeOK, gateVars, shutVars
<1>6. \A g, q : InHand(g, q)' <=> InHand(g, q)
  BY DEF InHand, InSeq, InGroups
<1>7. \A q \in Ops : \A g \in Threads : InHand(g, q) => q <= ops /\ q < o /\ q # o
  BY <1>1 DEF IInv, Numbered
<1>8. \A q \in Ops : InSeq(pending, q) => q <= ops /\ q < o /\ q # o
  BY <1>1 DEF IInv, Numbered, Waiting
<1>9. Numbered'
  BY <1>1, <1>2, <1>6, <1>7 DEF IInv, Numbered
<1>10. Waiting'
  BY <1>2, <1>3, <1>7 DEF IInv, Waiting, InHand, InSeq
<1>11. Located'
  BY <1>2, <1>3, <1>6 DEF IInv, Located
<1>12. Ordered'
  <2>1. Increasing(pending')
    <3>1. \A i \in 1..Len(pending) : pending[i] \in Ops /\ pending[i] < o
      <4>1. ASSUME NEW i \in 1..Len(pending) PROVE pending[i] \in Ops /\ InSeq(pending, pending[i])
        BY <1>3 DEF InSeq
      <4> QED
        BY <1>8, <4>1
    <3>2. /\ Len(pending) \in Nat /\ Len(pending') = Len(pending) + 1
          /\ pending'[Len(pending) + 1] = o
          /\ \A i \in 1..Len(pending) : pending'[i] = pending[i]
          /\ \A i \in 1..(Len(pending) + 1) : i = Len(pending) + 1 \/ i \in 1..Len(pending)
      BY <1>1, <1>3, AppendFacts
    <3>3. Increasing(pending)
      BY DEF IInv, Ordered
    <3> QED
      BY <3>1, <3>2, <3>3 DEF Increasing
  <2>2. \A g \in Threads : \A p, q \in Ops :
            InHand(g, p)' /\ InSeq(pending, q)' => p < q
    BY <1>3, <1>6, <1>7 DEF IInv, Ordered
  <2>3. \A g \in Threads : Increasing(batch[g])'
    BY DEF IInv, Ordered, Increasing
  <2> QED
    BY <2>1, <2>2, <2>3 DEF Ordered, Increasing
<1>13. OneThreadWorks' /\ WorkerWorks' /\ EmptyHands'
  <2>1. CASE worker = 0
    <3>1. /\ threads \in Nat /\ threads + 1 \in Threads /\ tpc[threads + 1] = "unborn"
          /\ tpc' = [tpc EXCEPT ![threads + 1] = "loop"] /\ tpc \in [Threads -> TPCs]
      <4>1. threads \in 0..MaxThreads /\ tpc \in [Threads -> TPCs]
        BY DEF IInv, TypeOK
      <4>2. threads \in Nat /\ threads + 1 \in Threads /\ threads + 1 > threads
        BY <1>4, <2>1, <4>1, ConstantsAssumption DEF Threads
      <4>3. tpc[threads + 1] = "unborn"
        BY <4>2 DEF IInv, WorkerWorks
      <4> QED
        BY <1>4, <2>1, <4>1, <4>2, <4>3
    <3>2. \A g \in Threads : ~Working(g)
      BY <2>1, ConstantsAssumption DEF IInv, OneThreadWorks, Working, Threads
    <3>3. \A g \in Threads : tpc'[g] = IF g = threads + 1 THEN "loop" ELSE tpc[g]
      BY <3>1
    <3>4. OneThreadWorks'
      BY <1>4, <2>1, <3>2, <3>3 DEF OneThreadWorks, Working
    <3>5. EmptyHands'
      BY <3>1, <3>3 DEF IInv, EmptyHands
    <3>6. \A g \in Threads : g > threads' => tpc'[g] = "unborn"
      BY <1>4, <2>1, <3>1, <3>3 DEF IInv, WorkerWorks, Threads
    <3>7. worker' # 0 /\ Working(worker)'
      BY <1>4, <2>1, <3>1, <3>3 DEF Working
    <3> QED
      BY <3>4, <3>5, <3>6, <3>7 DEF WorkerWorks
  <2>2. CASE worker # 0
    BY <1>4, <2>2 DEF IInv, OneThreadWorks, WorkerWorks, EmptyHands, Working
  <2> QED
    BY <2>1, <2>2
<1>14. Gate'
  <2>1. Inside' = Inside
    BY DEF Inside, IInv, TypeOK
  <2> QED
    BY <2>1 DEF IInv, Gate, gateVars, shutVars
<1>15. Closed'
  BY DEF IInv, Closed, shutVars
<1> QED
  BY <1>5, <1>9, <1>10, <1>11, <1>12, <1>13, <1>14, <1>15 DEF IInv

-----------------------------------------------------------------------------
(* The coordinator thread. *)

(* Steps that leave the operations and the locals of all threads alone.    *)
LEMMA HandsFrame ==
    ASSUME QueueInv, UNCHANGED <<ops, key, fut, pending, batch, groups, running>>
    PROVE  Numbered' /\ Waiting' /\ Ordered' /\ Located'
<1>1. \A g, o : InHand(g, o)' <=> InHand(g, o)
  BY DEF InHand, InSeq, InGroups
<1>2. \A o : InSeq(pending, o)' <=> InSeq(pending, o)
  BY DEF InSeq
<1>3. Numbered' /\ Waiting' /\ Located'
  BY <1>1, <1>2 DEF QueueInv, Numbered, Waiting, Located, InSeq
<1>4. Ordered'
  BY <1>1, <1>2 DEF QueueInv, Ordered, Increasing
<1> QED
  BY <1>3, <1>4

(* Steps of a thread leave the callers and the shutdown alone.             *)
LEMMA OutsideFrame ==
    ASSUME IInv, UNCHANGED <<gateVars, callerVars, closing, shutVars>>,
           worker' \in {0, worker}
    PROVE  Gate' /\ Closed'
  BY GateFrame, ClosedFrame DEF callerVars, shutVars

(* A working thread goes on working.                                       *)
LEMMA KeepsWorking ==
    ASSUME IInv, NEW g \in Threads, Working(g), NEW to \in {"loop", "validate", "execute"},
           tpc' = [tpc EXCEPT ![g] = to], UNCHANGED <<worker, threads>>,
           pending' # <<>> => pending # <<>>
    PROVE  OneThreadWorks' /\ WorkerWorks' /\ tpc' \in [Threads -> TPCs]
<1>1. worker = g /\ g # 0 /\ \A h \in Threads : h # g => ~Working(h)
  BY Owner
<1>2. tpc \in [Threads -> TPCs] /\ \A h \in Threads : tpc'[h] = IF h = g THEN to ELSE tpc[h]
  BY DEF IInv, TypeOK
<1>3. OneThreadWorks'
  BY <1>1, <1>2 DEF OneThreadWorks, Working
<1>4. WorkerWorks'
  BY <1>1, <1>2 DEF IInv, WorkerWorks, Working
<1>5. tpc' \in [Threads -> TPCs]
  BY <1>2 DEF TPCs
<1> QED
  BY <1>3, <1>4, <1>5

LEMMA RetireStep ==
    ASSUME IInv, NEW g \in Threads, Retire(g)
    PROVE  IInv'
<1> USE DEF Retire
<1>1. Working(g) /\ worker = g /\ \A h \in Threads : h # g => ~Working(h)
  BY Owner DEF Working
<1>2. tpc \in [Threads -> TPCs] /\ \A h \in Threads : tpc'[h] = IF h = g THEN "exit" ELSE tpc[h]
  BY DEF IInv, TypeOK
<1>3. TypeOK'
  <2>1. tpc' \in [Threads -> TPCs] /\ worker' \in 0..MaxThreads
    BY <1>2, ConstantsAssumption DEF TPCs
  <2> QED
    BY <2>1 DEF IInv, TypeOK, gateVars, callerVars, shutVars
<1>4. OneThreadWorks'
  BY <1>1, <1>2 DEF OneThreadWorks, Working
<1>5. WorkerWorks'
  BY <1>2 DEF IInv, WorkerWorks
<1>6. EmptyHands'
  BY <1>2 DEF IInv, EmptyHands
<1>7. Numbered' /\ Waiting' /\ Ordered' /\ Located'
  BY HandsFrame DEF IInv, QueueInv, callerVars
<1> QED
  BY <1>3, <1>4, <1>5, <1>6, <1>7, OutsideFrame DEF IInv

LEMMA ExitStep ==
    ASSUME IInv, NEW g \in Threads, Exit(g)
    PROVE  IInv'
<1> USE DEF Exit
<1>1. tpc \in [Threads -> TPCs] /\ \A h \in Threads : tpc'[h] = IF h = g THEN "dead" ELSE tpc[h]
  BY DEF IInv, TypeOK
<1>2. TypeOK'
  <2>1. tpc' \in [Threads -> TPCs]
    BY <1>1 DEF TPCs
  <2> QED
    BY <2>1 DEF IInv, TypeOK, gateVars, callerVars, queueVars, shutVars
<1>3. OneThreadWorks' /\ WorkerWorks'
  BY <1>1 DEF IInv, OneThreadWorks, WorkerWorks, Working, queueVars, TypeOK, Threads
<1>4. EmptyHands'
  BY <1>1 DEF IInv, EmptyHands
<1>5. Numbered' /\ Waiting' /\ Ordered' /\ Located'
  BY HandsFrame DEF IInv, QueueInv, callerVars, queueVars
<1> QED
  BY <1>2, <1>3, <1>4, <1>5, OutsideFrame DEF IInv, queueVars

LEMMA NextRoundStep ==
    ASSUME IInv, NEW g \in Threads, NextRound(g)
    PROVE  IInv'
<1> USE DEF NextRound
<1>1. /\ OneThreadWorks' /\ WorkerWorks' /\ tpc' \in [Threads -> TPCs]
      /\ \A h \in Threads : tpc'[h] = IF h = g THEN "loop" ELSE tpc[h]
  BY KeepsWorking DEF Working, queueVars, IInv, TypeOK
<1>2. TypeOK'
  BY <1>1 DEF IInv, TypeOK, gateVars, callerVars, queueVars, shutVars
<1>3. EmptyHands'
  BY <1>1 DEF IInv, EmptyHands
<1>4. Numbered' /\ Waiting' /\ Ordered' /\ Located'
  BY HandsFrame DEF IInv, QueueInv, callerVars, queueVars
<1> QED
  BY <1>1, <1>2, <1>3, <1>4, OutsideFrame DEF IInv, queueVars

LEMMA TakeStep ==
    ASSUME IInv, NEW g \in Threads, Take(g)
    PROVE  IInv'
<1> USE DEF Take
<1> DEFINE a == SubSeq(pending, 1, Taken)
           b == SubSeq(pending, Taken + 1, Len(pending))
<1>1. /\ pending \in Seq(Ops) /\ batch \in [Threads -> Seq(Ops)]
      /\ Increasing(pending) /\ Ops \subseteq Int
  BY DEF IInv, TypeOK, Ordered, Ops
<1>2. Taken \in 0..Len(pending)
  BY <1>1, ConstantsAssumption DEF Taken
<1>3. /\ a \in Seq(Ops) /\ b \in Seq(Ops) /\ Increasing(a) /\ Increasing(b)
      /\ \A q : InSeq(pending, q) <=> InSeq(a, q) \/ InSeq(b, q)
      /\ \A o, q : InSeq(a, o) /\ InSeq(b, q) => o < q
  BY <1>1, <1>2, CutFacts
<1>4. /\ pending' = b
      /\ \A h \in Threads : batch'[h] = IF h = g THEN a ELSE batch[h]
  BY <1>1
<1> HIDE DEF a, b
<1>5. /\ OneThreadWorks' /\ WorkerWorks' /\ tpc' \in [Threads -> TPCs]
      /\ \A h \in Threads : tpc'[h] = IF h = g THEN "validate" ELSE tpc[h]
  BY KeepsWorking DEF Working, IInv, TypeOK
<1>6. TypeOK'
  <2>1. batch' \in [Threads -> Seq(Ops)] /\ pending' \in Seq(Ops)
    BY <1>1, <1>3, <1>4
  <2> QED
    BY <1>5, <2>1 DEF IInv, TypeOK, gateVars, callerVars, shutVars
<1>7. EmptyHands'
  BY <1>4, <1>5 DEF IInv, EmptyHands
<1>8. \A q : InSeq(pending, q)' <=> InSeq(b, q)
  BY <1>4 DEF InSeq
<1>9. \A h \in Threads : \A q : InHand(h, q)' <=> \/ h = g /\ InSeq(a, q)
                                                  \/ h # g /\ InHand(h, q)
  <2>1. /\ batch[g] = <<>> /\ groups[g] = <<>> /\ running[g] = {}
    BY DEF IInv, EmptyHands
  <2>2. \A h \in Threads : \A q :
            /\ InSeq(batch[h], q)' <=> InSeq(batch'[h], q)
            /\ InGroups(groups[h], q)' <=> InGroups(groups[h], q)
    BY DEF InSeq, InGroups
  <2> QED
    BY <1>4, <2>1, <2>2, NothingInEmpty DEF InHand
<1>10. \A h \in Threads : \A q : ~InHand(h, q)
  <2>1. \A q : ~InHand(g, q)
    BY NothingInEmpty DEF InHand, IInv, EmptyHands
  <2> QED
    BY <2>1, Owner DEF Working
<1>11. \A h \in Threads : \A q : InSeq(batch[h], q)' <=> \/ h = g /\ InSeq(a, q)
                                                         \/ h # g /\ InSeq(batch[h], q)
  BY <1>4 DEF InSeq
<1>12. Numbered'
  BY <1>3, <1>9, <1>10 DEF IInv, Numbered, Waiting, callerVars
<1>13. Waiting'
  BY <1>3, <1>8, <1>11 DEF IInv, Waiting
<1>14. Located'
  BY <1>3, <1>8, <1>9, <1>10 DEF IInv, Located
<1>15. Ordered'
  <2>1. Increasing(pending)'
    BY <1>3, <1>4 DEF Increasing
  <2>2. ASSUME NEW h \in Threads PROVE Increasing(batch[h])'
    <3>1. CASE h = g
      BY <1>3, <1>4, <3>1 DEF Increasing
    <3>2. CASE h # g
      BY <1>4, <3>2 DEF IInv, Ordered, Increasing
    <3> QED
      BY <3>1, <3>2
  <2> QED
    BY <1>3, <1>8, <1>9, <1>10, <2>1, <2>2 DEF Ordered
<1> QED
  BY <1>5, <1>6, <1>7, <1>12, <1>13, <1>14, <1>15, OutsideFrame DEF IInv

(* The first operation of the batch, and what is left of it.               *)
LEMMA BatchHead ==
    ASSUME IInv, NEW g \in Threads, tpc[g] = "validate", batch[g] # <<>>
    PROVE  /\ batch \in [Threads -> Seq(Ops)]
           /\ Head(batch[g]) \in Ops /\ Tail(batch[g]) \in Seq(Ops)
           /\ fut[Head(batch[g])] = "pending"
           /\ InHand(g, Head(batch[g]))
           /\ \A q : InSeq(batch[g], q) <=> q = Head(batch[g]) \/ InSeq(Tail(batch[g]), q)
           /\ Increasing(Tail(batch[g]))
           /\ \A q : InSeq(Tail(batch[g]), q) => q # Head(batch[g])
           /\ \A q \in Ops : InSeq(pending, q) => q # Head(batch[g])
           /\ \A h \in Threads : h # g => batch[h] = <<>> /\ \A q : ~InHand(h, q)
<1> DEFINE s == batch[g]
<1>1. /\ batch \in [Threads -> Seq(Ops)] /\ s \in Seq(Ops) /\ Ops \subseteq Int
      /\ Increasing(s)
  BY DEF IInv, TypeOK, Ordered, Ops
<1>2. /\ Head(s) \in Ops /\ Tail(s) \in Seq(Ops)
      /\ \A q : InSeq(s, q) <=> q = Head(s) \/ InSeq(Tail(s), q)
  BY <1>1, TailFacts
<1>3. Increasing(Tail(s)) /\ \A q : InSeq(Tail(s), q) => Head(s) < q
  BY <1>1, IncreasingTail
<1> HIDE DEF s
<1>4. \A q : q < q => q \notin Ops
  BY DEF Ops
<1>5. \A q : InSeq(Tail(s), q) => q # Head(s)
  BY <1>2, <1>3, <1>4
<1>6. InSeq(s, Head(s)) /\ InHand(g, Head(s)) /\ fut[Head(s)] = "pending"
  BY <1>2 DEF InHand, IInv, Waiting, s
<1>7. \A q \in Ops : InSeq(pending, q) => q # Head(s)
  BY <1>2, <1>4, <1>6 DEF IInv, Ordered
<1>8. \A h \in Threads : h # g => batch[h] = <<>> /\ \A q : ~InHand(h, q)
  BY Owner DEF Working
<1> QED
  BY <1>1, <1>2, <1>3, <1>5, <1>6, <1>7, <1>8 DEF s

LEMMA ValidateFailsStep ==
    ASSUME IInv, NEW g \in Threads, ValidateFails(g)
    PROVE  IInv'
<1> USE DEF ValidateFails
<1> DEFINE o == Head(batch[g])
           r == Tail(batch[g])
<1>1. /\ o \in Ops /\ r \in Seq(Ops) /\ fut[o] = "pending" /\ InHand(g, o)
      /\ \A q : InSeq(batch[g], q) <=> q = o \/ InSeq(r, q)
      /\ Increasing(r)
      /\ \A q : InSeq(r, q) => q # o
      /\ \A q \in Ops : InSeq(pending, q) => q # o
      /\ \A h \in Threads : h # g => batch[h] = <<>> /\ \A q : ~InHand(h, q)
  BY BatchHead
<1>2. /\ fut \in [Ops -> {"none", "pending"} \cup Done]
      /\ batch \in [Threads -> Seq(Ops)]
  BY DEF IInv, TypeOK
<1>3. /\ batch' = [batch EXCEPT ![g] = r] /\ fut' = [fut EXCEPT ![o] = "error"]
      /\ \A h \in Threads : batch'[h] = IF h = g THEN r ELSE batch[h]
      /\ \A q \in Ops : fut'[q] = IF q = o THEN "error" ELSE fut[q]
  BY <1>1, <1>2
<1> HIDE DEF o, r
<1>4. TypeOK'
  <2>1. batch' \in [Threads -> Seq(Ops)] /\ fut' \in [Ops -> {"none", "pending"} \cup Done]
    BY <1>1, <1>2, <1>3 DEF Done
  <2> QED
    BY <2>1 DEF IInv, TypeOK, gateVars, callerVars, queueVars, shutVars
<1>5. OneThreadWorks' /\ WorkerWorks' /\ EmptyHands'
  BY <1>3 DEF IInv, OneThreadWorks, WorkerWorks, EmptyHands, Working, queueVars
<1>6. \A q : InSeq(pending, q)' <=> InSeq(pending, q)
  BY DEF InSeq, queueVars
<1>7. \A h \in Threads : \A q : InSeq(batch[h], q)' <=> IF h = g THEN InSeq(r, q)
                                                             ELSE InSeq(batch[h], q)
  BY <1>3 DEF InSeq
<1>8. \A h \in Threads : \A q : InGroups(groups[h], q)' <=> InGroups(groups[h], q)
  BY DEF InGroups
<1>9. \A h \in Threads : \A q :
          /\ InHand(h, q)' => InHand(h, q)
          /\ InHand(h, q) => InHand(h, q)' \/ q = o
  BY <1>1, <1>7, <1>8 DEF InHand
<1>10. Numbered'
  BY <1>1, <1>3, <1>9 DEF IInv, Numbered, callerVars
<1>11. Waiting'
  BY <1>1, <1>3, <1>6, <1>7, NothingInEmpty DEF IInv, Waiting
<1>12. Located'
  BY <1>3, <1>6, <1>9 DEF IInv, Located
<1>13. Ordered'
  <2>1. Increasing(pending)' /\ \A h \in Threads : Increasing(batch[h])'
    BY <1>1, <1>3 DEF IInv, Ordered, Increasing, queueVars
  <2> QED
    BY <1>6, <1>9, <2>1 DEF IInv, Ordered
<1> QED
  BY <1>4, <1>5, <1>10, <1>11, <1>12, <1>13, OutsideFrame DEF IInv, queueVars

LEMMA ValidateStep ==
    ASSUME IInv, NEW g \in Threads, Validate(g)
    PROVE  IInv'
<1> USE DEF Validate
<1> DEFINE o == Head(batch[g])
           r == Tail(batch[g])
           gs == Grouped(groups[g], o)
<1>1. /\ o \in Ops /\ r \in Seq(Ops) /\ fut[o] = "pending" /\ InHand(g, o)
      /\ \A q : InSeq(batch[g], q) <=> q = o \/ InSeq(r, q)
      /\ Increasing(r)
  BY BatchHead
<1>2. /\ groups \in [Threads -> Seq(Groups)] /\ batch \in [Threads -> Seq(Ops)]
      /\ groups[g] \in Seq(Groups) /\ key[o] \in Keys
  BY <1>1 DEF IInv, TypeOK, Groups, Numbered
<1>3. gs \in Seq(Groups) /\ \A q : InGroups(gs, q) <=> q = o \/ InGroups(groups[g], q)
  BY <1>1, <1>2, GroupedFacts
<1>4. /\ batch' = [batch EXCEPT ![g] = r] /\ groups' = [groups EXCEPT ![g] = gs]
      /\ \A h \in Threads : /\ batch'[h] = IF h = g THEN r ELSE batch[h]
                            /\ groups'[h] = IF h = g THEN gs ELSE groups[h]
  BY <1>1, <1>2
<1> HIDE DEF o, r, gs
<1>5. TypeOK'
  <2>1. batch' \in [Threads -> Seq(Ops)] /\ groups' \in [Threads -> Seq(Groups)]
    BY <1>1, <1>2, <1>3, <1>4
  <2> QED
    BY <2>1 DEF IInv, TypeOK, Groups, gateVars, callerVars, queueVars, shutVars
<1>6. OneThreadWorks' /\ WorkerWorks' /\ EmptyHands'
  BY <1>4 DEF IInv, OneThreadWorks, WorkerWorks, EmptyHands, Working, queueVars
<1>7. \A q : InSeq(pending, q)' <=> InSeq(pending, q)
  BY DEF InSeq, queueVars
<1>8. \A h \in Threads : \A q :
          /\ InSeq(batch[h], q)' <=> IF h = g THEN InSeq(r, q) ELSE InSeq(batch[h], q)
          /\ InGroups(groups[h], q)' <=> IF h = g THEN InGroups(gs, q)
                                                  ELSE InGroups(groups[h], q)
  BY <1>4 DEF InSeq, InGroups
<1>9. \A h \in Threads : \A q : InHand(h, q)' <=> InHand(h, q)
  BY <1>1, <1>3, <1>8 DEF InHand
<1>10. Numbered' /\ Located'
  BY <1>7, <1>9 DEF IInv, Numbered, Located, callerVars
<1>11. Waiting'
  BY <1>1, <1>7, <1>8 DEF IInv, Waiting
<1>12. Ordered'
  <2>1. Increasing(pending)' /\ \A h \in Threads : Increasing(batch[h])'
    BY <1>1, <1>4 DEF IInv, Ordered, Increasing, queueVars
  <2> QED
    BY <1>7, <1>9, <2>1 DEF IInv, Ordered
<1> QED
  BY <1>5, <1>6, <1>10, <1>11, <1>12, OutsideFrame DEF IInv, queueVars

LEMMA ExecuteBeginStep ==
    ASSUME IInv, NEW g \in Threads, ExecuteBegin(g)
    PROVE  IInv'
<1> USE DEF ExecuteBegin
<1> DEFINE first == Head(groups[g]).ops
           rest  == Tail(groups[g])
<1>1. groups \in [Threads -> Seq(Groups)] /\ running \in [Threads -> SUBSET Ops]
  BY DEF IInv, TypeOK, Groups
<1>2. /\ rest \in Seq(Groups) /\ first \subseteq Ops
      /\ \A q : InGroups(groups[g], q) <=> q \in first \/ InGroups(rest, q)
  BY <1>1, GroupsTail
<1>3. /\ groups' = [groups EXCEPT ![g] = rest] /\ running' = [running EXCEPT ![g] = first]
      /\ \A h \in Threads : /\ groups'[h] = IF h = g THEN rest ELSE groups[h]
                            /\ running'[h] = IF h = g THEN first ELSE running[h]
  BY <1>1
<1> HIDE DEF first, rest
<1>4. /\ OneThreadWorks' /\ WorkerWorks' /\ tpc' \in [Threads -> TPCs]
      /\ \A h \in Threads : tpc'[h] = IF h = g THEN "execute" ELSE tpc[h]
  BY KeepsWorking DEF Working, queueVars, IInv, TypeOK
<1>5. TypeOK'
  <2>1. groups' \in [Threads -> Seq(Groups)] /\ running' \in [Threads -> SUBSET Ops]
    BY <1>1, <1>2, <1>3
  <2> QED
    BY <1>4, <2>1 DEF IInv, TypeOK, Groups, gateVars, callerVars, queueVars, shutVars
<1>6. EmptyHands'
  BY <1>3, <1>4 DEF IInv, EmptyHands
<1>7. \A q : InSeq(pending, q)' <=> InSeq(pending, q)
  BY DEF InSeq, queueVars
<1>8. \A h \in Threads : \A q :
          /\ InSeq(batch[h], q)' <=> InSeq(batch[h], q)
          /\ InGroups(groups[h], q)' <=> IF h = g THEN InGroups(rest, q)
                                                  ELSE InGroups(groups[h], q)
  BY <1>3 DEF InSeq, InGroups
<1>9. running[g] = {}
  BY DEF IInv, EmptyHands
<1>10. \A h \in Threads : \A q : InHand(h, q)' <=> InHand(h, q)
  BY <1>2, <1>3, <1>8, <1>9 DEF InHand
<1>11. Numbered' /\ Located' /\ Waiting'
  BY <1>7, <1>8, <1>10 DEF IInv, Numbered, Located, Waiting, callerVars
<1>12. Ordered'
  <2>1. Increasing(pending)' /\ \A h \in Threads : Increasing(batch[h])'
    BY DEF IInv, Ordered, Increasing, queueVars
  <2> QED
    BY <1>7, <1>10, <2>1 DEF IInv, Ordered
<1> QED
  BY <1>4, <1>5, <1>6, <1>11, <1>12, OutsideFrame DEF IInv, queueVars

(* Answers are given to files of the group only, which nothing waits for.  *)
LEMMA AnswersFrame ==
    ASSUME IInv, NEW g \in Threads, tpc[g] = "execute",
           fut' \in [Ops -> {"none", "pending"} \cup Done],
           \A q \in Ops : \/ fut'[q] = fut[q]
                          \/ q \in running[g] /\ fut[q] = "pending" /\ fut'[q] \in Done,
           UNCHANGED <<ops, key, pending, batch, groups>>,
           \A h \in Threads : h # g => running'[h] = running[h],
           running'[g] \subseteq running[g],
           \A q \in running[g] : q \in running'[g] \/ fut'[q] # "pending"
    PROVE  Numbered' /\ Waiting' /\ Ordered' /\ Located'
<1>1. \A q : InSeq(pending, q)' <=> InSeq(pending, q)
  BY DEF InSeq
<1>2. \A h \in Threads : \A q :
          /\ InSeq(batch[h], q)' <=> InSeq(batch[h], q)
          /\ InGroups(groups[h], q)' <=> InGroups(groups[h], q)
  BY DEF InSeq, InGroups
<1>3. \A h \in Threads : \A q : InHand(h, q)' => InHand(h, q)
  BY <1>2 DEF InHand
<1>4. \A h \in Threads : \A q : InHand(h, q) => InHand(h, q)' \/ fut'[q] # "pending"
  BY <1>2 DEF InHand
<1>5. \A h \in Threads : \A q : ~InSeq(batch[h], q)
  <2>1. batch[g] = <<>>
    BY DEF IInv, EmptyHands
  <2> QED
    BY <2>1, Owner, NothingInEmpty DEF Working
<1>6. \A q \in Ops : InSeq(pending, q) => q \notin running[g]
  <2>1. \A q \in Ops : ~(q < q)
    BY DEF Ops
  <2> QED
    BY <2>1 DEF IInv, Ordered, InHand
<1>7. Numbered'
  BY <1>3 DEF IInv, Numbered, Done
<1>8. Waiting'
  BY <1>1, <1>2, <1>5, <1>6 DEF IInv, Waiting
<1>9. Located'
  BY <1>1, <1>4 DEF IInv, Located, Done
<1>10. Ordered'
  <2>1. Increasing(pending)' /\ \A h \in Threads : Increasing(batch[h])'
    BY DEF IInv, Ordered, Increasing
  <2> QED
    BY <1>1, <1>3, <2>1 DEF IInv, Ordered
<1> QED
  BY <1>7, <1>8, <1>9, <1>10

LEMMA ExecuteAnswerStep ==
    ASSUME IInv, NEW g \in Threads, NEW o \in Ops, NEW answer \in Done,
           ExecuteAnswer(g, o, answer)
    PROVE  IInv'
<1> USE DEF ExecuteAnswer
<1>1. /\ fut' \in [Ops -> {"none", "pending"} \cup Done]
      /\ \A q \in Ops : fut'[q] = IF q = o THEN answer ELSE fut[q]
  BY DEF IInv, TypeOK
<1>2. Numbered' /\ Waiting' /\ Ordered' /\ Located'
  BY <1>1, AnswersFrame DEF callerVars, queueVars, threadVars
<1>3. TypeOK'
  BY <1>1 DEF IInv, TypeOK, gateVars, callerVars, queueVars, threadVars, shutVars
<1>4. OneThreadWorks' /\ WorkerWorks' /\ EmptyHands'
  BY DEF IInv, OneThreadWorks, WorkerWorks, EmptyHands, Working, queueVars, threadVars
<1> QED
  BY <1>2, <1>3, <1>4, OutsideFrame DEF IInv, queueVars

LEMMA ExecuteEndStep ==
    ASSUME IInv, NEW g \in Threads, ExecuteEnd(g)
    PROVE  IInv'
<1> USE DEF ExecuteEnd
<1>1. /\ fut \in [Ops -> {"none", "pending"} \cup Done]
      /\ running \in [Threads -> SUBSET Ops]
  BY DEF IInv, TypeOK
<1>2. /\ fut' \in [Ops -> {"none", "pending"} \cup Done]
      /\ \A q \in Ops : fut'[q] = IF q \in Unanswered(g) THEN "error" ELSE fut[q]
  BY <1>1 DEF Done
<1>3. /\ running' \in [Threads -> SUBSET Ops]
      /\ \A h \in Threads : running'[h] = IF h = g THEN {} ELSE running[h]
  BY <1>1
<1>4. \A q \in running[g] : q \in Ops /\ fut[q] # "none"
  BY <1>1 DEF IInv, Numbered, InHand
<1>5. \A q \in Ops : \/ fut'[q] = fut[q]
                     \/ q \in running[g] /\ fut[q] = "pending" /\ fut'[q] \in Done
  BY <1>1, <1>2, <1>4 DEF Unanswered, Done
<1>6. \A q \in running[g] : fut'[q] # "pending"
  BY <1>1, <1>2, <1>4 DEF Unanswered, Done
<1>7. Numbered' /\ Waiting' /\ Ordered' /\ Located'
  BY <1>2, <1>3, <1>5, <1>6, AnswersFrame DEF callerVars, queueVars
<1>8. /\ OneThreadWorks' /\ WorkerWorks' /\ tpc' \in [Threads -> TPCs]
      /\ \A h \in Threads : tpc'[h] = IF h = g THEN "validate" ELSE tpc[h]
  BY KeepsWorking DEF Working, queueVars, IInv, TypeOK
<1>9. TypeOK'
  BY <1>2, <1>3, <1>8 DEF IInv, TypeOK, gateVars, callerVars, queueVars, shutVars
<1>10. EmptyHands'
  BY <1>3, <1>8 DEF IInv, EmptyHands
<1> QED
  BY <1>7, <1>8, <1>9, <1>10, OutsideFrame DEF IInv, queueVars

-----------------------------------------------------------------------------
(* Shutdown. *)

LEMMA ShutdownStep ==
    ASSUME IInv, ShutdownBegin \/ ShutdownTimeout \/ ShutdownDrained \/ ShutdownEnd
    PROVE  IInv'
<1>1. CASE ShutdownBegin
  <2>1. TypeOK' /\ Gate' /\ Closed'
    BY <1>1 DEF ShutdownBegin, IInv, TypeOK, Gate, Closed, Inside,
                callerVars, queueVars, threadVars
  <2>2. QueueInv'
    BY <1>1, QueueFrame DEF ShutdownBegin, IInv, QueueInv, callerVars, queueVars
  <2> QED
    BY <2>1, <2>2 DEF IInv, QueueInv
<1>2. CASE ShutdownTimeout
  <2>1. TypeOK' /\ Gate' /\ Closed'
    BY <1>2 DEF ShutdownTimeout, IInv, TypeOK, Gate, Closed, Inside,
                gateVars, callerVars, queueVars, threadVars
  <2>2. QueueInv'
    BY <1>2, QueueFrame DEF ShutdownTimeout, IInv, QueueInv, callerVars, queueVars
  <2> QED
    BY <2>1, <2>2 DEF IInv, QueueInv
<1>3. CASE ShutdownDrained
  <2>1. TypeOK' /\ Gate' /\ Closed'
    BY <1>3 DEF ShutdownDrained, Drained, IInv, TypeOK, Gate, Closed, Inside,
                gateVars, callerVars, threadVars
  <2>2. QueueInv'
    BY <1>3, QueueFrame DEF ShutdownDrained, IInv, QueueInv, callerVars
  <2> QED
    BY <2>1, <2>2 DEF IInv, QueueInv
<1>4. CASE ShutdownEnd
  <2>1. TypeOK'
    <3>1. joined' \in 0..MaxThreads /\ down' \in BOOLEAN
      BY <1>4, ConstantsAssumption DEF ShutdownEnd, WorkerGone
    <3> QED
      BY <1>4, <3>1 DEF ShutdownEnd, IInv, TypeOK,
                        gateVars, callerVars, queueVars, threadVars
  <2>2. Gate'
    BY <1>4 DEF ShutdownEnd, IInv, Gate, Inside, gateVars, callerVars, queueVars
  <2>3. closing /\ worker \in {0, joined}
    BY <1>4 DEF ShutdownEnd, IInv, Closed
  <2>4. down' => worker = 0
    <3>1. worker # 0 => Alive(worker)
      BY DEF IInv, TypeOK, WorkerWorks, Working, Alive, Threads
    <3> QED
      BY <1>4, <2>3, <3>1 DEF ShutdownEnd, WorkerGone
  <2>5. Closed'
    BY <1>4, <2>3, <2>4 DEF ShutdownEnd, Closed, queueVars
  <2>6. QueueInv'
    BY <1>4, QueueFrame DEF ShutdownEnd, IInv, QueueInv, callerVars, queueVars
  <2> QED
    BY <2>1, <2>2, <2>5, <2>6 DEF IInv, QueueInv
<1> QED
  BY <1>1, <1>2, <1>3, <1>4

-----------------------------------------------------------------------------
THEOREM NextIInv == IInv /\ [Next]_vars => IInv'
<1> SUFFICES ASSUME IInv, [Next]_vars PROVE IInv'
  OBVIOUS
<1>1. ASSUME NEW c \in Callers,
             \/ Enter(c)
             \/ \E k \in Keys : Submit(c, k)
             \/ Answered(c)
             \/ Leave(c)
      PROVE  IInv'
  BY <1>1, EnterStep, SubmitStep, AnsweredStep, LeaveStep
<1>2. ASSUME NEW g \in Threads, ThreadStep(g) PROVE IInv'
  BY <1>2, RetireStep, ExitStep, TakeStep, ValidateStep, ValidateFailsStep,
     ExecuteBeginStep, ExecuteEndStep, NextRoundStep DEF ThreadStep
<1>3. ASSUME NEW g \in Threads, NEW o \in Ops, NEW answer \in Done,
             ExecuteAnswer(g, o, answer)
      PROVE  IInv'
  BY <1>3, ExecuteAnswerStep
<1>4. CASE ShutdownBegin \/ ShutdownTimeout \/ ShutdownDrained \/ ShutdownEnd
  BY <1>4, ShutdownStep
<1>5. CASE UNCHANGED vars
  <2>1. UNCHANGED <<gateVars, callerVars, fut, queueVars, threadVars, shutVars>>
    BY <1>5 DEF vars
  <2>2. TypeOK'
    BY <2>1 DEF IInv, TypeOK, gateVars, callerVars, queueVars, threadVars, shutVars
  <2>3. QueueInv'
    BY <2>1, QueueFrame DEF IInv, QueueInv, callerVars, queueVars
  <2>4. Gate' /\ Closed'
    BY <2>1, OutsideFrame DEF queueVars
  <2> QED
    BY <2>2, <2>3, <2>4 DEF IInv, QueueInv
<1> QED
  BY <1>1, <1>2, <1>3, <1>4, <1>5 DEF Next

(* The invariant of the batch coordinator and its gate.                    *)
THEOREM Invariance == Spec => []IInv
  BY InitIInv, NextIInv, PTL DEF Spec

(* Every variable of the coordinator keeps its type.                       *)
THEOREM Typed == Spec => []TypeOK
<1>1. IInv => TypeOK
  BY DEF IInv
<1> QED
  BY <1>1, Invariance, PTL

(* submit and the end of _run never leave two threads at work: requests of *)
(* one coordinator do not overlap, however many threads it has had.        *)
THEOREM OneThread == Spec => []OneThreadWorks
<1>1. IInv => OneThreadWorks
  BY DEF IInv
<1> QED
  BY <1>1, Invariance, PTL

(* What submit has appended has a thread that will take it: _run clears    *)
(* _worker in the section in which it finds nothing pending.               *)
THEOREM NobodyLeftBehind == Spec => []PendingHasWorker
<1>1. IInv => PendingHasWorker
  BY DEF IInv, WorkerWorks, Working, PendingHasWorker
<1> QED
  BY <1>1, Invariance, PTL

(* The coordinator closes only with no caller in the gate, and lets nobody *)
(* in after: a host task that was admitted is never refused by submit.     *)
THEOREM AdmittedServed == Spec => []AdmittedNeverRefused
<1>1. IInv => AdmittedNeverRefused
  <2> SUFFICES ASSUME IInv, closing PROVE \A c \in Callers : cpc[c] = "out"
    BY DEF AdmittedNeverRefused
  <2>1. Cardinality(Inside) = 0 /\ Inside \in SUBSET Callers
    BY DEF IInv, Gate, Inside
  <2>2. Inside = {}
    BY <2>1, InsideFinite, FS_EmptySet
  <2> QED
    BY <2>2 DEF Inside
<1> QED
  BY <1>1, Invariance, PTL

(* shutdown returns True only when nothing is in flight, and nothing will  *)
(* be: the patches may go.                                                 *)
THEOREM QuietWhenDown == Spec => []DownIsQuiet
<1>1. IInv => DownIsQuiet
  <2> SUFFICES ASSUME IInv, down PROVE DownIsQuiet
    BY DEF DownIsQuiet
  <2>1. active = 0 /\ worker = 0 /\ pending = <<>>
    BY DEF IInv, Closed, Gate, WorkerWorks
  <2>2. ASSUME NEW g \in Threads PROVE ~Working(g)
    BY <2>1, ConstantsAssumption DEF IInv, OneThreadWorks, Working, Threads
  <2>3. ASSUME NEW g \in Threads, NEW o PROVE ~InHand(g, o)
    BY <2>2, NothingInEmpty DEF IInv, EmptyHands, InHand, Working
  <2>4. \A o \in Ops : fut[o] # "pending"
    BY <2>1, <2>3, NothingInEmpty DEF IInv, Located
  <2> QED
    BY <2>1, <2>2, <2>4 DEF DownIsQuiet, Working
<1> QED
  BY <1>1, Invariance, PTL

(* No step of any thread changes an answer: set_exception is called only   *)
(* on futures that are not done.                                           *)
THEOREM AnswersStay == Spec => AnswerIsFinal
<1>1. ASSUME IInv, [Next]_vars, NEW o \in Ops, fut[o] \in Done
      PROVE  fut'[o] = fut[o]
  <2>1. fut \in [Ops -> {"none", "pending"} \cup Done] /\ fut[o] # "pending" /\ fut[o] # "none"
    BY <1>1 DEF IInv, TypeOK, Done
  <2>2. ASSUME NEW c \in Callers, NEW k \in Keys, Submit(c, k) PROVE fut'[o] = fut[o]
    <3>1. o # ops + 1
      BY <1>1, <2>1 DEF IInv, TypeOK, Numbered
    <3> QED
      BY <2>1, <2>2, <3>1 DEF Submit
  <2>3. ASSUME NEW g \in Threads, ValidateFails(g) PROVE fut'[o] = fut[o]
    <3>1. Head(batch[g]) # o
      BY <1>1, <2>1, <2>3, BatchHead DEF ValidateFails
    <3> QED
      BY <2>1, <2>3, <3>1 DEF ValidateFails
  <2>4. ASSUME NEW g \in Threads, ExecuteEnd(g) PROVE fut'[o] = fut[o]
    BY <1>1, <2>4 DEF ExecuteEnd, Unanswered
  <2>5. ASSUME NEW g \in Threads, NEW q \in Ops, NEW answer \in Done,
               ExecuteAnswer(g, q, answer)
        PROVE  fut'[o] = fut[o]
    BY <2>1, <2>5 DEF ExecuteAnswer
  <2>6. ASSUME NEW c \in Callers, Enter(c) \/ Answered(c) \/ Leave(c)
        PROVE  fut'[o] = fut[o]
    BY <2>6 DEF Enter, Answered, Leave
  <2>7. ASSUME NEW g \in Threads,
               \/ Retire(g) \/ Exit(g) \/ Take(g) \/ Validate(g)
               \/ ExecuteBegin(g) \/ NextRound(g)
        PROVE  fut'[o] = fut[o]
    BY <2>7 DEF Retire, Exit, Take, Validate, ExecuteBegin, NextRound
  <2>8. CASE ShutdownBegin \/ ShutdownTimeout \/ ShutdownDrained \/ ShutdownEnd
    BY <2>8 DEF ShutdownBegin, ShutdownTimeout, ShutdownDrained, ShutdownEnd
  <2>9. CASE UNCHANGED vars
    BY <2>9 DEF vars
  <2> QED
    BY <1>1, <2>2, <2>3, <2>4, <2>5, <2>6, <2>7, <2>8, <2>9 DEF Next, ThreadStep
<1>2. IInv /\ [Next]_vars => [\A o \in Ops : fut[o] \in Done => fut'[o] = fut[o]]_vars
  BY <1>1
<1> QED
  BY <1>2, Invariance, PTL DEF Spec, AnswerIsFinal
=============================================================================
