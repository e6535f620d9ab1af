----------------------- MODULE TransferThreadsProofs ------------------------
(***************************************************************************)
(* Proofs about the two components that live in the threads of the host's  *)
(* transfer chain: the path locks a plan takes (PathLocks) and the worker  *)
(* threads the plugin adds (HelperWorkers).                                *)
(***************************************************************************)
EXTENDS PathLocks, HelperWorkers, FiniteSetTheorems, SequenceTheorems, TLAPS

-----------------------------------------------------------------------------
(***************************************************************************)
(* PathLocks, for any number of threads, keys, versions and calls.         *)
(*                                                                         *)
(* What makes the table safe is that an entry lives as long as a thread is *)
(* counted in: every thread in a call then shares the entry the table has  *)
(* now, so that holding its lock excludes all others.  PathInv says so,    *)
(* and that the count is the number of threads in a call on the key.       *)
(***************************************************************************)
CallShape ==
    \A p \in Procs :
        /\ stage[p] = "idle" => want[p] = {}
        /\ stage[p] # "idle" => want[p] # {}
        /\ got[p] \subseteq want[p]
        /\ stage[p] = "hold" => got[p] = want[p]
        /\ stage[p] = "drop" => got[p] = {}

SharedEntry ==
    \A p \in Procs : \A k \in want[p] :
        mine[p][k] \in Versions /\ table[k] = mine[p][k]

LocksHeld == \A p \in Procs : \A k \in got[p] : holder[k][mine[p][k]] = p

CountExact ==
    \A k \in Keys : table[k] # NoVer =>
        /\ Registered(k) # {}
        /\ count[k][table[k]] = Cardinality(Registered(k))

PathInv == PathTypeOK /\ CallShape /\ SharedEntry /\ LocksHeld /\ CountExact
-----------------------------------------------------------------------------
THEOREM InitPathInv == PathInit => PathInv
<1> SUFFICES ASSUME PathInit PROVE PathInv
  OBVIOUS
<1>1. PathTypeOK
  BY ConstantsAssumption DEF PathInit, PathTypeOK, PCs
<1>2. CallShape /\ SharedEntry /\ LocksHeld
  BY DEF PathInit, CallShape, SharedEntry, LocksHeld
<1>3. CountExact
  BY DEF PathInit, CountExact
<1> QED
  BY <1>1, <1>2, <1>3 DEF PathInv

(* The threads counted in for a key are finitely many. *)
LEMMA RegisteredFinite ==
    ASSUME NEW k
    PROVE  /\ IsFiniteSet(Registered(k))
           /\ Cardinality(Registered(k)) \in Nat
           /\ Registered(k) # {} => Cardinality(Registered(k)) # 0
<1>1. Registered(k) \in SUBSET Procs
  BY DEF Registered
<1>2. IsFiniteSet(Registered(k))
  BY <1>1, FS_Subset, ConstantsAssumption
<1> QED
  BY <1>2, FS_CardinalityType, FS_EmptySet

(* A key somebody is counted in for has an entry.                          *)
LEMMA EntryInUse ==
    ASSUME PathInv, NEW p \in Procs, NEW k \in want[p]
    PROVE  k \in Keys /\ table[k] # NoVer /\ p \in Registered(k)
  BY ConstantsAssumption DEF PathInv, PathTypeOK, CallShape, SharedEntry, Registered

LEMMA RegisterStep ==
    ASSUME PathInv, NEW p \in Procs, NEW S \in (SUBSET Keys) \ {{}}, Register(p, S)
    PROVE  PathInv'
<1>1. /\ stage[p] = "idle" /\ want[p] = {} /\ got[p] = {}
      /\ S \subseteq Keys /\ S # {}
  BY DEF Register, PathInv, CallShape
<1>2. \A k \in S : /\ Entry(k) \in Versions
                   /\ table[k] # NoVer => Entry(k) = table[k]
  <2> SUFFICES ASSUME NEW k \in S
               PROVE  /\ Entry(k) \in Versions
                      /\ table[k] # NoVer => Entry(k) = table[k]
    OBVIOUS
  <2>1. CASE table[k] = NoVer
    <3>1. \E v \in Versions : ~Referenced(k, v)
      BY <2>1 DEF Register
    <3> QED
      BY <2>1, <3>1 DEF Entry, Fresh
  <2>2. CASE table[k] # NoVer
    BY <1>1, <2>2 DEF Entry, PathInv, PathTypeOK
  <2> QED
    BY <2>1, <2>2
<1>3. \A k \in Keys : /\ table'[k] = IF k \in S THEN Entry(k) ELSE table[k]
                      /\ table[k] # NoVer => table'[k] = table[k]
  <2>1. table' = [k \in Keys |-> IF k \in S THEN Entry(k) ELSE table[k]]
    BY DEF Register
  <2>2. ASSUME NEW k \in Keys
        PROVE  table'[k] = IF k \in S THEN Entry(k) ELSE table[k]
    BY <2>1
  <2> QED
    BY <1>2, <2>2
<1>4. /\ \A q \in Procs : q # p => /\ want'[q] = want[q] /\ mine'[q] = mine[q]
                                   /\ stage'[q] = stage[q]
      /\ want'[p] = S /\ stage'[p] = "acquire" /\ got' = got
      /\ \A k \in S : mine'[p][k] = Entry(k)
  BY <1>1 DEF Register, PathInv, PathTypeOK
<1>5. PathTypeOK'
  <2>1. table' \in [Keys -> Versions \cup {NoVer}]
    BY <1>1, <1>2 DEF Register, CountWith, PathInv, PathTypeOK
  <2>2. count' \in [Keys -> [Versions -> Nat]]
    BY DEF Register, CountWith, PathInv, PathTypeOK
  <2>3. holder' \in [Keys -> [Versions -> Procs \cup {NoProc}]]
    BY DEF Register, CountWith, PathInv, PathTypeOK
  <2>4. mine' \in [Procs -> [Keys -> Versions \cup {NoVer}]]
    BY <1>1, <1>2 DEF Register, PathInv, PathTypeOK
  <2>5. /\ stage' \in [Procs -> PCs] /\ want' \in [Procs -> SUBSET Keys]
        /\ got' \in [Procs -> SUBSET Keys]
    BY <1>1 DEF Register, PathInv, PathTypeOK, PCs
  <2>6. calls' \in 0..MaxCalls
    BY ConstantsAssumption DEF Register, PathInv, PathTypeOK
  <2> QED
    BY <2>1, <2>2, <2>3, <2>4, <2>5, <2>6 DEF PathTypeOK
<1>6. CallShape'
  BY <1>1, <1>4 DEF PathInv, CallShape
<1>7. SharedEntry'
  <2>1. ASSUME NEW q \in Procs, q # p, NEW k \in want[q]
        PROVE  mine'[q][k] \in Versions /\ table'[k] = mine'[q][k]
    BY <1>3, <1>4, <2>1, EntryInUse DEF PathInv, SharedEntry
  <2>2. ASSUME NEW k \in S
        PROVE  mine'[p][k] \in Versions /\ table'[k] = mine'[p][k]
    BY <1>1, <1>2, <1>3, <1>4
  <2> QED
    BY <1>4, <2>1, <2>2 DEF SharedEntry
<1>8. LocksHeld'
  <2> SUFFICES ASSUME NEW q \in Procs, NEW k \in got[q]
               PROVE  holder'[k][mine'[q][k]] = q
    BY <1>4 DEF LocksHeld
  <2>1. q # p /\ k \in want[q] /\ mine'[q] = mine[q]
    BY <1>1, <1>4 DEF PathInv, CallShape
  <2>2. /\ k \in Keys /\ table[k] # NoVer /\ mine[q][k] \in Versions
        /\ holder[k][mine[q][k]] = q
    BY <2>1, EntryInUse DEF PathInv, SharedEntry, LocksHeld
  <2> QED
    BY <2>1, <2>2 DEF Register
<1>9. CountExact'
  <2> SUFFICES ASSUME NEW k \in Keys, table'[k] # NoVer
               PROVE  /\ Registered(k)' # {}
                      /\ count'[k][table'[k]] = Cardinality(Registered(k)')
    BY DEF CountExact
  <2>1. p \notin Registered(k)
    BY <1>1 DEF Registered
  <2>2. CASE k \notin S
    <3>1. Registered(k)' = Registered(k)
      BY <1>1, <1>4, <2>2 DEF Registered
    <3>2. table'[k] = table[k] /\ table[k] \in Versions
      BY <1>3, <2>2 DEF PathInv, PathTypeOK
    <3>3. count'[k][table[k]] = count[k][table[k]]
      BY <2>2, <3>2 DEF Register
    <3> QED
      BY <3>1, <3>2, <3>3 DEF PathInv, CountExact
  <2>3. CASE k \in S
    <3>1. Registered(k)' = Registered(k) \cup {p}
      BY <1>1, <1>4, <2>3 DEF Registered
    <3>2. Cardinality(Registered(k)') = Cardinality(Registered(k)) + 1
      BY <2>1, <3>1, RegisteredFinite, FS_AddElement
    <3>3. table'[k] = Entry(k) /\ Entry(k) \in Versions
      BY <1>2, <1>3, <2>3
    <3>4. CASE table[k] = NoVer
      <4>1. Registered(k) = {}
        BY <3>4, EntryInUse DEF Registered
      <4>2. count'[k][Entry(k)] = 1
        BY <2>3, <3>3, <3>4 DEF Register, CountWith
      <4> QED
        BY <3>1, <3>2, <3>3, <4>1, <4>2, FS_EmptySet
    <3>5. CASE table[k] # NoVer
      <4>1. Entry(k) = table[k]
        BY <1>2, <2>3, <3>5
      <4>2. count'[k][Entry(k)] = count[k][Entry(k)] + 1
        BY <2>3, <3>3, <3>5, <4>1 DEF Register, CountWith
      <4> QED
        BY <3>1, <3>2, <3>3, <3>5, <4>1, <4>2 DEF PathInv, CountExact
    <3> QED
      BY <3>4, <3>5
  <2> QED
    BY <2>2, <2>3
<1> QED
  BY <1>5, <1>6, <1>7, <1>8, <1>9 DEF PathInv

LEMMA AcquireStep ==
    ASSUME PathInv, NEW p \in Procs, Acquire(p)
    PROVE  PathInv'
<1>1. PICK k \in want[p] \ got[p] :
         /\ holder[k][mine[p][k]] = NoProc
         /\ holder' = [holder EXCEPT ![k][mine[p][k]] = p]
         /\ got' = [got EXCEPT ![p] = @ \cup {k}]
  BY DEF Acquire, NextKey, Free
<1>2. /\ UNCHANGED <<table, count, stage, want, mine, calls>> /\ stage[p] = "acquire"
      /\ k \in Keys /\ mine[p][k] \in Versions
  BY EntryInUse DEF Acquire, NextKey, PathInv, SharedEntry
<1>3. PathTypeOK'
  <2>1. holder' \in [Keys -> [Versions -> Procs \cup {NoProc}]]
    BY <1>1, <1>2 DEF PathInv, PathTypeOK
  <2>2. got' \in [Procs -> SUBSET Keys]
    BY <1>1, <1>2 DEF PathInv, PathTypeOK
  <2> QED
    BY <1>2, <2>1, <2>2 DEF PathInv, PathTypeOK
<1>4. CallShape'
  BY <1>1, <1>2 DEF PathInv, PathTypeOK, CallShape
<1>5. SharedEntry'
  BY <1>2 DEF PathInv, SharedEntry
<1>6. LocksHeld'
  <2> SUFFICES ASSUME NEW q \in Procs, NEW j \in got'[q]
               PROVE  holder'[j][mine[q][j]] = q
    BY <1>2 DEF LocksHeld
  <2>1. CASE q = p /\ j = k
    BY <1>1, <1>2, <2>1 DEF PathInv, PathTypeOK
  <2>2. CASE ~(q = p /\ j = k)
    <3>1. j \in got[q] /\ j \in want[q]
      BY <1>1, <2>2 DEF PathInv, PathTypeOK, CallShape
    <3>2. /\ holder[j][mine[q][j]] = q /\ j \in Keys /\ mine[q][j] \in Versions
      BY <3>1, EntryInUse DEF PathInv, LocksHeld, SharedEntry
    <3>3. ~(j = k /\ mine[q][j] = mine[p][k])
      BY <1>1, <3>2, ConstantsAssumption
    <3> QED
      BY <1>1, <1>2, <3>2, <3>3 DEF PathInv, PathTypeOK
  <2> QED
    BY <2>1, <2>2
<1>7. CountExact'
  BY <1>2 DEF PathInv, CountExact, Registered
<1> QED
  BY <1>3, <1>4, <1>5, <1>6, <1>7 DEF PathInv

(* Entering and leaving the body touch neither the table nor the locks.    *)
LEMMA BodyStep ==
    ASSUME PathInv, NEW p \in Procs, EnterBody(p) \/ LeaveBody(p)
    PROVE  PathInv'
<1>1. /\ UNCHANGED <<table, count, holder, want, mine, got, calls>>
      /\ stage[p] \in {"acquire", "hold"}
      /\ stage' \in [Procs -> PCs]
      /\ stage'[p] \in {"hold", "release"}
      /\ stage'[p] = "hold" => got[p] = want[p]
      /\ \A q \in Procs : q # p => stage'[q] = stage[q]
  BY DEF EnterBody, LeaveBody, PathInv, PathTypeOK, PCs
<1>2. PathTypeOK'
  BY <1>1 DEF PathInv, PathTypeOK
<1>3. CallShape'
  BY <1>1 DEF PathInv, CallShape
<1>4. SharedEntry' /\ LocksHeld'
  BY <1>1 DEF PathInv, SharedEntry, LocksHeld
<1>5. CountExact'
  <2>1. \A j : Registered(j)' = Registered(j)
    BY <1>1 DEF Registered
  <2> QED
    BY <1>1, <2>1 DEF PathInv, CountExact
<1> QED
  BY <1>2, <1>3, <1>4, <1>5 DEF PathInv

LEMMA ReleaseStep ==
    ASSUME PathInv, NEW p \in Procs, Release(p)
    PROVE  PathInv'
<1>1. PICK k \in got[p] :
         /\ holder' = [holder EXCEPT ![k][mine[p][k]] = NoProc]
         /\ got' = [got EXCEPT ![p] = @ \ {k}]
         /\ stage' = [stage EXCEPT ![p] = IF got[p] = {k} THEN "drop" ELSE "release"]
  BY DEF Release
<1>2. /\ UNCHANGED <<table, count, want, mine, calls>> /\ stage[p] = "release"
      /\ k \in want[p] /\ k \in Keys /\ mine[p][k] \in Versions
      /\ holder[k][mine[p][k]] = p
  BY EntryInUse DEF Release, PathInv, CallShape, SharedEntry, LocksHeld
<1>3. PathTypeOK'
  <2>1. holder' \in [Keys -> [Versions -> Procs \cup {NoProc}]]
    BY <1>1, <1>2 DEF PathInv, PathTypeOK
  <2>2. got' \in [Procs -> SUBSET Keys]
    BY <1>1 DEF PathInv, PathTypeOK
  <2>3. stage' \in [Procs -> PCs]
    BY <1>1 DEF PathInv, PathTypeOK, PCs
  <2> QED
    BY <1>2, <2>1, <2>2, <2>3 DEF PathInv, PathTypeOK
<1>4. /\ got'[p] = got[p] \ {k}
      /\ stage'[p] \in {"drop", "release"}
      /\ stage'[p] = "drop" => got[p] = {k}
      /\ \A q \in Procs : q # p => stage'[q] = stage[q] /\ got'[q] = got[q]
  BY <1>1 DEF PathInv, PathTypeOK
<1>5. CallShape'
  BY <1>2, <1>4 DEF PathInv, CallShape
<1>6. SharedEntry'
  BY <1>2 DEF PathInv, SharedEntry
<1>7. LocksHeld'
  <2> SUFFICES ASSUME NEW q \in Procs, NEW j \in got'[q]
               PROVE  holder'[j][mine[q][j]] = q
    BY <1>2 DEF LocksHeld
  <2>1. j \in got[q] /\ ~(q = p /\ j = k)
    BY <1>4
  <2>2. /\ holder[j][mine[q][j]] = q /\ j \in Keys /\ mine[q][j] \in Versions
    BY <2>1, EntryInUse DEF PathInv, CallShape, LocksHeld, SharedEntry
  <2>3. ~(j = k /\ mine[q][j] = mine[p][k])
    BY <1>2, <2>1, <2>2
  <2> QED
    BY <1>1, <1>2, <2>2, <2>3 DEF PathInv, PathTypeOK
<1>8. CountExact'
  <2>1. \A j : Registered(j)' = Registered(j)
    BY <1>2, <1>4 DEF Registered
  <2> QED
    BY <1>2, <2>1 DEF PathInv, CountExact
<1> QED
  BY <1>3, <1>5, <1>6, <1>7, <1>8 DEF PathInv

(* The last one counted in is the only one who may delete the entry.       *)
LEMMA UnregisterStep ==
    ASSUME PathInv, NEW p \in Procs, Unregister(p)
    PROVE  PathInv'
<1>1. /\ stage[p] = "drop" /\ got[p] = {} /\ UNCHANGED <<holder, got, calls>>
      /\ stage' \in [Procs -> PCs] /\ stage'[p] = "idle"
      /\ want' \in [Procs -> SUBSET Keys] /\ want'[p] = {}
      /\ mine' \in [Procs -> [Keys -> Versions \cup {NoVer}]]
      /\ \A q \in Procs : q # p => /\ stage'[q] = stage[q] /\ want'[q] = want[q]
                                   /\ mine'[q] = mine[q]
  BY DEF Unregister, LastUser, PathInv, PathTypeOK, CallShape, PCs
<1>2. \A k \in want[p] : /\ k \in Keys /\ table[k] = mine[p][k]
                         /\ table[k] \in Versions /\ table[k] # NoVer
                         /\ p \in Registered(k)
  BY EntryInUse DEF PathInv, SharedEntry
<1>3. \A k \in Keys : Registered(k)' = Registered(k) \ {p}
  BY <1>1 DEF Registered
<1>4. ASSUME NEW k \in want[p]
      PROVE  /\ count[k][table[k]] \in Nat \ {0}
             /\ count[k][table[k]] = Cardinality(Registered(k))
             /\ Cardinality(Registered(k)') = count[k][table[k]] - 1
             /\ count[k][table[k]] = 1 => Registered(k) = {p}
             /\ count[k][table[k]] # 1 => Registered(k)' # {}
  <2>1. /\ count[k][table[k]] = Cardinality(Registered(k))
        /\ IsFiniteSet(Registered(k))
        /\ Cardinality(Registered(k)) \in Nat \ {0}
    BY <1>2, RegisteredFinite DEF PathInv, CountExact
  <2>2. /\ IsFiniteSet(Registered(k)')
        /\ Cardinality(Registered(k)') = Cardinality(Registered(k)) - 1
    BY <1>2, <1>3, <2>1, FS_RemoveElement
  <2>3. Cardinality(Registered(k)) = 1 => Registered(k) = {p}
    BY <1>2, <2>1, FS_Singleton
  <2>4. Cardinality(Registered(k)) # 1 => Registered(k)' # {}
    BY <2>1, <2>2, FS_EmptySet
  <2> QED
    BY <2>1, <2>2, <2>3, <2>4
<1>5. \A k \in Keys : table'[k] = IF k \in want[p] /\ count[k][mine[p][k]] = 1
                                  THEN NoVer ELSE table[k]
  BY DEF Unregister, LastUser
<1>6. \A k \in Keys : \A v \in Versions :
         count'[k][v] = IF k \in want[p] /\ v = mine[p][k]
                        THEN count[k][v] - 1 ELSE count[k][v]
  BY DEF Unregister, LastUser
<1>7. PathTypeOK'
  <2>1. table' \in [Keys -> Versions \cup {NoVer}]
    BY DEF Unregister, LastUser, PathInv, PathTypeOK
  <2>2. ASSUME NEW k \in Keys, NEW v \in Versions
        PROVE  (IF k \in want[p] /\ v = mine[p][k]
                THEN count[k][v] - 1 ELSE count[k][v]) \in Nat
    <3>1. count[k][v] \in Nat
      BY DEF PathInv, PathTypeOK
    <3>2. CASE k \in want[p] /\ v = mine[p][k]
      <4>1. count[k][v] \in Nat \ {0}
        BY <1>2, <1>4, <3>2
      <4> QED
        BY <3>2, <4>1
    <3> QED
      BY <3>1, <3>2
  <2>3. count' \in [Keys -> [Versions -> Nat]]
    BY <2>2 DEF Unregister, LastUser
  <2> QED
    BY <1>1, <2>1, <2>3 DEF PathInv, PathTypeOK
<1>8. CallShape'
  BY <1>1 DEF PathInv, CallShape
<1>9. SharedEntry'
  <2> SUFFICES ASSUME NEW q \in Procs, NEW k \in want'[q]
               PROVE  mine'[q][k] \in Versions /\ table'[k] = mine'[q][k]
    BY DEF SharedEntry
  <2>1. q # p /\ k \in want[q] /\ mine'[q] = mine[q]
    BY <1>1
  <2>2. /\ k \in Keys /\ q \in Registered(k)
        /\ mine[q][k] \in Versions /\ table[k] = mine[q][k]
    BY <2>1, EntryInUse DEF PathInv, SharedEntry
  <2>3. table'[k] = table[k]
    BY <1>2, <1>4, <1>5, <2>1, <2>2
  <2> QED
    BY <2>1, <2>2, <2>3
<1>10. LocksHeld'
  BY <1>1 DEF PathInv, LocksHeld
<1>11. CountExact'
  <2> SUFFICES ASSUME NEW k \in Keys, table'[k] # NoVer
               PROVE  /\ Registered(k)' # {}
                      /\ count'[k][table'[k]] = Cardinality(Registered(k)')
    BY DEF CountExact
  <2>1. table'[k] = table[k] /\ table[k] \in Versions /\ table[k] # NoVer
    BY <1>5 DEF PathInv, PathTypeOK
  <2>2. CASE k \in want[p]
    <3>1. table[k] = mine[p][k] /\ count[k][table[k]] # 1
      BY <1>2, <1>5, <2>2
    <3>2. count'[k][table[k]] = count[k][table[k]] - 1
      BY <1>6, <2>1, <2>2, <3>1
    <3> QED
      BY <1>4, <2>1, <2>2, <3>1, <3>2
  <2>3. CASE k \notin want[p]
    <3>1. Registered(k)' = Registered(k)
      BY <1>3, <2>3 DEF Registered
    <3>2. count'[k][table[k]] = count[k][table[k]]
      BY <1>6, <2>1, <2>3
    <3> QED
      BY <2>1, <3>1, <3>2 DEF PathInv, CountExact
  <2> QED
    BY <2>2, <2>3
<1> QED
  BY <1>7, <1>8, <1>9, <1>10, <1>11 DEF PathInv

-----------------------------------------------------------------------------
THEOREM NextPathInv == PathInv /\ [PathNext]_pathVars => PathInv'
<1> SUFFICES ASSUME PathInv, [PathNext]_pathVars PROVE PathInv'
  OBVIOUS
<1>1. ASSUME NEW p \in Procs, NEW S \in (SUBSET Keys) \ {{}}, Register(p, S)
      PROVE  PathInv'
  BY <1>1, RegisterStep
<1>2. ASSUME NEW p \in Procs, Step(p)
      PROVE  PathInv'
  <2>1. CASE Acquire(p)
    BY <2>1, AcquireStep
  <2>2. CASE EnterBody(p) \/ LeaveBody(p)
    BY <2>2, BodyStep
  <2>3. CASE Release(p)
    BY <2>3, ReleaseStep
  <2>4. CASE Unregister(p)
    BY <2>4, UnregisterStep
  <2> QED
    BY <1>2, <2>1, <2>2, <2>3, <2>4 DEF Step
<1>3. CASE UNCHANGED pathVars
  <2>1. \A j : Registered(j)' = Registered(j)
    BY <1>3 DEF pathVars, Registered
  <2>2. CountExact'
    BY <1>3, <2>1 DEF pathVars, PathInv, CountExact
  <2> QED
    BY <1>3, <2>2 DEF pathVars, PathInv, PathTypeOK, CallShape, SharedEntry, LocksHeld
<1> QED
  BY <1>1, <1>2, <1>3 DEF PathNext

THEOREM PathInvariance == PathSpec => []PathInv
<1> QED
  BY InitPathInv, NextPathInv, PTL DEF PathSpec

(* Every variable keeps its type; the counts never go below zero.          *)
THEOREM PathTyped == PathSpec => []PathTypeOK
<1>1. PathInv => PathTypeOK
  BY DEF PathInv
<1> QED
  BY <1>1, PathInvariance, PTL

(* A path lock is held by one thread, through whichever entry. *)
LEMMA OneHolder ==
    ASSUME PathInv, NEW p \in Procs, NEW q \in Procs, NEW k \in got[p], k \in got[q]
    PROVE  p = q
<1>1. mine[p][k] = mine[q][k]
  BY DEF PathInv, CallShape, SharedEntry
<1> QED
  BY <1>1 DEF PathInv, LocksHeld

(* Two plans never run at once on a common path key.                       *)
THEOREM Exclusion == PathSpec => []PathExclusion
<1>1. PathInv => PathExclusion
  BY OneHolder DEF PathInv, CallShape, PathExclusion
<1> QED
  BY <1>1, PathInvariance, PTL

(* The table has exactly the entries of the keys in use: none is deleted   *)
(* under a waiting plan and none is left behind.                           *)
THEOREM NoLeak == PathSpec => []TableTracksUse
<1>1. PathInv => TableTracksUse
  <2> SUFFICES ASSUME PathInv, NEW k \in Keys
               PROVE  (table[k] # NoVer) <=> (Registered(k) # {})
    BY DEF TableTracksUse
  <2>1. Registered(k) # {} => table[k] # NoVer
    BY EntryInUse DEF Registered
  <2> QED
    BY <2>1 DEF PathInv, CountExact
<1> QED
  BY <1>1, PathInvariance, PTL

-----------------------------------------------------------------------------
(* Entering the body is taking all keys at once, leaving it is giving them *)
(* back, and nothing else can be seen from outside.                        *)
LEMMA AtomicStep ==
    ASSUME PathInv, [PathNext]_pathVars
    PROVE  [Atomic!Next]_([p \in Procs |-> IF stage[p] = "hold" THEN want[p] ELSE {}])
<1> DEFINE Held == [p \in Procs |-> IF stage[p] = "hold" THEN want[p] ELSE {}]
<1>1. ASSUME NEW p \in Procs, NEW S \in (SUBSET Keys) \ {{}}, Register(p, S)
      PROVE  Held' = Held
  <2>1. /\ stage[p] = "idle" /\ stage'[p] = "acquire"
        /\ \A q \in Procs : q # p => stage'[q] = stage[q] /\ want'[q] = want[q]
    BY <1>1 DEF Register, PathInv, PathTypeOK
  <2> QED
    BY <2>1
<1>2. ASSUME NEW p \in Procs, Acquire(p)
      PROVE  Held' = Held
  BY <1>2 DEF Acquire, NextKey, Free
<1>3. ASSUME NEW p \in Procs, EnterBody(p)
      PROVE  Atomic!Take(p, want[p])
  <2>1. /\ stage[p] = "acquire" /\ got[p] = want[p]
        /\ stage'[p] = "hold" /\ want' = want
        /\ \A q \in Procs : q # p => stage'[q] = stage[q]
    BY <1>3 DEF EnterBody, PathInv, PathTypeOK
  <2>2. ASSUME NEW q \in Procs
        PROVE  Held[q] \cap want[p] = {}
    <3>1. CASE stage[q] = "hold"
      BY <2>1, <3>1, OneHolder DEF PathInv, CallShape
    <3>2. CASE stage[q] # "hold"
      BY <3>2
    <3> QED
      BY <3>1, <3>2
  <2>3. Held[p] = {}
    BY <2>1
  <2>4. Held' = [Held EXCEPT ![p] = want[p]]
    BY <2>1
  <2> QED
    BY <2>2, <2>3, <2>4 DEF Atomic!Take
<1>4. ASSUME NEW p \in Procs, LeaveBody(p)
      PROVE  Atomic!Give(p)
  <2>1. /\ stage[p] = "hold" /\ stage'[p] = "release" /\ want' = want
        /\ want[p] # {}
        /\ \A q \in Procs : q # p => stage'[q] = stage[q]
    BY <1>4 DEF LeaveBody, PathInv, PathTypeOK, CallShape
  <2>2. Held' = [Held EXCEPT ![p] = {}] /\ Held[p] # {}
    BY <2>1
  <2> QED
    BY <2>2 DEF Atomic!Give
<1>5. ASSUME NEW p \in Procs, Release(p) \/ Unregister(p)
      PROVE  Held' = Held
  <2>1. /\ stage[p] # "hold" /\ stage'[p] # "hold"
        /\ \A q \in Procs : q # p => stage'[q] = stage[q] /\ want'[q] = want[q]
    BY <1>5 DEF Release, Unregister, LastUser, PathInv, PathTypeOK
  <2> QED
    BY <2>1
<1>6. CASE UNCHANGED pathVars
  BY <1>6 DEF pathVars
<1>7. ASSUME NEW p \in Procs, Step(p)
      PROVE  Atomic!Next \/ Held' = Held
  <2>1. CASE EnterBody(p)
    <3>1. \E S \in SUBSET Keys : Atomic!Take(p, S)
      <4>1. want[p] \in SUBSET Keys
        BY DEF PathInv, PathTypeOK
      <4>2. Atomic!Take(p, want[p])
        BY <1>3, <2>1
      <4> QED
        BY <4>1, <4>2 DEF Atomic!Take
    <3> QED
      BY <3>1, Zenon DEF Atomic!Next
  <2>2. CASE LeaveBody(p)
    <3>1. \E q \in Procs : Atomic!Give(q)
      BY <1>4, <2>2
    <3> QED
      BY <3>1, Zenon DEF Atomic!Next
  <2>3. CASE Acquire(p) \/ Release(p) \/ Unregister(p)
    <3>1. Held' = Held
      BY <1>2, <1>5, <2>3
    <3> QED
      BY <3>1
  <2> QED
    BY <1>7, <2>1, <2>2, <2>3 DEF Step
<1>8. ASSUME PathNext
      PROVE  Atomic!Next \/ Held' = Held
  <2>1. PICK p \in Procs :
           \/ \E S \in (SUBSET Keys) \ {{}} : Register(p, S)
           \/ Step(p)
    BY <1>8 DEF PathNext
  <2>2. CASE \E S \in (SUBSET Keys) \ {{}} : Register(p, S)
    <3>1. Held' = Held
      BY <1>1, <2>2
    <3> QED
      BY <3>1
  <2>3. CASE Step(p)
    BY <1>7, <2>3
  <2> QED
    BY <2>1, <2>2, <2>3
<1> QED
  BY <1>6, <1>8

(* A plan cannot tell the reference-counted table from a lock that gives   *)
(* it all its path keys in one step.                                       *)
THEOREM ImplementsAtomicLocks == PathSpec => AtomicSpec
<1>1. PathInit => Atomic!Init
  BY DEF PathInit, Atomic!Init
<1> QED
  BY <1>1, PathInvariance, AtomicStep, PTL DEF PathSpec, AtomicSpec, Atomic!Spec

-----------------------------------------------------------------------------
(***************************************************************************)
(* HelperWorkers, for any tasks, threads and bounds.                       *)
(*                                                                         *)
(* A helper that runs is in the list shutdown() joins, and the replacement *)
(* of get() is in place as long as one runs; so get() is put back when no  *)
(* helper can call it, and who is in the replacement is known.             *)
(***************************************************************************)
(* Every waiting thread, and no other, is in line once.                    *)
LineSound ==
    /\ \A n \in 1..Len(waiters) : pc[waiters[n]] = "wait"
    /\ \A m, n \in 1..Len(waiters) : waiters[m] = waiters[n] => m = n
    /\ \A w \in Worker : pc[w] = "wait" => \E n \in 1..Len(waiters) : waiters[n] = w

(* A thread that works has a task.                                         *)
ItemsSound == \A w \in Worker : pc[w] \in {"taken", "busy"} => item[w] \in Item

(* What shutdown() and ensure() know of the helpers.                       *)
HelpersSound ==
    /\ \A w \in Helper : Alive(w) => w \in threads /\ patched
    /\ IsFiniteSet(threads) /\ Cardinality(threads) <= Limit
    /\ shut # "off" => stopping
    /\ shut = "true" => ~patched /\ threads = {}

(* The inductive invariant.                                                *)
IInv == TypeOK /\ LineSound /\ ItemsSound /\ HelpersSound /\ OnlyEligible
-----------------------------------------------------------------------------
(***************************************************************************)
(* Sequences and numbers.                                                  *)
(***************************************************************************)

(* Taking one element out of a sequence.                                   *)
LEMMA RemoveFacts ==
    ASSUME NEW S, NEW s \in Seq(S), NEW n \in 1..Len(s)
    PROVE  /\ RemoveAt(s, n) \in Seq(S)
           /\ Len(RemoveAt(s, n)) = Len(s) - 1
           /\ \A i \in 1..(Len(s) - 1) :
                RemoveAt(s, n)[i] = IF i < n THEN s[i] ELSE s[i + 1]
  <1> DEFINE a == SubSeq(s, 1, n - 1)
             b == SubSeq(s, n + 1, Len(s))
  <1>1. /\ a \in Seq(S) /\ Len(a) = n - 1 /\ Len(s) \in Nat /\ n \in Nat
        /\ \A i \in 1..(n - 1) : a[i] = s[i]
    OBVIOUS
  <1>2. /\ b \in Seq(S) /\ Len(b) = Len(s) - n
        /\ \A i \in 1..(Len(s) - n) : b[i] = s[n + i]
    OBVIOUS
  <1>3. RemoveAt(s, n) = a \o b
    BY Zenon DEF RemoveAt
  <1> HIDE DEF a, b
  <1>4. /\ a \o b \in Seq(S)
        /\ Len(a \o b) = Len(a) + Len(b)
        /\ \A i \in 1..(Len(a) + Len(b)) :
             (a \o b)[i] = IF i <= Len(a) THEN a[i] ELSE b[i - Len(a)]
    BY <1>1, <1>2, ConcatProperties, Zenon
  <1>5. Len(a) + Len(b) = Len(s) - 1
    BY <1>1, <1>2
  <1>6. ASSUME NEW i \in 1..(Len(s) - 1)
        PROVE  (a \o b)[i] = IF i < n THEN s[i] ELSE s[i + 1]
    <2>1. CASE i < n
      <3>1. i <= Len(a) /\ i \in 1..(n - 1) /\ i \in 1..(Len(a) + Len(b))
        BY <1>1, <1>5, <2>1
      <3> QED
        BY <1>1, <1>4, <2>1, <3>1
    <2>2. CASE ~(i < n)
      <3>1. /\ ~(i <= Len(a)) /\ i \in 1..(Len(a) + Len(b))
            /\ i - Len(a) \in 1..(Len(s) - n) /\ n + (i - Len(a)) = i + 1
        BY <1>1, <1>5, <2>2
      <3> QED
        BY <1>2, <1>4, <2>2, <3>1
    <2> QED
      BY <2>1, <2>2
  <1> QED
    BY <1>3, <1>4, <1>5, <1>6

LEMMA Numbers ==
    /\ Limit \in Nat /\ StartFailures \in Nat /\ MaxShutdowns \in Nat
    /\ Eligible \subseteq Item /\ Host \cap Helper = {} /\ None \notin Item
    /\ IsFiniteSet(Helper)
  BY HelperAssumption

(* How many helpers ensure() may start.                                    *)
LEMMA CountFacts ==
    ASSUME NEW kept \in SUBSET Helper, Cardinality(kept) <= Limit, queue \in Seq(Item)
    PROVE  /\ IsFiniteSet(kept) /\ Cardinality(kept) \in Nat
           /\ Lower(Pending, Room(kept)) \in Nat
           /\ Cardinality(kept) + Lower(Pending, Room(kept)) <= Limit
  <1>1. IsFiniteSet(kept)
    BY Numbers, FS_Subset
  <1>2. Cardinality(kept) \in Nat
    BY <1>1, FS_CardinalityType
  <1>3. Room(kept) \in Nat /\ Cardinality(kept) + Room(kept) <= Limit
    BY <1>2, Numbers DEF Room
  <1>4. Pending \in Nat
    <2>1. Len(queue) \in Nat /\ 1 \in Int
      OBVIOUS
    <2>2. IsFiniteSet(1..Len(queue))
      BY <2>1, FS_Interval
    <2> DEFINE P == {n \in 1..Len(queue) : queue[n] \in Eligible}
    <2>3. IsFiniteSet(P)
      BY <2>2, FS_Subset, P \subseteq 1..Len(queue)
    <2> QED
      BY <2>3, FS_CardinalityType DEF Pending
  <1> QED
    BY <1>1, <1>2, <1>3, <1>4, Numbers DEF Lower

(* Adding helpers keeps the list within the limit.                         *)
LEMMA ListBounded ==
    ASSUME NEW kept \in SUBSET Helper, NEW new \in SUBSET Helper, NEW number \in Nat,
           Cardinality(kept) + number <= Limit, Cardinality(new) <= number
    PROVE  IsFiniteSet(kept \cup new) /\ Cardinality(kept \cup new) <= Limit
  <1>1. IsFiniteSet(kept) /\ IsFiniteSet(new)
    BY Numbers, FS_Subset
  <1>2. /\ IsFiniteSet(kept \cup new) /\ IsFiniteSet(kept \cap new)
        /\ Cardinality(kept \cup new) =
             Cardinality(kept) + Cardinality(new) - Cardinality(kept \cap new)
    BY <1>1, FS_Union, FS_Intersection
  <1>3. /\ Cardinality(kept) \in Nat /\ Cardinality(new) \in Nat
        /\ Cardinality(kept \cap new) \in Nat
    BY <1>1, <1>2, FS_CardinalityType
  <1> QED
    BY <1>2, <1>3, Numbers

-----------------------------------------------------------------------------
(***************************************************************************)
(* Frames.                                                                 *)
(***************************************************************************)

LEMMA LineFrame ==
    ASSUME TypeOK, LineSound, UNCHANGED waiters,
           \A w \in Worker : pc'[w] = "wait" <=> pc[w] = "wait"
    PROVE  LineSound'
  <1>1. \A n \in 1..Len(waiters) : waiters[n] \in Worker
    BY DEF TypeOK
  <1> QED
    BY <1>1 DEF LineSound

(* A thread that was not alive does not come alive.                        *)
LEMMA HelpersFrame ==
    ASSUME HelpersSound, UNCHANGED <<threads, patched, stopping, shut>>,
           \A w \in Helper : pc[w] \in {"dead", "unstarted"} => pc'[w] \in {"dead", "unstarted"}
    PROVE  HelpersSound'
  BY DEF HelpersSound, Alive

(* What a step of the threads' own does to one of them.                    *)
LEMMA OneMoves ==
    ASSUME TypeOK, HelpersSound, NEW w \in Worker, NEW l \in Status,
           pc[w] \notin {"dead", "unstarted"},
           pc' = [pc EXCEPT ![w] = l], UNCHANGED <<threads, patched, stopping, shut>>
    PROVE  /\ HelpersSound'
           /\ pc' \in [Worker -> Status]
           /\ pc[w] # "wait" /\ l # "wait" /\ LineSound /\ UNCHANGED waiters => LineSound'
           /\ l \notin {"taken", "busy"} /\ ItemsSound /\ UNCHANGED item => ItemsSound'
  <1>1. pc \in [Worker -> Status]
    BY DEF TypeOK
  <1>2. \A x \in Helper : pc[x] \in {"dead", "unstarted"} => pc'[x] \in {"dead", "unstarted"}
    BY <1>1 DEF Worker
  <1>3. HelpersSound'
    BY <1>2, HelpersFrame
  <1>4. ASSUME pc[w] # "wait", l # "wait", LineSound, UNCHANGED waiters PROVE LineSound'
    <2>1. \A x \in Worker : pc'[x] = "wait" <=> pc[x] = "wait"
      BY <1>1, <1>4
    <2> QED
      BY <1>4, <2>1, LineFrame
  <1>5. ASSUME l \notin {"taken", "busy"}, ItemsSound, UNCHANGED item PROVE ItemsSound'
    BY <1>1, <1>5 DEF ItemsSound
  <1> QED
    BY <1>1, <1>3, <1>4, <1>5
-----------------------------------------------------------------------------
(***************************************************************************)
(* ensure().                                                               *)
(***************************************************************************)

LEMMA EnsureKeeps ==
    ASSUME IInv, NEW after \in [Worker -> Status], Ensure(after),
           UNCHANGED <<waiters, item, stopping, hostStop, shut>>,
           \A x \in Worker : /\ after[x] = "wait" <=> pc[x] = "wait"
                             /\ after[x] \in {"taken", "busy"} => pc[x] \in {"taken", "busy"}
                             /\ after[x] \in {"dead", "unstarted"} <=> pc[x] \in {"dead", "unstarted"}
    PROVE  /\ LineSound' /\ ItemsSound' /\ HelpersSound'
           /\ pc' \in [Worker -> Status]
           /\ threads' \subseteq Helper /\ patched' \in BOOLEAN /\ failures' \in 0..StartFailures
  <1> USE DEF IInv
  <1>1. CASE Refuses
    <2>1. pc' = after /\ UNCHANGED <<threads, patched, failures>>
      BY <1>1 DEF Ensure
    <2>2. LineSound'
      BY <2>1, LineFrame
    <2>3. ItemsSound'
      BY <2>1 DEF ItemsSound
    <2>4. HelpersSound'
      <3>1. \A w \in Helper : pc[w] \in {"dead", "unstarted"} => pc'[w] \in {"dead", "unstarted"}
        BY <2>1 DEF Worker
      <3> QED
        BY <2>1, <3>1, HelpersFrame
    <2> QED
      BY <2>1, <2>2, <2>3, <2>4 DEF TypeOK
  <1>2. CASE ~Refuses
    <2> DEFINE kept == {w \in threads : Alive(w)}
               number == Lower(Pending, Room(kept))
    <2>0. kept \in SUBSET Helper /\ Cardinality(kept) <= Limit /\ queue \in Seq(Item)
      <3>1. kept \subseteq threads /\ IsFiniteSet(threads) /\ Cardinality(threads) <= Limit
        BY DEF HelpersSound
      <3>2. Cardinality(kept) <= Cardinality(threads)
        BY <3>1, FS_Subset
      <3>3. Cardinality(kept) \in Nat /\ Cardinality(threads) \in Nat /\ Limit \in Nat
        BY <3>1, Numbers, FS_Subset, FS_CardinalityType
      <3> QED
        BY <3>1, <3>2, <3>3 DEF TypeOK
    <2>1. PICK new \in SUBSET {w \in Helper : ~Alive(w)} :
            /\ threads' = kept \cup new
            /\ Cardinality(new) <= number
            /\ pc' \in [Worker -> Status]
            /\ \A x \in Worker : x \notin new => pc'[x] = after[x]
            /\ \A x \in new : pc'[x] \notin {"wait", "taken", "busy"}
            /\ failures' \in 0..StartFailures
      <3>1. PICK new \in SUBSET {w \in Helper : ~Alive(w)} :
            \/ /\ Cardinality(new) = number
               /\ threads' = kept \cup new
               /\ pc' = [w \in Worker |-> IF w \in new THEN "get" ELSE after[w]]
               /\ UNCHANGED failures
            \/ /\ failures < StartFailures
               /\ Cardinality(new) \in 1..number
               /\ threads' = kept \cup new
               /\ \E bad \in new :
                    pc' = [w \in Worker |-> IF w = bad THEN "unstarted"
                             ELSE IF w \in new THEN "get" ELSE after[w]]
               /\ failures' = failures + 1
        BY <1>2, Zenon DEF Ensure
      <3>2. number \in Nat
        <4> HIDE DEF kept
        <4> QED
          BY <2>0, CountFacts
      <3>3. failures \in 0..StartFailures /\ StartFailures \in Nat
        BY Numbers DEF TypeOK
      <3>4. new \subseteq Worker /\ {"get", "unstarted"} \subseteq Status
        BY DEF Worker, Status
      <3> HIDE DEF kept, number
      <3>5. CASE /\ Cardinality(new) = number
                 /\ threads' = kept \cup new
                 /\ pc' = [w \in Worker |-> IF w \in new THEN "get" ELSE after[w]]
                 /\ UNCHANGED failures
        BY <3>2, <3>3, <3>4, <3>5
      <3>6. CASE /\ failures < StartFailures
                 /\ Cardinality(new) \in 1..number
                 /\ threads' = kept \cup new
                 /\ \E bad \in new :
                      pc' = [w \in Worker |-> IF w = bad THEN "unstarted"
                               ELSE IF w \in new THEN "get" ELSE after[w]]
                 /\ failures' = failures + 1
        BY <3>2, <3>3, <3>4, <3>6
      <3> QED
        BY <3>1, <3>5, <3>6
    <2>2. patched' = TRUE
      BY <1>2, Zenon DEF Ensure
    <2>3. shut # "true"
      BY <1>2 DEF Refuses, HelpersSound
    <2>4. LineSound'
      <3>1. \A x \in Worker : pc'[x] = "wait" <=> pc[x] = "wait"
        BY <2>1 DEF Alive
      <3> QED
        BY <3>1, LineFrame
    <2>5. HelpersSound'
      <3>1. new \in SUBSET Helper
        BY <2>1
      <3>3. \A w \in Helper : Alive(w)' => w \in kept \cup new
        <4>1. ASSUME NEW w \in Helper, w \notin new, Alive(w)' PROVE w \in kept
          BY <2>1, <4>1 DEF Alive, HelpersSound, Worker
        <4> QED
          BY <4>1
      <3> HIDE DEF kept
      <3>2. IsFiniteSet(kept \cup new) /\ Cardinality(kept \cup new) <= Limit
        BY <2>0, <2>1, <3>1, CountFacts, ListBounded
      <3> QED
        BY <2>1, <2>2, <2>3, <3>2, <3>3 DEF HelpersSound
    <2>6. ItemsSound'
      BY <2>1 DEF ItemsSound
    <2> QED
      BY <2>1, <2>2, <2>4, <2>5, <2>6 DEF TypeOK
  <1> QED
    BY <1>1, <1>2

-----------------------------------------------------------------------------
(***************************************************************************)
(* The invariant.                                                          *)
(***************************************************************************)

LEMMA InitIInv == Init => IInv
  <1> SUFFICES ASSUME Init PROVE IInv
    OBVIOUS
  <1>1. pc \in [Worker -> {"get", "dead"}] /\ \A w \in Helper : pc[w] = "dead"
    BY Numbers DEF Init, Worker
  <1>2. TypeOK
    <2>1. pc \in [Worker -> Status]
      BY <1>1 DEF Status
    <2>2. /\ queue = <<>> /\ waiters = <<>>
          /\ item \in [Worker -> Item \cup {None}]
          /\ {patched, stopping, hostStop} \subseteq BOOLEAN
      BY DEF Init
    <2>3. shutdowns \in 0..MaxShutdowns /\ failures \in 0..StartFailures
      BY Numbers DEF Init
    <2> QED
      BY <2>1, <2>2, <2>3 DEF Init, TypeOK
  <1>3. LineSound
    <2>1. Len(waiters) = 0
      BY DEF Init
    <2> QED
      BY <1>1, <2>1 DEF LineSound
  <1>4. HelpersSound
    <2>1. IsFiniteSet(threads) /\ Cardinality(threads) = 0
      BY FS_EmptySet DEF Init
    <2> QED
      BY <1>1, <2>1, Numbers DEF Init, HelpersSound, Alive
  <1>5. OnlyEligible
    BY DEF Init, OnlyEligible, Worker
  <1>6. ItemsSound
    BY <1>1 DEF ItemsSound
  <1> QED
    BY <1>2, <1>3, <1>4, <1>5, <1>6 DEF IInv

LEMMA PutStep == ASSUME IInv, NEW i \in Item, Put(i) PROVE IInv'
  <1> USE DEF IInv
  <1>1. UNCHANGED <<item, done, threads, patched, stopping, hostStop, shut, joining,
                    shutdowns, failures>>
    BY DEF Put
  <1>2. queue' \in Seq(Item) /\ absent' \subseteq Item /\ owed' \subseteq Item
    BY DEF Put, TypeOK
  <1>3. CASE waiters = <<>>
    <2>1. UNCHANGED <<waiters, pc>>
      BY <1>3 DEF Put
    <2> QED
      BY <1>1, <1>2, <2>1, LineFrame, HelpersFrame DEF TypeOK, ItemsSound, OnlyEligible
  <1>4. CASE waiters # <<>>
    <2> DEFINE h == Head(waiters)
    <2>1. waiters' = Tail(waiters) /\ pc' = [pc EXCEPT ![h] = "notified"]
      BY <1>4 DEF Put
    <2>2. /\ waiters \in Seq(Worker) /\ Len(waiters) \in Nat /\ Len(waiters) >= 1
          /\ h = waiters[1] /\ h \in Worker
      BY <1>4, EmptySeq DEF TypeOK
    <2>3. /\ waiters' \in Seq(Worker) /\ Len(waiters') = Len(waiters) - 1
          /\ \A n \in 1..(Len(waiters) - 1) : waiters'[n] = waiters[n + 1]
      BY <1>4, <2>1, <2>2
    <2>4. pc[h] = "wait"
      BY <2>2 DEF LineSound
    <2>5. HelpersSound' /\ ItemsSound' /\ pc' \in [Worker -> Status]
      <3> HIDE DEF h
      <3> QED
        BY <1>1, <2>1, <2>2, <2>4, OneMoves DEF Status
    <2>6. LineSound'
      <3> HIDE DEF h
      <3>1. \A n \in 1..(Len(waiters) - 1) : n + 1 \in 1..Len(waiters) /\ n + 1 # 1 /\ 1 \in 1..Len(waiters)
        BY <2>2
      <3>2. \A n \in 1..Len(waiters') : waiters'[n] # h /\ pc'[waiters'[n]] = "wait"
        <4>1. ASSUME NEW n \in 1..(Len(waiters) - 1) PROVE waiters[n + 1] # h /\ pc'[waiters[n + 1]] = "wait"
          <5>1. waiters[n + 1] # waiters[1]
            BY <3>1 DEF LineSound
          <5>2. pc[waiters[n + 1]] = "wait" /\ waiters[n + 1] \in Worker
            BY <2>2, <3>1 DEF LineSound
          <5> QED
            BY <2>1, <2>2, <5>1, <5>2 DEF TypeOK
        <4> QED
          BY <2>3, <4>1
      <3>3. \A m, n \in 1..Len(waiters') : waiters'[m] = waiters'[n] => m = n
        <4>1. \A m, n \in 1..(Len(waiters) - 1) : waiters[m + 1] = waiters[n + 1] => m + 1 = n + 1
          BY <3>1 DEF LineSound
        <4>2. \A m, n \in 1..(Len(waiters) - 1) : m + 1 = n + 1 => m = n
          BY <2>2
        <4>3. \A m, n \in 1..(Len(waiters) - 1) : waiters'[m] = waiters'[n] => m = n
          BY <2>3, <4>1, <4>2
        <4> QED
          BY <2>3, <4>3
      <3>4. ASSUME NEW w \in Worker, pc'[w] = "wait" PROVE \E n \in 1..Len(waiters') : waiters'[n] = w
        <4>1. w # h /\ pc[w] = "wait"
          BY <2>1, <2>2, <3>4 DEF TypeOK
        <4>2. PICK n \in 1..Len(waiters) : waiters[n] = w
          BY <4>1 DEF LineSound
        <4>3. n - 1 \in 1..(Len(waiters) - 1) /\ (n - 1) + 1 = n
          BY <2>2, <4>1, <4>2
        <4> QED
          BY <2>3, <4>2, <4>3
      <3> QED
        BY <3>2, <3>3, <3>4 DEF LineSound
    <2> QED
      BY <1>1, <1>2, <2>3, <2>5, <2>6 DEF TypeOK, OnlyEligible
  <1> QED
    BY <1>3, <1>4

LEMMA EnsureSteps ==
    ASSUME IInv, (\E i \in Item : EnqueueEnsure(i)) \/ (\E w \in Worker : Handle(w))
    PROVE  IInv'
  <1> USE DEF IInv
  <1>1. ASSUME NEW i \in Item, EnqueueEnsure(i) PROVE IInv'
    <2>1. pc \in [Worker -> Status]
      BY DEF TypeOK
    <2>2. /\ LineSound' /\ ItemsSound' /\ HelpersSound'
          /\ pc' \in [Worker -> Status]
          /\ threads' \subseteq Helper /\ patched' \in BOOLEAN /\ failures' \in 0..StartFailures
      BY <1>1, <2>1, EnsureKeeps DEF EnqueueEnsure
    <2> QED
      BY <1>1, <2>2 DEF EnqueueEnsure, TypeOK, OnlyEligible
  <1>2. ASSUME NEW w \in Worker, Handle(w) PROVE IInv'
    <2> DEFINE after == [pc EXCEPT ![w] = "busy"]
    <2>1. pc[w] = "taken" /\ Ensure(after)
      BY <1>2 DEF Handle
    <2>2. after \in [Worker -> Status]
      BY DEF TypeOK, Status
    <2>3. \A x \in Worker : /\ after[x] = "wait" <=> pc[x] = "wait"
                            /\ after[x] \in {"taken", "busy"} => pc[x] \in {"taken", "busy"}
                            /\ after[x] \in {"dead", "unstarted"} <=> pc[x] \in {"dead", "unstarted"}
      BY <2>1 DEF TypeOK
    <2>4. UNCHANGED <<queue, absent, waiters, item, done, stopping, hostStop, shut, joining,
                      shutdowns, owed>>
      BY <1>2 DEF Handle
    <2> HIDE DEF after
    <2>5. /\ LineSound' /\ ItemsSound' /\ HelpersSound'
          /\ pc' \in [Worker -> Status]
          /\ threads' \subseteq Helper /\ patched' \in BOOLEAN /\ failures' \in 0..StartFailures
      BY <2>1, <2>2, <2>3, <2>4, EnsureKeeps
    <2> QED
      BY <2>4, <2>5 DEF TypeOK, OnlyEligible
  <1> QED
    BY <1>1, <1>2

LEMMA TakeStep == ASSUME IInv, NEW w \in Worker, Take(w) PROVE IInv'
  <1> USE DEF IInv
  <1>1. PICK n \in Servable(w) :
          item' = [item EXCEPT ![w] = queue[n]] /\ queue' = RemoveAt(queue, n)
    BY DEF Take
  <1>2. /\ pc[w] \in {"get", "notified", "timeout"}
        /\ pc' = [pc EXCEPT ![w] = "taken"]
        /\ UNCHANGED <<absent, owed, waiters, done, threads, patched, stopping, hostStop,
                       shut, joining, shutdowns, failures>>
    BY DEF Take
  <1>3. n \in 1..Len(queue) /\ (Selective(w) => queue[n] \in Eligible)
    BY DEF Servable
  <1>4. queue' \in Seq(Item) /\ queue[n] \in Item
    BY <1>1, <1>3, RemoveFacts DEF TypeOK
  <1>5. HelpersSound' /\ pc' \in [Worker -> Status] /\ LineSound'
    BY <1>2, OneMoves DEF Status
  <1>6. w \in Helper => queue[n] \in Eligible
    BY <1>2, <1>3 DEF Selective, HelpersSound, Alive
  <1>7. OnlyEligible'
    BY <1>1, <1>6 DEF OnlyEligible, TypeOK, Worker
  <1>8. ItemsSound'
    BY <1>1, <1>2, <1>4 DEF ItemsSound, TypeOK
  <1> QED
    BY <1>1, <1>2, <1>4, <1>5, <1>7, <1>8 DEF TypeOK

LEMMA WaitStep == ASSUME IInv, NEW w \in Worker, Wait(w) PROVE IInv'
  <1> USE DEF IInv
  <1>1. /\ pc[w] \in {"get", "notified"}
        /\ pc' = [pc EXCEPT ![w] = "wait"]
        /\ waiters' = Append(waiters, w)
        /\ UNCHANGED <<queue, absent, owed, item, done, threads, patched, stopping,
                       hostStop, shut, joining, shutdowns, failures>>
    BY DEF Wait
  <1>2. HelpersSound' /\ ItemsSound' /\ pc' \in [Worker -> Status]
    BY <1>1, OneMoves DEF Status
  <1>3. /\ waiters \in Seq(Worker) /\ Len(waiters) \in Nat
        /\ waiters' \in Seq(Worker) /\ Len(waiters') = Len(waiters) + 1
        /\ \A n \in 1..Len(waiters) : waiters'[n] = waiters[n] /\ waiters[n] \in Worker
        /\ waiters'[Len(waiters) + 1] = w
    BY <1>1 DEF TypeOK
  <1>4. \A n \in 1..Len(waiters') : n \in 1..Len(waiters) \/ n = Len(waiters) + 1
    BY <1>3
  <1>5. \A n \in 1..Len(waiters) : pc[waiters[n]] = "wait" /\ waiters[n] # w
    BY <1>1 DEF LineSound
  <1>6. \A n \in 1..Len(waiters') : pc'[waiters'[n]] = "wait"
    BY <1>1, <1>3, <1>4, <1>5 DEF TypeOK
  <1>7. \A m, n \in 1..Len(waiters') : waiters'[m] = waiters'[n] => m = n
    BY <1>3, <1>4, <1>5 DEF LineSound
  <1>8. ASSUME NEW x \in Worker, pc'[x] = "wait" PROVE \E n \in 1..Len(waiters') : waiters'[n] = x
    <2>1. CASE x = w
      BY <1>3, <2>1
    <2>2. CASE x # w
      <3>1. PICK n \in 1..Len(waiters) : waiters[n] = x
        BY <1>1, <1>8, <2>2 DEF LineSound, TypeOK
      <3> QED
        BY <1>3, <3>1
    <2> QED
      BY <2>1, <2>2
  <1>9. LineSound'
    BY <1>6, <1>7, <1>8 DEF LineSound
  <1> QED
    BY <1>1, <1>2, <1>3, <1>9 DEF TypeOK, OnlyEligible

LEMMA TimeoutStep == ASSUME IInv, NEW w \in Worker, Timeout(w) PROVE IInv'
  <1> USE DEF IInv
  <1>1. /\ pc[w] = "wait"
        /\ pc' = [pc EXCEPT ![w] = "timeout"]
        /\ waiters' = Leave(w)
        /\ UNCHANGED <<queue, absent, owed, item, done, threads, patched, stopping,
                       hostStop, shut, joining, shutdowns, failures>>
    BY DEF Timeout
  <1>2. HelpersSound' /\ ItemsSound' /\ pc' \in [Worker -> Status]
    BY <1>1, OneMoves DEF Status
  <1>3. PICK k \in 1..Len(waiters) : waiters[k] = w /\ waiters' = RemoveAt(waiters, k)
    <2>1. \E n \in 1..Len(waiters) : waiters[n] = w
      BY <1>1 DEF LineSound
    <2> DEFINE c == CHOOSE n \in 1..Len(waiters) : waiters[n] = w
    <2>2. c \in 1..Len(waiters) /\ waiters[c] = w
      BY <2>1, Zenon
    <2> QED
      BY <1>1, <2>2, Zenon DEF Leave
  <1>4. waiters \in Seq(Worker) /\ Len(waiters) \in Nat
    BY DEF TypeOK
  <1>5. /\ waiters' \in Seq(Worker) /\ Len(waiters') = Len(waiters) - 1
        /\ \A n \in 1..(Len(waiters) - 1) :
             waiters'[n] = IF n < k THEN waiters[n] ELSE waiters[n + 1]
    BY <1>3, <1>4, RemoveFacts
  <1> DEFINE old(n) == IF n < k THEN n ELSE n + 1
  <1>6. \A n \in 1..(Len(waiters) - 1) :
          old(n) \in 1..Len(waiters) /\ old(n) # k /\ waiters'[n] = waiters[old(n)]
    BY <1>4, <1>5
  <1>7. \A m, n \in 1..(Len(waiters) - 1) : old(m) = old(n) => m = n
    BY <1>4
  <1>8. ASSUME NEW n \in 1..Len(waiters), n # k
        PROVE  \E m \in 1..(Len(waiters) - 1) : old(m) = n
    <2>1. CASE n < k
      <3>1. n \in 1..(Len(waiters) - 1) /\ old(n) = n
        BY <1>4, <2>1
      <3> QED
        BY <3>1
    <2>2. CASE ~(n < k)
      <3>1. n - 1 \in 1..(Len(waiters) - 1) /\ old(n - 1) = n
        BY <1>4, <1>8, <2>2
      <3> QED
        BY <3>1
    <2> QED
      BY <2>1, <2>2
  <1> HIDE DEF old
  <1>9. \A n \in 1..Len(waiters') : waiters'[n] # w /\ pc'[waiters'[n]] = "wait"
    BY <1>1, <1>3, <1>4, <1>5, <1>6 DEF LineSound, TypeOK
  <1>10. \A m, n \in 1..Len(waiters') : waiters'[m] = waiters'[n] => m = n
    BY <1>5, <1>6, <1>7 DEF LineSound
  <1>11. ASSUME NEW x \in Worker, pc'[x] = "wait" PROVE \E n \in 1..Len(waiters') : waiters'[n] = x
    <2>1. x # w /\ pc[x] = "wait"
      BY <1>1, <1>11 DEF TypeOK
    <2>2. PICK n \in 1..Len(waiters) : waiters[n] = x
      BY <2>1 DEF LineSound
    <2>3. n # k
      BY <1>3, <2>1, <2>2
    <2> QED
      BY <1>5, <1>6, <1>8, <2>2, <2>3
  <1>12. LineSound'
    BY <1>9, <1>10, <1>11 DEF LineSound
  <1> QED
    BY <1>1, <1>2, <1>5, <1>12 DEF TypeOK, OnlyEligible

LEMMA OwnSteps ==
    ASSUME IInv, NEW w \in Worker, Empty(w) \/ End(w) \/ Finish(w)
    PROVE  IInv'
  <1> USE DEF IInv
  <1>1. CASE Empty(w)
    <2>1. PICK l \in {"retired", "dead", "get"} : pc' = [pc EXCEPT ![w] = l]
      BY <1>1 DEF Empty
    <2>2. pc[w] \in {"get", "notified", "timeout"}
      BY <1>1 DEF Empty
    <2>3. HelpersSound' /\ ItemsSound' /\ pc' \in [Worker -> Status] /\ LineSound'
      BY <1>1, <2>1, <2>2, OneMoves DEF Status, Empty
    <2> QED
      BY <1>1, <2>3 DEF Empty, TypeOK, OnlyEligible
  <1>2. CASE End(w)
    <2>1. HelpersSound' /\ ItemsSound' /\ pc' \in [Worker -> Status] /\ LineSound'
      BY <1>2, OneMoves DEF Status, End
    <2> QED
      BY <1>2, <2>1 DEF End, TypeOK, OnlyEligible
  <1>3. CASE Finish(w)
    <2>1. HelpersSound' /\ pc' \in [Worker -> Status] /\ LineSound'
      BY <1>3, OneMoves DEF Status, Finish
    <2>2. item' = [item EXCEPT ![w] = None] /\ done' = done \cup {item[w]}
      BY <1>3 DEF Finish
    <2>3. item[w] \in Item
      BY <1>3 DEF Finish, ItemsSound
    <2>4. ItemsSound'
      BY <1>3, <2>2 DEF Finish, ItemsSound, TypeOK
    <2> QED
      BY <1>3, <2>1, <2>2, <2>3, <2>4 DEF Finish, TypeOK, OnlyEligible, Worker
  <1> QED
    BY <1>1, <1>2, <1>3

LEMMA ShutdownSteps ==
    ASSUME IInv, StopHost \/ ShutdownBegin \/ Snapshot \/ Joined \/ GiveUp \/ JoinRaises
    PROVE  IInv'
  <1> USE DEF IInv
  <1>1. UNCHANGED <<queue, absent, owed, waiters, pc, item, done, threads, patched, failures>>
    BY DEF StopHost, ShutdownBegin, Snapshot, Joined, GiveUp, JoinRaises
  <1>2. LineSound' /\ ItemsSound' /\ OnlyEligible'
    BY <1>1, LineFrame DEF ItemsSound, OnlyEligible
  <1>3. /\ hostStop' \in BOOLEAN /\ stopping' \in BOOLEAN /\ joining' \subseteq Helper
        /\ shut' \in {"off", "begin", "join", "true", "raised"}
        /\ shutdowns' \in 0..MaxShutdowns
    <2>1. shutdowns' \in 0..MaxShutdowns
      <3>1. CASE ShutdownBegin
        BY <3>1, Numbers DEF ShutdownBegin, TypeOK
      <3>2. CASE ~ShutdownBegin
        BY <3>2 DEF StopHost, Snapshot, Joined, GiveUp, JoinRaises, TypeOK
      <3> QED
        BY <3>1, <3>2
    <2>2. hostStop' \in BOOLEAN /\ stopping' \in BOOLEAN
      BY DEF StopHost, ShutdownBegin, Snapshot, Joined, GiveUp, JoinRaises, TypeOK
    <2>3. /\ joining' \subseteq Helper
          /\ shut' \in {"off", "begin", "join", "true", "raised"}
      BY DEF StopHost, ShutdownBegin, Snapshot, Joined, GiveUp, JoinRaises, TypeOK
    <2> QED
      BY <2>1, <2>2, <2>3
  <1>4. (shut' # "off" => stopping') /\ (shut' = "true" => shut = "true")
    BY DEF StopHost, ShutdownBegin, Snapshot, Joined, GiveUp, JoinRaises, HelpersSound
  <1>5. HelpersSound'
    BY <1>1, <1>4 DEF HelpersSound, Alive
  <1> QED
    BY <1>1, <1>2, <1>3, <1>5 DEF TypeOK

(* No helper is alive: all of them are in the list.                        *)
LEMMA RestoreStep == ASSUME IInv, Restore PROVE IInv'
  <1> USE DEF IInv
  <1>1. UNCHANGED <<queue, absent, owed, waiters, pc, item, done, stopping, hostStop,
                    joining, shutdowns, failures>>
    BY DEF Restore
  <1>2. LineSound' /\ ItemsSound' /\ OnlyEligible'
    BY <1>1, LineFrame DEF ItemsSound, OnlyEligible
  <1>3. CASE AllDead
    <2>1. patched' = FALSE /\ threads' = {} /\ shut' = "true" /\ stopping
      BY <1>3 DEF Restore, HelpersSound
    <2>2. \A w \in Helper : ~Alive(w)
      BY <1>3 DEF AllDead, HelpersSound
    <2>3. IsFiniteSet(threads') /\ Cardinality(threads') <= Limit
      BY <2>1, FS_EmptySet, Numbers
    <2> QED
      BY <1>1, <1>2, <2>1, <2>2, <2>3 DEF HelpersSound, TypeOK, Alive
  <1>4. CASE ~AllDead
    <2>1. shut' = "off" /\ UNCHANGED <<patched, threads>>
      BY <1>4 DEF Restore
    <2> QED
      BY <1>1, <1>2, <2>1 DEF HelpersSound, TypeOK, Alive
  <1> QED
    BY <1>3, <1>4

THEOREM Invariance == Spec => []IInv
  <1>1. IInv /\ [Next]_vars => IInv'
    <2> SUFFICES ASSUME IInv, [Next]_vars PROVE IInv'
      OBVIOUS
    <2>1. CASE UNCHANGED vars
      BY <2>1 DEF vars, IInv, TypeOK, LineSound, ItemsSound, HelpersSound, OnlyEligible, Alive
    <2>2. CASE Next
      <3>1. ASSUME NEW i \in Item, Put(i) PROVE IInv'
        BY <3>1, PutStep
      <3>2. ASSUME NEW i \in Item, EnqueueEnsure(i) PROVE IInv'
        BY <3>2, EnsureSteps
      <3>3. ASSUME NEW w \in Worker, WorkerStep(w) PROVE IInv'
        BY <3>3, EnsureSteps, TakeStep, WaitStep, TimeoutStep, OwnSteps DEF WorkerStep
      <3> QED
        BY <2>2, <3>1, <3>2, <3>3, ShutdownSteps, RestoreStep DEF Next
    <2> QED
      BY <2>1, <2>2
  <1> QED
    BY <1>1, InitIInv, PTL DEF Spec

(* Every variable keeps its type.                                          *)
THEOREM Typed == Spec => []TypeOK
  <1>1. IInv => TypeOK
    BY DEF IInv
  <1> QED
    BY <1>1, Invariance, PTL

(* A helper never has a task that is not for it (workers.py:80-91, 151).   *)
THEOREM EligibleOnly == Spec => []OnlyEligible
  <1>1. IInv => OnlyEligible
    BY DEF IInv
  <1> QED
    BY <1>1, Invariance, PTL

(* Helpers alive, those that retire included, are in the list and within   *)
(* the limit (workers.py:112-136).                                         *)
THEOREM WithinLimit == Spec => []HelpersBounded
  <1>1. IInv => HelpersBounded
    <2> SUFFICES ASSUME IInv PROVE HelpersBounded
      OBVIOUS
    <2> DEFINE alive == {w \in Helper : Alive(w)}
    <2>1. alive \subseteq threads /\ IsFiniteSet(threads) /\ Cardinality(threads) <= Limit
      BY DEF IInv, HelpersSound
    <2>2. IsFiniteSet(alive) /\ Cardinality(alive) <= Cardinality(threads)
      BY <2>1, FS_Subset
    <2>3. Cardinality(alive) \in Nat /\ Cardinality(threads) \in Nat /\ Limit \in Nat
      BY <2>1, <2>2, FS_CardinalityType, Numbers
    <2>4. Cardinality(alive) <= Limit
      BY <2>1, <2>2, <2>3
    <2> QED
      BY <2>1, <2>4 DEF HelpersBounded
  <1> QED
    BY <1>1, Invariance, PTL

(* After shutdown() has returned True nothing runs in get()'s replacement, *)
(* which is gone, and no helper is started (workers.py:106, 151-157).      *)
THEOREM GoneForGood == Spec => []StoppedForGood
  <1>1. IInv => StoppedForGood
    BY DEF IInv, HelpersSound, StoppedForGood
  <1> QED
    BY <1>1, Invariance, PTL
=============================================================================
