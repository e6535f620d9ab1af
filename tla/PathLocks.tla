----------------------------- MODULE PathLocks -----------------------------
(***************************************************************************)
(* TransferChainPatcher._lock_paths (patch/transfer_chain.py): a table of  *)
(* reference-counted locks, one entry per path key, created by the first   *)
(* plan that needs the key and deleted by the last one that leaves.        *)
(*                                                                         *)
(* An entry is a Python list [Lock(), count].  Deleting it from the table  *)
(* and creating another for the same key makes a different lock, so an     *)
(* entry has an identity: the pair of its key and a version.  A fresh      *)
(* entry takes any version that nothing refers to.                         *)
(*                                                                         *)
(* The two sections under cls._lock are one action each; the path locks    *)
(* are taken one by one in sorted order and released in reverse.           *)
(***************************************************************************)
EXTENDS Integers, FiniteSets

CONSTANTS Procs,     \* host worker threads executing plans
          NoProc,    \* the holder of a free lock
          Keys,      \* path keys, ordered as sorted() orders them
          Versions,  \* identities of the entries of one key
          NoVer,     \* a key without entry
          MaxCalls   \* bound: calls of _lock_paths

ASSUME ConstantsAssumption ==
    /\ IsFiniteSet(Procs)
    /\ NoProc \notin Procs
    /\ Keys \subseteq Int
    /\ NoVer \notin Versions
    /\ MaxCalls \in Nat

VARIABLES
    table,    \* cls._path_locks: the version of each key's entry
    count,    \* count[k][v]: entry[1]
    holder,   \* holder[k][v]: who has entry[0]
    stage,    \* where each thread is in _lock_paths
    want,     \* want[p]: the keys of p's call
    mine,     \* mine[p][k]: the entry p's list `entries' has for k
    got,      \* got[p]: the keys whose lock is on p's ExitStack
    calls     \* number of calls made

pathVars == <<table, count, holder, stage, want, mine, got, calls>>

PCs == {"idle", "acquire", "hold", "release", "drop"}

Registered(k) == {p \in Procs : stage[p] # "idle" /\ k \in want[p]}

Referenced(k, v) == \/ table[k] = v
                    \/ \E p \in Procs : stage[p] # "idle" /\ mine[p][k] = v

-----------------------------------------------------------------------------
PathInit ==
    /\ table = [k \in Keys |-> NoVer]
    /\ count = [k \in Keys |-> [v \in Versions |-> 0]]
    /\ holder = [k \in Keys |-> [v \in Versions |-> NoProc]]
    /\ stage = [p \in Procs |-> "idle"]
    /\ want = [p \in Procs |-> {}]
    /\ mine = [p \in Procs |-> [k \in Keys |-> NoVer]]
    /\ got = [p \in Procs |-> {}]
    /\ calls = 0

(* The version of an entry about to be created: any that nothing refers to *)
(* would do, since a version is only ever compared for equality.           *)
Fresh(k) == CHOOSE v \in Versions : ~Referenced(k, v)

(* The entry setdefault returns for k.                                     *)
Entry(k) == IF table[k] = NoVer THEN Fresh(k) ELSE table[k]

(* entry[1] with this thread counted in. *)
CountWith(k) == IF table[k] = NoVer THEN 1 ELSE count[k][table[k]] + 1

(* The first section under cls._lock, for the keys S: setdefault an entry  *)
(* and count this thread in.                                               *)
Register(p, S) ==
    /\ stage[p] = "idle"
    /\ calls < MaxCalls
    /\ calls' = calls + 1
    /\ \A k \in S : table[k] = NoVer => \E v \in Versions : ~Referenced(k, v)
    /\ table' = [k \in Keys |-> IF k \in S THEN Entry(k) ELSE table[k]]
    /\ count' = [k \in Keys |-> [v \in Versions |->
          IF k \in S /\ v = Entry(k) THEN CountWith(k) ELSE count[k][v]]]
    /\ holder' = [k \in Keys |-> [v \in Versions |->
          IF k \in S /\ v = Entry(k) /\ table[k] = NoVer THEN NoProc
                                                       ELSE holder[k][v]]]
    /\ mine' = [mine EXCEPT ![p] = [k \in Keys |-> IF k \in S THEN Entry(k)
                                                             ELSE NoVer]]
    /\ want' = [want EXCEPT ![p] = S]
    /\ stage' = [stage EXCEPT ![p] = "acquire"]
    /\ UNCHANGED got

(* Faulty variants: the keys are not sorted; a lock that is taken is not   *)
(* waited for.                                                             *)
NextKeyUnsorted(p, k) == k \in want[p] \ got[p]
FreeAlways(k, v) == TRUE

NextKey(p, k) == /\ k \in want[p] \ got[p]
                 /\ \A j \in want[p] \ got[p] : k <= j

Free(k, v) == holder[k][v] = NoProc

(* stack.enter_context(entry[0]) for the smallest key not yet locked.      *)
Acquire(p) ==
    /\ stage[p] = "acquire"
    /\ \E k \in Keys :
        /\ NextKey(p, k)
        /\ Free(k, mine[p][k])
        /\ holder' = [holder EXCEPT ![k][mine[p][k]] = p]
        /\ got' = [got EXCEPT ![p] = @ \cup {k}]
    /\ UNCHANGED <<table, count, stage, want, mine, calls>>

(* The loop is over: the body of the with statement runs.                  *)
EnterBody(p) ==
    /\ stage[p] = "acquire"
    /\ got[p] = want[p]
    /\ stage' = [stage EXCEPT ![p] = "hold"]
    /\ UNCHANGED <<table, count, holder, want, mine, got, calls>>

(* The body has returned or raised.                                        *)
LeaveBody(p) ==
    /\ stage[p] = "hold"
    /\ stage' = [stage EXCEPT ![p] = "release"]
    /\ UNCHANGED <<table, count, holder, want, mine, got, calls>>

(* The ExitStack releases the lock it took last.                           *)
Release(p) ==
    /\ stage[p] = "release"
    /\ \E k \in got[p] :
        /\ \A j \in got[p] : j <= k
        /\ holder' = [holder EXCEPT ![k][mine[p][k]] = NoProc]
        /\ got' = [got EXCEPT ![p] = @ \ {k}]
        /\ stage' = [stage EXCEPT ![p] = IF got[p] = {k} THEN "drop" ELSE "release"]
    /\ UNCHANGED <<table, count, want, mine, calls>>

(* Faulty variant: the entry is never deleted.                            *)
LastNever(p, k)  == FALSE

LastUser(p, k) == k \in want[p] /\ count[k][mine[p][k]] = 1

(* The second section under cls._lock: count this thread out, and delete   *)
(* the entries nobody is counted in.                                       *)
Unregister(p) ==
    /\ stage[p] = "drop"
    /\ count' = [k \in Keys |-> [v \in Versions |->
          IF k \in want[p] /\ v = mine[p][k] THEN count[k][v] - 1
                                             ELSE count[k][v]]]
    /\ table' = [k \in Keys |->
          IF LastUser(p, k) THEN NoVer ELSE table[k]]
    /\ stage' = [stage EXCEPT ![p] = "idle"]
    /\ want' = [want EXCEPT ![p] = {}]
    /\ mine' = [mine EXCEPT ![p] = [k \in Keys |-> NoVer]]
    /\ UNCHANGED <<holder, got, calls>>

Step(p) == Acquire(p) \/ EnterBody(p) \/ LeaveBody(p) \/ Release(p) \/ Unregister(p)

PathNext == \E p \in Procs : \/ \E S \in (SUBSET Keys) \ {{}} : Register(p, S)
                             \/ Step(p)

PathSpec == PathInit /\ [][PathNext]_pathVars

(* A thread is scheduled and the plan it executes ends.  A Python Lock is  *)
(* not fair: no more than weak fairness is asked of Acquire.               *)
PathFairSpec == PathSpec /\ \A p \in Procs : WF_pathVars(Step(p))

-----------------------------------------------------------------------------
PathTypeOK ==
    /\ table \in [Keys -> Versions \cup {NoVer}]
    /\ count \in [Keys -> [Versions -> Nat]]
    /\ holder \in [Keys -> [Versions -> Procs \cup {NoProc}]]
    /\ stage \in [Procs -> PCs]
    /\ want \in [Procs -> SUBSET Keys]
    /\ mine \in [Procs -> [Keys -> Versions \cup {NoVer}]]
    /\ got \in [Procs -> SUBSET Keys]
    /\ calls \in 0..MaxCalls

(* Two plans never run at once on a common path key, whatever entries were *)
(* deleted and created in between.                                         *)
PathExclusion ==
    \A p, q \in Procs :
        (stage[p] = "hold" /\ stage[q] = "hold" /\ p # q) => want[p] \cap want[q] = {}

(* The table has an entry for the keys in use and for no other key: it     *)
(* does not grow with the paths that were ever transferred, and an entry   *)
(* somebody waits for is not deleted.                                      *)
TableTracksUse ==
    \A k \in Keys : (table[k] # NoVer) <=> (Registered(k) # {})

(* A call that got into the table leaves it again: taking the locks in one *)
(* global order rules out a circle of waiting plans.                       *)
CallsComplete ==
    \A p \in Procs : (stage[p] # "idle") ~> (stage[p] = "idle")

(* Callers cannot tell the table from locks taken all at once.             *)
Atomic == INSTANCE AtomicPathLocks WITH
              held <- [p \in Procs |-> IF stage[p] = "hold" THEN want[p] ELSE {}]
AtomicSpec == Atomic!Spec
=============================================================================
