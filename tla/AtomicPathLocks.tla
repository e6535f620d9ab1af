-------------------------- MODULE AtomicPathLocks --------------------------
(***************************************************************************)
(* What _lock_paths of patch/transfer_chain.py promises to a plan: all of  *)
(* its path keys at once, and no key that another running plan has.        *)
(***************************************************************************)
CONSTANTS Procs,  \* host worker threads
          Keys    \* (storage, path) keys

VARIABLE held     \* held[p]: the keys of the plan p is executing, or {}

Init == held = [p \in Procs |-> {}]

Take(p, S) == /\ held[p] = {}
              /\ \A q \in Procs : held[q] \cap S = {}
              /\ held' = [held EXCEPT ![p] = S]

Give(p) == /\ held[p] # {}
           /\ held' = [held EXCEPT ![p] = {}]

Next == \E p \in Procs : \/ \E S \in SUBSET Keys : Take(p, S)
                         \/ Give(p)

Spec == Init /\ [][Next]_held
=============================================================================
