--------------------------- MODULE MCOAuthSession ---------------------------
(***************************************************************************)
(* Instances of OAuthSession for TLC.                                      *)
(***************************************************************************)
EXTENDS OAuthSession, TLC

CONSTANTS r1, r2, st, co, rv, s1

(* Two requests, a new authorization and a revocation.                     *)
Kinds == [c \in Call |-> CASE c \in {r1, r2} -> "request" [] c = st -> "start"
                           [] c = rv -> "revoke" [] OTHER -> "complete"]
StateOfCall == [c \in Call |-> IF c \in {st, co} THEN s1 ELSE NoState]

(* The requests are alike.                                                 *)
Symmetry == Permutations({r1, r2})
=============================================================================
