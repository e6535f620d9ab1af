--------------------------- MODULE MCSourceCleanup ---------------------------
(***************************************************************************)
(* An instance of SourceCleanup for TLC: below the download directory /d a *)
(* source in a folder, one in its subfolder and one in a folder that holds *)
(* the library; a fourth outside of every configured directory.            *)
(***************************************************************************)
EXTENDS SourceCleanup

CONSTANTS m1, m2, m3, m4, junk, new, other

D == <<"d">>
P == <<"d", "p">>
A == <<"d", "p", "a">>
B == <<"d", "p", "b">>
Q == <<"d", "q">>
L == <<"d", "q", "l">>
X == <<"x">>
U == <<"x", "u">>

Dirs == {D, P, A, B, Q, L, X, U}
Roots == {D, L}
Files == {m1, m2, m3, m4, junk, new, other}
Homes == (m1 :> A) @@ (m2 :> P) @@ (m3 :> U) @@ (m4 :> Q)
         @@ (junk :> A) @@ (new :> B) @@ (other :> U)
Medias == {m1, m2, m3, m4, new}

(* m1 and m3 are of one job, m2 and m4 of another; one batch.                *)
Jobs == [f \in Files |-> CASE f \in {m1, m3} -> "first" [] f \in {m2, m4} -> "second"
                           [] OTHER -> None]
Batches == [f \in Files |-> IF Jobs[f] = None THEN None ELSE "batch"]
=============================================================================
