----------------------- MODULE MCTransferPostprocess -----------------------
(***************************************************************************)
(* Instances of TransferPostprocess for TLC.                               *)
(***************************************************************************)
EXTENDS TransferPostprocess, TLC

CONSTANTS a, b, m, c1, c2, p1, p2

(* a and b put a file at c1, one after the other; m moves it on to c2.  b  *)
(* replaces the other versions of its file, here the one at p2.            *)
Targets == a :> c1 @@ b :> c1 @@ m :> c2
Sources == a :> None @@ b :> None @@ m :> c1
Latest  == a :> {} @@ b :> {p2} @@ m :> {}
Outputs == c1 :> p1 @@ c2 :> p2
OneDir  == p1 :> "d" @@ p2 :> "d"
=============================================================================
