-------------------------- MODULE MCDurableBatch ---------------------------
(***************************************************************************)
(* Instances of DurableBatch for TLC: two tasks with one target folder,    *)
(* which holds a file already.                                             *)
(***************************************************************************)
EXTENDS DurableBatch, TLC

CONSTANTS a, b, old

(* a is moved and gets its own name there; b is copied and keeps the name  *)
(* it has.                                                                 *)
Mixed   == a :> "move" @@ b :> "copy"
KeepOwn == a :> "A" @@ b :> "rawB"

(* Sources of different names never conflict, so their operations meet in  *)
(* one batch; everything has the same content, and the file that is there  *)
(* already has the name b lands under.                                     *)
OwnNames    == a :> "rawA" @@ b :> "rawB" @@ old :> "rawB"
SameContent == a :> "x" @@ b :> "x" @@ old :> "x"

(* Two copies of one name conflict on their landing path, so they run in   *)
(* turn; the old file differs from both.                                   *)
Copying     == a :> "copy" @@ b :> "copy"
Targets     == a :> "A" @@ b :> "B"
OneName     == a :> "raw" @@ b :> "raw" @@ old :> "raw"
Duplicates  == a :> "x" @@ b :> "x" @@ old :> "y"
=============================================================================
