---------------------------- MODULE TaskService ----------------------------
(***************************************************************************)
(* What a serial worker queue of the plugin promises to the code that      *)
(* hands it work, without threads, locks, sentinels or queue objects.      *)
(*                                                                         *)
(* Tasks are numbered in the order they are accepted.  `admitted' is the   *)
(* number accepted so far and `handled' the number settled, so the backlog *)
(* is the interval handled+1 .. admitted and settling in order of          *)
(* acceptance means that `handled' grows by one.  A closed service opens   *)
(* again only with an empty backlog: nothing accepted is ever dropped.     *)
(***************************************************************************)
EXTENDS Naturals

VARIABLES open,      \* is new work accepted?
          admitted,  \* number of tasks accepted
          handled    \* number of tasks settled

vars == <<open, admitted, handled>>

Init == /\ open = FALSE
        /\ admitted = 0
        /\ handled = 0

Open == /\ ~open
        /\ handled = admitted
        /\ open' = TRUE
        /\ UNCHANGED <<admitted, handled>>

Admit == /\ open
         /\ admitted' = admitted + 1
         /\ UNCHANGED <<open, handled>>

(* A queue with lazy start opens and accepts in one step. *)
OpenAndAdmit == /\ ~open
                /\ handled = admitted
                /\ open' = TRUE
                /\ admitted' = admitted + 1
                /\ UNCHANGED handled

Settle == /\ handled < admitted
          /\ handled' = handled + 1
          /\ UNCHANGED <<open, admitted>>

Close == /\ open
         /\ open' = FALSE
         /\ UNCHANGED <<admitted, handled>>

(* The worker dies on the task it settles. *)
SettleAndClose == /\ handled < admitted
                  /\ handled' = handled + 1
                  /\ open' = FALSE
                  /\ UNCHANGED admitted

Next == Open \/ Admit \/ OpenAndAdmit \/ Settle \/ Close \/ SettleAndClose

Spec == Init /\ [][Next]_vars
=============================================================================
