--------------------------- MODULE MCLifeMonitor ---------------------------
(***************************************************************************)
(* Instances of LifeMonitor for TLC.                                       *)
(***************************************************************************)
EXTENDS LifeMonitor

CONSTANTS f, g, h

(* Three events of one file, the second of an ignored type: it hides the   *)
(* older event and, after a burst of arrivals, the younger one.            *)
Files == <<f, f, f, g, h>>
=============================================================================
