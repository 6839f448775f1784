------------------------------- MODULE MCSsi -------------------------------
(* Instances of the shell for TLC.  Three jobs put a node at the head, in  *)
(* the middle and at the end of the list; they and a foreground command    *)
(* share three identifiers, which are given again to later processes.      *)
EXTENDS Ssi
============================================================================
