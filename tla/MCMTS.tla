------------------------------- MODULE MCMTS -------------------------------
(* Four trains are the fewest with which one side can be passed over three *)
(* times; every file of that many lines is an initial state.               *)
EXTENDS MTS
============================================================================
