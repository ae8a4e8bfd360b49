----------------------------- MODULE MCUthread -----------------------------
(* Instances of Uthread for TLC. *)
EXTENDS Uthread

CONSTANT Returning  \* the threads whose function is known to return

(* In addition, the functions of some threads return: such a thread does   *)
(* not keep the processor, or keep coming back to it, for ever.            *)
ReturningSpec ==
  FairSpec /\ \A t \in Returning : SF_vars(CallExit(t))
=============================================================================
