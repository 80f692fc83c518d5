-------------------------- MODULE MCEmergencyCall ---------------------------
(***************************************************************************)
(* A small instance of EmergencyCall: both callers ask for an emergency,   *)
(* for its legal variant and for a state triggerLC_Emergency has no case   *)
(* for, and the D-Bus client for two different timers; two requests are on *)
(* their way at most.                                                      *)
(***************************************************************************)
EXTENDS EmergencyCall, TLC

\* One timeout is as good as another.
MCTimeouts == Permutations(Timeouts)

=============================================================================
