-------------------------- MODULE MCClientRegistry --------------------------
(***************************************************************************)
(* A small instance of ClientRegistry: one dispatcher and one Legato loop, *)
(* as in the daemon; a name, the same name with a blank before it and the  *)
(* empty name; and a NAD that is awake for services, for connectivity (on  *)
(* backup supply or not) or for the driver.                                *)
(***************************************************************************)
EXTENDS ClientRegistry

MCTrim == [n \in Names |-> IF n = " app" THEN "app" ELSE n]

Parked(state) ==
  [state |-> state, can |-> "LC_CAN_STS_OFF", batt |-> "LC_MAIN_BATT_STS_NOK"]

Powered(state) ==
  [state |-> state, can |-> "LC_CAN_STS_ON", batt |-> "LC_MAIN_BATT_STS_OK"]

MCConditions ==
  {Parked("NAD_STAY_ALIVE_SERVICES"), Powered("NAD_STAY_ALIVE_CONNECTED"),
   Powered("NAD_ON")}

\* Where the number of clients matters more than what they are granted.
MCTwoConditions ==
  {Parked("NAD_STAY_ALIVE_CONNECTED"), Powered("NAD_STAY_ALIVE_CONNECTED")}

=============================================================================
