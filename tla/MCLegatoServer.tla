--------------------------- MODULE MCLegatoServer ---------------------------
(***************************************************************************)
(* Small instances of LegatoServer: the receive thread and the dispatcher  *)
(* announce, one client listens and registers.                             *)
(***************************************************************************)
EXTENDS LegatoServer

Members(state, can, vtm) ==
  [state |-> state, wakeup |-> "WAKE_UP_CAN", can |-> can, batt |-> "LC_MAIN_BATT_STS_OK",
   vtm |-> vtm]

\* Two states, and in the second one, without an announcement, another CAN
\* status.
MCConditions ==
  {Members("NAD_LISTEN_1", "LC_CAN_STS_OFF", "LC_VTM_T_NORMAL"),
   Members("NAD_STAY_ALIVE_SERVICES", "LC_CAN_STS_OFF", "LC_VTM_T_NORMAL"),
   Members("NAD_STAY_ALIVE_SERVICES", "LC_CAN_STS_ON", "LC_VTM_T_NORMAL")}

\* The network manager stores the CAN status meanwhile.
MCCanConditions == {Members("NAD_ON", can, "LC_VTM_T_NORMAL") : can \in LC_CanStatus}

=============================================================================
