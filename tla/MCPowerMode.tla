---------------------------- MODULE MCPowerMode -----------------------------
(***************************************************************************)
(* Small instances of PowerMode.                                           *)
(***************************************************************************)
EXTENDS PowerMode

Mode(value) == [kind |-> "mode", value |-> value]
Wakeup(value) == [kind |-> "wakeup", value |-> value]
Supply(param, value) == [kind |-> "supply", param |-> param, value |-> value]

\* What the members may hold at first: the battery status is left open.
MCInfos ==
  [wakeup : {"WAKE_UNKNOWN"}, can : {"LC_CAN_STS_OFF"}, batt : LC_MainBatteryStatus,
   vtm : {"LC_VTM_T_NORMAL"}]

\* The stay-alive mode, a listen mode and the low-power emergency mode (both of
\* which LC_Wakeup leaves), the two kinds of mode that assign no state, the IMU,
\* the temperature and an unassigned battery status.
MCNotifications ==
  {Mode("SYSTEM_LC_TCU_ONLY"), Mode("SYSTEM_LC_LISTEN_MODE_1"),
   Mode("SYSTEM_LC_NAD_EMERGENCY_LAW_LP"), Mode("SYSTEM_LC_STAY_ALIVE_SERVICES"),
   Mode("SYSTEM_LC_CAN_NETWORK_SLEEP_STATUS"), Wakeup("PM_IMU_WAKE"),
   Supply("Thermal_status", 0), Supply("Other", 0)}

\* For the liveness run: both ways into a window and a mode that is ignored.
MCWindows ==
  {Mode("SYSTEM_LC_TCU_ONLY"), Mode("SYSTEM_LC_LISTEN_MODE_1"),
   Mode("SYSTEM_LC_GO_TO_SLEEP_AGAIN")}

\* The power button ends listen mode 3 while a client wakes the NAD up.
MCPowerOff == {Mode("SYSTEM_LC_OFF")}

=============================================================================
