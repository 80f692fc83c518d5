-------------------------- MODULE MCAnnouncements ---------------------------
(***************************************************************************)
(* A small instance of Announcements: the microcontroller goes to listen   *)
(* mode 3, as often as it likes, LC_Wakeup ends that mode and the one the  *)
(* daemon starts in, and one Legato handler follows.                       *)
(***************************************************************************)
EXTENDS Announcements

MCModes == {[kind |-> "mode", value |-> "SYSTEM_LC_LISTEN_MODE_3"]}

MCInfos ==
  [wakeup : {"WAKE_UNKNOWN"}, can : {"LC_CAN_STS_OFF"}, batt : {"LC_MAIN_BATT_STS_OK"},
   vtm : {"LC_VTM_T_NORMAL"}]

=============================================================================
