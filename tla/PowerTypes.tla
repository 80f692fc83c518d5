----------------------------- MODULE PowerTypes -----------------------------
(***************************************************************************)
(* What the microcontroller notifies and how the callbacks map it: to a    *)
(* NAD state, a wakeup source, a supply status.  Nothing here depends on   *)
(* when a thread does what.                                                *)
(***************************************************************************)
EXTENDS LifecycleTypes

rcv == "rcv"
dispatcher == "dispatcher"
Threads == {rcv, dispatcher}

\* The power modes setPowerMode maps, and to which state.
StateOf ==
  [SYSTEM_LC_INIT_PHASE_1 |-> "NAD_INIT", SYSTEM_LC_INIT_PHASE_2 |-> "NAD_INIT",
   SYSTEM_LC_OFF |-> "NAD_OFF", SYSTEM_LC_BACKUP_BATTERY |-> "NAD_BACKUP_BATTERY",
   SYSTEM_LC_TIMED |-> "NAD_STAY_ALIVE_CONNECTED", SYSTEM_LC_STANDBY |-> "NAD_SLEEP",
   SYSTEM_LC_DEEP_SLEEP |-> "NAD_DEEP_SLEEP", SYSTEM_LC_LISTEN_MODE_1 |-> "NAD_LISTEN_1",
   SYSTEM_LC_LISTEN_MODE_2 |-> "NAD_LISTEN_2", SYSTEM_LC_LISTEN_MODE_3 |-> "NAD_LISTEN_3",
   SYSTEM_LC_PARTIAL_OPERATION |-> "NAD_REMOTE_WAKE",
   SYSTEM_LC_FULL_OPERATION |-> "NAD_ON", SYSTEM_LC_NAD_ON |-> "NAD_ON",
   SYSTEM_LC_MAINTENANCE |-> "NAD_MAINTENANCE", SYSTEM_LC_BENCH |-> "NAD_TEST_MODE",
   SYSTEM_LC_LOGISTICS |-> "NAD_LOGISTIC", SYSTEM_LC_RESET |-> "NAD_RESET",
   SYSTEM_LC_IDLE |-> "NAD_IDLE", SYSTEM_LC_SUSPEND_TO_RAM |-> "NAD_SHUTDOWN",
   SYSTEM_LC_TCU_ONLY |-> "NAD_STAY_ALIVE_SERVICES",
   SYSTEM_LC_NAD_EMERGENCY |-> "NAD_EMERGENCY",
   SYSTEM_LC_NAD_EMERGENCY_LAW |-> "NAD_EMERGENCY_LAW",
   SYSTEM_LC_NAD_EMERGENCY_LAW_LP |-> "NAD_EMERGENCY_LAW_LP"]

Mapped == DOMAIN StateOf

PowerModeStates ==
  Mapped \union {"SYSTEM_LC_STAY_ALIVE_SERVICES", "SYSTEM_LC_CAN_NETWORK_SLEEP_STATUS",
                 "SYSTEM_LC_GO_TO_SLEEP_AGAIN"}

PmReasons == {"PM_CAN_ACTIVITY", "PM_SMS", "PM_IGN", "PM_NAD", "PM_LM3_RTC", "PM_IMU_WAKE",
              "PM_MAINBAT_WAKEUP", "PM_SOC_RTC_WAKE"}

\* The parameter of a Battery_Thermal_Status_t the callback tells apart; Other
\* is any further literal of the generated enumeration.
Status_type_enum == {"Thermal_status", "MainBattery_Status", "Backup_Battery_Status", "Other"}

\* A change of one of the three attributes lifecyclemgr subscribes to.
Notification ==
  [kind : {"mode"}, value : PowerModeStates]
    \union [kind : {"wakeup"}, value : PmReasons]
    \union [kind : {"supply"}, param : Status_type_enum, value : {0, 1}]

\* NAD_additionalLifecycleStateInfo, and the arguments of the event.
Info == [wakeup : LC_WakeupSource, can : LC_CanStatus, batt : LC_MainBatteryStatus,
         vtm : LC_VTMstate]

Event == [state : LC_State, wakeup : LC_WakeupSource, can : LC_CanStatus,
          batt : LC_MainBatteryStatus, vtm : LC_VTMstate]

IsMappedMode(n) == n.kind = "mode" /\ n.value \in Mapped

-----------------------------------------------------------------------------
(* The conversions.                                                        *)

\* The LM1/LM3 wakeup of a timer depends on the listen mode it ends; a timer
\* outside of the listen modes leaves the source alone.
RtcSource(from, old) ==
  IF from \in {"NAD_LISTEN_1", "NAD_SHUTDOWN"} THEN "WAKE_UP_LM1_RTC"
  ELSE IF from = "NAD_LISTEN_3" THEN "WAKE_UP_LM3_RTC"
  ELSE old

\* Any other reason leaves the source alone as well.
PmSource(reason, from, old) ==
  CASE reason = "PM_CAN_ACTIVITY"   -> "WAKE_UP_CAN"
    [] reason = "PM_MAINBAT_WAKEUP" -> "WAKE_UP_MAINBATTERY"
    [] reason = "PM_SMS"            -> "WAKE_UP_SMS"
    [] reason = "PM_IMU_WAKE"       -> "WAKE_UP_ACCELEROMETER"
    [] reason = "PM_LM3_RTC"        -> "WAKE_UP_LM3_RTC"
    [] reason = "PM_SOC_RTC_WAKE"   -> RtcSource(from, old)
    [] OTHER                        -> old

SocketSource(reason, from, old) ==
  CASE reason = "SOCKET_MQTT" -> "WAKE_UP_MQTT"
    [] reason = "SOCKET_SMS"  -> "WAKE_UP_SMS"
    [] reason = "SOCKET_RTC"  -> RtcSource(from, old)
    [] OTHER                  -> "WAKE_UNKNOWN"

VtmState(n) == IF n.value = 0 THEN "LC_VTM_T_OVERTEMP" ELSE "LC_VTM_T_NORMAL"

\* Mutant of ServerBatteryStatus: the literals of the temperature.
ServerBatteryAsVtm(n) == IF n.param = "Other" THEN LC_VTMstate ELSE {VtmState(n)}

\* serverBatteryStatus is assigned for the two batteries only: for any other
\* parameter the build hands on whatever the stack held.
ServerBatteryStatus(n) ==
  CASE n.param = "MainBattery_Status" /\ n.value # 0 -> {"LC_MAIN_BATT_STS_OK"}
    [] n.param = "Other"                             -> LC_MainBatteryStatus
    [] OTHER                                         -> {"LC_MAIN_BATT_STS_NOK"}

=============================================================================
