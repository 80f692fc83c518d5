--------------------------- MODULE LifecycleTypes ---------------------------
(***************************************************************************)
(* The enumerations lifecyclemgr exchanges with its D-Bus clients, its     *)
(* Legato clients and the microcontroller.  A literal is the string of its *)
(* C++ name, so that a counterexample reads like a log of the program.     *)
(***************************************************************************)

\* ::Lifecycle::Interface::LifecycleTypes::LC_State
LC_State ==
  {"NAD_INIT", "NAD_BACKUP_BATTERY", "NAD_DEEP_SLEEP", "NAD_REMOTE_WAKE",
   "NAD_ON", "NAD_OFF", "NAD_STAY_ALIVE_SERVICES", "NAD_SHUTDOWN",
   "NAD_SLEEP", "NAD_LISTEN_1", "NAD_LISTEN_2", "NAD_LISTEN_3",
   "NAD_EMERGENCY", "NAD_MAINTENANCE", "NAD_TEST_MODE", "NAD_SW_UPDATE",
   "NAD_LOGISTIC", "NAD_RESET", "NAD_EMERGENCY_LAW", "NAD_IDLE",
   "NAD_EMERGENCY_LAW_LP", "NAD_STAY_ALIVE_CONNECTED"}

ListenStates == {"NAD_LISTEN_1", "NAD_LISTEN_2", "NAD_LISTEN_3"}

StayAliveStates == {"NAD_STAY_ALIVE_SERVICES", "NAD_STAY_ALIVE_CONNECTED"}

\* ::Lifecycle::Interface::LifecycleTypes::LC_Status
LC_Status ==
  {"LC_STS_OK", "LC_STS_OK_CLIENT_ALREADY_REGISTERED", "LC_STS_NOT_OK",
   "LC_STS_NOT_OK_CLIENT_NOT_REGISTERED"}

\* ::Lifecycle::Interface::LifecycleTypes::LC_stayActiveEnum
LC_stayActiveEnum == {"LC_RELEASE", "LC_LOCK", "LC_BUB"}

\* ::Lifecycle::Interface::LifecycleTypes::LC_WakeupSource
LC_WakeupSource ==
  {"WAKE_UNKNOWN", "WAKE_UP_CAN", "WAKE_UP_SMS", "WAKE_UP_MQTT",
   "WAKE_UP_MAINBATTERY", "WAKE_UP_ACCELEROMETER", "WAKE_UP_LM1_RTC",
   "WAKE_UP_LM3_RTC"}

LC_CanStatus == {"LC_CAN_STS_OFF", "LC_CAN_STS_ON"}

LC_MainBatteryStatus == {"LC_MAIN_BATT_STS_OK", "LC_MAIN_BATT_STS_NOK"}

LC_VTMstate == {"LC_VTM_T_NORMAL", "LC_VTM_T_OVERTEMP"}

\* pStayActive_Status, the value of PENDING_TCU_ACTION.
PENDING_TCU_ACTION == {"STAY_INACTIVE", "STAY_ACTIVE"}

=============================================================================
