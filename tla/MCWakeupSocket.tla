--------------------------- MODULE MCWakeupSocket ---------------------------
(***************************************************************************)
(* A small instance of WakeupSocket: the proxy becomes available twice at  *)
(* least, the kernel sends a message for the SoC, one that is only stored  *)
(* and one without a known prefix.                                         *)
(***************************************************************************)
EXTENDS WakeupSocket

MCTexts == {"sms", "rtc", "wlan"}

=============================================================================
