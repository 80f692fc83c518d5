-------------------------- MODULE AtomicPowerMode ---------------------------
(***************************************************************************)
(* What the microcontroller is promised: each of its notifications takes   *)
(* effect at one instant, in the order of arrival, and is announced, and   *)
(* its stay-alive window is over, before the next one.  Threads beside the *)
(* receive thread change the members too, but only as shown here.          *)
(***************************************************************************)
EXTENDS PowerTypes, Sequences

CONSTANTS Notifications, SocketReasons, CanStatuses, NoEvent

VARIABLES
  inbox,   \* the notifications that have not taken effect
  nad,     \* the five members of an announcement
  window,  \* TRUE while the NAD is kept awake for the services
  owing,   \* what each thread owes the clients: "nothing", an event that is
           \*   "due", or one whose arguments it has "read"
  args,    \* the arguments it has read
  event    \* the last event

vars == <<inbox, nad, window, owing, args, event>>

Init ==
  /\ inbox = <<>>
  /\ nad \in Event
  /\ window = FALSE
  /\ owing = [t \in Threads |-> "nothing"]
  /\ args = [t \in Threads |-> NoEvent]
  /\ event = NoEvent

Owe(t) == owing[t] = "nothing" /\ owing' = [owing EXCEPT ![t] = "due"]

Arrive(n) ==
  /\ inbox' = Append(inbox, n)
  /\ UNCHANGED <<nad, window, owing, args, event>>

Take ==
  /\ inbox' = Tail(inbox)
  /\ ~ window /\ owing[rcv] = "nothing"
  /\ UNCHANGED <<args, event>>

Apply(n) ==
  /\ IsMappedMode(n)
  /\ Take /\ Owe(rcv)
  /\ nad' = [nad EXCEPT !.state = StateOf[n.value]]
  /\ window' = (StateOf[n.value] = "NAD_STAY_ALIVE_SERVICES")

\* A mode without mapping changes nothing, now or later.
Ignore(n) ==
  /\ n.kind = "mode" /\ ~ IsMappedMode(n)
  /\ Take
  /\ UNCHANGED <<nad, window, owing>>

StoreSource(n) ==
  /\ n.kind = "wakeup"
  /\ Take
  /\ nad' = [nad EXCEPT !.wakeup = PmSource(n.value, nad.state, @)]
  /\ UNCHANGED <<window, owing>>

StoreSupply(n) ==
  /\ n.kind = "supply"
  /\ Take /\ Owe(rcv)
  /\ IF n.param = "Thermal_status"
     THEN nad' = [nad EXCEPT !.vtm = VtmState(n)]
     ELSE \E batt \in ServerBatteryStatus(n) : nad' = [nad EXCEPT !.batt = batt]
  /\ UNCHANGED window

Receive ==
  LET n == Head(inbox)
  IN  inbox # <<>> /\ (Apply(n) \/ Ignore(n) \/ StoreSource(n) \/ StoreSupply(n))

EndWindow ==
  /\ window /\ owing[rcv] = "nothing"
  /\ window' = FALSE
  /\ UNCHANGED <<inbox, nad, owing, args, event>>

WakeUp(s) ==
  /\ Owe(dispatcher)
  /\ nad' = [nad EXCEPT !.state = s]
  /\ UNCHANGED <<inbox, window, args, event>>

ReadArguments(t) ==
  /\ owing[t] = "due" /\ owing' = [owing EXCEPT ![t] = "read"]
  /\ args' = [args EXCEPT ![t] = nad]
  /\ UNCHANGED <<inbox, nad, window, event>>

Fire(t) ==
  /\ owing[t] = "read" /\ owing' = [owing EXCEPT ![t] = "nothing"]
  /\ event' = args[t]
  /\ args' = [args EXCEPT ![t] = NoEvent]
  /\ UNCHANGED <<inbox, nad, window>>

StoreSilently ==
  /\ \/ \E reason \in SocketReasons :
          nad' = [nad EXCEPT !.wakeup = SocketSource(reason, nad.state, @)]
     \/ \E can \in CanStatuses : nad' = [nad EXCEPT !.can = can]
  /\ UNCHANGED <<inbox, window, owing, args, event>>

Next ==
  \/ \E n \in Notifications : Arrive(n)
  \/ Receive
  \/ EndWindow
  \/ \E s \in {"NAD_EMERGENCY_LAW", "NAD_STAY_ALIVE_SERVICES"} : WakeUp(s)
  \/ \E t \in Threads : ReadArguments(t) \/ Fire(t)
  \/ StoreSilently

Spec == Init /\ [][Next]_vars

=============================================================================
