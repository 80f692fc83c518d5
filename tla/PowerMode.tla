----------------------------- MODULE PowerMode ------------------------------
(***************************************************************************)
(* How the power mode the microcontroller notifies becomes the NAD state   *)
(* and is announced.  Three threads touch NAD_LifecycleState and           *)
(* NAD_additionalLifecycleStateInfo, none of them under a mutex:           *)
(*   - the receive thread runs the callbacks of the microcontroller's      *)
(*     attributes one after the other, sleeping where the code sleeps;     *)
(*   - the D-Bus dispatcher runs LC_Wakeup and LC_JumpToListen2;           *)
(*   - the lpm thread and the network manager's callback store a wakeup    *)
(*     source or the CAN status and announce nothing.                      *)
(***************************************************************************)
EXTENDS PowerTypes, Naturals, Sequences

CONSTANTS
  Notifications,  \* what the microcontroller may notify, see Notification
  SocketReasons,  \* the wakeup reasons of the lpm socket
  CanStatuses,    \* the CAN status the network manager may report
  QueueBound,     \* notifications that may wait for the receive thread
  InitialStates,  \* what NAD_LifecycleState may hold before its first store,
  InitialInfos,   \*   and NAD_additionalLifecycleStateInfo: no constructor sets them
  Unassigned,     \* the value of a local that no branch assigned
  NoEvent         \* no event was sent yet, or none is being sent

ASSUME ParametersAssumption ==
  /\ Notifications \subseteq Notification
  /\ SocketReasons \subseteq {"SOCKET_SMS", "SOCKET_POWERKEY", "SOCKET_MODEM_SPURIOUS",
                              "SOCKET_RTC", "SOCKET_MQTT", "SOCKET_NON_TCP"}
  /\ CanStatuses \subseteq LC_CanStatus
  /\ QueueBound \in Nat
  /\ InitialStates \subseteq LC_State
  /\ InitialInfos \subseteq Info
  /\ Unassigned \notin LC_State
  /\ NoEvent \notin Event

VARIABLES
  queue,                \* notifications the receive thread has not taken yet
  NAD_LifecycleState,
  info,                 \* NAD_additionalLifecycleStateInfo
  noTCUPowerMode,       \* cleared while a mode without mapping is handled
  pc,                   \* where the receive thread and the dispatcher are
  mode,                 \* powerMode, the receive thread's argument
  dbusPowerMode,        \* the receive thread's local
  timer,                \* the seconds startTCUOnlyTimer will sleep; 0: not called
  args,                 \* the arguments each thread read for its event
  event,                \* the last LC_NOTIFICATION_State_plus event
  tcu,                  \* the last PENDING_TCU_ACTION sent to the microcontroller
  reported,             \* history: the last mapped mode the microcontroller notified
  woken,                \* history: LC_Wakeup stored a state after the last mode
  outdated              \* history: the last event was older than the members it met

state   == <<NAD_LifecycleState, info>>
locals  == <<mode, dbusPowerMode, timer>>
history == <<reported, woken>>
vars    == <<queue, NAD_LifecycleState, info, noTCUPowerMode, pc, mode, dbusPowerMode,
             timer, args, event, tcu, reported, woken, outdated>>

Locations == {"idle", "activate", "tail", "evaluate", "settle", "window", "reread",
              "law", "store", "notify", "fire"}

Windows == {0, 21, 120, 200}

Members == [state |-> NAD_LifecycleState, wakeup |-> info.wakeup, can |-> info.can,
            batt |-> info.batt, vtm |-> info.vtm]

Init ==
  /\ queue = <<>>
  /\ NAD_LifecycleState \in InitialStates
  /\ info \in InitialInfos
  /\ noTCUPowerMode = TRUE
  /\ pc = [t \in Threads |-> "idle"]
  /\ mode = "none"
  /\ dbusPowerMode = Unassigned
  /\ timer = 0
  /\ args = [t \in Threads |-> NoEvent]
  /\ event = NoEvent
  /\ tcu = "NONE"
  /\ reported = "none"
  /\ woken = FALSE
  /\ outdated = FALSE

Goto(t, from, to) == pc[t] = from /\ pc' = [pc EXCEPT ![t] = to]

\* update_TCU_Parameters may fail; its CallStatus is not looked at.
Tell(action) == tcu' \in {action, tcu}

-----------------------------------------------------------------------------
(* The microcontroller.                                                    *)

Notify(n) ==
  /\ Len(queue) < QueueBound
  /\ queue' = Append(queue, n)
  /\ reported' = IF n.kind = "mode" /\ n.value \in Mapped THEN n.value ELSE reported
  /\ UNCHANGED <<state, noTCUPowerMode, pc, locals, args, event, tcu, woken, outdated>>

-----------------------------------------------------------------------------
(* The receive thread.                                                     *)

\* Mutant of Take: the callbacks run on a pool, beside the one that settles.
TakeBesideSettle(n, to) ==
  /\ queue # <<>>
  /\ n = Head(queue)
  /\ queue' = Tail(queue)
  /\ pc[rcv] \in {"idle", "settle"}
  /\ pc' = IF pc[rcv] = "settle" THEN pc ELSE [pc EXCEPT ![rcv] = to]

Take(n, to) ==
  /\ queue # <<>>
  /\ n = Head(queue)
  /\ queue' = Tail(queue)
  /\ Goto(rcv, "idle", to)

setPMWakeupSource(n) ==
  /\ n.kind = "wakeup"
  /\ Take(n, "idle")
  /\ info' = [info EXCEPT !.wakeup = PmSource(n.value, NAD_LifecycleState, @)]
  /\ UNCHANGED <<NAD_LifecycleState, noTCUPowerMode, locals, args, event, tcu, history,
                 outdated>>

set_LC_MainBattery(n) ==
  /\ n.kind = "supply"
  /\ n.param # "Thermal_status"
  /\ Take(n, "notify")
  /\ \E batt \in ServerBatteryStatus(n) : info' = [info EXCEPT !.batt = batt]
  /\ UNCHANGED <<NAD_LifecycleState, noTCUPowerMode, locals, args, event, tcu, history,
                 outdated>>

set_LC_VTMstate(n) ==
  /\ n.kind = "supply"
  /\ n.param = "Thermal_status"
  /\ Take(n, "notify")
  /\ info' = [info EXCEPT !.vtm = VtmState(n)]
  /\ UNCHANGED <<NAD_LifecycleState, noTCUPowerMode, locals, args, event, tcu, history,
                 outdated>>

\* Mutant of HasCase: the default branch does not clear noTCUPowerMode.
HasCaseForAll(value) == value \in PowerModeStates

HasCase(value) == value \in Mapped \union {"SYSTEM_LC_STAY_ALIVE_SERVICES"}

\* The switch of setPowerMode.  A mode without mapping assigns no state.
setPowerMode(n) ==
  /\ n.kind = "mode"
  /\ Take(n, IF n.value = "SYSTEM_LC_STAY_ALIVE_SERVICES"
                /\ NAD_LifecycleState # "NAD_STAY_ALIVE_SERVICES"
             THEN "activate" ELSE "tail")
  /\ mode' = n.value
  /\ dbusPowerMode' = IF n.value \in Mapped THEN StateOf[n.value] ELSE Unassigned
  /\ noTCUPowerMode' = (noTCUPowerMode /\ HasCase(n.value))
  /\ UNCHANGED <<state, timer, args, event, tcu, history, outdated>>

Activate ==
  /\ Goto(rcv, "activate", "tail")
  /\ Tell("STAY_ACTIVE")
  /\ UNCHANGED <<queue, state, noTCUPowerMode, locals, args, event, history, outdated>>

\* The two branches after the switch.
Broadcasts == mode # "SYSTEM_LC_STAY_ALIVE_SERVICES" /\ noTCUPowerMode

ModeDone ==
  /\ mode' = "none"
  /\ dbusPowerMode' = Unassigned
  /\ timer' = 0

Broadcast ==
  /\ Broadcasts
  /\ Goto(rcv, "tail", "evaluate")
  /\ UNCHANGED <<queue, state, noTCUPowerMode, locals, args, event, tcu, history, outdated>>

\* Mutant of Ignore: noTCUPowerMode stays cleared.
IgnoreForGood ==
  /\ ~ Broadcasts
  /\ Goto(rcv, "tail", "idle")
  /\ ModeDone
  /\ UNCHANGED <<queue, state, noTCUPowerMode, args, event, tcu, history, outdated>>

Ignore ==
  /\ ~ Broadcasts
  /\ Goto(rcv, "tail", "idle")
  /\ noTCUPowerMode' = TRUE
  /\ ModeDone
  /\ UNCHANGED <<queue, state, args, event, tcu, history, outdated>>

Store(s, wake) ==
  /\ NAD_LifecycleState' = s
  /\ woken' = wake
  /\ UNCHANGED info

\* evaluateAndBroadcastPowerMode.
EvaluateOther ==
  /\ dbusPowerMode # "NAD_STAY_ALIVE_SERVICES"
  /\ Goto(rcv, "evaluate", "notify")
  /\ Store(dbusPowerMode, FALSE)
  /\ UNCHANGED <<queue, noTCUPowerMode, locals, args, event, tcu, reported, outdated>>

\* Mutant of EvaluateWakeup: the new state is never stored.
EvaluateWakeupUnstored ==
  /\ dbusPowerMode = "NAD_STAY_ALIVE_SERVICES"
  /\ NAD_LifecycleState \in ListenStates \union {"NAD_SHUTDOWN"}
  /\ Goto(rcv, "evaluate", "notify")
  /\ timer' = 200
  /\ UNCHANGED <<queue, state, noTCUPowerMode, mode, dbusPowerMode, args, event, tcu,
                 history, outdated>>

\* Mutant of EvaluateWakeup: the timer starts before anyone is notified.
EvaluateWakeupSilent ==
  /\ dbusPowerMode = "NAD_STAY_ALIVE_SERVICES"
  /\ NAD_LifecycleState \in ListenStates \union {"NAD_SHUTDOWN"}
  /\ Goto(rcv, "evaluate", "window")
  /\ Store(dbusPowerMode, FALSE)
  /\ timer' = 200
  /\ UNCHANGED <<queue, noTCUPowerMode, mode, dbusPowerMode, args, event, tcu, reported,
                 outdated>>

\* Out of a listen mode or suspend-to-RAM the services get 200 seconds.
EvaluateWakeup ==
  /\ dbusPowerMode = "NAD_STAY_ALIVE_SERVICES"
  /\ NAD_LifecycleState \in ListenStates \union {"NAD_SHUTDOWN"}
  /\ Goto(rcv, "evaluate", "notify")
  /\ Store(dbusPowerMode, FALSE)
  /\ timer' = 200
  /\ UNCHANGED <<queue, noTCUPowerMode, mode, dbusPowerMode, args, event, tcu, reported,
                 outdated>>

EvaluateSettle ==
  /\ dbusPowerMode = "NAD_STAY_ALIVE_SERVICES"
  /\ NAD_LifecycleState \notin ListenStates \union {"NAD_SHUTDOWN"}
  /\ Goto(rcv, "evaluate", "settle")
  /\ Store(dbusPowerMode, FALSE)
  /\ UNCHANGED <<queue, noTCUPowerMode, locals, args, event, tcu, reported, outdated>>

\* Mutant of Settled: it waits for the IMU wakeup instead of two seconds.
SettledByImu ==
  /\ info.wakeup = "WAKE_UP_ACCELEROMETER"
  /\ Goto(rcv, "settle", "notify")
  /\ timer' = 120
  /\ UNCHANGED <<queue, state, noTCUPowerMode, mode, dbusPowerMode, args, event, tcu,
                 history, outdated>>

\* Two seconds later; the wakeup source is not reset.
Settled ==
  /\ Goto(rcv, "settle", "notify")
  /\ timer' = IF info.wakeup = "WAKE_UP_ACCELEROMETER" THEN 120 ELSE 21
  /\ UNCHANGED <<queue, state, noTCUPowerMode, mode, dbusPowerMode, args, event, tcu,
                 history, outdated>>

\* startTCUOnlyTimer: the receive thread itself has slept.
TimerExpires ==
  /\ Goto(rcv, "window", "idle")
  /\ Tell("STAY_INACTIVE")
  /\ ModeDone
  /\ UNCHANGED <<queue, state, noTCUPowerMode, args, event, history, outdated>>

-----------------------------------------------------------------------------
(* NotifyAllRegisteredClientsNadStateInfo, on either thread: it reads the  *)
(* members, not its parameter, and then sends what it has read.            *)

ReadMembers(t) ==
  /\ Goto(t, "notify", "fire")
  /\ args' = [args EXCEPT ![t] = Members]
  /\ UNCHANGED <<queue, state, noTCUPowerMode, locals, event, tcu, history, outdated>>

FireEvent(t) ==
  /\ pc[t] = "fire"
  /\ event' = args[t]
  /\ args' = [args EXCEPT ![t] = NoEvent]
  /\ outdated' = (args[t] # Members)
  /\ UNCHANGED <<queue, state, noTCUPowerMode, tcu, history>>

FireOnReceive ==
  /\ FireEvent(rcv)
  /\ \/ timer # 0 /\ Goto(rcv, "fire", "window") /\ UNCHANGED locals
     \/ timer = 0 /\ Goto(rcv, "fire", "idle") /\ ModeDone

FireOnDispatch ==
  /\ FireEvent(dispatcher)
  /\ Goto(dispatcher, "fire", "idle")
  /\ UNCHANGED locals

-----------------------------------------------------------------------------
(* The dispatcher.                                                         *)

Wakeable == ListenStates \union {"NAD_EMERGENCY_LAW_LP"}

\* Any other state is answered LC_STS_NOT_OK and left alone.
LC_Wakeup ==
  /\ NAD_LifecycleState \in Wakeable
  /\ Goto(dispatcher, "idle", "reread")
  /\ UNCHANGED <<queue, state, noTCUPowerMode, locals, args, event, tcu, history, outdated>>

\* The state is read again, and stored without another look.
WakeupLaw ==
  /\ NAD_LifecycleState = "NAD_EMERGENCY_LAW_LP"
  /\ Goto(dispatcher, "reread", "law")
  /\ UNCHANGED <<queue, state, noTCUPowerMode, locals, args, event, tcu, history, outdated>>

LawStore ==
  /\ Goto(dispatcher, "law", "notify")
  /\ Store("NAD_EMERGENCY_LAW", TRUE)
  /\ UNCHANGED <<queue, noTCUPowerMode, locals, args, event, tcu, reported, outdated>>

WakeupServices ==
  /\ NAD_LifecycleState # "NAD_EMERGENCY_LAW_LP"
  /\ Goto(dispatcher, "reread", "store")
  /\ Tell("STAY_ACTIVE")
  /\ UNCHANGED <<queue, state, noTCUPowerMode, locals, args, event, history, outdated>>

\* Mutant of WakeupStore: the clients are not notified.
WakeupStoreSilent ==
  /\ Goto(dispatcher, "store", "idle")
  /\ Store("NAD_STAY_ALIVE_SERVICES", TRUE)
  /\ UNCHANGED <<queue, noTCUPowerMode, locals, args, event, tcu, reported, outdated>>

WakeupStore ==
  /\ Goto(dispatcher, "store", "notify")
  /\ Store("NAD_STAY_ALIVE_SERVICES", TRUE)
  /\ UNCHANGED <<queue, noTCUPowerMode, locals, args, event, tcu, reported, outdated>>

LC_JumpToListen2 ==
  /\ Goto(dispatcher, "idle", "idle")
  /\ Tell("STAY_INACTIVE")
  /\ UNCHANGED <<queue, state, noTCUPowerMode, locals, args, event, history, outdated>>

-----------------------------------------------------------------------------
(* The threads that only store.                                            *)

setSocketWakeupSource(reason) ==
  /\ info' = [info EXCEPT !.wakeup = SocketSource(reason, NAD_LifecycleState, @)]
  /\ UNCHANGED <<queue, NAD_LifecycleState, noTCUPowerMode, pc, locals, args, event, tcu,
                 history, outdated>>

setNWSync(can) ==
  /\ info' = [info EXCEPT !.can = can]
  /\ UNCHANGED <<queue, NAD_LifecycleState, noTCUPowerMode, pc, locals, args, event, tcu,
                 history, outdated>>

-----------------------------------------------------------------------------
(* The specification.                                                      *)

Receive ==
  \/ \E n \in Notifications :
       setPMWakeupSource(n) \/ set_LC_MainBattery(n) \/ set_LC_VTMstate(n) \/ setPowerMode(n)
  \/ Activate \/ Broadcast \/ Ignore
  \/ EvaluateOther \/ EvaluateWakeup \/ EvaluateSettle
  \/ Settled \/ TimerExpires
  \/ ReadMembers(rcv) \/ FireOnReceive

\* The steps of a handler that has begun; nobody has to call LC_Wakeup.
Dispatch ==
  \/ WakeupLaw \/ LawStore
  \/ WakeupServices \/ WakeupStore
  \/ ReadMembers(dispatcher) \/ FireOnDispatch

Next ==
  \/ \E n \in Notifications : Notify(n)
  \/ Receive
  \/ LC_Wakeup \/ LC_JumpToListen2
  \/ Dispatch
  \/ \E reason \in SocketReasons : setSocketWakeupSource(reason)
  \/ \E can \in CanStatuses : setNWSync(can)

Spec == Init /\ [][Next]_vars

\* Both threads run: the operating system schedules them, a sleep ends and a
\* synchronous call to the microcontroller returns.
FairSpec == Spec /\ WF_vars(Receive) /\ WF_vars(Dispatch)

-----------------------------------------------------------------------------
(* Properties.                                                             *)

\* Every variable keeps its type: the state only ever holds a literal of
\* LC_State, never the indeterminate local of setPowerMode.
TypeOK ==
  /\ queue \in Seq(Notifications) /\ Len(queue) <= QueueBound
  /\ NAD_LifecycleState \in LC_State
  /\ info \in Info
  /\ noTCUPowerMode \in BOOLEAN
  /\ pc \in [Threads -> Locations]
  /\ mode \in PowerModeStates \union {"none"}
  /\ dbusPowerMode \in LC_State \union {Unassigned}
  /\ timer \in Windows
  /\ args \in [Threads -> Event \union {NoEvent}]
  /\ event \in Event \union {NoEvent}
  /\ tcu \in PENDING_TCU_ACTION \union {"NONE"}
  /\ reported \in Mapped \union {"none"}
  /\ woken \in BOOLEAN
  /\ outdated \in BOOLEAN

Awaited == \E i \in 1 .. Len(queue) : IsMappedMode(queue[i])

Resting == pc[rcv] \in {"idle", "window"}

\* evaluateAndBroadcastPowerMode is only called with a state the switch
\* assigned: a mode without mapping (or the stay-alive request, which breaks
\* out of the switch without assigning) never broadcasts the stack's contents.
NoUnassignedBroadcast ==
  pc[rcv] = "evaluate" => mode \in Mapped /\ dbusPowerMode = StateOf[mode]

\* Whatever came between, once the receive thread has caught up the NAD is in
\* the state of the last mapped mode the microcontroller notified, unless a
\* client woke it up since: noTCUPowerMode swallows no mode but the one that
\* cleared it, and no mode overtakes another.
AppliesWhatWasReported ==
  ~ Awaited /\ Resting /\ ~ woken /\ reported # "none"
    => NAD_LifecycleState = StateOf[reported]

\* Nobody is left with an old picture: when no handler is under way the last
\* event carried the state, the supply and the temperature as they are.  Every
\* store of one of the three ends in an event; only an event that was sent
\* after the other thread had stored again (outdated) is excused.  The wakeup
\* source and the CAN status are stored without an event.
EventCurrent ==
  Resting /\ pc[dispatcher] = "idle" /\ event # NoEvent /\ ~ outdated
    => /\ event.state = NAD_LifecycleState
       /\ event.batt = info.batt
       /\ event.vtm = info.vtm

\* The two seconds evaluateAndBroadcastPowerMode sleeps before it looks for an
\* IMU wakeup cannot bring one: the only thread that stores that source is the
\* one that sleeps.
SettleIsBlind ==
  [][pc[rcv] = "settle" /\ info'.wakeup = "WAKE_UP_ACCELEROMETER"
       => info.wakeup = "WAKE_UP_ACCELEROMETER"]_vars

\* From the store of NAD_STAY_ALIVE_SERVICES until its 2 seconds or its window
\* are over.
Window == pc[rcv] = "settle" \/ timer # 0

\* The STAY_INACTIVE that ends a window meets the state the window was for:
\* the state does not change under the sleep but by LC_Wakeup, which can only
\* store the same state again or complete, late, the wakeup of the low-power
\* emergency mode.
WindowMeetsServices ==
  Window => \/ NAD_LifecycleState = "NAD_STAY_ALIVE_SERVICES"
            \/ woken /\ NAD_LifecycleState = "NAD_EMERGENCY_LAW"

\* What AtomicPowerMode has in one step is here in progress: a mode in the hand
\* of the receive thread has not taken effect yet.
InHand == pc[rcv] \in {"activate", "tail", "evaluate"}

Inbox == IF InHand THEN <<[kind |-> "mode", value |-> mode]>> \o queue ELSE queue

Owes(location) ==
  CASE location \in {"settle", "notify"} -> "due"
    [] location = "fire"                -> "read"
    [] OTHER                            -> "nothing"

Owing == [t \in Threads |-> Owes(pc[t])]

Atomic ==
  INSTANCE AtomicPowerMode WITH inbox <- Inbox, nad <- Members, window <- Window,
                                owing <- Owing

\* Every notification takes effect at one instant, in the order of arrival, and
\* not before the last one was announced and its window over; only LC_Wakeup,
\* the lpm thread and the network manager change the members beside it.
PowerModeIsAtomic == Atomic!Spec

\* Every mapped mode the microcontroller notifies takes effect, even one that
\* another mode follows at once, although the receive thread sleeps up to 200
\* seconds on behalf of an earlier one.
ModeTakesEffect ==
  \A n \in Notifications :
    IsMappedMode(n) =>
      ((\E i \in 1 .. Len(queue) : queue[i] = n) ~> NAD_LifecycleState = StateOf[n.value])

\* The clients hear of every mapped mode that is being applied as well, unless
\* LC_Wakeup overwrites the state before it is announced.
ModeIsAnnounced ==
  \A m \in {n.value : n \in {k \in Notifications : IsMappedMode(k)}} :
    mode = m /\ pc[rcv] \in {"evaluate", "settle", "notify"} /\ ~ woken ~>
      \/ event # NoEvent /\ event.state = StateOf[m]
      \/ woken

\* What SOC_LIFECYCLE_STATE_MACHINE.xlsx allows LC_Wakeup: the rows that end in
\* NAD_STAY_ALIVE_SERVICES start in NAD_ON (row 16), NAD_SHUTDOWN (row 27) and
\* NAD_LISTEN_3 (row 31), and no row leads out of NAD_OFF.  LC_Wakeup looks at
\* the state, waits for the microcontroller and then stores regardless of the
\* mode that has come meanwhile.
WakeupFollowsTable ==
  [][pc[dispatcher] = "store" /\ pc'[dispatcher] = "notify"
       => NAD_LifecycleState \in {"NAD_ON", "NAD_SHUTDOWN", "NAD_LISTEN_3",
                                  "NAD_STAY_ALIVE_SERVICES"}]_vars

-----------------------------------------------------------------------------
(* What makes the safety properties inductive.                             *)

\* A window is only open where its sleep is ahead or under way.
WindowFacts ==
  /\ timer # 0 => pc[rcv] \in {"notify", "fire", "window"}
  /\ pc[rcv] = "window" => timer # 0

\* Where the handlers are fixes their locals: noTCUPowerMode is cleared from
\* the switch to the branches after it, and no longer.
HandlerFacts ==
  /\ pc[dispatcher] \in {"idle", "reread", "law", "store", "notify", "fire"}
  /\ noTCUPowerMode <=> ~ (pc[rcv] = "tail" /\ ~ HasCase(mode))
  /\ pc[rcv] = "activate" => mode = "SYSTEM_LC_STAY_ALIVE_SERVICES"
  /\ pc[rcv] \in {"activate", "tail"} =>
       dbusPowerMode = IF mode \in Mapped THEN StateOf[mode] ELSE Unassigned

Applying == pc[rcv] \in {"tail", "evaluate"} /\ mode \in Mapped

\* The last mapped mode is in the queue, in hand, or in effect.
LastReported ==
  /\ \A i \in 1 .. Len(queue) :
       IsMappedMode(queue[i]) /\ (\A j \in i + 1 .. Len(queue) : ~ IsMappedMode(queue[j]))
         => reported = queue[i].value
  /\ ~ Awaited /\ Applying => reported = mode
  /\ ~ Awaited /\ ~ Applying /\ ~ woken /\ reported # "none"
       => NAD_LifecycleState = StateOf[reported]

Announcing(t) == pc[t] \in {"settle", "notify", "fire"}

\* The last event is current, outdated, or about to be replaced.
EventPromised ==
  event # NoEvent /\ ~ outdated /\ (\A t \in Threads : ~ Announcing(t))
    => /\ event.state = NAD_LifecycleState
       /\ event.batt = info.batt
       /\ event.vtm = info.vtm

IInv ==
  /\ TypeOK
  /\ NoUnassignedBroadcast
  /\ HandlerFacts
  /\ WindowFacts
  /\ WindowMeetsServices
  /\ LastReported
  /\ EventPromised

=============================================================================
