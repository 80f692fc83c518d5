-------------------------- MODULE PowerMode_proofs --------------------------
(***************************************************************************)
(* What holds of the power mode for every set of notifications, every      *)
(* length of the queue and whichever literals the members began with.      *)
(***************************************************************************)
EXTENDS PowerMode, SequenceTheorems, TLAPS

-----------------------------------------------------------------------------
(* The mapping of setPowerMode.                                            *)

\* Every mapped mode has a state; the stay-alive request is not mapped.
LEMMA MappingType ==
  /\ \A m \in Mapped : StateOf[m] \in LC_State
  /\ Mapped \subseteq PowerModeStates
  /\ "SYSTEM_LC_STAY_ALIVE_SERVICES" \notin Mapped
  /\ "SYSTEM_LC_STAY_ALIVE_SERVICES" \in PowerModeStates
  /\ "none" \notin Mapped
<1>1. \A m \in Mapped : StateOf[m] \in LC_State
  BY DEF Mapped, StateOf, LC_State
<1>2. Mapped \subseteq PowerModeStates
  BY DEF PowerModeStates
<1>3. "SYSTEM_LC_STAY_ALIVE_SERVICES" \notin Mapped /\ "none" \notin Mapped
  BY DEF Mapped, StateOf
<1> QED BY <1>1, <1>2, <1>3 DEF PowerModeStates

\* A mode with a case of its own is mapped or the stay-alive request.
LEMMA NotificationType ==
  ASSUME NEW n \in Notifications
  PROVE  /\ n.kind = "mode" => n.value \in PowerModeStates
         /\ n.kind # "mode" => ~ IsMappedMode(n)
  BY ParametersAssumption DEF Notification, IsMappedMode

\* What the wakeup notifications and the socket store is a wakeup source.
LEMMA SourceType ==
  ASSUME NEW old \in LC_WakeupSource, NEW reason, NEW from
  PROVE  /\ PmSource(reason, from, old) \in LC_WakeupSource
         /\ SocketSource(reason, from, old) \in LC_WakeupSource
<1>1. RtcSource(from, old) \in LC_WakeupSource
  BY DEF RtcSource, LC_WakeupSource
<1>2. PmSource(reason, from, old) \in LC_WakeupSource
  BY <1>1 DEF PmSource, LC_WakeupSource
<1>3. SocketSource(reason, from, old) \in LC_WakeupSource
  BY <1>1 DEF SocketSource, LC_WakeupSource
<1> QED BY <1>2, <1>3

-----------------------------------------------------------------------------
(* Types.                                                                  *)

\* The initial states are well typed.
LEMMA InitTypeOK == Init => TypeOK
<1> SUFFICES ASSUME Init PROVE TypeOK
  OBVIOUS
<1>1. queue \in Seq(Notifications) /\ Len(queue) <= QueueBound
  BY ParametersAssumption, EmptySeq DEF Init
<1>2. info \in Info
  BY ParametersAssumption DEF Init
<1>3. pc \in [Threads -> Locations] /\ args \in [Threads -> Event \union {NoEvent}]
  BY DEF Init, Locations
<1>4. NAD_LifecycleState \in LC_State /\ dbusPowerMode \in LC_State \union {Unassigned}
  BY ParametersAssumption DEF Init
<1> QED BY <1>1, <1>2, <1>3, <1>4 DEF Init, TypeOK, Windows

\* A thread that moves to a location keeps the program counters well typed.
LEMMA GotoType ==
  ASSUME NEW t \in Threads, NEW from, NEW to \in Locations,
         pc \in [Threads -> Locations], Goto(t, from, to)
  PROVE  pc' \in [Threads -> Locations]
  BY DEF Goto

\* Taking a notification shifts the queue and moves the receive thread.
LEMMA TakeType ==
  ASSUME TypeOK, NEW n \in Notifications, NEW to \in Locations, Take(n, to)
  PROVE  /\ queue' \in Seq(Notifications)
         /\ Len(queue') = Len(queue) - 1
         /\ Len(queue') <= QueueBound
         /\ \A i \in 1 .. Len(queue') : queue'[i] = queue[i + 1]
         /\ pc' \in [Threads -> Locations]
<1>1. queue \in Seq(Notifications) /\ queue # <<>> /\ queue' = Tail(queue)
  BY DEF TypeOK, Take
<1>2. /\ queue' \in Seq(Notifications)
      /\ Len(queue') = Len(queue) - 1
      /\ \A i \in 1 .. Len(queue') : queue'[i] = queue[i + 1]
  BY <1>1, HeadTailProperties
<1>3. Len(queue') <= QueueBound
  <2>1. Len(queue) <= QueueBound /\ Len(queue) \in Nat /\ QueueBound \in Nat
    BY <1>1, ParametersAssumption, LenProperties DEF TypeOK
  <2> QED BY <1>2, <2>1
<1>4. pc' \in [Threads -> Locations]
  BY GotoType DEF Take, TypeOK, Threads
<1> QED BY <1>2, <1>3, <1>4

\* A notification of the microcontroller keeps the types.
LEMMA NotifyTypeOK ==
  ASSUME TypeOK, NEW n \in Notifications, Notify(n)
  PROVE  TypeOK'
<1>1. /\ queue' \in Seq(Notifications)
      /\ Len(queue') = Len(queue) + 1
  BY AppendProperties DEF TypeOK, Notify
<1>2. Len(queue') <= QueueBound
  <2>1. Len(queue) \in Nat /\ QueueBound \in Nat /\ Len(queue) < QueueBound
    BY ParametersAssumption, LenProperties DEF TypeOK, Notify
  <2> QED BY <1>1, <2>1
<1>3. reported' \in Mapped \union {"none"}
  BY DEF TypeOK, Notify
<1> QED BY <1>1, <1>2, <1>3 DEF TypeOK, Notify, state, locals

\* The callbacks of the wakeup reason, the supply and the temperature keep the
\* types: an undefined battery status is still one of the two.
LEMMA StatusTypeOK ==
  ASSUME TypeOK, NEW n \in Notifications,
         setPMWakeupSource(n) \/ set_LC_MainBattery(n) \/ set_LC_VTMstate(n)
  PROVE  TypeOK'
<1> DEFINE rest == <<NAD_LifecycleState, noTCUPowerMode, locals, args, event, tcu, history,
                     outdated>>
<1>1. ASSUME NEW to \in Locations, Take(n, to), info' \in Info, UNCHANGED rest
      PROVE  TypeOK'
  BY <1>1, TakeType DEF TypeOK, locals, history
<1>2. CASE setPMWakeupSource(n)
  <2>1. info' \in Info
    BY <1>2, SourceType DEF setPMWakeupSource, TypeOK, Info
  <2> QED BY <1>1, <1>2, <2>1 DEF setPMWakeupSource, Locations
<1>3. CASE set_LC_MainBattery(n)
  <2>1. ServerBatteryStatus(n) \subseteq LC_MainBatteryStatus
    BY DEF ServerBatteryStatus, LC_MainBatteryStatus
  <2>2. info' \in Info
    BY <1>3, <2>1 DEF set_LC_MainBattery, TypeOK, Info
  <2> QED BY <1>1, <1>3, <2>2 DEF set_LC_MainBattery, Locations
<1>4. CASE set_LC_VTMstate(n)
  <2>1. info' \in Info
    BY <1>4 DEF set_LC_VTMstate, VtmState, TypeOK, Info, LC_VTMstate
  <2> QED BY <1>1, <1>4, <2>1 DEF set_LC_VTMstate, Locations
<1> QED BY <1>2, <1>3, <1>4

\* The switch of setPowerMode keeps the types.
LEMMA SetPowerModeTypeOK ==
  ASSUME TypeOK, NEW n \in Notifications, setPowerMode(n)
  PROVE  TypeOK'
<1>1. PICK to \in Locations : Take(n, to)
  BY DEF setPowerMode, Locations
<1>2. mode' \in PowerModeStates \union {"none"}
  BY NotificationType DEF setPowerMode
<1>3. dbusPowerMode' \in LC_State \union {Unassigned}
  BY MappingType DEF setPowerMode
<1>4. noTCUPowerMode' \in BOOLEAN
  BY DEF setPowerMode, TypeOK
<1> QED BY <1>1, <1>2, <1>3, <1>4, TakeType DEF setPowerMode, TypeOK, state, history

\* The members the event is sent with are well typed.
LEMMA MembersType == TypeOK => Members \in Event
  BY DEF TypeOK, Members, Event, Info

\* The steps between the switch and the announcement keep the types: only a
\* state the switch assigned is ever stored.
LEMMA ApplyTypeOK ==
  ASSUME TypeOK, NoUnassignedBroadcast,
         \/ Activate \/ Broadcast \/ Ignore
         \/ EvaluateOther \/ EvaluateWakeup \/ EvaluateSettle
         \/ Settled \/ TimerExpires
  PROVE  TypeOK'
<1> USE DEF TypeOK, state, locals, history, Locations, Threads
<1>1. CASE Activate
  BY <1>1, GotoType DEF Activate, Tell, PENDING_TCU_ACTION
<1>2. CASE Broadcast
  BY <1>2, GotoType DEF Broadcast
<1>3. CASE Ignore
  BY <1>3, GotoType DEF Ignore, ModeDone, Windows
<1>4. pc[rcv] = "evaluate" => dbusPowerMode \in LC_State
  BY MappingType DEF NoUnassignedBroadcast
<1>5. CASE EvaluateOther
  BY <1>4, <1>5, GotoType DEF EvaluateOther, Store, Goto
<1>6. CASE EvaluateWakeup
  BY <1>4, <1>6, GotoType DEF EvaluateWakeup, Store, Goto, Windows
<1>7. CASE EvaluateSettle
  BY <1>4, <1>7, GotoType DEF EvaluateSettle, Store, Goto
<1>8. CASE Settled
  BY <1>8, GotoType DEF Settled, Windows
<1>9. CASE TimerExpires
  BY <1>9, GotoType DEF TimerExpires, Tell, ModeDone, Windows, PENDING_TCU_ACTION
<1> QED BY <1>1, <1>2, <1>3, <1>5, <1>6, <1>7, <1>8, <1>9

\* The announcement keeps the types.
LEMMA AnnounceTypeOK ==
  ASSUME TypeOK,
         FireOnReceive \/ FireOnDispatch \/ (\E t \in Threads : ReadMembers(t))
  PROVE  TypeOK'
<1> USE DEF TypeOK, state, locals, history, Locations, Threads
<1>1. ASSUME NEW t \in Threads, ReadMembers(t)
      PROVE  TypeOK'
  BY <1>1, GotoType, MembersType DEF ReadMembers
<1>2. ASSUME NEW t \in Threads, FireEvent(t)
      PROVE  /\ event' \in Event \union {NoEvent}
             /\ args' \in [Threads -> Event \union {NoEvent}]
             /\ outdated' \in BOOLEAN
             /\ UNCHANGED <<queue, NAD_LifecycleState, info, noTCUPowerMode, tcu, reported,
                            woken>>
  BY <1>2 DEF FireEvent
<1>3. CASE FireOnReceive
  <2>1. pc' \in [Threads -> Locations]
    BY <1>3, GotoType DEF FireOnReceive
  <2>2. mode' \in PowerModeStates \union {"none"} /\ timer' \in Windows
        /\ dbusPowerMode' \in LC_State \union {Unassigned}
    BY <1>3 DEF FireOnReceive, ModeDone, Windows
  <2>3. FireEvent(rcv)
    BY <1>3 DEF FireOnReceive
  <2> QED BY <1>2, <2>1, <2>2, <2>3
<1>4. CASE FireOnDispatch
  <2>1. pc' \in [Threads -> Locations] /\ FireEvent(dispatcher) /\ UNCHANGED locals
    BY <1>4, GotoType DEF FireOnDispatch
  <2> QED BY <1>2, <2>1
<1> QED BY <1>1, <1>3, <1>4

\* The dispatcher and the threads that only store keep the types.
LEMMA OthersTypeOK ==
  ASSUME TypeOK,
         \/ LC_Wakeup \/ WakeupLaw \/ LawStore \/ WakeupServices \/ WakeupStore \/ LC_JumpToListen2
         \/ \E reason \in SocketReasons : setSocketWakeupSource(reason)
         \/ \E can \in CanStatuses : setNWSync(can)
  PROVE  TypeOK'
<1> USE DEF TypeOK, state, locals, history, Locations, Threads
<1>1. CASE LC_Wakeup
  BY <1>1, GotoType DEF LC_Wakeup
<1>2. CASE WakeupLaw
  BY <1>2, GotoType DEF WakeupLaw
<1>8. CASE LawStore
  BY <1>8, GotoType DEF LawStore, Store, LC_State
<1>3. CASE WakeupServices
  BY <1>3, GotoType DEF WakeupServices, Tell, PENDING_TCU_ACTION
<1>4. CASE WakeupStore
  BY <1>4, GotoType DEF WakeupStore, Store, LC_State
<1>5. CASE LC_JumpToListen2
  BY <1>5, GotoType DEF LC_JumpToListen2, Tell, PENDING_TCU_ACTION
<1>6. ASSUME NEW reason \in SocketReasons, setSocketWakeupSource(reason)
      PROVE  TypeOK'
  <2>1. info' \in Info
    BY <1>6, SourceType DEF setSocketWakeupSource, Info
  <2> QED BY <1>6, <2>1 DEF setSocketWakeupSource
<1>7. ASSUME NEW can \in CanStatuses, setNWSync(can)
      PROVE  TypeOK'
  <2>1. info' \in Info
    BY <1>7, ParametersAssumption DEF setNWSync, Info
  <2> QED BY <1>7, <2>1 DEF setNWSync
<1> QED BY <1>1, <1>2, <1>3, <1>4, <1>5, <1>6, <1>7, <1>8

-----------------------------------------------------------------------------
(* Where the handlers are.                                                 *)

\* The locals of the receive thread agree with where it is, after every step
\* as before it.
LEMMA HandlerStep ==
  ASSUME TypeOK, NoUnassignedBroadcast, HandlerFacts, Next
  PROVE  NoUnassignedBroadcast' /\ HandlerFacts'
<1> USE DEF TypeOK, NoUnassignedBroadcast, HandlerFacts, Threads, rcv, dispatcher
<1>1. ASSUME NEW n \in Notifications, Notify(n)
      PROVE  NoUnassignedBroadcast' /\ HandlerFacts'
  BY <1>1 DEF Notify, locals, HasCase
<1>2. ASSUME NEW n \in Notifications,
             setPMWakeupSource(n) \/ set_LC_MainBattery(n) \/ set_LC_VTMstate(n)
      PROVE  NoUnassignedBroadcast' /\ HandlerFacts'
  BY <1>2 DEF setPMWakeupSource, set_LC_MainBattery, set_LC_VTMstate, Take, Goto, locals, HasCase
<1>3. ASSUME NEW n \in Notifications, setPowerMode(n)
      PROVE  NoUnassignedBroadcast' /\ HandlerFacts'
  BY <1>3 DEF setPowerMode, Take, Goto, HasCase
<1>4. CASE Activate \/ Broadcast \/ Ignore
  BY <1>4, MappingType
     DEF Activate, Broadcast, Ignore, Broadcasts, Goto, ModeDone, locals, HasCase
<1>5. CASE EvaluateOther \/ EvaluateWakeup \/ EvaluateSettle \/ Settled \/ TimerExpires
  BY <1>5 DEF EvaluateOther, EvaluateWakeup, EvaluateSettle, Settled, TimerExpires, Goto,
              ModeDone, locals, HasCase
<1>6. CASE FireOnReceive \/ FireOnDispatch \/ (\E t \in Threads : ReadMembers(t))
  BY <1>6 DEF FireOnReceive, FireOnDispatch, FireEvent, ReadMembers, Goto, ModeDone, locals,
              HasCase
<1>7. CASE LC_Wakeup \/ WakeupLaw \/ LawStore \/ WakeupServices \/ WakeupStore \/ LC_JumpToListen2
  <2>1. /\ pc'[rcv] = pc[rcv]
        /\ pc'[dispatcher] \in {"idle", "reread", "law", "store", "notify", "fire"}
    BY <1>7 DEF LC_Wakeup, WakeupLaw, LawStore, WakeupServices, WakeupStore, LC_JumpToListen2, Goto
  <2>2. UNCHANGED <<noTCUPowerMode, mode, dbusPowerMode>>
    BY <1>7 DEF LC_Wakeup, WakeupLaw, LawStore, WakeupServices, WakeupStore,
                LC_JumpToListen2, locals
  <2> QED BY <2>1, <2>2 DEF HasCase
<1>8. CASE \/ \E reason \in SocketReasons : setSocketWakeupSource(reason)
           \/ \E can \in CanStatuses : setNWSync(can)
  BY <1>8 DEF setSocketWakeupSource, setNWSync, locals, HasCase
<1> QED BY <1>1, <1>2, <1>3, <1>4, <1>5, <1>6, <1>7, <1>8 DEF Next, Receive, Dispatch

\* A window is only open where its sleep is ahead or under way, and the state
\* is then the one the window is for.
LEMMA WindowStep ==
  ASSUME TypeOK, WindowFacts, WindowMeetsServices, Next
  PROVE  WindowFacts' /\ WindowMeetsServices'
<1> USE DEF TypeOK, WindowFacts, WindowMeetsServices, Window, Threads, rcv, dispatcher
<1>1. CASE EvaluateWakeup \/ EvaluateSettle
  BY <1>1 DEF EvaluateWakeup, EvaluateSettle, Goto, Store, locals
<1>2. CASE \/ EvaluateOther \/ Activate \/ Broadcast \/ Ignore \/ TimerExpires
           \/ \E n \in Notifications : setPowerMode(n)
  BY <1>2 DEF EvaluateOther, Activate, Broadcast, Ignore, TimerExpires, setPowerMode, Take, Goto,
              ModeDone, locals
<1>3. CASE Settled
  BY <1>3 DEF Settled, Goto, state, history
<1>4. ASSUME NEW n \in Notifications,
             \/ Notify(n) \/ setPMWakeupSource(n) \/ set_LC_MainBattery(n)
             \/ set_LC_VTMstate(n)
      PROVE  WindowFacts' /\ WindowMeetsServices'
  BY <1>4 DEF Notify, setPMWakeupSource, set_LC_MainBattery, set_LC_VTMstate, Take, Goto,
              state, locals, history
<1>5. CASE FireOnReceive \/ FireOnDispatch \/ (\E t \in Threads : ReadMembers(t))
  BY <1>5 DEF FireOnReceive, FireOnDispatch, FireEvent, ReadMembers, Goto, ModeDone, state,
              locals, history
<1>6. CASE LawStore \/ WakeupStore
  BY <1>6 DEF LawStore, WakeupStore, Store, Goto, locals
<1>7. CASE LC_Wakeup \/ WakeupLaw \/ WakeupServices \/ LC_JumpToListen2
  BY <1>7 DEF LC_Wakeup, WakeupLaw, WakeupServices, LC_JumpToListen2, Goto, state, locals,
              history
<1>8. CASE \/ \E reason \in SocketReasons : setSocketWakeupSource(reason)
           \/ \E can \in CanStatuses : setNWSync(can)
  BY <1>8 DEF setSocketWakeupSource, setNWSync, locals, history
<1> QED BY <1>1, <1>2, <1>3, <1>4, <1>5, <1>6, <1>7, <1>8 DEF Next, Receive, Dispatch

-----------------------------------------------------------------------------
(* No mode is lost or overtaken.                                           *)

\* A notification joins the end of the queue: a mapped mode is the last one
\* reported, any other leaves the last one where it was.
LEMMA NotifyLastReported ==
  ASSUME TypeOK, LastReported, NEW n \in Notifications, Notify(n)
  PROVE  LastReported'
<1> DEFINE L == Len(queue)
<1>1. /\ L \in Nat /\ Len(queue') = L + 1
      /\ \A i \in 1 .. L : queue'[i] = queue[i]
      /\ queue'[L + 1] = n
  BY AppendProperties, LenProperties DEF TypeOK, Notify
<1>2. /\ UNCHANGED <<NAD_LifecycleState, pc, mode, woken>>
      /\ reported' = IF IsMappedMode(n) THEN n.value ELSE reported
  BY DEF Notify, state, locals, IsMappedMode
<1> HIDE DEF L
<1>3. ASSUME IsMappedMode(n)
      PROVE  LastReported'
  <2>1. Awaited'
    BY <1>1, <1>3 DEF Awaited, IsMappedMode, L
  <2>2. ASSUME NEW i \in 1 .. Len(queue'), IsMappedMode(queue'[i]),
               \A j \in i + 1 .. Len(queue') : ~ IsMappedMode(queue'[j])
        PROVE  reported' = queue'[i].value
    <3>1. i = L + 1
      BY <1>1, <1>3, <2>2
    <3> QED BY <1>1, <1>2, <1>3, <3>1
  <2> QED BY <2>1, <2>2 DEF LastReported, IsMappedMode
<1>4. ASSUME ~ IsMappedMode(n)
      PROVE  LastReported'
  <2>1. Awaited' <=> Awaited
    <3>1. Awaited => Awaited'
      BY <1>1 DEF Awaited, IsMappedMode, L
    <3>2. Awaited' => Awaited
      BY <1>1, <1>4 DEF Awaited, IsMappedMode, L
    <3> QED BY <3>1, <3>2
  <2>2. ASSUME NEW i \in 1 .. Len(queue'), IsMappedMode(queue'[i]),
               \A j \in i + 1 .. Len(queue') : ~ IsMappedMode(queue'[j])
        PROVE  reported' = queue'[i].value
    <3>1. i \in 1 .. L
      BY <1>1, <1>4, <2>2
    <3>2. \A j \in i + 1 .. L : ~ IsMappedMode(queue[j])
      BY <1>1, <2>2, <3>1
    <3>3. reported = queue[i].value
      BY <1>1, <2>2, <3>1, <3>2 DEF LastReported, L
    <3> QED BY <1>1, <1>2, <1>4, <3>1, <3>3
  <2>3. Applying' <=> Applying
    BY <1>2 DEF Applying
  <2> QED BY <1>2, <1>4, <2>1, <2>2, <2>3 DEF LastReported, IsMappedMode
<1> QED BY <1>3, <1>4

\* Taking the head of the queue leaves the last mapped mode last, and if the
\* head is not a mapped mode the receive thread awaits what it awaited.
LEMMA TakeLastReported ==
  ASSUME TypeOK, LastReported, NEW n \in Notifications, NEW to \in Locations, Take(n, to),
         UNCHANGED reported
  PROVE  /\ \A i \in 1 .. Len(queue') :
              IsMappedMode(queue'[i])
                /\ (\A j \in i + 1 .. Len(queue') : ~ IsMappedMode(queue'[j]))
                => reported' = queue'[i].value
         /\ ~ IsMappedMode(n) => (Awaited' <=> Awaited)
         /\ IsMappedMode(n) /\ ~ Awaited' => reported = n.value
<1> DEFINE L == Len(queue)
<1>1. /\ L \in Nat /\ L > 0 /\ queue[1] = n
      /\ Len(queue') = L - 1
      /\ \A i \in 1 .. L - 1 : queue'[i] = queue[i + 1]
  BY TakeType, LenProperties, EmptySeq DEF TypeOK, Take
<1>2. \A j \in 2 .. L : j - 1 \in 1 .. L - 1 /\ queue'[j - 1] = queue[j]
  BY <1>1
<1>3. ASSUME NEW i \in 1 .. Len(queue'), IsMappedMode(queue'[i]),
             \A j \in i + 1 .. Len(queue') : ~ IsMappedMode(queue'[j])
      PROVE  reported' = queue'[i].value
  <2>1. i + 1 \in 1 .. L /\ queue'[i] = queue[i + 1]
    BY <1>1
  <2>2. \A j \in i + 1 + 1 .. L : ~ IsMappedMode(queue[j])
    <3> SUFFICES ASSUME NEW j \in i + 1 + 1 .. L PROVE ~ IsMappedMode(queue[j])
      OBVIOUS
    <3>1. j - 1 \in i + 1 .. L - 1 /\ j \in 2 .. L
      BY <1>1
    <3> QED BY <1>1, <1>2, <1>3, <3>1
  <2> QED BY <1>3, <2>1, <2>2 DEF LastReported
<1>4. (\E i \in 2 .. L : IsMappedMode(queue[i])) <=> Awaited'
  <2>1. ASSUME NEW i \in 2 .. L, IsMappedMode(queue[i])
        PROVE  Awaited'
    BY <1>1, <1>2, <2>1 DEF Awaited, IsMappedMode
  <2>2. ASSUME NEW i \in 1 .. L - 1, IsMappedMode(queue'[i])
        PROVE  \E k \in 2 .. L : IsMappedMode(queue[k])
    <3>1. i + 1 \in 2 .. L /\ queue'[i] = queue[i + 1]
      BY <1>1
    <3> QED BY <2>2, <3>1
  <2> QED BY <1>1, <2>1, <2>2 DEF Awaited, IsMappedMode
<1>5. ASSUME ~ IsMappedMode(n)
      PROVE  Awaited' <=> Awaited
  BY <1>1, <1>4, <1>5 DEF Awaited
<1>6. ASSUME IsMappedMode(n), ~ Awaited'
      PROVE  reported = n.value
  <2>1. \A j \in 1 + 1 .. L : ~ IsMappedMode(queue[j])
    BY <1>4, <1>6
  <2> QED BY <1>1, <1>6, <2>1 DEF LastReported
<1> QED BY <1>3, <1>5, <1>6

\* A step that leaves the queue, the last report and the state alone, and moves
\* no mode out of hand, changes nothing about the last mapped mode.
LEMMA KeepLastReported ==
  ASSUME LastReported,
         UNCHANGED <<queue, reported, NAD_LifecycleState, woken>>,
         Applying' <=> Applying, Applying => mode' = mode
  PROVE  LastReported'
  BY DEF LastReported, Awaited

\* Storing the mode in hand puts the last mapped mode into effect.
LEMMA StoreLastReported ==
  ASSUME NoUnassignedBroadcast, LastReported, pc[rcv] = "evaluate",
         UNCHANGED <<queue, reported>>, ~ Applying', Store(dbusPowerMode, FALSE)
  PROVE  LastReported'
<1>1. Applying /\ dbusPowerMode = StateOf[mode]
  BY DEF NoUnassignedBroadcast, Applying
<1>2. Awaited' <=> Awaited
  BY DEF Awaited
<1> QED BY <1>1, <1>2 DEF LastReported, Store

\* Every step keeps track of the last mapped mode.
LEMMA LastReportedStep ==
  ASSUME TypeOK, NoUnassignedBroadcast, HandlerFacts, LastReported, Next
  PROVE  LastReported'
<1> USE DEF Threads, rcv, dispatcher
<1>1. ASSUME NEW n \in Notifications, Notify(n)
      PROVE  LastReported'
  BY <1>1, NotifyLastReported
<1>2. ASSUME NEW n \in Notifications,
             setPMWakeupSource(n) \/ set_LC_MainBattery(n) \/ set_LC_VTMstate(n)
      PROVE  LastReported'
  <2>1. PICK to \in {"idle", "notify"} : Take(n, to)
    BY <1>2 DEF setPMWakeupSource, set_LC_MainBattery, set_LC_VTMstate
  <2>2. UNCHANGED <<NAD_LifecycleState, reported, woken, mode>>
    BY <1>2 DEF setPMWakeupSource, set_LC_MainBattery, set_LC_VTMstate, locals, history
  <2>3. ~ IsMappedMode(n)
    BY <1>2 DEF setPMWakeupSource, set_LC_MainBattery, set_LC_VTMstate, IsMappedMode
  <2>4. ~ Applying /\ ~ Applying'
    BY <2>1 DEF Take, Goto, Applying, TypeOK
  <2> QED BY <2>1, <2>2, <2>3, <2>4, TakeLastReported DEF LastReported, Locations
<1>3. ASSUME NEW n \in Notifications, setPowerMode(n)
      PROVE  LastReported'
  <2>1. PICK to \in {"activate", "tail"} :
          /\ Take(n, to)
          /\ n.value \in Mapped => to = "tail"
    BY <1>3, MappingType DEF setPowerMode
  <2>2. /\ UNCHANGED <<NAD_LifecycleState, reported, woken>>
        /\ mode' = n.value
    BY <1>3 DEF setPowerMode, state, history
  <2>3. ~ Applying /\ (Applying' <=> IsMappedMode(n))
    BY <1>3, <2>1, <2>2 DEF Take, Goto, Applying, TypeOK, IsMappedMode, setPowerMode
  <2> QED BY <2>1, <2>2, <2>3, TakeLastReported DEF LastReported, Locations
<1>4. CASE Activate
  <2>1. ~ Applying /\ ~ Applying'
    BY <1>4, MappingType DEF Activate, Goto, Applying, HandlerFacts, TypeOK, locals
  <2> QED BY <1>4, <2>1, KeepLastReported DEF Activate, state, history
<1>5. CASE Broadcast
  <2>1. (Applying' <=> Applying) /\ mode' = mode
    BY <1>5 DEF Broadcast, Goto, Applying, TypeOK, locals
  <2> QED BY <1>5, <2>1, KeepLastReported DEF Broadcast, state, history
<1>6. CASE Ignore
  <2>1. ~ Applying
    BY <1>6, MappingType DEF Ignore, Broadcasts, Goto, Applying, HandlerFacts, HasCase, TypeOK
  <2>2. ~ Applying'
    BY <1>6 DEF Ignore, Goto, Applying, TypeOK
  <2> QED BY <1>6, <2>1, <2>2, KeepLastReported DEF Ignore, state, history
<1>7. CASE EvaluateOther
  BY <1>7, StoreLastReported DEF EvaluateOther, Goto, Applying, TypeOK
<1>8. CASE EvaluateWakeup
  BY <1>8, StoreLastReported DEF EvaluateWakeup, Goto, Applying, TypeOK
<1>9. CASE EvaluateSettle
  BY <1>9, StoreLastReported DEF EvaluateSettle, Goto, Applying, TypeOK
<1>10. CASE Settled \/ TimerExpires \/ FireOnReceive \/ ReadMembers(rcv)
  <2>1. ~ Applying /\ ~ Applying'
    BY <1>10 DEF Settled, TimerExpires, FireOnReceive, ReadMembers, Goto, Applying, TypeOK
  <2> QED BY <1>10, <2>1, KeepLastReported
          DEF Settled, TimerExpires, FireOnReceive, FireEvent, ReadMembers, state, history
<1>11. CASE \/ LC_Wakeup \/ WakeupLaw \/ LawStore \/ WakeupServices \/ WakeupStore
            \/ LC_JumpToListen2
            \/ ReadMembers(dispatcher) \/ FireOnDispatch
  <2>1. pc'[rcv] = pc[rcv]
    BY <1>11 DEF LC_Wakeup, WakeupLaw, LawStore, WakeupServices, WakeupStore, LC_JumpToListen2,
                 ReadMembers, FireOnDispatch, Goto, TypeOK
  <2>2. UNCHANGED <<queue, reported, mode>>
    BY <1>11 DEF LC_Wakeup, WakeupLaw, LawStore, WakeupServices, WakeupStore, LC_JumpToListen2,
                 ReadMembers, FireOnDispatch, FireEvent, locals, history
  <2>3. woken' = TRUE \/ UNCHANGED <<NAD_LifecycleState, woken>>
    BY <1>11 DEF LC_Wakeup, WakeupLaw, LawStore, WakeupServices, WakeupStore, LC_JumpToListen2,
                 ReadMembers, FireOnDispatch, FireEvent, Store, state, history
  <2> QED BY <2>1, <2>2, <2>3 DEF LastReported, Awaited, Applying
<1>12. CASE \/ \E reason \in SocketReasons : setSocketWakeupSource(reason)
            \/ \E can \in CanStatuses : setNWSync(can)
  <2>1. UNCHANGED <<queue, reported, NAD_LifecycleState, woken, pc, mode>>
    BY <1>12 DEF setSocketWakeupSource, setNWSync, locals, history
  <2> QED BY <2>1, KeepLastReported DEF Applying
<1> QED BY <1>1, <1>2, <1>3, <1>4, <1>5, <1>6, <1>7, <1>8, <1>9, <1>10, <1>11, <1>12
        DEF Next, Receive, Dispatch

-----------------------------------------------------------------------------
(* No client is left with an old picture.                                  *)

\* A step after which some thread is about to announce owes nobody an event.
LEMMA AnnouncingPromises ==
  ASSUME NEW t \in Threads, pc'[t] \in {"settle", "notify", "fire"}
  PROVE  EventPromised'
  BY DEF EventPromised, Announcing

\* A step that stores and sends nothing, and stops no announcement, keeps the
\* last event as good as it was.
LEMMA KeepEventPromised ==
  ASSUME EventPromised,
         UNCHANGED <<event, outdated, NAD_LifecycleState, info.batt, info.vtm>>,
         \A t \in Threads : Announcing(t) => Announcing(t)'
  PROVE  EventPromised'
  BY DEF EventPromised

\* Every step leaves the last event current, outdated or about to be replaced.
LEMMA EventStep ==
  ASSUME TypeOK, EventPromised, Next
  PROVE  EventPromised'
<1> USE DEF Threads, rcv, dispatcher
<1>1. ASSUME NEW n \in Notifications, Notify(n)
      PROVE  EventPromised'
  BY <1>1, KeepEventPromised DEF Notify, state, Announcing
<1>2. ASSUME NEW n \in Notifications, setPMWakeupSource(n)
      PROVE  EventPromised'
  <2>1. UNCHANGED <<event, outdated, NAD_LifecycleState, info.batt, info.vtm>>
    BY <1>2 DEF setPMWakeupSource, TypeOK, Info
  <2>2. \A t \in Threads : Announcing(t) => Announcing(t)'
    BY <1>2 DEF setPMWakeupSource, Take, Goto, Announcing, TypeOK
  <2> QED BY <2>1, <2>2, KeepEventPromised
<1>3. ASSUME NEW n \in Notifications, set_LC_MainBattery(n) \/ set_LC_VTMstate(n)
      PROVE  EventPromised'
  BY <1>3, AnnouncingPromises DEF set_LC_MainBattery, set_LC_VTMstate, Take, Goto, TypeOK
<1>4. ASSUME \/ \E n \in Notifications : setPowerMode(n)
             \/ Activate \/ Broadcast \/ Ignore \/ TimerExpires
             \/ LC_Wakeup \/ WakeupLaw \/ WakeupServices \/ LC_JumpToListen2
      PROVE  EventPromised'
  <2>1. UNCHANGED <<event, outdated, NAD_LifecycleState, info>>
    BY <1>4 DEF setPowerMode, Activate, Broadcast, Ignore, TimerExpires, LC_Wakeup,
                WakeupLaw, WakeupServices, LC_JumpToListen2, state
  <2>2. \A t \in Threads : Announcing(t) => Announcing(t)'
    BY <1>4 DEF setPowerMode, Take, Activate, Broadcast, Ignore, TimerExpires, LC_Wakeup,
                WakeupLaw, WakeupServices, LC_JumpToListen2, Goto, Announcing, TypeOK
  <2> QED BY <2>1, <2>2, KeepEventPromised
<1>5. CASE EvaluateOther \/ EvaluateWakeup \/ EvaluateSettle \/ Settled
  BY <1>5, AnnouncingPromises
     DEF EvaluateOther, EvaluateWakeup, EvaluateSettle, Settled, Goto, TypeOK
<1>6. CASE LawStore \/ WakeupStore
  BY <1>6, AnnouncingPromises DEF LawStore, WakeupStore, Goto, TypeOK
<1>7. ASSUME NEW t \in Threads, ReadMembers(t)
      PROVE  EventPromised'
  BY <1>7, AnnouncingPromises DEF ReadMembers, Goto, TypeOK
<1>8. CASE FireOnReceive \/ FireOnDispatch
  <2>1. PICK t \in Threads : FireEvent(t)
    BY <1>8 DEF FireOnReceive, FireOnDispatch
  <2>2. ~ outdated' => event' = Members
    BY <2>1 DEF FireEvent
  <2>3. UNCHANGED <<NAD_LifecycleState, info>>
    BY <2>1 DEF FireEvent, state
  <2> QED BY <2>2, <2>3 DEF EventPromised, Members
<1>9. ASSUME NEW reason \in SocketReasons, setSocketWakeupSource(reason)
      PROVE  EventPromised'
  BY <1>9, KeepEventPromised DEF setSocketWakeupSource, Announcing, TypeOK, Info
<1>10. ASSUME NEW can \in CanStatuses, setNWSync(can)
      PROVE  EventPromised'
  BY <1>10, KeepEventPromised DEF setNWSync, Announcing, TypeOK, Info
<1> QED BY <1>1, <1>2, <1>3, <1>4, <1>5, <1>6, <1>7, <1>8, <1>9, <1>10
        DEF Next, Receive, Dispatch

-----------------------------------------------------------------------------
(* The theorems.                                                           *)

\* The initial states satisfy the inductive invariant.
LEMMA InitIInv == Init => IInv
<1> SUFFICES ASSUME Init PROVE IInv
  OBVIOUS
<1>1. NoUnassignedBroadcast /\ HandlerFacts
  BY DEF Init, NoUnassignedBroadcast, HandlerFacts, Threads, rcv, dispatcher
<1>2. LastReported
  BY EmptySeq, MappingType DEF Init, LastReported, Applying, Threads, rcv
<1>3. EventPromised
  BY DEF Init, EventPromised
<1>4. WindowFacts /\ WindowMeetsServices
  BY DEF Init, WindowFacts, WindowMeetsServices, Window, Threads, rcv
<1> QED BY <1>1, <1>2, <1>3, <1>4, InitTypeOK DEF IInv

\* Every step, and every step that changes nothing, keeps it.
THEOREM Inductive == IInv /\ [Next]_vars => IInv'
<1> SUFFICES ASSUME IInv, [Next]_vars PROVE IInv'
  OBVIOUS
<1>1. CASE Next
  <2>1. TypeOK'
    BY <1>1, NotifyTypeOK, StatusTypeOK, SetPowerModeTypeOK, ApplyTypeOK, AnnounceTypeOK,
       OthersTypeOK DEF IInv, Next, Receive, Dispatch, Threads
  <2>2. NoUnassignedBroadcast' /\ HandlerFacts'
    BY <1>1, HandlerStep DEF IInv
  <2>3. LastReported'
    BY <1>1, LastReportedStep DEF IInv
  <2>4. EventPromised'
    BY <1>1, EventStep DEF IInv
  <2>5. WindowFacts' /\ WindowMeetsServices'
    BY <1>1, WindowStep DEF IInv
  <2> QED BY <2>1, <2>2, <2>3, <2>4, <2>5 DEF IInv
<1>2. CASE UNCHANGED vars
  BY <1>2 DEF vars, IInv, TypeOK, NoUnassignedBroadcast, HandlerFacts, WindowFacts,
              WindowMeetsServices, Window, LastReported, Awaited, Applying, HasCase,
              EventPromised, Announcing
<1> QED BY <1>1, <1>2

\* The inductive invariant holds of every reachable state.
THEOREM Invariance == Spec => []IInv
  BY InitIInv, Inductive, PTL DEF Spec

\* Every store is a literal of its enumeration, whatever the modes that have no
\* mapping leave in the local of setPowerMode.
THEOREM TypeCorrect == Spec => []TypeOK
<1>1. IInv => TypeOK
  BY DEF IInv
<1> QED BY <1>1, Invariance, PTL

\* An unassigned state is never broadcast.
THEOREM AssignedBeforeUse == Spec => []NoUnassignedBroadcast
<1>1. IInv => NoUnassignedBroadcast
  BY DEF IInv
<1> QED BY <1>1, Invariance, PTL

\* The last mapped mode is in effect once the receive thread has caught up,
\* however many notifications may queue up behind its sleeps.
THEOREM LastModeWins == Spec => []AppliesWhatWasReported
<1>1. IInv => AppliesWhatWasReported
  BY DEF IInv, AppliesWhatWasReported, LastReported, Applying, Resting
<1> QED BY <1>1, Invariance, PTL

\* The NAD is in the state a window is for as long as the window is open.
THEOREM WindowsAreMet == Spec => []WindowMeetsServices
<1>1. IInv => WindowMeetsServices
  BY DEF IInv
<1> QED BY <1>1, Invariance, PTL

\* No store of the state, the supply or the temperature stays unannounced.
THEOREM StoresAreAnnounced == Spec => []EventCurrent
<1>1. IInv => EventCurrent
  BY DEF IInv, EventCurrent, EventPromised, Announcing, Resting, Threads
<1> QED BY <1>1, Invariance, PTL

\* No step of any thread brings an IMU wakeup into the two seconds in which
\* evaluateAndBroadcastPowerMode waits for one.
THEOREM NoImuWhileSettling == Spec => SettleIsBlind
<1> DEFINE Blind == pc[rcv] = "settle" /\ info'.wakeup = "WAKE_UP_ACCELEROMETER"
                      => info.wakeup = "WAKE_UP_ACCELEROMETER"
<1>1. IInv /\ [Next]_vars => [Blind]_vars
  <2> SUFFICES ASSUME IInv, Next, pc[rcv] = "settle" PROVE Blind
    OBVIOUS
  <2> USE DEF Threads, rcv, dispatcher
  <2>1. ASSUME NEW reason \in SocketReasons, setSocketWakeupSource(reason)
        PROVE  Blind
    BY <2>1 DEF setSocketWakeupSource, SocketSource, RtcSource, IInv, TypeOK, Info
  <2>2. ASSUME NEW can \in CanStatuses, setNWSync(can)
        PROVE  Blind
    BY <2>2 DEF setNWSync, IInv, TypeOK, Info
  <2>3. ASSUME Receive
        PROVE  UNCHANGED info
    BY <2>3 DEF Receive, setPMWakeupSource, set_LC_MainBattery, set_LC_VTMstate, setPowerMode,
       Take, Goto, Activate, Broadcast, Ignore, EvaluateOther, EvaluateWakeup, EvaluateSettle,
       Settled, TimerExpires, ReadMembers, FireOnReceive, FireEvent, state
  <2>4. ASSUME \/ \E n \in Notifications : Notify(n)
               \/ LC_Wakeup \/ LC_JumpToListen2 \/ Dispatch
        PROVE  UNCHANGED info
    BY <2>4 DEF Notify, LC_Wakeup, LC_JumpToListen2, Dispatch, WakeupLaw, LawStore, WakeupServices,
       WakeupStore, ReadMembers, FireOnDispatch, FireEvent, Store, state
  <2> QED BY <2>1, <2>2, <2>3, <2>4 DEF Next
<1> QED BY <1>1, Invariance, PTL DEF Spec, SettleIsBlind

=============================================================================
