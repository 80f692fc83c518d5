----------------------- MODULE AtomicPowerMode_proofs -----------------------
(***************************************************************************)
(* The threads of module PowerMode, which take, hold, store, sleep, read   *)
(* and fire in steps of their own, implement AtomicPowerMode, for all      *)
(* notifications, every length of the queue and all initial members.       *)
(***************************************************************************)
EXTENDS PowerMode_proofs

-----------------------------------------------------------------------------
(* The mapping.                                                            *)

\* Both modules mean the same types and conversions.
LEMMA SameTypes ==
  /\ Atomic!Threads = Threads /\ Atomic!rcv = rcv /\ Atomic!dispatcher = dispatcher
  /\ Atomic!StateOf = StateOf /\ Atomic!Event = Event
  /\ \A n : /\ Atomic!IsMappedMode(n) <=> IsMappedMode(n)
            /\ Atomic!ServerBatteryStatus(n) = ServerBatteryStatus(n)
            /\ Atomic!VtmState(n) = VtmState(n)
  /\ \A reason, from, old :
       /\ Atomic!PmSource(reason, from, old) = PmSource(reason, from, old)
       /\ Atomic!SocketSource(reason, from, old) = SocketSource(reason, from, old)
<1>1. Atomic!Threads = Threads /\ Atomic!rcv = rcv /\ Atomic!dispatcher = dispatcher
  BY DEF Atomic!Threads, Threads, Atomic!rcv, rcv, Atomic!dispatcher, dispatcher
<1>2. Atomic!StateOf = StateOf
  BY DEF Atomic!StateOf, StateOf
<1>3. Atomic!Event = Event
  BY DEF Atomic!Event, Event, Atomic!LC_State, LC_State, Atomic!LC_WakeupSource, LC_WakeupSource,
         Atomic!LC_CanStatus, LC_CanStatus, Atomic!LC_MainBatteryStatus, LC_MainBatteryStatus,
         Atomic!LC_VTMstate, LC_VTMstate
<1>4. ASSUME NEW n
      PROVE  Atomic!IsMappedMode(n) <=> IsMappedMode(n)
  BY <1>2 DEF Atomic!IsMappedMode, IsMappedMode, Atomic!Mapped, Mapped
<1>5. ASSUME NEW n
      PROVE  /\ Atomic!ServerBatteryStatus(n) = ServerBatteryStatus(n)
             /\ Atomic!VtmState(n) = VtmState(n)
  BY DEF Atomic!ServerBatteryStatus, ServerBatteryStatus, Atomic!LC_MainBatteryStatus,
         LC_MainBatteryStatus, Atomic!VtmState, VtmState
<1>6. ASSUME NEW reason, NEW from, NEW old
      PROVE  /\ Atomic!PmSource(reason, from, old) = PmSource(reason, from, old)
             /\ Atomic!SocketSource(reason, from, old) = SocketSource(reason, from, old)
  BY DEF Atomic!PmSource, PmSource, Atomic!SocketSource, SocketSource, Atomic!RtcSource, RtcSource
<1> QED BY <1>1, <1>2, <1>3, <1>4, <1>5, <1>6

\* A thread that moves changes what it owes, and no other thread does.
LEMMA DebtMoves ==
  ASSUME TypeOK, NEW t \in Threads, NEW from, NEW to, Goto(t, from, to)
  PROVE  /\ Owing[t] = Owes(from)
         /\ Owing' = [Owing EXCEPT ![t] = Owes(to)]
<1>1. pc[t] = from /\ \A u \in Threads : pc'[u] = IF u = t THEN to ELSE pc[u]
  BY DEF Goto, TypeOK
<1> QED BY <1>1 DEF Owing

\* Where a thread owes what.
LEMMA Debts ==
  /\ \A l \in {"settle", "notify"} : Owes(l) = "due"
  /\ Owes("fire") = "read"
  /\ \A l \in Locations \ {"settle", "notify", "fire"} : Owes(l) = "nothing"
BY DEF Owes

LEMMA DebtStays ==
  ASSUME TypeOK, NEW t \in Threads, NEW from, NEW to, Goto(t, from, to), Owes(from) = Owes(to)
  PROVE  UNCHANGED Owing
<1>1. \A u \in Threads : Owes(pc'[u]) = Owes(pc[u])
  BY DEF Goto, TypeOK
<1> QED BY <1>1 DEF Owing

\* Handing on a notification at the end of the queue adds it to the inbox.
LEMMA InboxFills ==
  ASSUME TypeOK, NEW n \in Notifications, Notify(n)
  PROVE  Inbox' = Append(Inbox, n)
<1> DEFINE hand == <<[kind |-> "mode", value |-> mode]>>
<1>1. queue' = Append(queue, n) /\ (InHand' <=> InHand) /\ mode' = mode
  BY DEF Notify, InHand, locals
<1>2. CASE InHand
  <2> DEFINE N == Notifications \union {[kind |-> "mode", value |-> mode]}
  <2>1. hand \in Seq(N) /\ queue \in Seq(N) /\ <<n>> \in Seq(N) /\ n \in N
    <3>1. queue \in Seq(N)
      BY SeqMonotonic DEF TypeOK
    <3>2. \A e \in N : <<e>> \in Seq(N)
      OBVIOUS
    <3> QED BY <3>1, <3>2
  <2>2. hand \o queue \in Seq(N)
    BY <2>1, ConcatProperties
  <2> HIDE DEF N, hand
  <2>3. Append(hand \o queue, n) = (hand \o queue) \o <<n>>
    BY <2>1, <2>2, AppendIsConcat
  <2>4. Append(queue, n) = queue \o <<n>>
    BY <2>1, AppendIsConcat
  <2>5. (hand \o queue) \o <<n>> = hand \o (queue \o <<n>>)
    BY <2>1, ConcatAssociative
  <2> QED BY <1>1, <1>2, <2>3, <2>4, <2>5 DEF Inbox, hand
<1>3. CASE ~ InHand
  BY <1>1, <1>3 DEF Inbox
<1> QED BY <1>2, <1>3

\* The inbox as a sequence: a mode in hand is its head.
LEMMA InboxHead ==
  ASSUME TypeOK, InHand
  PROVE  /\ Inbox # <<>>
         /\ Head(Inbox) = [kind |-> "mode", value |-> mode]
         /\ Tail(Inbox) = queue
<1> DEFINE n == [kind |-> "mode", value |-> mode]
           N == Notifications \union {n}
<1>1. queue \in Seq(N) /\ <<n>> \in Seq(N) /\ Len(<<n>>) = 1 /\ <<n>>[1] = n
  BY SeqMonotonic DEF TypeOK
<1>2. Inbox = <<n>> \o queue
  BY DEF Inbox
<1> HIDE DEF n, N
<1>3. /\ Inbox \in Seq(N)
      /\ Len(Inbox) = 1 + Len(queue)
      /\ Inbox[1] = n
      /\ \A i \in 1 .. Len(queue) : Inbox[i + 1] = queue[i]
  <2>1. Len(queue) \in Nat
    BY <1>1, LenProperties
  <2> QED BY <1>1, <1>2, <2>1, ConcatProperties
<1>4. Inbox # <<>>
  BY <1>1, <1>3, LenProperties, EmptySeq
<1>5. /\ Head(Inbox) = n
      /\ Tail(Inbox) \in Seq(N)
      /\ Len(Tail(Inbox)) = Len(queue)
      /\ \A i \in 1 .. Len(queue) : Tail(Inbox)[i] = queue[i]
  <2>1. Len(queue) \in Nat
    BY <1>1, LenProperties
  <2> QED BY <1>3, <1>4, <2>1, HeadTailProperties
<1>6. Tail(Inbox) = queue
  BY <1>1, <1>5, SeqEqual
<1> QED BY <1>4, <1>5, <1>6 DEF n

\* A callback that takes effect at once takes the head of the inbox.
LEMMA TakeInbox ==
  ASSUME TypeOK, NEW n \in Notifications, NEW to, Take(n, to),
         to \notin {"activate", "tail", "evaluate"}
  PROVE  /\ Inbox # <<>> /\ n = Head(Inbox) /\ Inbox' = Tail(Inbox)
         /\ ~ InHand /\ pc[rcv] = "idle" /\ pc'[rcv] = to
<1>1. pc[rcv] = "idle" /\ pc'[rcv] = to
  BY DEF Take, Goto, TypeOK, Threads
<1>2. ~ InHand /\ ~ InHand'
  BY <1>1 DEF InHand
<1> QED BY <1>1, <1>2 DEF Inbox, Take

-----------------------------------------------------------------------------
(* Every step is one of the abstract power mode, or none.                  *)

\* The members an action stores in info are those of the announcement.
LEMMA MembersStored ==
  ASSUME TypeOK
  PROVE  /\ \A s : UNCHANGED info /\ NAD_LifecycleState' = s
                => Members' = [Members EXCEPT !.state = s]
         /\ \A v : UNCHANGED NAD_LifecycleState /\ info' = [info EXCEPT !.wakeup = v]
                => Members' = [Members EXCEPT !.wakeup = v]
         /\ \A v : UNCHANGED NAD_LifecycleState /\ info' = [info EXCEPT !.can = v]
                => Members' = [Members EXCEPT !.can = v]
         /\ \A v : UNCHANGED NAD_LifecycleState /\ info' = [info EXCEPT !.batt = v]
                => Members' = [Members EXCEPT !.batt = v]
         /\ \A v : UNCHANGED NAD_LifecycleState /\ info' = [info EXCEPT !.vtm = v]
                => Members' = [Members EXCEPT !.vtm = v]
<1>1. info = [wakeup |-> info.wakeup, can |-> info.can, batt |-> info.batt, vtm |-> info.vtm]
  BY DEF TypeOK, Info
<1>2. ASSUME NEW s, UNCHANGED info, NAD_LifecycleState' = s
      PROVE  Members' = [Members EXCEPT !.state = s]
  BY <1>2 DEF Members
<1>3. ASSUME NEW v, UNCHANGED NAD_LifecycleState, info' = [info EXCEPT !.wakeup = v]
      PROVE  Members' = [Members EXCEPT !.wakeup = v]
  BY <1>1, <1>3 DEF Members
<1>4. ASSUME NEW v, UNCHANGED NAD_LifecycleState, info' = [info EXCEPT !.can = v]
      PROVE  Members' = [Members EXCEPT !.can = v]
  BY <1>1, <1>4 DEF Members
<1>5. ASSUME NEW v, UNCHANGED NAD_LifecycleState, info' = [info EXCEPT !.batt = v]
      PROVE  Members' = [Members EXCEPT !.batt = v]
  BY <1>1, <1>5 DEF Members
<1>6. ASSUME NEW v, UNCHANGED NAD_LifecycleState, info' = [info EXCEPT !.vtm = v]
      PROVE  Members' = [Members EXCEPT !.vtm = v]
  BY <1>1, <1>6 DEF Members
<1> QED BY <1>2, <1>3, <1>4, <1>5, <1>6

\* A notification that arrives.
LEMMA NotifyStep ==
  ASSUME TypeOK, NEW n \in Notifications, Notify(n)
  PROVE  Atomic!Arrive(n)
<1>1. UNCHANGED <<Members, Window, Owing, args, event>>
  BY DEF Notify, Members, Window, Owing, Owes, state, locals
<1> QED BY <1>1, InboxFills DEF Atomic!Arrive

\* The callbacks of the wakeup reason, the supply and the temperature.
LEMMA StatusStep ==
  ASSUME TypeOK, WindowFacts, NEW n \in Notifications,
         setPMWakeupSource(n) \/ set_LC_MainBattery(n) \/ set_LC_VTMstate(n)
  PROVE  Atomic!Receive
<1> USE DEF Threads, rcv
<1>1. PICK to \in {"idle", "notify"} : Take(n, to)
  BY DEF setPMWakeupSource, set_LC_MainBattery, set_LC_VTMstate
<1>2. /\ Inbox # <<>> /\ n = Head(Inbox) /\ Inbox' = Tail(Inbox)
      /\ pc[rcv] = "idle" /\ pc'[rcv] = to
  BY <1>1, TakeInbox
<1>3. UNCHANGED <<NAD_LifecycleState, timer, args, event>>
  BY DEF setPMWakeupSource, set_LC_MainBattery, set_LC_VTMstate, locals
<1>4. ~ Window /\ UNCHANGED Window
  BY <1>2, <1>3 DEF Window, WindowFacts
<1>5. /\ Owing[rcv] = "nothing"
      /\ Owing' = [Owing EXCEPT ![rcv] = Owes(to)]
  BY <1>1, DebtMoves, Debts DEF Take, Locations
<1>6. Atomic!Take
  BY <1>2, <1>3, <1>4, <1>5, SameTypes DEF Atomic!Take
<1>7. CASE setPMWakeupSource(n)
  <2>1. Take(n, "idle") /\ n.kind = "wakeup"
    BY <1>7 DEF setPMWakeupSource
  <2>2. UNCHANGED Owing
    BY <2>1, DebtStays DEF Take
  <2>3. Members' = [Members EXCEPT !.wakeup = PmSource(n.value, NAD_LifecycleState, info.wakeup)]
    BY <1>3, <1>7, MembersStored DEF setPMWakeupSource
  <2>4. Members' = [Members EXCEPT !.wakeup = Atomic!PmSource(n.value, Members.state, @)]
    BY <2>3, SameTypes DEF Members
  <2>5. Atomic!StoreSource(n)
    BY <1>4, <1>6, <2>1, <2>2, <2>4 DEF Atomic!StoreSource
  <2> QED BY <1>2, <2>5 DEF Atomic!Receive
<1>8. ASSUME set_LC_MainBattery(n) \/ set_LC_VTMstate(n)
      PROVE  Atomic!Receive
  <2>1. n.kind = "supply" /\ Take(n, "notify")
    BY <1>8 DEF set_LC_MainBattery, set_LC_VTMstate
  <2>2. Atomic!Owe(rcv)
    BY <1>2, <1>5, <2>1, TakeInbox, Debts DEF Atomic!Owe
  <2>3. IF n.param = "Thermal_status"
        THEN Members' = [Members EXCEPT !.vtm = VtmState(n)]
        ELSE \E batt \in ServerBatteryStatus(n) : Members' = [Members EXCEPT !.batt = batt]
    BY <1>3, <1>8, MembersStored DEF set_LC_MainBattery, set_LC_VTMstate
  <2>4. Atomic!StoreSupply(n)
    BY <1>4, <1>6, <2>1, <2>2, <2>3, SameTypes DEF Atomic!StoreSupply
  <2> QED BY <1>2, <2>4 DEF Atomic!Receive
<1> QED BY <1>7, <1>8

\* Taking a mode in hand changes nothing yet, nor does the rest of the switch.
LEMMA SwitchStep ==
  ASSUME TypeOK, NEW n \in Notifications, setPowerMode(n)
  PROVE  UNCHANGED Atomic!vars
<1> USE DEF Threads, rcv
<1>1. PICK to \in {"activate", "tail"} : Take(n, to)
  BY DEF setPowerMode
<1>2. pc[rcv] = "idle" /\ pc'[rcv] = to /\ Goto(rcv, "idle", to)
  BY <1>1 DEF Take, Goto, TypeOK
<1>3. UNCHANGED <<Members, Window, args, event>>
  BY <1>2 DEF setPowerMode, Members, Window, state
<1>4. UNCHANGED Owing
  <2>1. Owes(to) = Owes("idle")
    BY Debts DEF Locations
  <2> QED BY <1>2, <2>1, DebtMoves DEF Owing
<1>5. UNCHANGED Inbox
  <2>1. ~ InHand /\ InHand'
    BY <1>2 DEF InHand
  <2>2. n = [kind |-> "mode", value |-> mode']
    BY ParametersAssumption DEF setPowerMode, Notification
  <2>3. queue \in Seq(Notifications) /\ queue # <<>> /\ n = Head(queue) /\ queue' = Tail(queue)
    BY <1>1 DEF Take, TypeOK
  <2>4. queue = <<Head(queue)>> \o Tail(queue)
    BY <2>3
  <2> QED BY <2>1, <2>2, <2>3, <2>4 DEF Inbox
<1> QED BY <1>3, <1>4, <1>5 DEF Atomic!vars

\* A move of a thread that stores and sends nothing and owes as much as before.
LEMMA QuietMove ==
  ASSUME TypeOK, NEW t \in Threads, NEW from, NEW to, Goto(t, from, to),
         Owes(from) = Owes(to), InHand' <=> InHand, Window' <=> Window, InHand => mode' = mode,
         UNCHANGED <<queue, state, args, event>>
  PROVE  UNCHANGED Atomic!vars
<1>1. UNCHANGED Owing
  BY DebtMoves DEF Owing
<1>2. UNCHANGED Inbox
  BY DEF Inbox
<1>3. UNCHANGED Members
  BY DEF Members, state
<1>4. UNCHANGED Window
  BY DEF Window
<1> QED BY <1>1, <1>2, <1>3, <1>4 DEF Atomic!vars

\* The steps of the receive thread between the switch and the announcement.
LEMMA ApplyStep ==
  ASSUME TypeOK, NoUnassignedBroadcast, HandlerFacts, WindowFacts,
         \/ Activate \/ Broadcast \/ Ignore
         \/ EvaluateOther \/ EvaluateWakeup \/ EvaluateSettle
         \/ Settled \/ TimerExpires
  PROVE  Atomic!Next \/ UNCHANGED Atomic!vars
<1> USE DEF Threads, rcv
<1> DEFINE n == [kind |-> "mode", value |-> mode]
<1>1. CASE Activate \/ Broadcast
  <2>1. PICK from \in {"activate", "tail"}, to \in {"tail", "evaluate"} : Goto(rcv, from, to)
    BY <1>1 DEF Activate, Broadcast
  <2>2. pc[rcv] = from /\ pc'[rcv] = to /\ Owes(from) = Owes(to)
    BY <2>1, Debts DEF Goto, TypeOK, Locations
  <2>3. UNCHANGED <<queue, state, args, event, timer, mode>>
    BY <1>1 DEF Activate, Broadcast, locals
  <2>4. (InHand' <=> InHand) /\ (Window' <=> Window)
    BY <2>2, <2>3 DEF InHand, Window
  <2> QED BY <2>1, <2>2, <2>3, <2>4, QuietMove
<1>2. CASE Ignore
  <2>1. pc[rcv] = "tail" /\ pc'[rcv] = "idle" /\ Goto(rcv, "tail", "idle")
    BY <1>2 DEF Ignore, Goto, TypeOK
  <2>2. InHand /\ ~ InHand' /\ UNCHANGED <<queue, state, args, event>>
    BY <1>2, <2>1 DEF InHand, Ignore
  <2>3. Inbox # <<>> /\ Head(Inbox) = n /\ Inbox' = Tail(Inbox)
    BY <2>2, InboxHead DEF Inbox
  <2>4. ~ Window /\ UNCHANGED Window
    BY <1>2, <2>1 DEF Window, WindowFacts, Ignore, ModeDone
  <2>5. Owing[rcv] = "nothing" /\ UNCHANGED Owing
    BY <2>1, DebtMoves, DebtStays, Debts DEF Locations
  <2>6. ~ IsMappedMode(n)
    BY <1>2, <2>1, MappingType DEF Ignore, Broadcasts, HandlerFacts, HasCase, IsMappedMode
  <2>7. UNCHANGED <<Members, args, event>>
    BY <2>2 DEF Members, state
  <2>8. Atomic!Ignore(n)
    <3>1. Atomic!Take
      BY <2>3, <2>4, <2>5, <2>7, SameTypes DEF Atomic!Take
    <3> QED BY <2>4, <2>5, <2>6, <2>7, <3>1, SameTypes DEF Atomic!Ignore
  <2> QED BY <2>3, <2>8 DEF Atomic!Next, Atomic!Receive
<1>3. CASE EvaluateOther \/ EvaluateWakeup \/ EvaluateSettle
  <2>1. PICK to \in {"notify", "settle"} : Goto(rcv, "evaluate", to)
    BY <1>3 DEF EvaluateOther, EvaluateWakeup, EvaluateSettle
  <2>2. pc[rcv] = "evaluate" /\ pc'[rcv] = to
    BY <2>1 DEF Goto, TypeOK
  <2>3. /\ UNCHANGED <<queue, args, event, info>>
        /\ NAD_LifecycleState' = dbusPowerMode
    BY <1>3 DEF EvaluateOther, EvaluateWakeup, EvaluateSettle, Store
  <2>4. InHand /\ ~ InHand'
    BY <2>2 DEF InHand
  <2>5. Inbox # <<>> /\ Head(Inbox) = n /\ Inbox' = Tail(Inbox)
    BY <2>3, <2>4, InboxHead DEF Inbox
  <2>6. IsMappedMode(n) /\ dbusPowerMode = StateOf[n.value]
    BY <2>2 DEF NoUnassignedBroadcast, IsMappedMode
  <2>7. ~ Window /\ (Window' <=> dbusPowerMode = "NAD_STAY_ALIVE_SERVICES")
    <3>1. ~ Window /\ timer = 0
      BY <2>2 DEF Window, WindowFacts
    <3>2. CASE EvaluateOther
      BY <2>1, <2>2, <3>1, <3>2 DEF EvaluateOther, Goto, Window, locals, TypeOK
    <3>3. CASE EvaluateWakeup
      BY <3>1, <3>3 DEF EvaluateWakeup, Window
    <3>4. CASE EvaluateSettle
      BY <3>1, <3>4 DEF EvaluateSettle, Goto, Window, TypeOK
    <3> QED BY <1>3, <3>1, <3>2, <3>3, <3>4
  <2>8. Owing[rcv] = "nothing" /\ Owing' = [Owing EXCEPT ![rcv] = "due"]
    BY <2>1, DebtMoves, Debts DEF Locations
  <2>9. Members' = [Members EXCEPT !.state = dbusPowerMode]
    BY <2>3, MembersStored
  <2>10. Window' = (dbusPowerMode = "NAD_STAY_ALIVE_SERVICES")
    BY <2>7 DEF Window
  <2>11. Atomic!Apply(n)
    BY <2>3, <2>5, <2>6, <2>7, <2>8, <2>9, <2>10, SameTypes
       DEF Atomic!Apply, Atomic!Take, Atomic!Owe
  <2> QED BY <2>5, <2>11 DEF Atomic!Next, Atomic!Receive
<1>4. CASE Settled
  <2>1. pc[rcv] = "settle" /\ pc'[rcv] = "notify" /\ Goto(rcv, "settle", "notify")
    BY <1>4 DEF Settled, Goto, TypeOK
  <2>2. Owes("settle") = Owes("notify")
    BY Debts
  <2>3. /\ (InHand' <=> InHand) /\ ~ InHand /\ (Window' <=> Window)
        /\ UNCHANGED <<queue, state, args, event>>
    BY <1>4, <2>1 DEF Settled, InHand, Window
  <2> QED BY <2>1, <2>2, <2>3, QuietMove
<1>5. CASE TimerExpires
  <2>1. pc[rcv] = "window" /\ pc'[rcv] = "idle" /\ Goto(rcv, "window", "idle")
    BY <1>5 DEF TimerExpires, Goto, TypeOK
  <2>2. UNCHANGED <<Inbox, Members, args, event>>
    BY <1>5, <2>1 DEF TimerExpires, Inbox, InHand, Members, state
  <2>3. Window /\ ~ Window'
    BY <1>5, <2>1 DEF Window, WindowFacts, TimerExpires, ModeDone
  <2>4. Owing[rcv] = "nothing" /\ UNCHANGED Owing
    BY <2>1, DebtMoves, DebtStays, Debts DEF Locations
  <2>5. Window' = FALSE
    BY <2>3 DEF Window
  <2> QED BY <2>2, <2>3, <2>4, <2>5, SameTypes DEF Atomic!Next, Atomic!EndWindow
<1> QED BY <1>1, <1>2, <1>3, <1>4, <1>5

\* The announcement, on either thread.
LEMMA AnnounceStep ==
  ASSUME TypeOK, WindowFacts,
         FireOnReceive \/ FireOnDispatch \/ (\E t \in Threads : ReadMembers(t))
  PROVE  Atomic!Next
<1> USE DEF Threads, rcv, dispatcher
<1>1. ASSUME NEW t \in Threads, ReadMembers(t)
      PROVE  Atomic!ReadArguments(t)
  <2>1. Goto(t, "notify", "fire") /\ Owing[t] = "due" /\ Owing' = [Owing EXCEPT ![t] = "read"]
    BY <1>1, DebtMoves, Debts DEF ReadMembers
  <2>2. UNCHANGED <<Inbox, Members, Window, event>>
    BY <1>1, <2>1 DEF ReadMembers, Goto, TypeOK, Inbox, InHand, Members, Window, state, locals
  <2> QED BY <1>1, <2>1, <2>2 DEF ReadMembers, Atomic!ReadArguments
<1>2. ASSUME NEW t \in Threads, FireEvent(t), NEW to \in {"idle", "window"},
             Goto(t, "fire", to), UNCHANGED <<Inbox, Window>>
      PROVE  Atomic!Fire(t)
  <2>1. Owing[t] = "read" /\ Owing' = [Owing EXCEPT ![t] = "nothing"]
    BY <1>2, DebtMoves, Debts DEF Locations
  <2>2. UNCHANGED Members
    BY <1>2 DEF FireEvent, Members, state
  <2> QED BY <1>2, <2>1, <2>2 DEF FireEvent, Atomic!Fire
<1>3. CASE FireOnReceive
  <2>1. PICK to \in {"idle", "window"} : Goto(rcv, "fire", to)
    BY <1>3 DEF FireOnReceive
  <2>2. UNCHANGED <<queue, timer>> /\ ~ InHand /\ ~ InHand'
    BY <1>3, <2>1 DEF FireOnReceive, FireEvent, ModeDone, locals, Goto, TypeOK, InHand
  <2>3. UNCHANGED <<Inbox, Window>>
    BY <2>1, <2>2 DEF Inbox, Window, Goto, TypeOK
  <2> QED BY <1>2, <1>3, <2>1, <2>3, SameTypes DEF FireOnReceive, Atomic!Next
<1>4. CASE FireOnDispatch
  <2>1. UNCHANGED <<Inbox, Window>>
    BY <1>4 DEF FireOnDispatch, FireEvent, Goto, TypeOK, Inbox, InHand, Window, locals
  <2> QED BY <1>2, <1>4, <2>1, SameTypes DEF FireOnDispatch, Atomic!Next
<1> QED BY <1>1, <1>3, <1>4, SameTypes DEF Atomic!Next

\* The dispatcher and the threads that only store.
LEMMA OthersStep ==
  ASSUME TypeOK,
         \/ LC_Wakeup \/ WakeupLaw \/ LawStore \/ WakeupServices \/ WakeupStore
         \/ LC_JumpToListen2
         \/ \E reason \in SocketReasons : setSocketWakeupSource(reason)
         \/ \E can \in CanStatuses : setNWSync(can)
  PROVE  Atomic!Next \/ UNCHANGED Atomic!vars
<1> USE DEF Threads, rcv, dispatcher
<1>1. CASE LC_Wakeup \/ WakeupLaw \/ WakeupServices \/ LC_JumpToListen2
  <2>1. PICK from \in {"idle", "reread"}, to \in {"idle", "reread", "law", "store"} :
          Goto(dispatcher, from, to)
    BY <1>1 DEF LC_Wakeup, WakeupLaw, WakeupServices, LC_JumpToListen2
  <2>2. Owes(from) = Owes(to)
    BY <2>1, Debts DEF Locations
  <2>3. UNCHANGED <<queue, state, args, event, mode, timer>> /\ pc'[rcv] = pc[rcv]
    BY <1>1, <2>1 DEF LC_Wakeup, WakeupLaw, WakeupServices, LC_JumpToListen2, locals, Goto, TypeOK
  <2>4. (InHand' <=> InHand) /\ (Window' <=> Window)
    BY <2>3 DEF InHand, Window
  <2> QED BY <2>1, <2>2, <2>3, <2>4, QuietMove
<1>2. CASE LawStore \/ WakeupStore
  <2>1. PICK from \in {"law", "store"}, s \in {"NAD_EMERGENCY_LAW", "NAD_STAY_ALIVE_SERVICES"} :
          /\ Goto(dispatcher, from, "notify")
          /\ UNCHANGED info /\ NAD_LifecycleState' = s
    BY <1>2 DEF LawStore, WakeupStore, Store
  <2>2. Owing[dispatcher] = "nothing" /\ Owing' = [Owing EXCEPT ![dispatcher] = "due"]
    BY <2>1, DebtMoves, Debts DEF Locations
  <2>3. UNCHANGED <<Inbox, Window, args, event>>
    BY <1>2, <2>1 DEF LawStore, WakeupStore, Goto, TypeOK, Inbox, InHand, Window, locals
  <2>4. Members' = [Members EXCEPT !.state = s]
    BY <2>1, MembersStored
  <2>5. Atomic!WakeUp(s)
    BY <2>2, <2>3, <2>4, SameTypes DEF Atomic!WakeUp, Atomic!Owe
  <2> QED BY <2>1, <2>5 DEF Atomic!Next
<1>3. ASSUME NEW reason \in SocketReasons, setSocketWakeupSource(reason)
      PROVE  Atomic!StoreSilently
  <2>1. Members' = [Members EXCEPT
                      !.wakeup = SocketSource(reason, NAD_LifecycleState, info.wakeup)]
    BY <1>3, MembersStored DEF setSocketWakeupSource
  <2>2. Members' = [Members EXCEPT !.wakeup = Atomic!SocketSource(reason, Members.state, @)]
    BY <2>1, SameTypes DEF Members
  <2>3. UNCHANGED <<Inbox, Window, Owing, args, event>>
    BY <1>3 DEF setSocketWakeupSource, Inbox, InHand, Window, Owing, Owes, locals
  <2> QED BY <2>2, <2>3 DEF Atomic!StoreSilently
<1>4. ASSUME NEW can \in CanStatuses, setNWSync(can)
      PROVE  Atomic!StoreSilently
  <2>1. Members' = [Members EXCEPT !.can = can]
    BY <1>4, MembersStored DEF setNWSync
  <2>2. UNCHANGED <<Inbox, Window, Owing, args, event>>
    BY <1>4 DEF setNWSync, Inbox, InHand, Window, Owing, Owes, locals
  <2> QED BY <2>1, <2>2 DEF Atomic!StoreSilently
<1> QED BY <1>1, <1>2, <1>3, <1>4 DEF Atomic!Next

-----------------------------------------------------------------------------
(* The theorem.                                                            *)

\* Threads, queue and sleeps notwithstanding, every notification of the
\* microcontroller takes effect at one instant, in order and exactly once, and
\* the next one waits for its announcement and its window.
THEOREM NotificationsAreAtomic == Spec => PowerModeIsAtomic
<1>1. Init => Atomic!Init
  <2> SUFFICES ASSUME Init PROVE Atomic!Init
    OBVIOUS
  <2>1. Members \in Event
    BY InitTypeOK, MembersType
  <2>2. Inbox = <<>> /\ Window = FALSE
    BY DEF Init, Inbox, InHand, Window, Threads, rcv
  <2>3. Owing = [t \in Threads |-> "nothing"]
    BY DEF Init, Owing, Owes
  <2> QED BY <2>1, <2>2, <2>3, SameTypes DEF Init, Atomic!Init
<1>2. IInv /\ [Next]_vars => [Atomic!Next]_(Atomic!vars)
  <2> SUFFICES ASSUME IInv, [Next]_vars PROVE Atomic!Next \/ UNCHANGED Atomic!vars
    OBVIOUS
  <2>1. TypeOK /\ NoUnassignedBroadcast /\ HandlerFacts /\ WindowFacts
    BY DEF IInv
  <2>2. CASE UNCHANGED vars
    BY <2>2 DEF vars, Atomic!vars, Inbox, InHand, Members, Window, Owing, Owes
  <2>3. CASE Next
    BY <2>1, <2>3, NotifyStep, StatusStep, SwitchStep, ApplyStep, AnnounceStep, OthersStep
       DEF Next, Receive, Dispatch, Threads, Atomic!Next
  <2> QED BY <2>2, <2>3
<1> QED BY <1>1, <1>2, Invariance, PTL DEF Spec, PowerModeIsAtomic, Atomic!Spec

=============================================================================
