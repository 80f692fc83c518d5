------------------------ MODULE Announcements_proofs ------------------------
(***************************************************************************)
(* The power mode and the Legato server, put together, keep what each of   *)
(* them keeps alone; what is proved of them says that D-Bus and Legato     *)
(* clients are told the same, for all notifications, handlers and bounds.  *)
(***************************************************************************)
EXTENDS Announcements, AtomicPowerMode_proofs

\* What is proved of LegatoServer, of the members and the threads of the power
\* mode.
Proved ==
  INSTANCE LegatoServer_proofs
    WITH Writers <- Threads, Conditions <- Event, nad <- Members, pc <- reporting

-----------------------------------------------------------------------------
(* The power mode's part.                                                  *)

\* A step of the daemon is one of the power mode or leaves it alone.
LEMMA PowerStep == [DaemonNext]_all => [Next]_vars
<1> SUFFICES ASSUME [DaemonNext]_all PROVE [Next]_vars
  OBVIOUS
<1> USE DEF Threads
<1>1. CASE UNCHANGED all
  BY <1>1 DEF all, power
<1>2. CASE StoresOnReceive \/ QuietOnReceive
  BY <1>2 DEF StoresOnReceive, QuietOnReceive, Next, Receive
<1>3. CASE StoresOnDispatch \/ QuietOnDispatch
  BY <1>3 DEF StoresOnDispatch, QuietOnDispatch, Next, Dispatch
<1>4. CASE Elsewhere
  BY <1>4 DEF Elsewhere, Next
<1>5. CASE (\E t \in Threads : Report(t)) \/ Serve
  BY <1>5 DEF Report, Serve, power
<1> QED BY <1>1, <1>2, <1>3, <1>4, <1>5 DEF DaemonNext

\* Reporting to the Legato server takes nothing from the power mode: all that
\* PowerMode promises still holds.
THEOREM PowerModeIsKept == DaemonSpec => Spec
<1>1. DaemonInit => Init
  BY DEF DaemonInit
<1> QED BY <1>1, PowerStep, PTL DEF DaemonSpec, Spec

\* Among them that every notification takes effect at one instant, in order.
THEOREM DaemonIsAtomic == DaemonSpec => PowerModeIsAtomic
BY PowerModeIsKept, NotificationsAreAtomic, PTL

\* Hence its inductive invariant.
LEMMA PowerInvariance == DaemonSpec => []IInv
BY PowerModeIsKept, Invariance, PTL

-----------------------------------------------------------------------------
(* The Legato server's part.                                               *)

\* The members differ in no field but one of F.
Differ(F) == \E f \in F : \A g \in Legato!Fields \ {f} : Members'[g] = Members[g]

\* A step of the receive thread that is announced stores at most one announced
\* member.
LEMMA ReceiveStores ==
  ASSUME TypeOK, StoresOnReceive
  PROVE  Differ(Legato!Announced)
<1> USE DEF Legato!Fields, Legato!Announced, Differ, Members
<1>1. CASE EvaluateOther \/ EvaluateWakeup \/ EvaluateSettle
  <2>1. info' = info
    BY <1>1 DEF EvaluateOther, EvaluateWakeup, EvaluateSettle, Store
  <2> QED BY <2>1
<1>2. ASSUME NEW n \in Notifications, set_LC_MainBattery(n)
      PROVE  Differ(Legato!Announced)
  <2>1. /\ NAD_LifecycleState' = NAD_LifecycleState
        /\ info'.wakeup = info.wakeup /\ info'.can = info.can /\ info'.vtm = info.vtm
    BY <1>2 DEF set_LC_MainBattery, TypeOK, Info
  <2> QED BY <2>1
<1>3. ASSUME NEW n \in Notifications, set_LC_VTMstate(n)
      PROVE  Differ(Legato!Announced)
  <2>1. /\ NAD_LifecycleState' = NAD_LifecycleState
        /\ info'.wakeup = info.wakeup /\ info'.can = info.can /\ info'.batt = info.batt
    BY <1>3 DEF set_LC_VTMstate, TypeOK, Info
  <2> QED BY <2>1
<1> QED BY <1>1, <1>2, <1>3 DEF StoresOnReceive

\* LC_Wakeup stores the state alone.
LEMMA DispatchStores ==
  ASSUME StoresOnDispatch
  PROVE  Differ(Legato!Announced)
<1>1. info' = info
  BY DEF StoresOnDispatch, LawStore, WakeupStore, Store
<1> QED BY <1>1 DEF Legato!Fields, Legato!Announced, Differ, Members

\* Every other step leaves the members alone, or stores the wakeup source or
\* the CAN status.
LEMMA QuietStores ==
  ASSUME TypeOK, QuietOnReceive \/ QuietOnDispatch \/ Elsewhere
  PROVE  Members' = Members \/ Differ(Legato!Fields \ Legato!Announced)
<1> USE DEF Legato!Fields, Legato!Announced, Differ, Members
<1>1. ASSUME info' = [info EXCEPT !.wakeup = info'.wakeup], UNCHANGED NAD_LifecycleState
      PROVE  Differ(Legato!Fields \ Legato!Announced)
  <2>1. info'.can = info.can /\ info'.batt = info.batt /\ info'.vtm = info.vtm
    BY <1>1 DEF TypeOK, Info
  <2> QED BY <1>1, <2>1
<1>2. ASSUME info' = [info EXCEPT !.can = info'.can], UNCHANGED NAD_LifecycleState
      PROVE  Differ(Legato!Fields \ Legato!Announced)
  <2>1. info'.wakeup = info.wakeup /\ info'.batt = info.batt /\ info'.vtm = info.vtm
    BY <1>2 DEF TypeOK, Info
  <2> QED BY <1>2, <2>1
<1>3. CASE \/ \E n \in Notifications : setPMWakeupSource(n)
           \/ \E reason \in SocketReasons : setSocketWakeupSource(reason)
  <2>1. info' = [info EXCEPT !.wakeup = info'.wakeup] /\ UNCHANGED NAD_LifecycleState
    BY <1>3 DEF setPMWakeupSource, setSocketWakeupSource, TypeOK, Info
  <2> QED BY <1>1, <2>1
<1>4. CASE \E can \in CanStatuses : setNWSync(can)
  <2>1. info' = [info EXCEPT !.can = info'.can] /\ UNCHANGED NAD_LifecycleState
    BY <1>4 DEF setNWSync, TypeOK, Info
  <2> QED BY <1>2, <2>1
<1>5. CASE \/ \E n \in Notifications : Notify(n) \/ setPowerMode(n)
           \/ Activate \/ Broadcast \/ Ignore \/ Settled \/ TimerExpires
           \/ LC_Wakeup \/ WakeupLaw \/ WakeupServices \/ LC_JumpToListen2
  BY <1>5 DEF Notify, setPowerMode, Activate, Broadcast, Ignore, Settled, TimerExpires,
              LC_Wakeup, WakeupLaw, WakeupServices, LC_JumpToListen2, state
<1>6. CASE \/ \E t \in Threads : ReadMembers(t)
           \/ FireOnReceive \/ FireOnDispatch
  BY <1>6 DEF ReadMembers, FireOnReceive, FireOnDispatch, FireEvent, state
<1> QED BY <1>3, <1>4, <1>5, <1>6
        DEF QuietOnReceive, QuietOnDispatch, Elsewhere, Threads

\* A step of the daemon is one of the Legato server as LegatoServer has it, or
\* leaves it alone.
LEMMA LegatoStep ==
  ASSUME TypeOK, TypeOK', [DaemonNext]_all
  PROVE  [Legato!Next]_(Legato!vars)
<1>1. Members' \in Event
  BY DEF TypeOK, Members, Event, Info
<1>2. ASSUME UNCHANGED <<Members, legato>>
      PROVE  UNCHANGED Legato!vars
  BY <1>2 DEF legato, Legato!vars
<1>3. ASSUME NEW t \in Threads, WillReport(t), Differ(Legato!Announced)
      PROVE  Legato!StoreMembers(t)
  BY <1>1, <1>3 DEF WillReport, Differ, Legato!StoreMembers, Legato!Goto, Legato!Stores,
                    Legato!event, Legato!main
<1>4. ASSUME Members' = Members \/ Differ(Legato!Fields \ Legato!Announced), UNCHANGED legato
      PROVE  Legato!StoreSilently \/ UNCHANGED Legato!vars
  BY <1>1, <1>2, <1>4 DEF legato, Differ, Legato!StoreSilently, Legato!Stores, Legato!event,
                          Legato!main
<1>5. CASE UNCHANGED all
  BY <1>2, <1>5 DEF all, power, vars, Members
<1>6. CASE StoresOnReceive /\ WillReport(rcv)
  BY <1>3, <1>6, ReceiveStores DEF Legato!Next, Threads
<1>7. CASE StoresOnDispatch /\ WillReport(dispatcher)
  BY <1>3, <1>7, DispatchStores DEF Legato!Next, Threads
<1>8. CASE (QuietOnReceive \/ QuietOnDispatch \/ Elsewhere) /\ UNCHANGED legato
  BY <1>4, <1>8, QuietStores DEF Legato!Next
<1>9. CASE (\E t \in Threads : Report(t)) \/ Serve
  BY <1>9 DEF Report, Serve, Legato!Next
<1> QED BY <1>5, <1>6, <1>7, <1>8, <1>9 DEF DaemonNext

\* The power mode is the environment LegatoServer assumes: no thread stores two
\* announced members before a report, none stores one without a report, and no
\* thread begins a report before its last one is over.
THEOREM LegatoServerIsKept == DaemonSpec => LegatoIsServed
<1>1. DaemonInit /\ IInv => Legato!Init
  BY MembersType DEF DaemonInit, IInv
<1>2. IInv => TypeOK
  BY DEF IInv
<1>3. TypeOK /\ TypeOK' /\ [DaemonNext]_all => [Legato!Next]_(Legato!vars)
  BY LegatoStep
<1> QED BY <1>1, <1>2, <1>3, PowerInvariance, PTL DEF DaemonSpec, LegatoIsServed, Legato!Spec

-----------------------------------------------------------------------------
(* What both sides are told.                                               *)

\* The members and the parameters are as LegatoServer assumes them to be.
LEMMA ServedAssumption == Proved!ReportAssumption
<1>1. ASSUME NEW e \in Event
      PROVE  e \in Proved!Info
  <2>1. e \in [Proved!Fields -> UNION {Proved!Literals[f] : f \in Proved!Fields}]
    BY DEF Event, Proved!Fields, Proved!Literals, Proved!LC_State, Proved!LC_WakeupSource,
           Proved!LC_CanStatus, Proved!LC_MainBatteryStatus, Proved!LC_VTMstate, LC_State,
           LC_WakeupSource, LC_CanStatus, LC_MainBatteryStatus, LC_VTMstate
  <2>2. \A f \in Proved!Fields : e[f] \in Proved!Literals[f]
    BY DEF Event, Proved!Fields, Proved!Literals, Proved!LC_State, Proved!LC_WakeupSource,
           Proved!LC_CanStatus, Proved!LC_MainBatteryStatus, Proved!LC_VTMstate, LC_State,
           LC_WakeupSource, LC_CanStatus, LC_MainBatteryStatus, LC_VTMstate
  <2> QED BY <2>1, <2>2 DEF Proved!Info
<1> QED BY <1>1, HandlersAssumption DEF Proved!ReportAssumption, Proved!None,
           Proved!LC_State, LC_State

\* Hence what is proved of LegatoServer holds here.  The first four steps say
\* that the two instances are the same module: both sides are expanded alike.
LEMMA LegatoPromises == DaemonSpec => [](Legato!HandlersUpToDate /\ Legato!CacheCurrent)
<1>1. Legato!Init => Proved!Init
  BY DEF Legato!Init, Proved!Init, Legato!Fields, Proved!Fields, Legato!Announced,
         Proved!Announced, Legato!LeName, Proved!LeName, Legato!Nothing, Proved!Nothing,
         Legato!None, Proved!None
<1>2. [Legato!Next]_(Legato!vars) => [Proved!Next]_(Proved!vars)
  BY DEF Legato!Next, Proved!Next, Legato!StoreSilently, Proved!StoreSilently,
         Legato!StoreMembers, Proved!StoreMembers, Legato!Report, Proved!Report, Legato!Serve,
         Proved!Serve, Legato!Continue, Proved!Continue, Legato!Stores, Proved!Stores,
         Legato!Coming, Proved!Coming, Legato!Goto, Proved!Goto, Legato!After, Proved!After,
         Legato!Fields, Proved!Fields, Legato!Announced, Proved!Announced,
         Legato!ReportLcStateEvent_plus, Proved!ReportLcStateEvent_plus, Legato!DropReport,
         Proved!DropReport, Legato!Convert, Proved!Convert, Legato!Raise, Proved!Raise,
         Legato!Cached, Proved!Cached, Legato!Le, Proved!Le, Legato!LeCan, Proved!LeCan,
         Legato!LeName, Proved!LeName, Legato!AdvertiseEvents, Proved!AdvertiseEvents,
         Legato!lifecycle_AddELifeCycleHandler, Proved!lifecycle_AddELifeCycleHandler,
         Legato!lifecycle_RemoveELifeCycleHandler, Proved!lifecycle_RemoveELifeCycleHandler,
         Legato!OnLifeCycleEvent, Proved!OnLifeCycleEvent, Legato!ReadField, Proved!ReadField,
         Legato!Handled, Proved!Handled, Legato!CallHandler, Proved!CallHandler,
         Legato!lifecycle_RegisterClient, Proved!lifecycle_RegisterClient, Legato!AnswerRegister,
         Proved!AnswerRegister, Legato!Nothing, Proved!Nothing, Legato!None, Proved!None,
         Legato!event, Proved!event, Legato!main, Proved!main, Legato!vars, Proved!vars
<1>3. Proved!HandlersUpToDate => Legato!HandlersUpToDate
  BY DEF Legato!HandlersUpToDate, Proved!HandlersUpToDate, Legato!Writing, Proved!Writing,
         Legato!Fields, Proved!Fields, Legato!Nothing, Proved!Nothing, Legato!None, Proved!None
<1>4. Proved!CacheCurrent => Legato!CacheCurrent
  BY DEF Legato!CacheCurrent, Proved!CacheCurrent, Legato!Announced, Proved!Announced, Legato!Le,
         Proved!Le, Legato!LeCan, Proved!LeCan, Legato!LeName, Proved!LeName
<1>5. Proved!Spec => []Proved!HandlersUpToDate
  BY ServedAssumption, Proved!HandlersAreUpToDate
<1>6. Proved!Spec => []Proved!CacheCurrent
  BY ServedAssumption, Proved!CacheIsCurrent
<1> QED BY <1>1, <1>2, <1>3, <1>4, <1>5, <1>6, LegatoServerIsKept, PTL
     DEF LegatoIsServed, Legato!Spec, Proved!Spec

\* When all threads are done, a handler that has settled was told the members,
\* but for the excused fields.
LEMMA ToldMembers ==
  ASSUME Legato!HandlersUpToDate, Legato!CacheCurrent, AtRest,
         NEW h \in handlers, Settles(h), NEW f \in {"state", "batt", "vtm"} \ stale
  PROVE  told[h][f] = Legato!Le(f, Members[f]) \/ (f = "state" /\ patched)
<1>1. f \in Legato!Announced /\ f \in Legato!Fields
  BY DEF Legato!Announced, Legato!Fields
<1>2. cache[f] = Legato!Le(f, Members[f])
  BY <1>1 DEF AtRest, Legato!CacheCurrent
<1>3. told[h][f] = cache[f] \/ (f = "state" /\ patched)
  BY <1>1 DEF AtRest, Settles, Legato!HandlersUpToDate, Legato!Writing
<1> QED BY <1>2, <1>3

\* D-Bus and Legato clients end up with the same picture of the NAD: every
\* announced member is the last thing either was told.
THEOREM ClientsEndUpAlike == DaemonSpec => []ClientsAgree
<1>1. IInv /\ Legato!HandlersUpToDate /\ Legato!CacheCurrent => ClientsAgree
  <2> SUFFICES ASSUME IInv, Legato!HandlersUpToDate, Legato!CacheCurrent, AtRest,
                      event # NoEvent, ~ outdated, NEW h \in handlers, Settles(h),
                      NEW f \in {"state", "batt", "vtm"} \ stale
               PROVE  told[h][f] = Legato!Le(f, event[f]) \/ (f = "state" /\ patched)
    BY DEF ClientsAgree
  <2>1. event[f] = Members[f]
    BY DEF IInv, EventPromised, AtRest, Members
  <2> QED BY <2>1, ToldMembers
<1> QED BY <1>1, PowerInvariance, LegatoPromises, PTL

\* No mode is lost between the microcontroller and a Legato handler.
THEOREM LegatoIsUpToDate == DaemonSpec => []LegatoHearsLastMode
<1>1. IInv /\ Legato!HandlersUpToDate /\ Legato!CacheCurrent => LegatoHearsLastMode
  <2> SUFFICES ASSUME IInv, Legato!HandlersUpToDate, Legato!CacheCurrent, AtRest,
                      Resting, ~ Awaited, ~ woken, reported # "none",
                      NEW h \in handlers, Settles(h), "state" \notin stale, ~ patched
               PROVE  told[h]["state"] = Legato!LeName(StateOf[reported])
    BY DEF LegatoHearsLastMode
  <2>1. NAD_LifecycleState = StateOf[reported]
    BY DEF IInv, LastReported, Applying, Resting
  <2>2. told[h]["state"] = Legato!Le("state", Members["state"])
    BY ToldMembers
  <2> QED BY <2>1, <2>2 DEF Members, Legato!Le
<1> QED BY <1>1, PowerInvariance, LegatoPromises, PTL

=============================================================================
