--------------------------- MODULE Announcements ---------------------------
(***************************************************************************)
(* PowerMode and LegatoServer together.  Whoever announces on D-Bus goes   *)
(* on, in NotifyAllRegisteredClientsNadStateInfo, to report to the Legato  *)
(* server, and only then to what follows: the stay-alive window, the next  *)
(* notification, the answer to LC_Wakeup.  What LegatoServer leaves to its *)
(* environment, members that change and threads that report, is here the   *)
(* power mode with its three kinds of threads.                             *)
(***************************************************************************)
EXTENDS PowerMode

CONSTANTS
  Handlers,      \* what lifecycle_AddELifeCycleHandler may return
  DefaultState,  \* LC_State{}, answered to a client with a blank name
  EventBound     \* events that may wait for a handler

\* The variables of LegatoServer, but for the members; its pc is reporting.
VARIABLES
  cache, advertised, handlers, pending, reporting, arg, loop, pState, handler, taken,
  told, stale, patched

power  == vars
legato == <<cache, advertised, handlers, pending, reporting, arg, loop, pState, handler,
            taken, told, stale, patched>>
all    == <<power, legato>>

Legato ==
  INSTANCE LegatoServer
    WITH Writers <- Threads, Conditions <- Event, nad <- Members, pc <- reporting

ASSUME HandlersAssumption ==
  /\ DefaultState \in LC_State
  /\ EventBound \in Nat
  /\ "none" \notin Handlers

-----------------------------------------------------------------------------
(* The threads of the power mode.                                          *)

\* What they store and then announce.
StoresOnReceive ==
  \/ \E n \in Notifications : set_LC_MainBattery(n) \/ set_LC_VTMstate(n)
  \/ EvaluateOther \/ EvaluateWakeup \/ EvaluateSettle

StoresOnDispatch == LawStore \/ WakeupStore

\* What the clients are not told of, and the announcement itself.
QuietOnReceive ==
  \/ \E n \in Notifications : setPMWakeupSource(n) \/ setPowerMode(n)
  \/ Activate \/ Broadcast \/ Ignore \/ Settled \/ TimerExpires
  \/ ReadMembers(rcv) \/ FireOnReceive

QuietOnDispatch ==
  \/ LC_Wakeup \/ WakeupLaw \/ WakeupServices \/ LC_JumpToListen2
  \/ ReadMembers(dispatcher) \/ FireOnDispatch

Elsewhere ==
  \/ \E n \in Notifications : Notify(n)
  \/ \E reason \in SocketReasons : setSocketWakeupSource(reason)
  \/ \E can \in CanStatuses : setNWSync(can)

\* A thread that reports does nothing else until its report is over.
Free(t) == reporting[t] = "idle" \/ Announcing(t)

\* Mutant of WillReport: the announcement is for the D-Bus clients only.
WillNotReport(t) == UNCHANGED legato

\* From its store on, a thread owes the Legato server a report.
WillReport(t) ==
  /\ \A h \in Handlers : Legato!Coming(h) < EventBound
  /\ reporting[t] = "idle" /\ reporting' = [reporting EXCEPT ![t] = "enter"]
  /\ UNCHANGED <<cache, advertised, handlers, pending, arg, loop, pState, handler, taken,
                 told, stale, patched>>

\* The event has been fired on D-Bus.
Report(t) ==
  /\ ~ Announcing(t)
  /\ UNCHANGED power
  /\ Legato!Report(t)

Serve == UNCHANGED power /\ Legato!Serve

-----------------------------------------------------------------------------
(* The specification.                                                      *)

DaemonInit == Init /\ Legato!Init

DaemonNext ==
  \/ Free(rcv) /\ StoresOnReceive /\ WillReport(rcv)
  \/ Free(rcv) /\ QuietOnReceive /\ UNCHANGED legato
  \/ Free(dispatcher) /\ StoresOnDispatch /\ WillReport(dispatcher)
  \/ Free(dispatcher) /\ QuietOnDispatch /\ UNCHANGED legato
  \/ Elsewhere /\ UNCHANGED legato
  \/ \E t \in Threads : Report(t)
  \/ Serve

DaemonSpec == DaemonInit /\ [][DaemonNext]_all

-----------------------------------------------------------------------------
(* Properties.                                                             *)

\* The power mode treats the Legato server as LegatoServer expects it to be
\* treated: no step changes more than one announced member, every such step is
\* followed by a report of its thread, and the reports of one thread do not
\* overlap.
LegatoIsServed == Legato!Spec

\* No thread is between a store and the end of its report.
AtRest == \A t \in Threads : reporting[t] = "idle" /\ ~ Announcing(t)

\* The handler was called, and will not be again.
Settles(h) == told[h] # Legato!Nothing /\ pending[h] = 0 /\ handler # h

\* D-Bus and Legato clients end up with the same picture of the NAD, although
\* the one event carries its arguments and the other the cache.  Excused are a
\* D-Bus event that another thread overtook (outdated), a field of the cache
\* whose writer was overtaken (stale) and a state written by a registration.
ClientsAgree ==
  AtRest /\ event # NoEvent /\ ~ outdated =>
    \A h \in handlers : Settles(h) =>
      \A f \in {"state", "batt", "vtm"} \ stale :
        told[h][f] = Legato!Le(f, event[f]) \/ (f = "state" /\ patched)

\* Once everybody has caught up, a Legato handler has been told the state of
\* the last mapped mode the microcontroller notified: from the queue of the
\* receive thread to the queue of the main loop the last mode is neither lost
\* nor overtaken, but by LC_Wakeup and as in ClientsAgree.  Of the modes before
\* it this says nothing.
LegatoHearsLastMode ==
  AtRest /\ Resting /\ ~ Awaited /\ ~ woken /\ reported # "none" =>
    \A h \in handlers : Settles(h) =>
      \/ told[h]["state"] = Legato!LeName(StateOf[reported])
      \/ "state" \in stale \/ patched

=============================================================================
