---------------------------- MODULE LegatoServer ----------------------------
(***************************************************************************)
(* How Legato clients learn the NAD state.  The threads that announce on   *)
(* D-Bus also call ReportLcStateEvent_plus, which converts its arguments   *)
(* one field at a time into a static cache and raises a Legato event.  The *)
(* Legato main loop later runs OnLifeCycleEvent, which hands the handler   *)
(* what the cache holds by then, not the payload of the event; and its     *)
(* lifecycle_RegisterClient converts the state it answers with through the *)
(* same function, which writes the cache too.  No mutex guards the cache.  *)
(***************************************************************************)
EXTENDS LifecycleTypes, Naturals, Sequences

CONSTANTS
  Writers,       \* the threads that announce
  Handlers,      \* what lifecycle_AddELifeCycleHandler may return
  Conditions,    \* what the NAD members may hold
  DefaultState,  \* LC_State{}, answered to a client with a blank name
  EventBound     \* events that may wait for a handler

Fields == {"state", "wakeup", "can", "batt", "vtm"}

\* Every store of one of these is announced; the wakeup source and the CAN
\* status change silently.
Announced == {"state", "batt", "vtm"}

Literals ==
  [state |-> LC_State, wakeup |-> LC_WakeupSource, can |-> LC_CanStatus,
   batt |-> LC_MainBatteryStatus, vtm |-> LC_VTMstate]

\* NAD_LifecycleState and NAD_additionalLifecycleStateInfo.
Info == {i \in [Fields -> UNION {Literals[f] : f \in Fields}] :
           \A f \in Fields : i[f] \in Literals[f]}

None == "none"
Nothing == [f \in Fields |-> None]

ASSUME ReportAssumption ==
  /\ Conditions \subseteq Info
  /\ DefaultState \in LC_State
  /\ EventBound \in Nat
  /\ None \notin Handlers

VARIABLES
  nad,         \* the members of the D-Bus server
  cache,       \* m_LC_NOTIFICATION_BroadcastInfo_plus
  advertised,  \* m_lifecycleStateEvent is not nullptr
  handlers,    \* the handlers that are registered
  pending,     \* events that wait for each handler
  pc,          \* where each writer is
  arg,         \* the arguments it reports
  loop,        \* where the Legato main loop is
  pState,      \* the local of lifecycle_RegisterClient
  handler,     \* whom OnLifeCycleEvent is about to call
  taken,       \* what it has read of the cache
  told,        \* what each handler was called with last
  stale,       \* history: the announced fields whose last writer was behind the members
  patched      \* history: the cached state was last written by a registration

event == <<handlers, pending, told>>
main  == <<loop, pState, handler, taken>>
vars  == <<nad, cache, advertised, handlers, pending, pc, arg, loop, pState, handler,
           taken, told, stale, patched>>

\* The five conversions keep the name of a literal, except that
\* capiLCCanStatusToLeCanStatus swaps ON and OFF.
LeName(literal) == "LIFECYCLE_" \o literal

LeCan == [LC_CAN_STS_OFF |-> LeName("LC_CAN_STS_ON"), LC_CAN_STS_ON |-> LeName("LC_CAN_STS_OFF")]

Le(f, literal) == IF f = "can" THEN LeCan[literal] ELSE LeName(literal)

LeLiterals(f) == {Le(f, literal) : literal \in Literals[f]}

LeInfo == {i \in [Fields -> UNION {LeLiterals(f) : f \in Fields}] :
             \A f \in Fields : i[f] \in LeLiterals(f)}

\* Mutant of After: the state is not converted.
AfterWithoutState ==
  [enter |-> "wakeup", state |-> "wakeup", wakeup |-> "can", can |-> "batt", batt |-> "vtm",
   vtm |-> "send"]

\* The order of the conversions, and of the arguments OnLifeCycleEvent reads.
After ==
  [enter |-> "state", state |-> "wakeup", wakeup |-> "can", can |-> "batt", batt |-> "vtm",
   vtm |-> "send"]

Init ==
  /\ nad \in Conditions
  /\ cache = [state |-> LeName("NAD_IDLE"), wakeup |-> LeName("WAKE_UNKNOWN"),
              can |-> LeName("LC_CAN_STS_OFF"), batt |-> LeName("LC_MAIN_BATT_STS_OK"),
              vtm |-> LeName("LC_VTM_T_NORMAL")]
  /\ advertised = FALSE
  /\ handlers = {}
  /\ pending = [h \in Handlers |-> 0]
  /\ pc = [t \in Writers |-> "idle"]
  /\ arg = [t \in Writers |-> Nothing]
  /\ loop = "idle"
  /\ pState = None
  /\ handler = None
  /\ taken = Nothing
  /\ told = [h \in Handlers |-> Nothing]
  /\ stale = Announced
  /\ patched = FALSE

Goto(t, from, to) == pc[t] = from /\ pc' = [pc EXCEPT ![t] = to]

-----------------------------------------------------------------------------
(* The writers.                                                            *)

\* The events on their way, to keep within the bound.
Coming(h) == pending[h] + (IF \E t \in Writers : pc[t] # "idle" THEN 1 ELSE 0)

\* At most one field of the members is written, one of F.
Stores(F) ==
  /\ nad' \in Conditions
  /\ \E f \in F : \A g \in Fields \ {f} : nad'[g] = nad[g]

\* A thread stores a state or a status it announces, announces it on D-Bus and
\* goes on to report it to the Legato server.
StoreMembers(t) ==
  /\ \A h \in Handlers : Coming(h) < EventBound
  /\ Goto(t, "idle", "enter")
  /\ Stores(Announced)
  /\ UNCHANGED <<cache, advertised, event, arg, main, stale, patched>>

\* The wakeup source and the CAN status are stored and not announced.
StoreSilently ==
  /\ Stores(Fields \ Announced)
  /\ nad' # nad
  /\ UNCHANGED <<cache, advertised, event, pc, arg, main, stale, patched>>

ReportLcStateEvent_plus(t) ==
  /\ advertised
  /\ Goto(t, "enter", After["enter"])
  /\ arg' = [arg EXCEPT ![t] = nad]
  /\ UNCHANGED <<nad, cache, advertised, event, main, stale, patched>>

\* Before AdvertiseEvents a report is lost, and the cache is not written.
DropReport(t) ==
  /\ ~ advertised
  /\ Goto(t, "enter", "idle")
  /\ stale' = Announced
  /\ UNCHANGED <<nad, cache, advertised, event, arg, main, patched>>

\* Mutant of Cached: the native status is stored, not the Legato one.
CachedNative(f, literal) ==
  /\ cache' = [cache EXCEPT ![f] = literal]
  /\ stale' = IF literal = nad[f] THEN stale \ {f} ELSE stale \union ({f} \intersect Announced)

\* A conversion writes the Legato literal into the static cache.
Cached(f, literal) ==
  /\ cache' = [cache EXCEPT ![f] = Le(f, literal)]
  /\ stale' = IF literal = nad[f] THEN stale \ {f} ELSE stale \union ({f} \intersect Announced)

Convert(t, f) ==
  /\ Goto(t, f, After[f])
  /\ Cached(f, arg[t][f])
  /\ patched' = (patched /\ f # "state")
  /\ UNCHANGED <<nad, advertised, event, arg, main>>

\* Mutant of Raise: nobody is sent the event.
RaiseNothing(t) ==
  /\ Goto(t, "send", "idle")
  /\ arg' = [arg EXCEPT ![t] = Nothing]
  /\ UNCHANGED <<nad, cache, advertised, event, main, stale, patched>>

\* le_event_Report queues the event for every handler.
Raise(t) ==
  /\ Goto(t, "send", "idle")
  /\ arg' = [arg EXCEPT ![t] = Nothing]
  /\ pending' = [h \in Handlers |-> IF h \in handlers THEN pending[h] + 1 ELSE pending[h]]
  /\ UNCHANGED <<nad, cache, advertised, handlers, told, main, stale, patched>>

-----------------------------------------------------------------------------
(* The Legato main loop.                                                   *)

\* The first thing it runs; clients are served only afterwards.
AdvertiseEvents ==
  /\ ~ advertised
  /\ advertised' = TRUE
  /\ UNCHANGED <<nad, cache, event, pc, arg, main, stale, patched>>

lifecycle_AddELifeCycleHandler(h) ==
  /\ advertised /\ loop = "idle"
  /\ h \notin handlers
  /\ handlers' = handlers \union {h}
  /\ UNCHANGED <<nad, cache, advertised, pending, told, pc, arg, main, stale, patched>>

\* What waits for the handler is discarded with it.
lifecycle_RemoveELifeCycleHandler(h) ==
  /\ loop = "idle"
  /\ h \in handlers
  /\ handlers' = handlers \ {h}
  /\ pending' = [pending EXCEPT ![h] = 0]
  /\ told' = [told EXCEPT ![h] = Nothing]
  /\ UNCHANGED <<nad, cache, advertised, pc, arg, main, stale, patched>>

OnLifeCycleEvent(h) ==
  /\ loop = "idle" /\ loop' = "state"
  /\ pending[h] > 0
  /\ pending' = [pending EXCEPT ![h] = @ - 1]
  /\ handler' = h
  /\ UNCHANGED <<nad, cache, advertised, handlers, told, pc, arg, pState, taken, stale, patched>>

\* The arguments are read one after the other.
ReadField(f) ==
  /\ f # "vtm"
  /\ loop = f /\ loop' = After[f]
  /\ taken' = [taken EXCEPT ![f] = cache[f]]
  /\ UNCHANGED <<nad, cache, advertised, event, pc, arg, pState, handler, stale, patched>>

Handled ==
  /\ loop' = "idle"
  /\ told' = [told EXCEPT ![handler] = [taken EXCEPT !["vtm"] = cache["vtm"]]]
  /\ handler' = None
  /\ taken' = Nothing
  /\ UNCHANGED <<nad, cache, advertised, handlers, pc, arg, pState, stale, patched>>

\* Mutant of CallHandler: events that came meanwhile are merged into this one.
CallHandlerMerging ==
  /\ loop = "vtm"
  /\ pending' = [pending EXCEPT ![handler] = 0]
  /\ Handled

CallHandler ==
  /\ loop = "vtm"
  /\ Handled
  /\ UNCHANGED pending

\* evaluate_RegisterClient reads the state, and then waits for m_clients_mtx;
\* a blank name leaves pState as it was.
lifecycle_RegisterClient ==
  /\ advertised
  /\ loop = "idle" /\ loop' = "register"
  /\ pState' \in {nad["state"], DefaultState}
  /\ UNCHANGED <<nad, cache, advertised, event, pc, arg, handler, taken, stale, patched>>

\* The conversion of the answer writes the cache.
AnswerRegister ==
  /\ loop = "register" /\ loop' = "idle"
  /\ Cached("state", pState)
  /\ pState' = None
  /\ patched' = TRUE
  /\ UNCHANGED <<nad, advertised, event, pc, arg, handler, taken>>

-----------------------------------------------------------------------------
(* The specification.                                                      *)

Report(t) ==
  \/ ReportLcStateEvent_plus(t)
  \/ DropReport(t)
  \/ \E f \in Fields : Convert(t, f)
  \/ Raise(t)

Continue == (\E f \in Fields : ReadField(f)) \/ CallHandler \/ AnswerRegister

Serve ==
  \/ AdvertiseEvents
  \/ \E h \in Handlers :
       \/ lifecycle_AddELifeCycleHandler(h)
       \/ lifecycle_RemoveELifeCycleHandler(h)
       \/ OnLifeCycleEvent(h)
  \/ lifecycle_RegisterClient
  \/ Continue

Next ==
  \/ StoreSilently
  \/ \E t \in Writers : StoreMembers(t) \/ Report(t)
  \/ Serve

Spec == Init /\ [][Next]_vars

\* A writer that has begun to report goes on, and so does the main loop with
\* what it runs.  The loop takes its events in the order they came, so that one
\* that waits has its turn, whatever the clients ask for meanwhile.
FairSpec ==
  /\ Spec
  /\ \A t \in Writers : WF_vars(Report(t))
  /\ WF_vars(Continue)
  /\ \A h \in Handlers : SF_vars(OnLifeCycleEvent(h))

-----------------------------------------------------------------------------
(* Properties.                                                             *)

\* The cache and what is read of it are literals of the Legato interface: a
\* report that is dropped converts none of its arguments.
TypeOK ==
  /\ nad \in Conditions
  /\ cache \in LeInfo
  /\ advertised \in BOOLEAN
  /\ handlers \subseteq Handlers
  /\ pending \in [Handlers -> Nat]
  /\ pc \in [Writers -> Fields \union {"idle", "enter", "send"}]
  /\ arg \in [Writers -> Conditions \union {Nothing}]
  /\ loop \in Fields \union {"idle", "register"}
  /\ pState \in LC_State \union {None}
  /\ handler \in Handlers \union {None}
  /\ taken \in [Fields -> (UNION {LeLiterals(f) : f \in Fields}) \union {None}]
  /\ told \in [Handlers -> LeInfo \union {Nothing}]
  /\ stale \subseteq Announced
  /\ patched \in BOOLEAN

Writing(t) == pc[t] \in {"wakeup", "can", "batt", "vtm", "send"}

\* A handler that was ever called ends up with the cache as it is: whatever two
\* writers mixed in it, and though a handler may be called with the cache in the
\* middle of it, the event at the end of each report calls it once more.  Only
\* the state a registration wrote meanwhile raises no event.
HandlersUpToDate ==
  (\A t \in Writers : ~ Writing(t)) =>
    \A h \in handlers :
      told[h] # Nothing /\ pending[h] = 0 /\ handler # h =>
        \A f \in Fields : told[h][f] = cache[f] \/ (f = "state" /\ patched)

\* When no report runs, the cache shows each announced member as it is, unless
\* its last writer was already behind the members when it wrote: a report that
\* another one overtook, or a registration that answers with a state it read
\* before it waited for the registry.
CacheCurrent ==
  (\A t \in Writers : pc[t] = "idle") =>
    \A f \in Announced \ stale : cache[f] = Le(f, nad[f])

\* Every state a report writes into the cache reaches every handler, unless
\* another report or a registration overwrites it first.
StateIsTold ==
  \A h \in Handlers, s \in {Le("state", c["state"]) : c \in Conditions} :
    (h \in handlers /\ cache["state"] = s /\ \E t \in Writers : Writing(t)) ~>
      \/ told[h]["state"] = s
      \/ cache["state"] # s
      \/ h \notin handlers

\* The CAN status a Legato client is told has the name of the one announced on
\* D-Bus: ReportLcStateEvent_plus logs the two as "Dbus CAN Status" and
\* "LE CAN Status".
SameCanStatus ==
  [][\A t \in Writers :
       pc[t] = "can" /\ pc'[t] # "can" => cache'["can"] = LeName(arg[t]["can"])]_vars

-----------------------------------------------------------------------------
(* What makes the safety properties inductive.                             *)

\* The fields OnLifeCycleEvent has read at each place of the main loop.
Read ==
  [idle |-> {}, register |-> {}, state |-> {}, wakeup |-> {"state"},
   can |-> {"state", "wakeup"}, batt |-> {"state", "wakeup", "can"},
   vtm |-> {"state", "wakeup", "can", "batt"}]

\* Where a writer still has the field before it.
Ahead ==
  [state |-> {"enter", "state"}, batt |-> {"enter", "state", "wakeup", "can", "batt"},
   vtm |-> {"enter", "state", "wakeup", "can", "batt", "vtm"}]

LocalFacts ==
  /\ \A t \in Writers : pc[t] \in Fields => arg[t] \in Conditions
  /\ loop = "register" => pState \in LC_State
  /\ loop \in Fields => handler \in handlers
  /\ loop \notin Fields => handler = None
  /\ \A f \in Read[loop] : taken[f] \in LeLiterals(f)
  /\ \A h \in Handlers \ handlers : pending[h] = 0 /\ told[h] = Nothing

\* Another event is to come for the handler, from the queue or from a report.
Expects(h) == pending[h] > 0 \/ \E t \in Writers : Writing(t)

AsCached(f, value) == value = cache[f] \/ (f = "state" /\ patched)

\* What a handler was called with, or is about to be, is the cache, or it will
\* be called again.
Delivery ==
  \A h \in handlers :
    /\ told[h] # Nothing /\ ~ Expects(h) /\ handler # h =>
         \A f \in Fields : AsCached(f, told[h][f])
    /\ handler = h /\ ~ Expects(h) => \A f \in Read[loop] : AsCached(f, taken[f])

\* A field of the cache is as the member, or a report will write it.
Refresh ==
  \A f \in Announced \ stale :
    cache[f] = Le(f, nad[f]) \/ \E t \in Writers : pc[t] \in Ahead[f]

IInv == TypeOK /\ LocalFacts /\ Delivery /\ Refresh

=============================================================================
