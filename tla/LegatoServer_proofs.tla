------------------------ MODULE LegatoServer_proofs ------------------------
(***************************************************************************)
(* What holds of the Legato server for every number of writers, of         *)
(* handlers and of waiting events, and for every content of the members.   *)
(***************************************************************************)
EXTENDS LegatoServer, TLAPS

-----------------------------------------------------------------------------
(* The fields and the conversions.                                         *)

\* The order of the conversions runs through the fields, and a field other than
\* the last is followed by one.
LEMMA AfterType ==
  /\ "enter" \notin Fields /\ "idle" \notin Fields /\ "send" \notin Fields
  /\ "register" \notin Fields
  /\ After["enter"] = "state" /\ "state" \in Fields
  /\ \A f \in Fields : After[f] \in {"wakeup", "can", "batt", "vtm", "send"}
  /\ \A f \in Fields : f # "vtm" => After[f] \in Fields
  /\ \A f \in Fields : After[f] \in Fields \union {"idle", "enter", "send"}
  /\ \A f \in Fields : f # "vtm" => Read[After[f]] = Read[f] \union {f}
  /\ Fields = Read["vtm"] \union {"vtm"}
BY DEF Fields, After, Read

\* A report that has one announced field before it still has it once it has
\* converted another.
LEMMA AheadStep ==
  /\ \A f \in Announced : "enter" \in Ahead[f] /\ After["enter"] \in Ahead[f]
  /\ \A f \in Announced, g \in Fields :
       g # f /\ g \in Ahead[f] => After[g] \in Ahead[f]
  /\ \A f \in Announced : "send" \notin Ahead[f] /\ "idle" \notin Ahead[f]
  /\ Announced \subseteq Fields
BY DEF Announced, Ahead, After, Fields

\* A converted literal is one of the Legato interface.
LEMMA LeType ==
  ASSUME NEW f \in Fields, NEW literal \in Literals[f]
  PROVE  Le(f, literal) \in LeLiterals(f)
BY DEF LeLiterals

\* A conversion writes one field of the cache.
LEMMA CachedType ==
  ASSUME cache \in LeInfo, NEW f \in Fields, NEW literal \in Literals[f], Cached(f, literal)
  PROVE  /\ cache' \in LeInfo
         /\ cache'[f] = Le(f, literal)
         /\ \A g \in Fields \ {f} : cache'[g] = cache[g]
         /\ stale \subseteq Announced => stale' \subseteq Announced
<1> DEFINE All == UNION {LeLiterals(g) : g \in Fields}
<1>1. cache \in [Fields -> All] /\ \A g \in Fields : cache[g] \in LeLiterals(g)
  BY DEF LeInfo
<1>2. Le(f, literal) \in LeLiterals(f) /\ Le(f, literal) \in All
  BY LeType
<1>3. cache' = [cache EXCEPT ![f] = Le(f, literal)]
  BY DEF Cached
<1> HIDE DEF All
<1>4. /\ cache' \in [Fields -> All]
      /\ cache'[f] = Le(f, literal)
      /\ \A g \in Fields \ {f} : cache'[g] = cache[g]
  BY <1>1, <1>2, <1>3
<1>5. \A g \in Fields : cache'[g] \in LeLiterals(g)
  BY <1>1, <1>2, <1>4
<1>6. stale \subseteq Announced => stale' \subseteq Announced
  BY DEF Cached
<1> QED BY <1>4, <1>5, <1>6 DEF LeInfo, All

\* The conditions hold literals of their enumerations.
LEMMA ConditionType ==
  ASSUME NEW c \in Conditions, NEW f \in Fields
  PROVE  c[f] \in Literals[f]
BY ReportAssumption DEF Info

-----------------------------------------------------------------------------
(* Init.                                                                   *)

\* The static cache begins with literals of the Legato interface.
LEMMA FirstCache == Init => cache \in LeInfo
<1> SUFFICES ASSUME Init PROVE cache \in LeInfo
  OBVIOUS
<1> DEFINE First(f) ==
      [state |-> "NAD_IDLE", wakeup |-> "WAKE_UNKNOWN", can |-> "LC_CAN_STS_ON",
       batt |-> "LC_MAIN_BATT_STS_OK", vtm |-> "LC_VTM_T_NORMAL"][f]
<1>1. \A f \in Fields : First(f) \in Literals[f]
  BY DEF Fields, Literals, LC_State, LC_WakeupSource, LC_CanStatus, LC_MainBatteryStatus,
         LC_VTMstate
<1>2. \A f \in Fields : Le(f, First(f)) \in LeLiterals(f)
  BY <1>1, LeType
<1>3. \A f \in Fields : cache[f] = Le(f, First(f))
  BY DEF Init, Fields, Le, LeCan
<1>4. cache = [f \in Fields |-> cache[f]]
  BY DEF Init, Fields
<1> HIDE DEF First
<1> QED BY <1>2, <1>3, <1>4 DEF LeInfo

\* The initial states satisfy the invariant.
LEMMA InitIInv == Init => IInv
<1> SUFFICES ASSUME Init PROVE IInv
  OBVIOUS
<1>1. Nothing \in [Fields -> (UNION {LeLiterals(f) : f \in Fields}) \union {None}]
  BY DEF Nothing
<1>2. TypeOK
  BY FirstCache, <1>1 DEF Init, TypeOK
<1>3. LocalFacts
  BY AfterType DEF Init, LocalFacts, Read
<1>4. Delivery /\ Refresh
  BY DEF Init, Delivery, Refresh
<1> QED BY <1>2, <1>3, <1>4 DEF IInv

-----------------------------------------------------------------------------
(* Types, and what is known of the locals.                                 *)

\* A writer that moves keeps the program counters well typed, and is the only
\* one that moves.
LEMMA GotoType ==
  ASSUME TypeOK, NEW t \in Writers, NEW from,
         NEW to \in Fields \union {"idle", "enter", "send"}, Goto(t, from, to)
  PROVE  /\ pc' \in [Writers -> Fields \union {"idle", "enter", "send"}]
         /\ pc[t] = from /\ pc'[t] = to
         /\ \A u \in Writers \ {t} : pc'[u] = pc[u]
BY DEF Goto, TypeOK

\* The two groups of facts are proved together: each needs the other.
LEMMA StepType == TypeOK /\ LocalFacts /\ [Next]_vars => TypeOK' /\ LocalFacts'
<1> SUFFICES ASSUME TypeOK, LocalFacts, [Next]_vars
             PROVE  TypeOK' /\ LocalFacts'
  OBVIOUS
<1> USE AfterType
<1>1. ASSUME StoreSilently PROVE TypeOK' /\ LocalFacts'
  BY <1>1 DEF StoreSilently, Stores, event, main, TypeOK, LocalFacts, LeInfo
<1>2. ASSUME NEW t \in Writers, StoreMembers(t)
      PROVE  TypeOK' /\ LocalFacts'
  <2>1. /\ pc' \in [Writers -> Fields \union {"idle", "enter", "send"}]
        /\ \A u \in Writers \ {t} : pc'[u] = pc[u]
        /\ pc'[t] \notin Fields
    BY <1>2, GotoType DEF StoreMembers
  <2>2. arg' \in [Writers -> Conditions \union {Nothing}]
    BY <1>2 DEF StoreMembers, TypeOK
  <2>3. TypeOK'
    BY <1>2, <2>1, <2>2 DEF StoreMembers, Stores, event, main, TypeOK, LeInfo
  <2> QED BY <1>2, <2>1, <2>3 DEF StoreMembers, event, main, LocalFacts
<1>3. ASSUME NEW t \in Writers, ReportLcStateEvent_plus(t) PROVE TypeOK' /\ LocalFacts'
  <2>1. /\ pc' \in [Writers -> Fields \union {"idle", "enter", "send"}]
        /\ \A u \in Writers \ {t} : pc'[u] = pc[u]
        /\ pc'[t] = "state"
    BY <1>3, GotoType DEF ReportLcStateEvent_plus
  <2>2. arg' \in [Writers -> Conditions \union {Nothing}]
    BY <1>3 DEF ReportLcStateEvent_plus, TypeOK
  <2>3. TypeOK'
    BY <1>3, <2>1, <2>2 DEF ReportLcStateEvent_plus, event, main, TypeOK, LeInfo
  <2>4. \A u \in Writers : pc'[u] \in Fields => arg'[u] \in Conditions
    BY <1>3, <2>1 DEF ReportLcStateEvent_plus, TypeOK, LocalFacts
  <2> QED BY <1>3, <2>3, <2>4 DEF ReportLcStateEvent_plus, event, main, LocalFacts
<1>4. ASSUME NEW t \in Writers, DropReport(t) PROVE TypeOK' /\ LocalFacts'
  <2>1. /\ pc' \in [Writers -> Fields \union {"idle", "enter", "send"}]
        /\ \A u \in Writers \ {t} : pc'[u] = pc[u]
        /\ pc'[t] \notin Fields
    BY <1>4, GotoType DEF DropReport
  <2>2. arg' \in [Writers -> Conditions \union {Nothing}]
    BY <1>4 DEF DropReport, TypeOK
  <2>3. TypeOK'
    BY <1>4, <2>1, <2>2 DEF DropReport, event, main, TypeOK, LeInfo
  <2> QED BY <1>4, <2>1, <2>3 DEF DropReport, event, main, LocalFacts
<1>5. ASSUME NEW t \in Writers, NEW f \in Fields, Convert(t, f) PROVE TypeOK' /\ LocalFacts'
  <2>1. pc[t] = f /\ arg[t] \in Conditions
    BY <1>5 DEF Convert, Goto, LocalFacts
  <2>2. cache' \in LeInfo /\ stale' \subseteq Announced
    BY <1>5, <2>1, CachedType, ConditionType DEF Convert, TypeOK
  <2>3. /\ pc' \in [Writers -> Fields \union {"idle", "enter", "send"}]
        /\ \A u \in Writers \ {t} : pc'[u] = pc[u]
    BY <1>5, GotoType DEF Convert
  <2>4. patched' \in BOOLEAN
    BY <1>5 DEF Convert, TypeOK
  <2>5. TypeOK'
    BY <1>5, <2>2, <2>3, <2>4 DEF Convert, event, main, TypeOK
  <2>6. \A u \in Writers : pc'[u] \in Fields => arg[u] \in Conditions
    BY <2>1, <2>3 DEF LocalFacts
  <2> QED BY <1>5, <2>5, <2>6 DEF Convert, event, main, LocalFacts
<1>6. ASSUME NEW t \in Writers, Raise(t) PROVE TypeOK' /\ LocalFacts'
  <2>1. /\ pc' \in [Writers -> Fields \union {"idle", "enter", "send"}]
        /\ \A u \in Writers \ {t} : pc'[u] = pc[u]
        /\ pc'[t] \notin Fields
    BY <1>6, GotoType DEF Raise
  <2>2. arg' \in [Writers -> Conditions \union {Nothing}]
    BY <1>6 DEF Raise, TypeOK
  <2>3. TypeOK'
    BY <1>6, <2>1, <2>2 DEF Raise, event, main, TypeOK, LeInfo
  <2>4. /\ pending' \in [Handlers -> Nat]
        /\ \A h \in Handlers \ handlers : pending'[h] = pending[h]
    BY <1>6 DEF Raise, TypeOK
  <2>5. \A u \in Writers : pc'[u] \in Fields => arg'[u] \in Conditions
    BY <1>6, <2>1 DEF Raise, TypeOK, LocalFacts
  <2> QED BY <1>6, <2>3, <2>4, <2>5 DEF Raise, main, LocalFacts
<1>7. ASSUME AdvertiseEvents PROVE TypeOK' /\ LocalFacts'
  BY <1>7 DEF AdvertiseEvents, event, main, TypeOK, LocalFacts, LeInfo
<1>8. ASSUME NEW h \in Handlers, lifecycle_AddELifeCycleHandler(h)
      PROVE  TypeOK' /\ LocalFacts'
  BY <1>8 DEF lifecycle_AddELifeCycleHandler, main, TypeOK, LocalFacts, LeInfo
<1>9. ASSUME NEW h \in Handlers, lifecycle_RemoveELifeCycleHandler(h)
      PROVE  TypeOK' /\ LocalFacts'
  BY <1>9 DEF lifecycle_RemoveELifeCycleHandler, main, TypeOK, LocalFacts, LeInfo
<1>10. ASSUME NEW h \in Handlers, OnLifeCycleEvent(h) PROVE TypeOK' /\ LocalFacts'
  <2>1. h \in handlers /\ pending[h] - 1 \in Nat
    BY <1>10 DEF OnLifeCycleEvent, TypeOK, LocalFacts
  <2>2. TypeOK'
    BY <1>10, <2>1 DEF OnLifeCycleEvent, TypeOK, LeInfo
  <2> QED BY <1>10, <2>1, <2>2 DEF OnLifeCycleEvent, LocalFacts, Read, TypeOK
<1>11. ASSUME NEW f \in Fields, ReadField(f) PROVE TypeOK' /\ LocalFacts'
  <2> DEFINE All == UNION {LeLiterals(g) : g \in Fields}
  <2>1. cache[f] \in LeLiterals(f) /\ cache[f] \in All
    BY DEF TypeOK, LeInfo
  <2> HIDE DEF All
  <2>2. taken \in [Fields -> All \union {None}]
    BY DEF TypeOK, All
  <2>3. taken' \in [Fields -> All \union {None}]
    BY <1>11, <2>1, <2>2 DEF ReadField
  <2>4. loop = f /\ loop' = After[f] /\ f # "vtm" /\ loop' \in Fields
    BY <1>11 DEF ReadField
  <2>5. TypeOK'
    BY <1>11, <2>3, <2>4 DEF ReadField, event, TypeOK, LeInfo, All
  <2>6. \A g \in Read[loop'] : taken'[g] \in LeLiterals(g)
    <3>1. Read[loop'] = Read[f] \union {f}
      BY <2>4
    <3>2. taken'[f] = cache[f] /\ \A g \in Fields \ {f} : taken'[g] = taken[g]
      BY <1>11, <2>2 DEF ReadField
    <3>3. Read[f] \subseteq Fields
      BY DEF Read, Fields
    <3> QED BY <2>1, <2>4, <3>1, <3>2, <3>3 DEF LocalFacts
  <2> QED BY <1>11, <2>4, <2>5, <2>6 DEF ReadField, event, LocalFacts
<1>12. ASSUME CallHandler PROVE TypeOK' /\ LocalFacts'
  <2> DEFINE All == UNION {LeLiterals(g) : g \in Fields}
             last == [taken EXCEPT !["vtm"] = cache["vtm"]]
  <2>1. loop = "vtm" /\ handler \in handlers /\ handler \in Handlers
    BY <1>12 DEF CallHandler, LocalFacts, TypeOK, Fields
  <2>2. taken \in [Fields -> All \union {None}] /\ "vtm" \in Fields
    BY DEF TypeOK, Fields
  <2>3. \A g \in Fields : last[g] \in LeLiterals(g)
    <3>1. cache["vtm"] \in LeLiterals("vtm")
      BY DEF TypeOK, LeInfo, Fields
    <3>2. \A g \in Fields \ {"vtm"} : taken[g] \in LeLiterals(g)
      BY <2>1 DEF LocalFacts, Read, Fields
    <3> HIDE DEF All
    <3> QED BY <2>2, <3>1, <3>2
  <2>4. last \in LeInfo
    <3>1. last = [g \in Fields |-> last[g]]
      BY <2>2
    <3> HIDE DEF last
    <3>2. \A g \in Fields : last[g] \in All
      BY <2>3
    <3>3. last \in [Fields -> All]
      <4> HIDE DEF All
      <4> QED BY <3>1, <3>2
    <3> QED BY <2>3, <3>3 DEF LeInfo
  <2>5. /\ told' = [told EXCEPT ![handler] = last]
        /\ told \in [Handlers -> LeInfo \union {Nothing}]
    BY <1>12 DEF CallHandler, Handled, TypeOK
  <2> HIDE DEF last
  <2>6. /\ told' \in [Handlers -> LeInfo \union {Nothing}]
        /\ \A h \in Handlers \ {handler} : told'[h] = told[h]
    BY <2>4, <2>5
  <2>7. TypeOK'
    <3>1. taken' \in [Fields -> All \union {None}]
      BY <1>12 DEF CallHandler, Handled, Nothing
    <3> QED BY <1>12, <2>6, <3>1 DEF CallHandler, Handled, TypeOK
  <2> QED BY <1>12, <2>1, <2>6, <2>7 DEF CallHandler, Handled, LocalFacts, Read
<1>13. ASSUME lifecycle_RegisterClient PROVE TypeOK' /\ LocalFacts'
  <2>1. pState' \in LC_State
    BY <1>13, ReportAssumption, ConditionType
       DEF lifecycle_RegisterClient, TypeOK, Literals
  <2> QED BY <1>13, <2>1 DEF lifecycle_RegisterClient, event, TypeOK, LocalFacts, Read, LeInfo
<1>14. ASSUME AnswerRegister PROVE TypeOK' /\ LocalFacts'
  <2>1. cache' \in LeInfo /\ stale' \subseteq Announced
    BY <1>14, CachedType DEF AnswerRegister, LocalFacts, TypeOK, Literals
  <2>2. TypeOK'
    BY <1>14, <2>1 DEF AnswerRegister, event, TypeOK
  <2> QED BY <1>14, <2>2 DEF AnswerRegister, event, LocalFacts, Read
<1>15. CASE UNCHANGED vars
  BY <1>15 DEF vars, event, main, TypeOK, LocalFacts, LeInfo
<1> QED BY <1>1, <1>2, <1>3, <1>4, <1>5, <1>6, <1>7, <1>8, <1>9, <1>10, <1>11, <1>12,
           <1>13, <1>14, <1>15 DEF Next, Report, Serve, Continue

-----------------------------------------------------------------------------
(* Delivery.                                                               *)

\* A step that leaves the cache, the handlers and the main loop alone, loses no
\* event and ends no report keeps the delivery.
LEMMA DeliveryKept ==
  ASSUME Delivery,
         UNCHANGED <<cache, handlers, pending, told, loop, handler, taken, patched>>,
         \A u \in Writers : Writing(u) <=> Writing(u)'
  PROVE  Delivery'
<1>1. \A h : Expects(h) <=> Expects(h)'
  BY DEF Expects
<1>2. \A f, v : AsCached(f, v) <=> AsCached(f, v)'
  BY DEF AsCached
<1> QED BY <1>1, <1>2 DEF Delivery

\* Every step keeps the delivery: the last writer of a field is followed by an
\* event, and a handler that is called has read the cache since.
LEMMA StepDelivery ==
  TypeOK /\ LocalFacts /\ Delivery /\ [Next]_vars => Delivery'
<1> SUFFICES ASSUME TypeOK, LocalFacts, Delivery, [Next]_vars
             PROVE  Delivery'
  OBVIOUS
<1> USE AfterType
<1>1. ASSUME StoreSilently PROVE Delivery'
  BY <1>1, DeliveryKept DEF StoreSilently, event, main, Writing
<1>2. ASSUME NEW t \in Writers, StoreMembers(t) PROVE Delivery'
  <2>1. \A u \in Writers : Writing(u) <=> Writing(u)'
    BY <1>2, GotoType DEF StoreMembers, Writing
  <2> QED BY <1>2, <2>1, DeliveryKept DEF StoreMembers, event, main
<1>3. ASSUME NEW t \in Writers, ReportLcStateEvent_plus(t) PROVE Delivery'
  <2>1. \A u \in Writers : Writing(u) <=> Writing(u)'
    BY <1>3, GotoType DEF ReportLcStateEvent_plus, Writing
  <2> QED BY <1>3, <2>1, DeliveryKept DEF ReportLcStateEvent_plus, event, main
<1>4. ASSUME NEW t \in Writers, DropReport(t) PROVE Delivery'
  <2>1. \A u \in Writers : Writing(u) <=> Writing(u)'
    BY <1>4, GotoType DEF DropReport, Writing
  <2> QED BY <1>4, <2>1, DeliveryKept DEF DropReport, event, main
<1>5. ASSUME NEW t \in Writers, NEW f \in Fields, Convert(t, f) PROVE Delivery'
  <2>1. pc'[t] = After[f]
    BY <1>5, GotoType DEF Convert
  <2>2. Writing(t)'
    BY <2>1 DEF Writing
  <2>3. \A h : Expects(h)'
    BY <2>2 DEF Expects
  <2> QED BY <2>3 DEF Delivery
<1>6. ASSUME NEW t \in Writers, Raise(t) PROVE Delivery'
  <2>1. \A h \in handlers' : pending'[h] > 0
    BY <1>6 DEF Raise, TypeOK
  <2> QED BY <2>1 DEF Delivery, Expects
<1>7. ASSUME AdvertiseEvents PROVE Delivery'
  BY <1>7, DeliveryKept DEF AdvertiseEvents, event, main, Writing
<1>8. ASSUME NEW h \in Handlers, lifecycle_AddELifeCycleHandler(h) PROVE Delivery'
  <2>1. told'[h] = Nothing /\ handler' # h
    BY <1>8, ReportAssumption DEF lifecycle_AddELifeCycleHandler, main, LocalFacts
  <2>2. UNCHANGED <<cache, pending, told, loop, handler, taken, patched, pc>>
    BY <1>8 DEF lifecycle_AddELifeCycleHandler, main
  <2>3. handlers' = handlers \union {h}
    BY <1>8 DEF lifecycle_AddELifeCycleHandler
  <2>4. \A g : Expects(g) <=> Expects(g)'
    BY <2>2 DEF Expects, Writing
  <2>5. \A f, v : AsCached(f, v) <=> AsCached(f, v)'
    BY <2>2 DEF AsCached
  <2> QED BY <2>1, <2>2, <2>3, <2>4, <2>5 DEF Delivery
<1>9. ASSUME NEW h \in Handlers, lifecycle_RemoveELifeCycleHandler(h) PROVE Delivery'
  <2>1. UNCHANGED <<cache, loop, handler, taken, patched, pc>>
    BY <1>9 DEF lifecycle_RemoveELifeCycleHandler, main
  <2>2. handlers' = handlers \ {h} /\ handlers \subseteq Handlers
    BY <1>9 DEF lifecycle_RemoveELifeCycleHandler, TypeOK
  <2>3. \A g \in handlers' : pending'[g] = pending[g] /\ told'[g] = told[g]
    BY <1>9, <2>2 DEF lifecycle_RemoveELifeCycleHandler, TypeOK
  <2>4. \A g \in handlers' : Expects(g) <=> Expects(g)'
    BY <2>1, <2>3 DEF Expects, Writing
  <2>5. \A f, v : AsCached(f, v) <=> AsCached(f, v)'
    BY <2>1 DEF AsCached
  <2> QED BY <2>1, <2>2, <2>3, <2>4, <2>5 DEF Delivery
<1>10. ASSUME NEW h \in Handlers, OnLifeCycleEvent(h) PROVE Delivery'
  <2>1. UNCHANGED <<cache, handlers, told, taken, patched, pc>>
    BY <1>10 DEF OnLifeCycleEvent
  <2>2. handler' = h /\ loop' = "state" /\ handler = None /\ None \notin Handlers
    BY <1>10, ReportAssumption DEF OnLifeCycleEvent, LocalFacts
  <2>3. \A g \in Handlers \ {h} : pending'[g] = pending[g]
    BY <1>10 DEF OnLifeCycleEvent, TypeOK
  <2>4. \A g \in Handlers \ {h} : Expects(g) <=> Expects(g)'
    BY <2>1, <2>3 DEF Expects, Writing
  <2>5. \A f, v : AsCached(f, v) <=> AsCached(f, v)'
    BY <2>1 DEF AsCached
  <2>6. Read["state"] = {} /\ handlers \subseteq Handlers
    BY DEF Read, TypeOK
  <2> QED BY <2>1, <2>2, <2>4, <2>5, <2>6 DEF Delivery
<1>11. ASSUME NEW f \in Fields, ReadField(f) PROVE Delivery'
  <2>1. UNCHANGED <<cache, handlers, pending, told, handler, patched, pc>>
    BY <1>11 DEF ReadField, event
  <2>2. loop = f /\ f # "vtm" /\ loop' = After[f]
    BY <1>11 DEF ReadField
  <2>3. Read[loop'] = Read[loop] \union {f} /\ Read[loop] \subseteq Fields
    BY <2>2 DEF Read, Fields
  <2>4. taken'[f] = cache[f] /\ \A g \in Fields \ {f} : taken'[g] = taken[g]
    BY <1>11 DEF ReadField, TypeOK
  <2>5. \A g : Expects(g) <=> Expects(g)'
    BY <2>1 DEF Expects, Writing
  <2>6. \A g, v : AsCached(g, v) <=> AsCached(g, v)'
    BY <2>1 DEF AsCached
  <2>7. AsCached(f, cache[f])
    BY DEF AsCached
  <2> QED BY <2>1, <2>3, <2>4, <2>5, <2>6, <2>7 DEF Delivery
<1>12. ASSUME CallHandler PROVE Delivery'
  <2>1. UNCHANGED <<cache, handlers, pending, patched, pc>>
    BY <1>12 DEF CallHandler, Handled
  <2>2. handler' = None /\ loop = "vtm" /\ handler \in handlers
    BY <1>12 DEF CallHandler, Handled, LocalFacts, Fields
  <2>3. handlers \subseteq Handlers /\ None \notin Handlers
    BY ReportAssumption DEF TypeOK
  <2>4. \A h \in Handlers \ {handler} : told'[h] = told[h]
    BY <1>12 DEF CallHandler, Handled, TypeOK
  <2>5. told'[handler] = [taken EXCEPT !["vtm"] = cache["vtm"]]
    BY <1>12, <2>2, <2>3 DEF CallHandler, Handled, TypeOK
  <2>6. /\ told'[handler]["vtm"] = cache["vtm"]
        /\ \A f \in Read["vtm"] : told'[handler][f] = taken[f]
    BY <2>5 DEF TypeOK, Read, Fields
  <2>7. \A g : Expects(g) <=> Expects(g)'
    BY <2>1 DEF Expects, Writing
  <2>8. \A g, v : AsCached(g, v) <=> AsCached(g, v)'
    BY <2>1 DEF AsCached
  <2>9. AsCached("vtm", cache["vtm"])
    BY DEF AsCached
  <2>10. ~ Expects(handler) => \A f \in Fields : AsCached(f, told'[handler][f])
    BY <2>2, <2>6, <2>9 DEF Delivery
  <2> QED BY <2>1, <2>2, <2>3, <2>4, <2>7, <2>8, <2>10 DEF Delivery
<1>13. ASSUME lifecycle_RegisterClient PROVE Delivery'
  <2>1. UNCHANGED <<cache, handlers, pending, told, handler, taken, patched, pc>>
    BY <1>13 DEF lifecycle_RegisterClient, event
  <2>2. loop' = "register" /\ Read["register"] = {}
    BY <1>13 DEF lifecycle_RegisterClient, Read
  <2>3. \A g : Expects(g) <=> Expects(g)'
    BY <2>1 DEF Expects, Writing
  <2>4. \A f, v : AsCached(f, v) <=> AsCached(f, v)'
    BY <2>1 DEF AsCached
  <2> QED BY <2>1, <2>2, <2>3, <2>4 DEF Delivery
<1>14. ASSUME AnswerRegister PROVE Delivery'
  <2>1. UNCHANGED <<handlers, pending, told, handler, taken, pc>> /\ patched' = TRUE
    BY <1>14 DEF AnswerRegister, event
  <2>2. loop' = "idle" /\ Read["idle"] = {}
    BY <1>14 DEF AnswerRegister, Read
  <2>3. \A f \in Fields \ {"state"} : cache'[f] = cache[f]
    BY <1>14, CachedType DEF AnswerRegister, TypeOK, LocalFacts, Literals, Fields
  <2>4. \A g : Expects(g) <=> Expects(g)'
    BY <2>1 DEF Expects, Writing
  <2>5. \A f \in Fields : \A v : AsCached(f, v) => AsCached(f, v)'
    BY <2>1, <2>3 DEF AsCached
  <2> QED BY <2>1, <2>2, <2>4, <2>5 DEF Delivery
<1>15. CASE UNCHANGED vars
  BY <1>15, DeliveryKept DEF vars, event, main, Writing
<1> QED BY <1>1, <1>2, <1>3, <1>4, <1>5, <1>6, <1>7, <1>8, <1>9, <1>10, <1>11, <1>12,
           <1>13, <1>14, <1>15 DEF Next, Report, Serve, Continue

-----------------------------------------------------------------------------
(* Refresh.                                                                *)

\* A step that writes neither the announced members nor the cache and moves no
\* writer keeps the refresh.
LEMMA RefreshKept ==
  ASSUME Refresh, UNCHANGED <<cache, stale, pc>>,
         \A f \in Announced : nad'[f] = nad[f]
  PROVE  Refresh'
BY DEF Refresh

\* Every step keeps the refresh: who stores an announced member reports it, and
\* a report does not skip a field.
LEMMA StepRefresh ==
  TypeOK /\ LocalFacts /\ Refresh /\ [Next]_vars => Refresh'
<1> SUFFICES ASSUME TypeOK, LocalFacts, Refresh, [Next]_vars
             PROVE  Refresh'
  OBVIOUS
<1> USE AfterType, AheadStep
<1>1. ASSUME StoreSilently PROVE Refresh'
  <2>1. \A f \in Announced : nad'[f] = nad[f]
    BY <1>1 DEF StoreSilently, Stores
  <2> QED BY <1>1, <2>1, RefreshKept DEF StoreSilently
<1>2. ASSUME NEW t \in Writers, StoreMembers(t) PROVE Refresh'
  <2>1. pc'[t] = "enter"
    BY <1>2, GotoType DEF StoreMembers
  <2> QED BY <2>1, <1>2 DEF Refresh, StoreMembers
<1>3. ASSUME NEW t \in Writers, ReportLcStateEvent_plus(t) PROVE Refresh'
  <2>1. pc'[t] = After["enter"] /\ \A u \in Writers \ {t} : pc'[u] = pc[u]
    BY <1>3, GotoType DEF ReportLcStateEvent_plus
  <2>2. UNCHANGED <<nad, cache, stale>>
    BY <1>3 DEF ReportLcStateEvent_plus
  <2> QED BY <2>1, <2>2 DEF Refresh
<1>4. ASSUME NEW t \in Writers, DropReport(t) PROVE Refresh'
  BY <1>4 DEF DropReport, Refresh
<1>5. ASSUME NEW t \in Writers, NEW g \in Fields, Convert(t, g) PROVE Refresh'
  <2>1. pc[t] = g /\ pc'[t] = After[g] /\ \A u \in Writers \ {t} : pc'[u] = pc[u]
    BY <1>5, GotoType DEF Convert
  <2>2. arg[t] \in Conditions /\ nad' = nad
    BY <1>5, <2>1 DEF Convert, LocalFacts
  <2>3. /\ cache'[g] = Le(g, arg[t][g])
        /\ \A f \in Fields \ {g} : cache'[f] = cache[f]
    BY <1>5, <2>2, CachedType, ConditionType DEF Convert, TypeOK
  <2>4. /\ g \in Announced \ stale' => arg[t][g] = nad[g]
        /\ stale \ {g} \subseteq stale'
    BY <1>5 DEF Convert, Cached
  <2>5. ASSUME NEW f \in Announced \ stale', f # g
        PROVE  cache'[f] = Le(f, nad'[f]) \/ \E u \in Writers : pc'[u] \in Ahead[f]
    BY <2>1, <2>2, <2>3, <2>4, <2>5 DEF Refresh
  <2> QED BY <2>2, <2>3, <2>4, <2>5 DEF Refresh
<1>6. ASSUME NEW t \in Writers, Raise(t) PROVE Refresh'
  <2>1. pc[t] = "send" /\ \A u \in Writers \ {t} : pc'[u] = pc[u]
    BY <1>6, GotoType DEF Raise
  <2> QED BY <1>6, <2>1 DEF Raise, Refresh
<1>7. ASSUME AdvertiseEvents PROVE Refresh'
  BY <1>7, RefreshKept DEF AdvertiseEvents
<1>8. ASSUME NEW h \in Handlers, lifecycle_AddELifeCycleHandler(h) PROVE Refresh'
  BY <1>8, RefreshKept DEF lifecycle_AddELifeCycleHandler
<1>9. ASSUME NEW h \in Handlers, lifecycle_RemoveELifeCycleHandler(h) PROVE Refresh'
  BY <1>9, RefreshKept DEF lifecycle_RemoveELifeCycleHandler
<1>10. ASSUME NEW h \in Handlers, OnLifeCycleEvent(h) PROVE Refresh'
  BY <1>10, RefreshKept DEF OnLifeCycleEvent
<1>11. ASSUME NEW f \in Fields, ReadField(f) PROVE Refresh'
  BY <1>11, RefreshKept DEF ReadField
<1>12. ASSUME CallHandler PROVE Refresh'
  BY <1>12, RefreshKept DEF CallHandler, Handled
<1>13. ASSUME lifecycle_RegisterClient PROVE Refresh'
  BY <1>13, RefreshKept DEF lifecycle_RegisterClient
<1>14. ASSUME AnswerRegister PROVE Refresh'
  <2>1. /\ cache'["state"] = Le("state", pState)
        /\ \A f \in Fields \ {"state"} : cache'[f] = cache[f]
    BY <1>14, CachedType DEF AnswerRegister, TypeOK, LocalFacts, Literals, Fields
  <2>2. /\ "state" \notin stale' => pState = nad["state"]
        /\ stale \ {"state"} \subseteq stale'
        /\ UNCHANGED <<nad, pc>>
    BY <1>14 DEF AnswerRegister, Cached, Announced
  <2> QED BY <2>1, <2>2 DEF Refresh
<1>15. CASE UNCHANGED vars
  BY <1>15, RefreshKept DEF vars
<1> QED BY <1>1, <1>2, <1>3, <1>4, <1>5, <1>6, <1>7, <1>8, <1>9, <1>10, <1>11, <1>12,
           <1>13, <1>14, <1>15 DEF Next, Report, Serve, Continue

-----------------------------------------------------------------------------
(* The theorems.                                                           *)

\* The invariant is inductive.
THEOREM Invariance == Spec => []IInv
<1>1. IInv /\ [Next]_vars => IInv'
  BY StepType, StepDelivery, StepRefresh DEF IInv
<1> QED BY InitIInv, <1>1, PTL DEF Spec

\* The cache and what is read of it are literals of the Legato interface.
THEOREM TypeCorrect == Spec => []TypeOK
BY Invariance, PTL DEF IInv

\* With any number of writers that mix their reports in the static cache of
\* ReportLcStateEvent_plus, a handler ends up with the cache as it is.
THEOREM HandlersAreUpToDate == Spec => []HandlersUpToDate
<1>1. IInv => HandlersUpToDate
  <2> SUFFICES ASSUME IInv, \A t \in Writers : ~ Writing(t), NEW h \in handlers,
                      told[h] # Nothing, pending[h] = 0, handler # h, NEW f \in Fields
               PROVE  told[h][f] = cache[f] \/ (f = "state" /\ patched)
    BY DEF HandlersUpToDate
  <2>1. ~ Expects(h)
    BY DEF Expects
  <2> QED BY <2>1 DEF IInv, Delivery, AsCached
<1> QED BY <1>1, Invariance, PTL

\* The cache ends up with each announced member as it is, unless its last
\* writer was behind the members when it wrote.
THEOREM CacheIsCurrent == Spec => []CacheCurrent
<1>1. IInv => CacheCurrent
  BY AheadStep DEF IInv, Refresh, CacheCurrent
<1> QED BY <1>1, Invariance, PTL

=============================================================================
