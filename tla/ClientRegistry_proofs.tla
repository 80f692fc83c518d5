----------------------- MODULE ClientRegistry_proofs ------------------------
(***************************************************************************)
(* What holds of the client registry for every set of threads, names and   *)
(* NAD conditions.                                                         *)
(***************************************************************************)
EXTENDS ClientRegistry, SequenceTheorems, TLAPS

-----------------------------------------------------------------------------
(* Types.                                                                  *)

\* A handler starts with a well-formed set of locals.
LEMMA NoCallType == NoCall \in Calls
  BY NamesAssumption, DefaultAssumption
     DEF NoCall, Calls, Operations, LC_stayActiveEnum, LC_Status, PENDING_TCU_ACTION

\* Erasing an entry leaves a table of clients.
LEMMA RemoveAtType ==
  ASSUME NEW s \in Seq(Clients), NEW i \in 1 .. Len(s)
  PROVE  RemoveAt(s, i) \in Seq(Clients)
  BY DEF RemoveAt

\* Erasing the entry at i moves the later ones down by one.
LEMMA RemoveAtElements ==
  ASSUME NEW S, NEW s \in Seq(S), NEW i \in 1 .. Len(s)
  PROVE  /\ Len(RemoveAt(s, i)) = Len(s) - 1
         /\ \A j \in 1 .. Len(s) - 1 :
              RemoveAt(s, i)[j] = IF j < i THEN s[j] ELSE s[j + 1]
<1> DEFINE front == SubSeq(s, 1, i - 1)
           back  == SubSeq(s, i + 1, Len(s))
<1>1. Len(s) \in Nat /\ i \in Nat
  OBVIOUS
<1>2. /\ front \in Seq(S) /\ Len(front) = i - 1
      /\ \A j \in 1 .. i - 1 : front[j] = s[j]
  BY <1>1
<1>3. /\ back \in Seq(S) /\ Len(back) = Len(s) - i
      /\ \A j \in 1 .. Len(s) - i : back[j] = s[i + j]
  BY <1>1
<1>4. RemoveAt(s, i) = front \o back
  BY DEF RemoveAt
<1> HIDE DEF front, back
<1>5. Len(RemoveAt(s, i)) = Len(s) - 1
  <2>1. Len(front \o back) = Len(front) + Len(back)
    BY <1>2, <1>3, ConcatProperties
  <2> QED BY <1>1, <1>2, <1>3, <1>4, <2>1
<1>6. ASSUME NEW j \in 1 .. Len(s) - 1
      PROVE  RemoveAt(s, i)[j] = IF j < i THEN s[j] ELSE s[j + 1]
  <2>1. CASE j < i
    BY <1>1, <1>2, <1>3, <1>4, <2>1
  <2>2. CASE ~ j < i
    <3>1. RemoveAt(s, i)[j] = back[j - (i - 1)]
      BY <1>1, <1>2, <1>3, <1>4, <2>2
    <3>2. j - (i - 1) \in 1 .. Len(s) - i
      BY <1>1, <2>2
    <3> QED BY <1>1, <1>3, <2>2, <3>1, <3>2
  <2> QED BY <2>1, <2>2
<1> QED BY <1>5, <1>6

\* The initial state is well typed.
LEMMA InitTypeOK == Init => TypeOK
  BY NoCallType DEF Init, TypeOK, Locations

\* A thread that moves to a location keeps the program counters well typed.
LEMMA GotoType ==
  ASSUME NEW t \in Threads, NEW from, NEW to \in Locations,
         pc \in [Threads -> Locations], Goto(t, from, to)
  PROVE  pc' \in [Threads -> Locations]
  BY DEF Goto

\* The arrival of a call with well-formed locals keeps the types.
LEMMA ArriveTypeOK ==
  ASSUME TypeOK, NEW t \in Threads, NEW c \in Calls, NEW to \in Locations,
         Arrive(t, c, to)
  PROVE  TypeOK'
  BY GotoType DEF Arrive, TypeOK, table, Locations

\* The arrival of any call keeps the types.
LEMMA EnterTypeOK ==
  ASSUME TypeOK, NEW t \in Threads, Enter(t)
  PROVE  TypeOK'
<1> PICK name \in Names :
      \/ RegisterClient(t, name)
      \/ UnRegisterClient(t, name)
      \/ \E want \in LC_stayActiveEnum : StayActive(t, name, want)
  BY DEF Enter
<1>1. Clean(name) \in Locations /\ Trim[name] \in Names
  BY NamesAssumption DEF Clean, Locations
<1>2. CASE RegisterClient(t, name)
  <2>1. [NoCall EXCEPT !.op = "LC_RegisterClient", !.name = Trim[name],
                       !.status = IF t \in DBusThreads
                                  THEN "LC_STS_NOT_OK_CLIENT_NOT_REGISTERED"
                                  ELSE DefaultStatus] \in Calls
    BY <1>1, NoCallType, DefaultAssumption DEF NoCall, Calls, Operations, LC_Status
  <2> QED BY <1>1, <1>2, <2>1, ArriveTypeOK DEF RegisterClient
<1>3. CASE UnRegisterClient(t, name)
  <2>1. [NoCall EXCEPT !.op = "LC_UnRegisterClient", !.name = Trim[name],
                       !.status = "LC_STS_NOT_OK"] \in Calls
    BY <1>1, NoCallType DEF NoCall, Calls, Operations, LC_Status
  <2> QED BY <1>1, <1>3, <2>1, ArriveTypeOK DEF UnRegisterClient
<1>4. ASSUME NEW want \in LC_stayActiveEnum, StayActive(t, name, want)
      PROVE  TypeOK'
  <2>1. [NoCall EXCEPT !.op = "LC_StayActive", !.name = name, !.want = want] \in Calls
    BY NoCallType DEF NoCall, Calls, Operations
  <2> QED BY <1>4, <2>1, ArriveTypeOK DEF StayActive, Locations
<1> QED BY <1>2, <1>3, <1>4

\* Storing a stay-active request changes no name and leaves a table of clients.
LEMMA RecordNames ==
  ASSUME TypeOK, NEW t \in Threads, call[t].it \in 1 .. Len(m_clients), Record(t)
  PROVE  /\ m_clients' \in Seq(Clients)
         /\ Len(m_clients') = Len(m_clients)
         /\ \A i \in 1 .. Len(m_clients) : m_clients'[i].name = m_clients[i].name
<1> DEFINE entry == [m_clients[call[t].it] EXCEPT !.stayActive = call[t].want]
<1>1. m_clients' = [m_clients EXCEPT ![call[t].it] = entry]
  BY DEF Record
<1>2. m_clients \in Seq(Clients) /\ call[t].want \in LC_stayActiveEnum
  BY DEF TypeOK, Calls
<1>3. entry \in Clients /\ entry.name = m_clients[call[t].it].name
  <2>1. m_clients[call[t].it] \in Clients
    BY <1>2
  <2> QED BY <1>2, <2>1 DEF Clients
<1> HIDE DEF entry
<1> QED BY <1>1, <1>2, <1>3, ExceptSeq

\* A handler that settles its status keeps the locals well typed.
LEMMA AnswerType ==
  ASSUME TypeOK, NEW t \in Threads, NEW from, NEW to \in Locations,
         NEW status \in LC_Status, Answer(t, from, to, status)
  PROVE  pc' \in [Threads -> Locations] /\ call' \in [Threads -> Calls]
  BY GotoType DEF Answer, TypeOK, Calls

\* Every step of a handler on the entry it found keeps the types.
LEMMA EvaluateTypeOK ==
  ASSUME TypeOK, IteratorsValid, NEW t \in Threads, Evaluate(t)
  PROVE  TypeOK'
<1> DEFINE c == call[t]
<1>1. c \in Calls /\ c.name \in Names /\ c.want \in LC_stayActiveEnum
      /\ c.status \in LC_Status /\ c.it \in Nat
  BY DEF TypeOK, Calls
<1>2. pc[t] = "evaluate" /\ Found(t) => c.it \in 1 .. Len(m_clients)
  BY <1>1 DEF IteratorsValid, Found, TypeOK
<1>3. {"unlock", "send"} \subseteq Locations /\ {"LC_STS_OK", "LC_STS_NOT_OK",
      "LC_STS_OK_CLIENT_ALREADY_REGISTERED"} \subseteq LC_Status
  BY DEF Locations, LC_Status
<1>4. CASE EvaluateRegister(t)
  <2>1. pc' \in [Threads -> Locations] /\ call' \in [Threads -> Calls]
    BY <1>3, <1>4, AnswerType DEF EvaluateRegister
  <2>2. m_clients' \in Seq(Clients)
    <3>1. [name |-> c.name, stayActive |-> "LC_RELEASE"] \in Clients
      BY <1>1 DEF Clients, LC_stayActiveEnum
    <3> QED BY <1>4, <3>1 DEF EvaluateRegister, TypeOK
  <2> QED BY <1>4, <2>1, <2>2 DEF EvaluateRegister, TypeOK
<1>5. CASE EvaluateUnRegister(t)
  <2>1. pc' \in [Threads -> Locations] /\ call' \in [Threads -> Calls]
    BY <1>3, <1>5, AnswerType DEF EvaluateUnRegister
  <2>2. m_clients' \in Seq(Clients)
    <3>1. pc[t] = "evaluate"
      BY <1>5 DEF EvaluateUnRegister, Answer, Goto
    <3> QED BY <1>2, <1>5, <3>1, RemoveAtType DEF EvaluateUnRegister, TypeOK
  <2> QED BY <1>5, <2>1, <2>2 DEF EvaluateUnRegister, TypeOK
<1>6. CASE RefuseUnknown(t)
  BY <1>3, <1>6, AnswerType DEF RefuseUnknown, TypeOK, table
<1>7. ASSUME NEW status \in LC_Status, NEW action \in PENDING_TCU_ACTION,
             Decide(t, status, action)
      PROVE  /\ pc' \in [Threads -> Locations] /\ call' \in [Threads -> Calls]
             /\ owed' \in PENDING_TCU_ACTION
  BY <1>3, <1>7, GotoType DEF Decide, TypeOK, Calls
<1>8. {"STAY_ACTIVE", "STAY_INACTIVE"} \subseteq PENDING_TCU_ACTION
  BY DEF PENDING_TCU_ACTION
<1>9. CASE Grant(t)
  <2>1. /\ pc' \in [Threads -> Locations] /\ call' \in [Threads -> Calls]
        /\ owed' \in PENDING_TCU_ACTION
    BY <1>3, <1>7, <1>8, <1>9 DEF Grant
  <2>2. m_clients' \in Seq(Clients)
    BY <1>2, <1>9, RecordNames DEF Grant, Decide, Goto, TypeOK
  <2> QED BY <1>9, <2>1, <2>2 DEF Grant, TypeOK
<1>10. CASE Refuse(t)
  <2>1. /\ pc' \in [Threads -> Locations] /\ call' \in [Threads -> Calls]
        /\ owed' \in PENDING_TCU_ACTION
    BY <1>3, <1>7, <1>8, <1>10 DEF Refuse
  <2> QED BY <1>10, <2>1 DEF Refuse, TypeOK, table
<1> QED BY <1>4, <1>5, <1>6, <1>9, <1>10 DEF Evaluate

\* Every step of a handler, and of the NAD state, keeps the types.
LEMMA NextTypeOK ==
  ASSUME TypeOK, IteratorsValid, [Next]_vars
  PROVE  TypeOK'
<1>1. ASSUME NEW t \in Threads, TakeMutex(t)
      PROVE  TypeOK'
  BY <1>1, GotoType DEF TakeMutex, Lock, PrintLock, Acquire, TypeOK, Locations
<1>2. ASSUME NEW t \in Threads, Find(t)
      PROVE  TypeOK'
  <2>1. nad.state \in LC_State
    BY ConditionsAssumption DEF TypeOK
  <2>2. call' \in [Threads -> Calls]
    <3> PICK i \in 1 .. Len(m_clients) + 1 :
          call' = [call EXCEPT ![t].it = i,
                               ![t].services = nad.state = "NAD_STAY_ALIVE_SERVICES"]
      BY <1>2 DEF Find
    <3>1. i \in Nat
      BY DEF TypeOK
    <3>2. [call[t] EXCEPT !.it = i,
                          !.services = nad.state = "NAD_STAY_ALIVE_SERVICES"] \in Calls
      BY <3>1 DEF TypeOK, Calls
    <3> QED BY <3>2 DEF TypeOK
  <2> QED BY <1>2, <2>1, <2>2, GotoType DEF Find, TypeOK, Locations, table
<1>3. ASSUME NEW t \in Threads, Send(t)
      PROVE  TypeOK'
  <2>1. call[t].action \in PENDING_TCU_ACTION
    BY DEF TypeOK, Calls
  <2>2. Heard \in PENDING_TCU_ACTION \union {"NONE"}
    BY DEF Heard, Last, TypeOK
  <2>3. /\ late' \in Seq(PENDING_TCU_ACTION)
        /\ tcu' \in PENDING_TCU_ACTION \union {"NONE"}
        /\ owed' \in PENDING_TCU_ACTION \union {"NONE"}
    <3>1. CASE late = <<>> /\ tcu' = call[t].action /\ UNCHANGED <<late, owed>>
      BY <2>1, <3>1 DEF TypeOK
    <3>2. CASE late' = Append(late, call[t].action) /\ UNCHANGED <<tcu, owed>>
      BY <2>1, <3>2 DEF TypeOK
    <3>3. CASE owed' = Heard /\ UNCHANGED <<tcu, late>>
      BY <2>2, <3>3 DEF TypeOK
    <3> QED BY <1>3, <3>1, <3>2, <3>3 DEF Send
  <2> QED BY <1>3, <2>3, GotoType DEF Send, TypeOK, Locations, table
<1>4. ASSUME NEW t \in Threads, Store(t)
      PROVE  TypeOK'
  <2>1. call[t].it \in 1 .. Len(m_clients)
    BY <1>4 DEF Store, Goto, IteratorsValid, Found, TypeOK, Calls
  <2> QED BY <1>4, <2>1, RecordNames, GotoType DEF Store, TypeOK, Locations
<1>5. ASSUME NEW t \in Threads, Finish(t)
      PROVE  TypeOK'
  <2>1. CASE Unlock(t)
    <3>1. call' \in [Threads -> Calls]
      BY <2>1 DEF Unlock, TypeOK, Calls
    <3> QED BY <2>1, <3>1, GotoType DEF Unlock, Release, TypeOK, Locations
  <2>2. CASE PrintClients(t)
    BY <2>2, GotoType DEF PrintClients, Release, TypeOK, Locations
  <2>3. CASE PrintBlank(t)
    BY <2>3, GotoType, NoCallType DEF PrintBlank, Release, TypeOK, Locations
  <2>4. CASE Reply(t)
    BY <2>4, GotoType, NoCallType DEF Reply, TypeOK, Locations, table
  <2> QED BY <1>5, <2>1, <2>2, <2>3, <2>4 DEF Finish
<1>6. ASSUME NEW c \in Conditions, PublishState(c)
      PROVE  TypeOK'
  BY <1>6, ConditionsAssumption DEF PublishState, TypeOK, table, control
<1>7. CASE TakeLate
  <2>1. Head(late) \in PENDING_TCU_ACTION /\ Tail(late) \in Seq(PENDING_TCU_ACTION)
    BY <1>7 DEF TakeLate, TypeOK
  <2> QED BY <1>7, <2>1 DEF TakeLate, TypeOK, table, control
<1>8. CASE UNCHANGED vars
  BY <1>8 DEF vars, TypeOK
<1> QED BY <1>1, <1>2, <1>3, <1>4, <1>5, <1>6, <1>7, <1>8, EnterTypeOK, EvaluateTypeOK
        DEF Next, Proceed

-----------------------------------------------------------------------------
(* The mutex.                                                              *)

\* A thread enters the locked locations by taking the mutex and leaves them by
\* releasing it.
LEMMA NextMutexOwned ==
  ASSUME TypeOK, MutexOwned, [Next]_vars
  PROVE  MutexOwned'
<1> USE DEF MutexOwned, Locked, Goto
<1>1. ASSUME NEW t \in Threads, Enter(t)
      PROVE  MutexOwned'
  BY <1>1 DEF Enter, RegisterClient, UnRegisterClient, StayActive, Arrive, Clean, table, TypeOK
<1>2. ASSUME NEW t \in Threads, TakeMutex(t)
      PROVE  MutexOwned'
  BY <1>2, ThreadsAssumption DEF TakeMutex, Lock, PrintLock, Acquire, TypeOK, Threads
<1>3. ASSUME NEW t \in Threads, Find(t)
      PROVE  MutexOwned'
  BY <1>3 DEF Find, table, TypeOK
<1>4. ASSUME NEW t \in Threads, Evaluate(t)
      PROVE  MutexOwned'
  BY <1>4 DEF Evaluate, EvaluateRegister, EvaluateUnRegister, RefuseUnknown, Grant, Refuse,
              Answer, Decide, table, TypeOK
<1>5. ASSUME NEW t \in Threads, Send(t) \/ Store(t)
      PROVE  MutexOwned'
  BY <1>5 DEF Send, Store, table, TypeOK
<1>6. ASSUME NEW t \in Threads, Finish(t)
      PROVE  MutexOwned'
  BY <1>6, ThreadsAssumption
  DEF Finish, Unlock, PrintClients, PrintBlank, Reply, Release, table, TypeOK, Threads
<1>7. ASSUME NEW c \in Conditions, PublishState(c)
      PROVE  MutexOwned'
  BY <1>7 DEF PublishState, table, control
<1>8. CASE TakeLate
  BY <1>8 DEF TakeLate, table, control
<1>9. CASE UNCHANGED vars
  BY <1>9 DEF vars
<1> QED BY <1>1, <1>2, <1>3, <1>4, <1>5, <1>6, <1>7, <1>8, <1>9 DEF Next, Proceed

\* Two threads are never in the locked locations at once.
LEMMA Alone ==
  ASSUME MutexOwned, NEW t \in Threads, NEW u \in Threads,
         pc[t] \in Locked, pc[u] \in Locked
  PROVE  u = t
  BY DEF MutexOwned

-----------------------------------------------------------------------------
(* The iterators.                                                          *)

\* What IteratorsValid says of one thread.
IteratorValid(t) ==
  pc[t] \in {"evaluate", "send", "store"} =>
    /\ Found(t) => call[t].it # 0 /\ m_clients[call[t].it].name = call[t].name
    /\ ~ Found(t) => /\ pc[t] = "evaluate"
                     /\ \A i \in DOMAIN m_clients : m_clients[i].name # call[t].name

\* A step that leaves the table alone leaves the other threads' iterators alone.
LEMMA OthersIterators ==
  ASSUME IteratorsValid, UNCHANGED m_clients, NEW t \in Threads,
         \A u \in Threads \ {t} : pc'[u] = pc[u] /\ call'[u] = call[u],
         IteratorValid(t)'
  PROVE  IteratorsValid'
  BY DEF IteratorsValid, IteratorValid, Found

\* A step inside the mutex leaves the other threads without an iterator.
LEMMA LockedIterators ==
  ASSUME MutexOwned, NEW t \in Threads, pc[t] \in Locked,
         \A u \in Threads \ {t} : pc'[u] = pc[u],
         IteratorValid(t)'
  PROVE  IteratorsValid'
<1>1. \A u \in Threads \ {t} : pc[u] \notin Locked
  BY Alone
<1> QED BY <1>1 DEF IteratorsValid, IteratorValid, Found, Locked

\* The search of a thread, and what it does with the result, keep the
\* iterators valid.
LEMMA NextIteratorsValid ==
  ASSUME TypeOK, MutexOwned, IteratorsValid, [Next]_vars
  PROVE  IteratorsValid'
<1>1. ASSUME NEW t \in Threads, Enter(t)
      PROVE  IteratorsValid'
  <2>1. /\ UNCHANGED m_clients
        /\ pc'[t] \in {"lock", "printLock"}
        /\ \A u \in Threads \ {t} : pc'[u] = pc[u] /\ call'[u] = call[u]
    BY <1>1 DEF Enter, RegisterClient, UnRegisterClient, StayActive, Arrive, Clean,
                Goto, table, TypeOK
  <2> QED BY <2>1, OthersIterators DEF IteratorValid
<1>2. ASSUME NEW t \in Threads, TakeMutex(t) \/ Finish(t)
      PROVE  IteratorsValid'
  <2>1. /\ UNCHANGED m_clients
        /\ pc'[t] \notin {"evaluate", "send", "store"}
        /\ \A u \in Threads \ {t} : pc'[u] = pc[u] /\ call'[u] = call[u]
    BY <1>2 DEF TakeMutex, Lock, PrintLock, Finish, Unlock, PrintClients, PrintBlank, Reply,
                Goto, table, TypeOK
  <2> QED BY <2>1, OthersIterators DEF IteratorValid
<1>3. ASSUME NEW t \in Threads, Find(t)
      PROVE  IteratorsValid'
  <2> PICK i \in 1 .. Len(m_clients) + 1 :
        /\ \A j \in 1 .. i - 1 : m_clients[j].name # call[t].name
        /\ i \in DOMAIN m_clients => m_clients[i].name = call[t].name
        /\ call' = [call EXCEPT ![t].it = i,
                                ![t].services = nad.state = "NAD_STAY_ALIVE_SERVICES"]
    BY <1>3 DEF Find
  <2>1. /\ UNCHANGED m_clients
        /\ pc'[t] = "evaluate" /\ call'[t].it = i /\ call'[t].name = call[t].name
        /\ \A u \in Threads \ {t} : pc'[u] = pc[u] /\ call'[u] = call[u]
    BY <1>3 DEF Find, Goto, table, TypeOK, Calls
  <2>2. Len(m_clients) \in Nat /\ DOMAIN m_clients = 1 .. Len(m_clients)
    BY DEF TypeOK
  <2>3. i \in Nat /\ i # 0
    BY <2>2
  <2>4. i <= Len(m_clients) => m_clients[i].name = call[t].name
    BY <2>2, <2>3
  <2>5. ~ i <= Len(m_clients) =>
          \A j \in DOMAIN m_clients : m_clients[j].name # call[t].name
    BY <2>2, <2>3
  <2>6. IteratorValid(t)'
    BY <2>1, <2>3, <2>4, <2>5 DEF IteratorValid, Found
  <2> QED BY <2>1, <2>6, OthersIterators
<1>4. ASSUME NEW t \in Threads, Evaluate(t)
      PROVE  IteratorsValid'
  <2>1. pc[t] = "evaluate" /\ \A u \in Threads \ {t} : pc'[u] = pc[u]
    BY <1>4 DEF Evaluate, EvaluateRegister, EvaluateUnRegister, RefuseUnknown, Grant, Refuse,
                Answer, Decide, Goto, TypeOK
  <2>2. CASE EvaluateRegister(t) \/ EvaluateUnRegister(t) \/ RefuseUnknown(t)
    <3>1. pc'[t] = "unlock"
      BY <2>2 DEF EvaluateRegister, EvaluateUnRegister, RefuseUnknown, Answer, Goto, TypeOK
    <3> QED BY <2>1, <3>1, LockedIterators DEF IteratorValid, Locked
  <2>3. CASE Grant(t) \/ Refuse(t)
    <3>1. Found(t) /\ call'[t].it = call[t].it /\ call'[t].name = call[t].name
      BY <2>3 DEF Grant, Refuse, Decide, TypeOK, Calls
    <3>2. call[t].it \in 1 .. Len(m_clients) /\ m_clients[call[t].it].name = call[t].name
      BY <2>1, <3>1 DEF IteratorsValid, Found, TypeOK, Calls
    <3>3. /\ Len(m_clients') = Len(m_clients)
          /\ \A i \in 1 .. Len(m_clients) : m_clients'[i].name = m_clients[i].name
      BY <2>3, <3>2, RecordNames DEF Grant, Refuse, table
    <3>4. IteratorValid(t)'
      BY <3>1, <3>2, <3>3 DEF IteratorValid, Found
    <3> QED BY <2>1, <3>4, LockedIterators DEF Locked
  <2> QED BY <1>4, <2>2, <2>3 DEF Evaluate
<1>5. ASSUME NEW t \in Threads, Send(t)
      PROVE  IteratorsValid'
  <2>1. /\ UNCHANGED <<m_clients, call>>
        /\ pc[t] = "send" /\ pc'[t] \in {"store", "unlock"}
        /\ \A u \in Threads \ {t} : pc'[u] = pc[u] /\ call'[u] = call[u]
    BY <1>5 DEF Send, Goto, table, TypeOK
  <2>2. IteratorValid(t)'
    BY <2>1 DEF IteratorValid, IteratorsValid, Found
  <2> QED BY <2>1, <2>2, OthersIterators
<1>6. ASSUME NEW t \in Threads, Store(t)
      PROVE  IteratorsValid'
  <2>1. /\ pc[t] = "store" /\ pc'[t] = "unlock"
        /\ \A u \in Threads \ {t} : pc'[u] = pc[u]
    BY <1>6 DEF Store, Goto, TypeOK
  <2> QED BY <2>1, LockedIterators DEF IteratorValid, Locked
<1>7. ASSUME NEW c \in Conditions, PublishState(c)
      PROVE  IteratorsValid'
  BY <1>7 DEF PublishState, table, control, IteratorsValid, Found
<1>8. CASE TakeLate
  BY <1>8 DEF TakeLate, table, control, IteratorsValid, Found
<1>9. CASE UNCHANGED vars
  BY <1>9 DEF vars, IteratorsValid, Found
<1> QED BY <1>1, <1>2, <1>3, <1>4, <1>5, <1>6, <1>7, <1>8, <1>9 DEF Next, Proceed

-----------------------------------------------------------------------------
(* The table holds a client once.                                          *)

\* What the handlers rely on stays true while they run: see Strengthening.
LEMMA NextStrengthening ==
  ASSUME TypeOK, MutexOwned, Strengthening, [Next]_vars
  PROVE  Strengthening'
<1> USE DEF Strengthening, HandlerFacts, Goto
<1>1. ASSUME NEW t \in Threads, Enter(t)
      PROVE  Strengthening'
  <2>1. /\ pc'[t] \in {"lock", "printLock"}
        /\ UNCHANGED <<nad, owed, seen>>
        /\ \A u \in Threads \ {t} : pc'[u] = pc[u] /\ call'[u] = call[u]
    BY <1>1 DEF Enter, RegisterClient, UnRegisterClient, StayActive, Arrive, Clean, TypeOK
  <2>2. ASSUME call'[t].op = "LC_RegisterClient", pc'[t] = "lock"
        PROVE  call'[t].name # Blank /\ Trim[call'[t].name] = call'[t].name
    <3> PICK name \in Names :
          \/ RegisterClient(t, name)
          \/ UnRegisterClient(t, name)
          \/ \E want \in LC_stayActiveEnum : StayActive(t, name, want)
      BY <1>1 DEF Enter
    <3>1. ~ UnRegisterClient(t, name)
      BY <2>2 DEF UnRegisterClient, Arrive, NoCall, TypeOK
    <3>2. ~ \E want \in LC_stayActiveEnum : StayActive(t, name, want)
      BY <2>2 DEF StayActive, Arrive, NoCall, TypeOK
    <3>3. RegisterClient(t, name)
      BY <3>1, <3>2
    <3>4. call'[t].name = Trim[name] /\ Trim[name] # Blank
      BY <2>2, <3>3 DEF RegisterClient, Arrive, Clean, NoCall, TypeOK
    <3> QED BY <3>4, NamesAssumption
  <2> QED BY <2>1, <2>2
<1>2. ASSUME NEW t \in Threads, TakeMutex(t)
      PROVE  Strengthening'
  BY <1>2 DEF TakeMutex, Lock, PrintLock, TypeOK
<1>3. ASSUME NEW t \in Threads, Find(t)
      PROVE  Strengthening'
  <2> PICK i \in 1 .. Len(m_clients) + 1 :
        call' = [call EXCEPT ![t].it = i,
                             ![t].services = nad.state = "NAD_STAY_ALIVE_SERVICES"]
    BY <1>3 DEF Find
  <2>1. /\ call'[t].op = call[t].op /\ call'[t].name = call[t].name
        /\ call'[t].services = (nad.state = "NAD_STAY_ALIVE_SERVICES")
        /\ \A u \in Threads \ {t} : call'[u] = call[u]
    BY DEF TypeOK, Calls
  <2>2. /\ pc[t] = "find" /\ pc'[t] = "evaluate" /\ seen'[t] = {nad.state}
        /\ UNCHANGED <<owed, nad>>
        /\ \A u \in Threads \ {t} : pc'[u] = pc[u] /\ seen'[u] = seen[u]
    BY <1>3 DEF Find, TypeOK
  <2>3. HandlerFacts(t)'
    BY <2>1, <2>2
  <2>4. ASSUME NEW u \in Threads \ {t}
        PROVE  HandlerFacts(u)'
    <3>1. HandlerFacts(u)
      OBVIOUS
    <3>2. /\ pc'[u] = pc[u] /\ call'[u] = call[u] /\ seen'[u] = seen[u]
          /\ nad' = nad /\ owed' = owed
      BY <2>1, <2>2
    <3> QED BY ONLY <3>1, <3>2 DEF HandlerFacts
  <2> QED BY <2>3, <2>4
<1>4. ASSUME NEW t \in Threads, Evaluate(t)
      PROVE  Strengthening'
  <2>1. CASE EvaluateRegister(t) \/ EvaluateUnRegister(t) \/ RefuseUnknown(t)
    BY <2>1 DEF EvaluateRegister, EvaluateUnRegister, RefuseUnknown, Answer, table, TypeOK
  <2>2. CASE Grant(t) \/ Refuse(t)
    <3>1. /\ pc[t] = "evaluate" /\ pc'[t] = "send"
          /\ UNCHANGED <<nad, seen>>
          /\ \A u \in Threads \ {t} : pc'[u] = pc[u]
      BY <2>2 DEF Grant, Refuse, Decide, TypeOK
    <3>2. ASSUME NEW status, NEW action, Decide(t, status, action)
          PROVE  /\ owed' = call'[t].action
                 /\ call'[t].op = call[t].op
                 /\ \A u \in Threads \ {t} : call'[u] = call[u]
      BY <3>2 DEF Decide, TypeOK, Calls
    <3>3. \A u \in Threads \ {t} : pc[u] # "send"
      BY <3>1, Alone DEF Locked
    <3>4. /\ owed' = call'[t].action /\ call'[t].op = call[t].op
          /\ \A u \in Threads \ {t} : call'[u] = call[u]
      BY <2>2, <3>2 DEF Grant, Refuse
    <3> QED BY <3>1, <3>3, <3>4
  <2> QED BY <1>4, <2>1, <2>2 DEF Evaluate
<1>5. ASSUME NEW t \in Threads, Send(t)
      PROVE  Strengthening'
  <2>1. \A u \in Threads \ {t} : pc[u] # "send"
    BY <1>5, Alone DEF Locked, Send
  <2> QED BY <1>5, <2>1 DEF Send, table, TypeOK
<1>6. ASSUME NEW t \in Threads, Store(t) \/ Finish(t)
      PROVE  Strengthening'
  BY <1>6 DEF Store, Finish, Unlock, PrintClients, PrintBlank, Reply, Release, table, TypeOK
<1>7. ASSUME NEW c \in Conditions, PublishState(c)
      PROVE  Strengthening'
  BY <1>7 DEF PublishState, table, control, TypeOK
<1>8. CASE TakeLate
  BY <1>8 DEF TakeLate, control
<1>9. CASE UNCHANGED vars
  BY <1>9 DEF vars
<1> QED BY <1>1, <1>2, <1>3, <1>4, <1>5, <1>6, <1>7, <1>8, <1>9 DEF Next, Proceed

\* UniqueNames speaks of the names in the table only.
LEMMA SameNames ==
  ASSUME UniqueNames, m_clients \in Seq(Clients), m_clients' \in Seq(Clients),
         Len(m_clients') = Len(m_clients),
         \A i \in 1 .. Len(m_clients) : m_clients'[i].name = m_clients[i].name
  PROVE  UniqueNames'
  BY DEF UniqueNames

\* No step registers a name twice, or a name that is not trimmed.
LEMMA NextUniqueNames ==
  ASSUME TypeOK, IteratorsValid, Strengthening, UniqueNames, [Next]_vars
  PROVE  UniqueNames'
<1>1. CASE UNCHANGED m_clients
  BY <1>1 DEF UniqueNames
<1>2. ASSUME NEW t \in Threads, EvaluateRegister(t)
      PROVE  UniqueNames'
  <2> DEFINE client == [name |-> call[t].name, stayActive |-> "LC_RELEASE"]
  <2>1. CASE ~ UNCHANGED m_clients
    <3>1. /\ pc[t] = "evaluate" /\ call[t].op = "LC_RegisterClient"
          /\ ~ Found(t) /\ m_clients' = Append(m_clients, client)
      BY <1>2, <2>1 DEF EvaluateRegister, Answer, Goto
    <3>2. \A i \in DOMAIN m_clients : m_clients[i].name # call[t].name
      BY <3>1 DEF IteratorsValid
    <3>3. call[t].name # Blank /\ Trim[call[t].name] = call[t].name
      BY <3>1 DEF Strengthening, HandlerFacts
    <3>4. /\ m_clients \in Seq(Clients) /\ client.name = call[t].name
          /\ Len(m_clients') = Len(m_clients) + 1
          /\ \A i \in 1 .. Len(m_clients) : m_clients'[i] = m_clients[i]
          /\ m_clients'[Len(m_clients) + 1] = client
          /\ DOMAIN m_clients' = 1 .. Len(m_clients) + 1
      BY <3>1 DEF TypeOK
    <3> HIDE DEF client
    <3> QED BY <3>2, <3>3, <3>4 DEF UniqueNames
  <2> QED BY <1>1, <2>1
<1>3. ASSUME NEW t \in Threads, EvaluateUnRegister(t)
      PROVE  UniqueNames'
  <2>1. CASE Found(t) /\ m_clients' = RemoveAt(m_clients, call[t].it)
    <3>1. m_clients \in Seq(Clients) /\ call[t].it \in 1 .. Len(m_clients)
      BY <1>3, <2>1 DEF EvaluateUnRegister, Answer, Goto, IteratorsValid, Found, TypeOK, Calls
    <3>2. /\ m_clients' \in Seq(Clients)
          /\ Len(m_clients') = Len(m_clients) - 1
          /\ \A j \in 1 .. Len(m_clients) - 1 :
               m_clients'[j] = IF j < call[t].it THEN m_clients[j] ELSE m_clients[j + 1]
      BY <2>1, <3>1, RemoveAtElements, RemoveAtType
    <3>3. DOMAIN m_clients = 1 .. Len(m_clients) /\ Len(m_clients) \in Nat
          /\ DOMAIN m_clients' = 1 .. Len(m_clients) - 1
      BY <3>1, <3>2
    <3> DEFINE old(j) == IF j < call[t].it THEN j ELSE j + 1
    <3>4. \A j \in 1 .. Len(m_clients) - 1 :
            old(j) \in 1 .. Len(m_clients) /\ m_clients'[j] = m_clients[old(j)]
      BY <3>1, <3>2, <3>3
    <3>5. \A i, j \in 1 .. Len(m_clients) - 1 : old(i) = old(j) => i = j
      BY <3>1, <3>3
    <3> HIDE DEF old
    <3> QED BY <3>3, <3>4, <3>5 DEF UniqueNames
  <2> QED BY <1>1, <1>3, <2>1 DEF EvaluateUnRegister
<1>4. ASSUME NEW t \in Threads, Record(t), pc[t] \in {"evaluate", "store"}, Found(t)
      PROVE  UniqueNames'
  <2>1. call[t].it \in 1 .. Len(m_clients)
    BY <1>4 DEF IteratorsValid, Found, TypeOK, Calls
  <2> QED BY <1>4, <2>1, RecordNames, SameNames DEF TypeOK
<1>5. ASSUME NEW t \in Threads, Grant(t) \/ Store(t)
      PROVE  UniqueNames'
  BY <1>1, <1>4, <1>5 DEF Grant, Decide, Store, Goto, IteratorsValid
<1>6. ASSUME NEW t \in Threads, TakeMutex(t) \/ Enter(t) \/ Find(t) \/ RefuseUnknown(t)
                                \/ Refuse(t) \/ Send(t) \/ Finish(t)
      PROVE  UNCHANGED m_clients
  BY <1>6 DEF TakeMutex, Lock, PrintLock, Enter, RegisterClient, UnRegisterClient, StayActive,
     Arrive, Find, RefuseUnknown, Refuse, Send, Finish, Unlock, PrintClients, PrintBlank,
     Reply, table
<1>7. ASSUME NEW c \in Conditions, PublishState(c)
      PROVE  UNCHANGED m_clients
  BY <1>7 DEF PublishState, table
<1>8. CASE TakeLate
  BY <1>1, <1>8 DEF TakeLate, table
<1>9. CASE UNCHANGED vars
  BY <1>1, <1>9 DEF vars
<1> QED BY <1>1, <1>2, <1>3, <1>5, <1>6, <1>7, <1>8, <1>9 DEF Next, Proceed, Evaluate

-----------------------------------------------------------------------------
(* What the microcontroller hears, and how a request is judged.            *)

\* Deciding and sending both happen inside the mutex, so no decision is taken
\* between another one and its message.
LEMMA NextMcuHeardLastDecision ==
  ASSUME TypeOK, MutexOwned, Strengthening, McuHeardLastDecision, [Next]_vars
  PROVE  McuHeardLastDecision'
<1>1. ASSUME NEW t \in Threads, Grant(t) \/ Refuse(t)
      PROVE  McuHeardLastDecision'
  BY <1>1 DEF Grant, Refuse, Decide, Goto, TypeOK, McuHeardLastDecision
<1>2. ASSUME NEW t \in Threads, Send(t)
      PROVE  McuHeardLastDecision'
  <2>1. owed = call[t].action
    BY <1>2 DEF Send, Goto, Strengthening, HandlerFacts
  <2>2. CASE late = <<>> /\ tcu' = call[t].action /\ UNCHANGED <<late, owed>>
    BY <2>1, <2>2 DEF McuHeardLastDecision, Heard
  <2>3. CASE late' = Append(late, call[t].action) /\ UNCHANGED <<tcu, owed>>
    <3>1. late \in Seq(PENDING_TCU_ACTION) /\ call[t].action \in PENDING_TCU_ACTION
      BY DEF TypeOK, Calls
    <3>2. Len(late') = Len(late) + 1 /\ late'[Len(late) + 1] = call[t].action
          /\ Len(late) \in Nat
      BY <2>3, <3>1
    <3>3. Last(late') = call[t].action
      BY <3>2 DEF Last
    <3>4. late' # <<>>
      BY <3>2
    <3> QED BY <2>1, <2>3, <3>3, <3>4 DEF McuHeardLastDecision, Heard
  <2>4. CASE owed' = Heard /\ UNCHANGED <<tcu, late>>
    BY <2>4 DEF McuHeardLastDecision, Heard
  <2> QED BY <1>2, <2>2, <2>3, <2>4 DEF Send
<1>3. ASSUME UNCHANGED <<tcu, late, owed>>,
             \A t \in Threads : pc[t] = "send" <=> pc'[t] = "send"
      PROVE  McuHeardLastDecision'
  BY <1>3 DEF McuHeardLastDecision, Heard
<1>4. ASSUME NEW t \in Threads, Enter(t) \/ TakeMutex(t) \/ Find(t) \/ Store(t) \/ Finish(t)
      PROVE  McuHeardLastDecision'
  BY <1>3, <1>4 DEF Enter, RegisterClient, UnRegisterClient, StayActive, Arrive, Clean,
     TakeMutex, Lock, PrintLock, Find, Store, Finish, Unlock, PrintClients, PrintBlank,
     Reply, Goto, TypeOK
<1>5. ASSUME NEW t \in Threads,
             EvaluateRegister(t) \/ EvaluateUnRegister(t) \/ RefuseUnknown(t)
      PROVE  McuHeardLastDecision'
  BY <1>3, <1>5
  DEF EvaluateRegister, EvaluateUnRegister, RefuseUnknown, Answer, Goto, TypeOK
<1>6. ASSUME NEW c \in Conditions, PublishState(c)
      PROVE  McuHeardLastDecision'
  BY <1>3, <1>6 DEF PublishState, control
<1>7. CASE TakeLate
  <2>1. Heard' = Heard
    <3>1. /\ late \in Seq(PENDING_TCU_ACTION) /\ late # <<>>
          /\ tcu' = Head(late) /\ late' = Tail(late)
      BY <1>7 DEF TakeLate, TypeOK
    <3>2. Len(late') = Len(late) - 1 /\ Len(late) \in Nat \ {0}
          /\ \A i \in 1 .. Len(late) - 1 : late'[i] = late[i + 1]
      BY <3>1, HeadTailProperties
    <3>3. CASE Len(late) = 1
      <4>1. late' = <<>> /\ Head(late) = late[1]
        BY <3>1, <3>3
      <4> QED BY <3>1, <3>3, <4>1 DEF Heard, Last
    <3>4. CASE Len(late) # 1
      <4>1. late' # <<>> /\ Len(late') \in 1 .. Len(late) - 1
        BY <3>2, <3>4
      <4>2. late'[Len(late')] = late[Len(late)]
        BY <3>2, <4>1
      <4> QED BY <3>1, <4>1, <4>2 DEF Heard, Last
    <3> QED BY <3>3, <3>4
  <2> QED BY <1>7, <2>1 DEF TakeLate, control, McuHeardLastDecision
<1>8. CASE UNCHANGED vars
  BY <1>3, <1>8 DEF vars
<1> QED BY <1>1, <1>2, <1>4, <1>5, <1>6, <1>7, <1>8 DEF Next, Proceed, Evaluate

\* The two looks at the NAD state together see a stay-alive state the NAD is in
\* all the time.
LEMMA NextVerdictMatchesWindow ==
  ASSUME TypeOK, MutexOwned, Strengthening, VerdictMatchesWindow, [Next]_vars
  PROVE  VerdictMatchesWindow'
<1> DEFINE Verdict(t) ==
      pc[t] = "send" /\ call[t].want = "LC_LOCK" =>
        /\ call[t].status = "LC_STS_OK" => seen[t] \intersect StayAliveStates # {}
        /\ call[t].status = "LC_STS_NOT_OK" => \A s \in StayAliveStates : seen[t] # {s}
<1>1. ASSUME NEW t \in Threads, pc'[t] # "send" \/ Verdict(t)',
             \A u \in Threads \ {t} :
               pc'[u] = pc[u] /\ call'[u] = call[u] /\ seen'[u] = seen[u]
      PROVE  VerdictMatchesWindow'
  BY <1>1 DEF VerdictMatchesWindow
<1>2. ASSUME NEW t \in Threads, Enter(t) \/ TakeMutex(t) \/ Find(t) \/ Send(t) \/ Store(t)
                                \/ Finish(t)
      PROVE  VerdictMatchesWindow'
  <2>1. /\ pc'[t] # "send"
        /\ \A u \in Threads \ {t} :
             pc'[u] = pc[u] /\ call'[u] = call[u] /\ seen'[u] = seen[u]
    BY <1>2 DEF Enter, RegisterClient, UnRegisterClient, StayActive, Arrive, Clean, TakeMutex,
       Lock, PrintLock, Find, Send, Store, Finish, Unlock, PrintClients, PrintBlank, Reply,
       Goto, TypeOK
  <2> QED BY <1>1, <2>1
<1>3. ASSUME NEW t \in Threads,
             EvaluateRegister(t) \/ EvaluateUnRegister(t) \/ RefuseUnknown(t)
      PROVE  VerdictMatchesWindow'
  <2>1. /\ pc'[t] # "send"
        /\ \A u \in Threads \ {t} :
             pc'[u] = pc[u] /\ call'[u] = call[u] /\ seen'[u] = seen[u]
    BY <1>3 DEF EvaluateRegister, EvaluateUnRegister, RefuseUnknown, Answer, Goto, TypeOK
  <2> QED BY <1>1, <2>1
<1>4. ASSUME NEW t \in Threads, Grant(t) \/ Refuse(t)
      PROVE  VerdictMatchesWindow'
  <2>1. /\ pc[t] = "evaluate" /\ UNCHANGED <<nad, seen>>
        /\ \A u \in Threads \ {t} : pc'[u] = pc[u] /\ call'[u] = call[u]
    BY <1>4 DEF Grant, Refuse, Decide, Goto, TypeOK
  <2>2. call'[t].want = call[t].want /\ call'[t].status =
          IF Permitted(t) THEN "LC_STS_OK" ELSE "LC_STS_NOT_OK"
    BY <1>4 DEF Grant, Refuse, Decide, TypeOK, Calls
  <2>3. ASSUME call[t].want = "LC_LOCK", Permitted(t)
        PROVE  seen[t] \intersect StayAliveStates # {}
    BY <2>1, <2>3 DEF Permitted, StayAlive, Strengthening, HandlerFacts, StayAliveStates
  <2>4. ASSUME call[t].want = "LC_LOCK", ~ Permitted(t)
        PROVE  \A s \in StayAliveStates : seen[t] # {s}
    BY <2>1, <2>4 DEF Permitted, StayAlive, Strengthening, HandlerFacts, StayAliveStates
  <2>5. Verdict(t)'
    BY <2>1, <2>2, <2>3, <2>4
  <2> QED BY <1>1, <2>1, <2>5
<1>5. ASSUME NEW c \in Conditions, PublishState(c)
      PROVE  VerdictMatchesWindow'
  BY <1>5 DEF PublishState, control, VerdictMatchesWindow
<1>6. CASE TakeLate
  BY <1>6 DEF TakeLate, control, VerdictMatchesWindow
<1>7. CASE UNCHANGED vars
  BY <1>7 DEF vars, VerdictMatchesWindow
<1> QED BY <1>2, <1>3, <1>4, <1>5, <1>6, <1>7 DEF Next, Proceed, Evaluate

-----------------------------------------------------------------------------
(* The theorems.                                                           *)

\* The invariant holds when the daemon has started.
LEMMA InitIInv == Init => IInv
<1> SUFFICES ASSUME Init
             PROVE  IInv
  OBVIOUS
<1>1. TypeOK
  BY InitTypeOK
<1>2. MutexOwned
  BY ThreadsAssumption DEF Init, MutexOwned, Locked, Threads
<1>3. IteratorsValid /\ McuHeardLastDecision /\ VerdictMatchesWindow
  BY DEF Init, IteratorsValid, McuHeardLastDecision, Heard, VerdictMatchesWindow
<1>4. UniqueNames
  BY DEF Init, UniqueNames
<1>5. Strengthening
  BY DEF Init, Strengthening, HandlerFacts
<1> QED BY <1>1, <1>2, <1>3, <1>4, <1>5 DEF IInv

\* Every step of every thread keeps the invariant.
THEOREM Inductive == IInv /\ [Next]_vars => IInv'
  BY NextTypeOK, NextMutexOwned, NextIteratorsValid, NextStrengthening, NextUniqueNames,
     NextMcuHeardLastDecision, NextVerdictMatchesWindow DEF IInv

\* The inductive invariant holds of the registry.
THEOREM Invariance == Spec => []IInv
  BY InitIInv, Inductive, PTL DEF Spec

\* The variables keep their types.
THEOREM TypeCorrect == Spec => []TypeOK
<1>1. IInv => TypeOK
  BY DEF IInv
<1> QED BY <1>1, Invariance, PTL

\* A thread is between lock() and unlock() exactly when it owns m_clients_mtx.
THEOREM MutualExclusion == Spec => []MutexOwned
<1>1. IInv => MutexOwned
  BY DEF IInv
<1> QED BY <1>1, Invariance, PTL

\* No handler uses an iterator that another thread made dangle.
THEOREM IteratorSafety == Spec => []IteratorsValid
<1>1. IInv => IteratorsValid
  BY DEF IInv
<1> QED BY <1>1, Invariance, PTL

\* The table holds every client once, under its trimmed name.
THEOREM Uniqueness == Spec => []UniqueNames
<1>1. IInv => UniqueNames
  BY DEF IInv
<1> QED BY <1>1, Invariance, PTL

\* The microcontroller hears the registry's decisions in the order they are taken.
THEOREM DecisionsInOrder == Spec => []McuHeardLastDecision
<1>1. IInv => McuHeardLastDecision
  BY DEF IInv
<1> QED BY <1>1, Invariance, PTL

\* A LOCK is refused only if the NAD was not in a stay-alive state throughout.
THEOREM FairVerdicts == Spec => []VerdictMatchesWindow
<1>1. IInv => VerdictMatchesWindow
  BY DEF IInv
<1> QED BY <1>1, Invariance, PTL

\* The sender's action is the one the registry settled on last, and what a judge
\* has seen bounds what its two looks at the NAD state can find.
THEOREM LooksAreBounded == Spec => []Strengthening
<1>1. IInv => Strengthening
  BY DEF IInv
<1> QED BY <1>1, Invariance, PTL

=============================================================================
