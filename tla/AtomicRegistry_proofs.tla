----------------------- MODULE AtomicRegistry_proofs ------------------------
(***************************************************************************)
(* The handlers of module ClientRegistry, which lock, search, judge, call  *)
(* the microcontroller, store and unlock, implement AtomicRegistry, for    *)
(* every set of threads, names and NAD conditions.                         *)
(***************************************************************************)
EXTENDS ClientRegistry_proofs

\* What the table's invariants leave open of the locals of a handler: when it is
\* idle, whose name it carries past the test for a blank one, and which statuses
\* it may hold where.
CallFacts(t) ==
  /\ pc[t] = "idle" => call[t] = NoCall
  /\ pc[t] # "idle" => call[t].op # "none"
  /\ pc[t] \in {"lock", "find", "evaluate", "unlock"} =>
       call[t].op = "LC_StayActive" \/ call[t].name # Blank
  /\ call[t].op = "LC_RegisterClient" =>
       /\ pc[t] \in {"lock", "find", "evaluate"} =>
            call[t].status # "LC_STS_OK_CLIENT_ALREADY_REGISTERED"
       /\ call[t].name = Blank =>
            call[t].status \in {"LC_STS_NOT_OK_CLIENT_NOT_REGISTERED", DefaultStatus}
  /\ pc[t] \in {"send", "store"} =>
       call[t].op = "LC_StayActive" /\ call[t].status \in {"LC_STS_OK", "LC_STS_NOT_OK"}
  /\ pc[t] = "store" => call[t].want = "LC_BUB" /\ call[t].status = "LC_STS_OK"

Calling == \A t \in Threads : CallFacts(t)

-----------------------------------------------------------------------------
(* The locals of a handler.                                                *)

\* The facts about a thread survive a step that leaves its location and its
\* operation alone.
LEMMA OtherCall ==
  ASSUME NEW t \in Threads, CallFacts(t), pc'[t] = pc[t], call'[t] = call[t]
  PROVE  CallFacts(t)'
  BY DEF CallFacts

\* A step of one thread leaves the facts about the others alone.
LEMMA OnlyOneMoves ==
  ASSUME TypeOK, Calling, NEW t \in Threads, NEW from, NEW to, Goto(t, from, to),
         \A u \in Threads \ {t} : call'[u] = call[u],
         CallFacts(t)'
  PROVE  Calling'
<1> SUFFICES ASSUME NEW u \in Threads, u # t
             PROVE  CallFacts(u)'
  BY DEF Calling
<1>1. pc'[u] = pc[u] /\ call'[u] = call[u]
  BY DEF Goto, TypeOK
<1> QED BY <1>1, OtherCall DEF Calling

\* A call that arrives, with locals as the facts want them.
LEMMA ArriveCalling ==
  ASSUME TypeOK, Calling, NEW t \in Threads, NEW c \in Calls, NEW to,
         Arrive(t, c, to), c.op # "none", to \in {"lock", "printLock"},
         to = "lock" => c.op = "LC_StayActive" \/ c.name # Blank,
         c.op = "LC_RegisterClient" =>
           c.status \in {"LC_STS_NOT_OK_CLIENT_NOT_REGISTERED", DefaultStatus}
  PROVE  Calling'
<1>1. pc'[t] = to /\ call'[t] = c /\ \A u \in Threads \ {t} : call'[u] = call[u]
  BY DEF Arrive, Goto, TypeOK
<1>2. CallFacts(t)'
  BY <1>1, DefaultAssumption DEF CallFacts
<1> QED BY <1>1, <1>2, OnlyOneMoves DEF Arrive

\* Any call that arrives.
LEMMA EnterCalling ==
  ASSUME TypeOK, Calling, NEW t \in Threads, Enter(t)
  PROVE  Calling'
<1> PICK name \in Names :
      \/ RegisterClient(t, name)
      \/ UnRegisterClient(t, name)
      \/ \E want \in LC_stayActiveEnum : StayActive(t, name, want)
  BY DEF Enter
<1>1. Trim[name] \in Names /\ Clean(name) \in {"lock", "printLock"}
      /\ (Clean(name) = "lock" => Trim[name] # Blank)
  BY NamesAssumption DEF Clean
<1>2. CASE RegisterClient(t, name)
  <2> DEFINE status == IF t \in DBusThreads THEN "LC_STS_NOT_OK_CLIENT_NOT_REGISTERED"
                       ELSE DefaultStatus
             c == [NoCall EXCEPT !.op = "LC_RegisterClient", !.name = Trim[name],
                                 !.status = status]
  <2>1. status \in LC_Status
        /\ status \in {"LC_STS_NOT_OK_CLIENT_NOT_REGISTERED", DefaultStatus}
    BY DefaultAssumption DEF LC_Status
  <2>2. Arrive(t, c, Clean(name))
    BY <1>2 DEF RegisterClient
  <2> HIDE DEF status
  <2>3. /\ c \in Calls /\ c.op = "LC_RegisterClient"
        /\ c.name = Trim[name] /\ c.status = status
    BY <1>1, <2>1, NoCallType DEF NoCall, Calls, Operations
  <2> HIDE DEF c
  <2> QED BY <1>1, <2>1, <2>2, <2>3, ArriveCalling
<1>3. CASE UnRegisterClient(t, name)
  <2> DEFINE c == [NoCall EXCEPT !.op = "LC_UnRegisterClient", !.name = Trim[name],
                                 !.status = "LC_STS_NOT_OK"]
  <2>1. Arrive(t, c, Clean(name))
    BY <1>3 DEF UnRegisterClient
  <2>2. c \in Calls /\ c.op = "LC_UnRegisterClient" /\ c.name = Trim[name]
    BY <1>1, NoCallType DEF NoCall, Calls, Operations, LC_Status
  <2> HIDE DEF c
  <2> QED BY <1>1, <2>1, <2>2, ArriveCalling
<1>4. ASSUME NEW want \in LC_stayActiveEnum, StayActive(t, name, want)
      PROVE  Calling'
  <2> DEFINE c == [NoCall EXCEPT !.op = "LC_StayActive", !.name = name, !.want = want]
  <2>1. Arrive(t, c, "lock")
    BY <1>4 DEF StayActive
  <2>2. c \in Calls /\ c.op = "LC_StayActive"
    BY NoCallType DEF NoCall, Calls, Operations
  <2> HIDE DEF c
  <2> QED BY <2>1, <2>2, ArriveCalling
<1> QED BY <1>2, <1>3, <1>4

\* Every step keeps them.
LEMMA NextCalling ==
  ASSUME IInv, Calling, [Next]_vars
  PROVE  Calling'
<1>0. TypeOK /\ \A t \in Threads : call[t] \in Calls
  BY DEF IInv, TypeOK
<1>1. ASSUME NEW t \in Threads, Enter(t)
      PROVE  Calling'
  BY <1>0, <1>1, EnterCalling
<1>2. ASSUME NEW t \in Threads, Lock(t) \/ PrintLock(t) \/ PrintClients(t)
      PROVE  Calling'
  <2>1. CallFacts(t)'
    BY <1>0, <1>2 DEF Lock, PrintLock, PrintClients, Goto, Calling, CallFacts, TypeOK
  <2> QED BY <1>0, <1>2, <2>1, OnlyOneMoves DEF Lock, PrintLock, PrintClients
<1>3. ASSUME NEW t \in Threads, Find(t) \/ Unlock(t)
      PROVE  Calling'
  <2>1. /\ call'[t].op = call[t].op /\ call'[t].name = call[t].name
        /\ call'[t].want = call[t].want /\ call'[t].status = call[t].status
        /\ \A u \in Threads \ {t} : call'[u] = call[u]
    <3>1. PICK i, services :
            call' = [call EXCEPT ![t].it = i, ![t].services = services]
      BY <1>3 DEF Find, Unlock
    <3>2. call' = [call EXCEPT ![t] = [call[t] EXCEPT !.it = i, !.services = services]]
      BY <3>1
    <3> QED BY <1>0, <3>2 DEF TypeOK, Calls
  <2>2. pc[t] \in {"find", "unlock"} /\ pc'[t] \in {"evaluate", "printLock"}
        /\ (pc'[t] = "evaluate" => pc[t] = "find")
    BY <1>0, <1>3 DEF Find, Unlock, Goto, TypeOK
  <2>3. CallFacts(t)'
    BY <2>1, <2>2 DEF Calling, CallFacts
  <2> QED BY <1>0, <1>3, <2>1, <2>3, OnlyOneMoves DEF Find, Unlock
<1>4. ASSUME NEW t \in Threads,
             EvaluateRegister(t) \/ EvaluateUnRegister(t) \/ RefuseUnknown(t)
      PROVE  Calling'
  <2>1. PICK status : Answer(t, "evaluate", "unlock", status)
    BY <1>4 DEF EvaluateRegister, EvaluateUnRegister, RefuseUnknown
  <2>2. /\ call'[t].op = call[t].op /\ call'[t].name = call[t].name
        /\ \A u \in Threads \ {t} : call'[u] = call[u]
        /\ pc[t] = "evaluate" /\ pc'[t] = "unlock"
    BY <1>0, <2>1 DEF Answer, Goto, TypeOK, Calls
  <2>3. CallFacts(t)'
    BY <2>2 DEF Calling, CallFacts
  <2> QED BY <1>0, <2>1, <2>2, <2>3, OnlyOneMoves DEF Answer
<1>5. ASSUME NEW t \in Threads, Grant(t) \/ Refuse(t)
      PROVE  Calling'
  <2>1. PICK status \in {"LC_STS_OK", "LC_STS_NOT_OK"}, action \in PENDING_TCU_ACTION :
          Decide(t, status, action) /\ call[t].op = "LC_StayActive"
    BY <1>5 DEF Grant, Refuse, PENDING_TCU_ACTION
  <2>2. /\ call'[t].op = call[t].op /\ call'[t].status = status
        /\ \A u \in Threads \ {t} : call'[u] = call[u]
        /\ pc'[t] = "send"
    BY <1>0, <2>1 DEF Decide, Goto, TypeOK, Calls
  <2>3. CallFacts(t)'
    BY <2>1, <2>2 DEF CallFacts
  <2> QED BY <1>0, <2>1, <2>2, <2>3, OnlyOneMoves DEF Decide
<1>6. ASSUME NEW t \in Threads, Send(t) \/ Store(t)
      PROVE  Calling'
  <2>1. PICK from, to : Goto(t, from, to)
    BY <1>6 DEF Send, Store
  <2>2. CallFacts(t)'
    BY <1>0, <1>6 DEF Send, Store, Goto, Calling, CallFacts, TypeOK
  <2> QED BY <1>0, <1>6, <2>1, <2>2, OnlyOneMoves DEF Send, Store
<1>7. ASSUME NEW t \in Threads, PrintBlank(t) \/ Reply(t)
      PROVE  Calling'
  <2>1. PICK from : Goto(t, from, "idle")
    BY <1>7 DEF PrintBlank, Reply
  <2>2. call'[t] = NoCall /\ pc'[t] = "idle"
        /\ \A u \in Threads \ {t} : call'[u] = call[u]
    BY <1>0, <1>7, <2>1 DEF PrintBlank, Reply, Goto, TypeOK
  <2>3. CallFacts(t)'
    BY <2>2 DEF CallFacts, NoCall
  <2> QED BY <1>0, <2>1, <2>2, <2>3, OnlyOneMoves
<1>8. ASSUME NEW c \in Conditions, PublishState(c)
      PROVE  Calling'
  BY <1>8, OtherCall DEF PublishState, control, Calling
<1>9. CASE TakeLate
  BY <1>9, OtherCall DEF TakeLate, control, Calling
<1>10. CASE UNCHANGED vars
  BY <1>10, OtherCall DEF vars, Calling
<1> QED BY <1>1, <1>2, <1>3, <1>4, <1>5, <1>6, <1>7, <1>8, <1>9, <1>10
        DEF Next, TakeMutex, Proceed, Evaluate, Finish

\* The facts hold when the daemon has started, and for good.
LEMMA CallingAlways == Spec => []Calling
<1>1. Init => Calling
  BY DEF Init, Calling, CallFacts, NoCall
<1>2. IInv /\ Calling /\ [Next]_vars => Calling'
  BY NextCalling
<1> QED BY <1>1, <1>2, Invariance, PTL DEF Spec

-----------------------------------------------------------------------------
(* The table as a set.                                                     *)

\* The entry a handler found is the only one of its name in the set.
LEMMA FoundEntry ==
  ASSUME IInv, NEW t \in Threads, pc[t] \in {"evaluate", "store"}
  PROVE  /\ Found(t) => /\ call[t].it \in 1 .. Len(m_clients)
                        /\ m_clients[call[t].it].name = call[t].name
                        /\ \A i \in 1 .. Len(m_clients) :
                             i # call[t].it => m_clients[i].name # call[t].name
         /\ Found(t) <=> Registry!Registered(call[t].name)
<1>1. call[t].it \in Nat /\ m_clients \in Seq(Clients)
  BY DEF IInv, TypeOK, Calls
<1>2. ASSUME Found(t)
      PROVE  /\ call[t].it \in 1 .. Len(m_clients)
             /\ m_clients[call[t].it].name = call[t].name
             /\ \A i \in 1 .. Len(m_clients) :
                  i # call[t].it => m_clients[i].name # call[t].name
  BY <1>1, <1>2 DEF Found, IInv, IteratorsValid, UniqueNames
<1>3. Found(t) => Registry!Registered(call[t].name)
  BY <1>1, <1>2 DEF Registry!Registered, Table
<1>4. ~ Found(t) => ~ Registry!Registered(call[t].name)
  BY <1>1 DEF Registry!Registered, Table, IInv, IteratorsValid
<1> QED BY <1>2, <1>3, <1>4

\* A client appended to the table is added to the set.
LEMMA AppendTable ==
  ASSUME m_clients \in Seq(Clients), NEW client, m_clients' = Append(m_clients, client)
  PROVE  Table' = Table \union {client}
<1>1. /\ Len(m_clients') = Len(m_clients) + 1
      /\ DOMAIN m_clients = 1 .. Len(m_clients)
      /\ DOMAIN m_clients' = 1 .. Len(m_clients) + 1
      /\ \A i \in 1 .. Len(m_clients) : m_clients'[i] = m_clients[i]
      /\ m_clients'[Len(m_clients) + 1] = client
      /\ Len(m_clients) \in Nat
  OBVIOUS
<1>2. ASSUME NEW c \in Table' PROVE c \in Table \union {client}
  <2>1. PICK i \in 1 .. Len(m_clients) + 1 : c = m_clients'[i]
    BY <1>1, <1>2 DEF Table
  <2>2. i \in 1 .. Len(m_clients) \/ i = Len(m_clients) + 1
    BY <1>1
  <2> QED BY <1>1, <2>1, <2>2 DEF Table
<1>3. ASSUME NEW c \in Table PROVE c \in Table'
  BY <1>1, <1>3 DEF Table
<1>4. client \in Table'
  BY <1>1 DEF Table
<1> QED BY <1>2, <1>3, <1>4

\* The entry that is erased leaves the set, and no other one does.
LEMMA EraseTable ==
  ASSUME m_clients \in Seq(Clients), NEW k \in 1 .. Len(m_clients),
         \A i \in 1 .. Len(m_clients) : i # k => m_clients[i].name # m_clients[k].name,
         m_clients' = RemoveAt(m_clients, k)
  PROVE  Table' = {c \in Table : c.name # m_clients[k].name}
<1> DEFINE n == Len(m_clients)
<1>1. /\ n \in Nat
      /\ m_clients' \in Seq(Clients) /\ Len(m_clients') = n - 1
      /\ \A j \in 1 .. n - 1 :
           m_clients'[j] = IF j < k THEN m_clients[j] ELSE m_clients[j + 1]
      /\ DOMAIN m_clients = 1 .. n
  <2>1. n \in Nat /\ DOMAIN m_clients = 1 .. n
    OBVIOUS
  <2>2. m_clients' \in Seq(Clients)
    BY RemoveAtType
  <2>3. /\ Len(m_clients') = n - 1
        /\ \A j \in 1 .. n - 1 :
             m_clients'[j] = IF j < k THEN m_clients[j] ELSE m_clients[j + 1]
    BY RemoveAtElements
  <2> QED BY <2>1, <2>2, <2>3
<1>2. DOMAIN m_clients' = 1 .. n - 1
  BY <1>1
<1>3. ASSUME NEW c \in Table' PROVE c \in Table /\ c.name # m_clients[k].name
  <2>1. PICK j \in 1 .. n - 1 : c = m_clients'[j]
    BY <1>2 DEF Table
  <2>2. PICK i \in 1 .. n : i # k /\ c = m_clients[i]
    <3>1. CASE j < k
      <4>1. j \in 1 .. n /\ j # k /\ c = m_clients[j]
        BY <1>1, <2>1, <3>1
      <4> QED BY <4>1
    <3>2. CASE ~ j < k
      <4>1. j + 1 \in 1 .. n /\ j + 1 # k
        BY <1>1, <3>2
      <4>2. c = m_clients[j + 1]
        BY <1>1, <2>1, <3>2
      <4> QED BY <4>1, <4>2
    <3> QED BY <3>1, <3>2
  <2> QED BY <1>1, <2>2 DEF Table
<1>4. ASSUME NEW c \in Table, c.name # m_clients[k].name PROVE c \in Table'
  <2>1. PICK i \in 1 .. n : i # k /\ c = m_clients[i]
    BY <1>1, <1>4 DEF Table
  <2>2. PICK j \in 1 .. n - 1 : c = m_clients'[j]
    <3>1. CASE i < k
      <4>1. i \in 1 .. n - 1
        BY <1>1, <3>1
      <4> QED BY <1>1, <2>1, <3>1, <4>1
    <3>2. CASE ~ i < k
      <4>1. i - 1 \in 1 .. n - 1 /\ ~ i - 1 < k /\ (i - 1) + 1 = i
        BY <1>1, <2>1, <3>2
      <4> QED BY <1>1, <2>1, <4>1
    <3> QED BY <3>1, <3>2
  <2> QED BY <1>2, <2>2 DEF Table
<1> QED BY <1>3, <1>4

\* A stay-active request that is recorded replaces the entry of its client.
LEMMA RecordTable ==
  ASSUME TypeOK, NEW t \in Threads, NEW k \in 1 .. Len(m_clients), k = call[t].it,
         m_clients[k].name = call[t].name,
         \A i \in 1 .. Len(m_clients) : i # k => m_clients[i].name # call[t].name,
         Record(t)
  PROVE  Table' = {c \in Table : c.name # call[t].name}
                    \union {[name |-> call[t].name, stayActive |-> call[t].want]}
<1> DEFINE n     == Len(m_clients)
           entry == [name |-> call[t].name, stayActive |-> call[t].want]
<1>1. m_clients \in Seq(Clients) /\ n \in Nat /\ DOMAIN m_clients = 1 .. n
      /\ m_clients[k] \in Clients
  BY DEF TypeOK
<1>2. [m_clients[k] EXCEPT !.stayActive = call[t].want] = entry
  BY <1>1 DEF Clients
<1>3. m_clients' = [m_clients EXCEPT ![k] = entry]
  BY <1>2 DEF Record
<1> HIDE DEF entry
<1>4. /\ DOMAIN m_clients' = 1 .. n
      /\ m_clients'[k] = entry
      /\ \A i \in 1 .. n : i # k => m_clients'[i] = m_clients[i]
  BY <1>1, <1>3
<1>5. ASSUME NEW c \in Table'
      PROVE  c = entry \/ (c \in Table /\ c.name # call[t].name)
  BY <1>1, <1>4 DEF Table
<1>6. ASSUME NEW c \in Table, c.name # call[t].name
      PROVE  c \in Table'
  <2>1. PICK i \in 1 .. n : c = m_clients[i]
    BY <1>1, <1>6 DEF Table
  <2> QED BY <1>4, <1>6, <2>1 DEF Table
<1>7. entry \in Table'
  BY <1>4 DEF Table
<1> QED BY <1>5, <1>6, <1>7 DEF entry

-----------------------------------------------------------------------------
(* What a step looks like from outside.                                    *)

\* A step of one thread changes its own request and result only.
LEMMA OwnView ==
  ASSUME TypeOK, NEW t \in Threads, NEW from, NEW to, Goto(t, from, to),
         \A u \in Threads \ {t} : call'[u] = call[u]
  PROVE  /\ Request' = [Request EXCEPT ![t] =
                          [op |-> call'[t].op, name |-> call'[t].name, want |-> call'[t].want]]
         /\ Result' = [Result EXCEPT ![t] =
                         IF TookEffect(t)' THEN call'[t].status ELSE Registry!NoResult]
<1>1. \A u \in Threads \ {t} : pc'[u] = pc[u]
  BY DEF Goto, TypeOK
<1>2. \A u \in Threads \ {t} : TookEffect(u)' = TookEffect(u)
  BY <1>1 DEF TookEffect
<1>3. Request' = [Request EXCEPT ![t] =
                    [op |-> call'[t].op, name |-> call'[t].name, want |-> call'[t].want]]
  BY DEF Request
<1>4. Result' = [Result EXCEPT ![t] =
                   IF TookEffect(t)' THEN call'[t].status ELSE Registry!NoResult]
  BY <1>2 DEF Result, Registry!NoResult
<1> QED BY <1>3, <1>4

\* A handler keeps its request until it ends.
LEMMA KeepsRequest ==
  ASSUME TypeOK, NEW t \in Threads, NEW from, NEW to, Goto(t, from, to),
         \A u \in Threads \ {t} : call'[u] = call[u],
         call'[t].op = call[t].op, call'[t].name = call[t].name,
         call'[t].want = call[t].want
  PROVE  Request' = Request
  BY OwnView DEF Request

\* The other threads see nothing of a step after which the table and the answer
\* are as they were.
LEMMA SeenAsStutter ==
  ASSUME TypeOK, NEW t \in Threads, NEW from, NEW to, Goto(t, from, to),
         \A u \in Threads \ {t} : call'[u] = call[u],
         call'[t].op = call[t].op, call'[t].name = call[t].name,
         call'[t].want = call[t].want, call'[t].status = call[t].status,
         TookEffect(t)' = TookEffect(t), m_clients' = m_clients
  PROVE  UNCHANGED Registry!vars
<1>1. Request' = Request
  BY KeepsRequest
<1>2. Result' = Result
  BY OwnView DEF Result, Registry!NoResult
<1>3. Table' = Table
  BY DEF Table
<1> QED BY <1>1, <1>2, <1>3 DEF Registry!vars

\* The instant of an operation: the handler's answer becomes visible.
LEMMA SeenAsAnswer ==
  ASSUME TypeOK, NEW t \in Threads, NEW from, NEW to, Goto(t, from, to),
         \A u \in Threads \ {t} : call'[u] = call[u],
         call'[t].op = call[t].op, call'[t].name = call[t].name,
         call'[t].want = call[t].want,
         ~ TookEffect(t), TookEffect(t)'
  PROVE  /\ Registry!Pending(t, call[t].op)
         /\ Registry!Answer(t, call'[t].status)
  BY KeepsRequest, OwnView DEF Registry!Pending, Registry!Answer, Request, Result,
                               Registry!NoResult

\* A call that arrives: nothing has happened to the table yet.
LEMMA ArriveIsCall ==
  ASSUME TypeOK, Calling, NEW t \in Threads, NEW c, NEW to, Arrive(t, c, to),
         c.op \in {"LC_RegisterClient", "LC_UnRegisterClient", "LC_StayActive"},
         c.name \in Names, c.want \in LC_stayActiveEnum,
         to \in {"lock", "printLock"},
         to = "printLock" => c.op # "LC_StayActive" /\ c.name = Blank
  PROVE  Registry!Call(t)
<1>1. /\ pc[t] = "idle" /\ pc'[t] = to /\ call[t] = NoCall /\ call'[t] = c
      /\ \A u \in Threads \ {t} : call'[u] = call[u]
      /\ Goto(t, "idle", to)
      /\ m_clients' = m_clients
  BY DEF Arrive, Goto, TypeOK, Calling, CallFacts, table
<1>2. Request[t] = Registry!Idle
  BY <1>1 DEF Request, Registry!Idle, NoCall
<1>3. ~ TookEffect(t) /\ ~ TookEffect(t)'
  BY <1>1 DEF TookEffect
<1>4. Result' = Result
  BY <1>1, <1>3, OwnView DEF Result, Registry!NoResult
<1>5. Request' = [Request EXCEPT ![t] = [op |-> c.op, name |-> c.name, want |-> c.want]]
  BY <1>1, OwnView
<1>6. Table' = Table
  BY <1>1 DEF Table
<1> QED BY <1>2, <1>4, <1>5, <1>6
        DEF Registry!Call, Registry!LC_stayActiveEnum, LC_stayActiveEnum

\* Any of the three calls.
LEMMA EnterIsCall ==
  ASSUME TypeOK, Calling, NEW t \in Threads, Enter(t)
  PROVE  Registry!Call(t)
<1> PICK name \in Names :
      \/ RegisterClient(t, name)
      \/ UnRegisterClient(t, name)
      \/ \E want \in LC_stayActiveEnum : StayActive(t, name, want)
  BY DEF Enter
<1>1. /\ Trim[name] \in Names
      /\ Clean(name) \in {"lock", "printLock"}
      /\ Clean(name) = "printLock" => Trim[name] = Blank
      /\ "LC_RELEASE" \in LC_stayActiveEnum
  BY NamesAssumption DEF Clean, LC_stayActiveEnum
<1>2. CASE RegisterClient(t, name)
  <2> DEFINE status == IF t \in DBusThreads THEN "LC_STS_NOT_OK_CLIENT_NOT_REGISTERED"
                       ELSE DefaultStatus
             c == [NoCall EXCEPT !.op = "LC_RegisterClient", !.name = Trim[name],
                                 !.status = status]
  <2>1. Arrive(t, c, Clean(name))
    BY <1>2 DEF RegisterClient
  <2> HIDE DEF status
  <2>2. c.op = "LC_RegisterClient" /\ c.name = Trim[name] /\ c.want = "LC_RELEASE"
    BY DEF NoCall
  <2> HIDE DEF c
  <2> QED BY <1>1, <2>1, <2>2, ArriveIsCall
<1>3. CASE UnRegisterClient(t, name)
  <2> DEFINE c == [NoCall EXCEPT !.op = "LC_UnRegisterClient", !.name = Trim[name],
                                 !.status = "LC_STS_NOT_OK"]
  <2>1. Arrive(t, c, Clean(name))
    BY <1>3 DEF UnRegisterClient
  <2>2. c.op = "LC_UnRegisterClient" /\ c.name = Trim[name] /\ c.want = "LC_RELEASE"
    BY DEF NoCall
  <2> HIDE DEF c
  <2> QED BY <1>1, <2>1, <2>2, ArriveIsCall
<1>4. ASSUME NEW want \in LC_stayActiveEnum, StayActive(t, name, want)
      PROVE  Registry!Call(t)
  <2> DEFINE c == [NoCall EXCEPT !.op = "LC_StayActive", !.name = name, !.want = want]
  <2>1. Arrive(t, c, "lock")
    BY <1>4 DEF StayActive
  <2>2. c.op = "LC_StayActive" /\ c.name = name /\ c.want = want
    BY DEF NoCall
  <2> HIDE DEF c
  <2> QED BY <2>1, <2>2, ArriveIsCall
<1> QED BY <1>2, <1>3, <1>4

\* What happens in the mutex before the verdict, and after it, is not seen.
LEMMA QuietSteps ==
  ASSUME IInv, Calling, NEW t \in Threads,
         Lock(t) \/ PrintLock(t) \/ Find(t) \/ Send(t) \/ Unlock(t)
  PROVE  UNCHANGED Registry!vars
<1>0. TypeOK /\ call[t] \in Calls
  BY DEF IInv, TypeOK
<1>1. CASE Lock(t) \/ PrintLock(t)
  <2>1. PICK from, to :
          Goto(t, from, to) /\ <<from, to>> \in {<<"lock", "find">>, <<"printLock", "print">>}
    BY <1>1 DEF Lock, PrintLock
  <2>2. call' = call /\ m_clients' = m_clients
    BY <1>1 DEF Lock, PrintLock
  <2>3. TookEffect(t)' = TookEffect(t)
    BY <1>0, <2>1, <2>2 DEF TookEffect, Goto, TypeOK
  <2> QED BY <1>0, <2>1, <2>2, <2>3, SeenAsStutter
<1>2. CASE Find(t) \/ Unlock(t)
  <2>1. PICK i, services :
          call' = [call EXCEPT ![t].it = i, ![t].services = services]
    BY <1>2 DEF Find, Unlock
  <2>2. call' = [call EXCEPT ![t] = [call[t] EXCEPT !.it = i, !.services = services]]
    BY <2>1
  <2>3. /\ call'[t].op = call[t].op /\ call'[t].name = call[t].name
        /\ call'[t].want = call[t].want /\ call'[t].status = call[t].status
        /\ \A u \in Threads \ {t} : call'[u] = call[u]
    BY <1>0, <2>2 DEF TypeOK, Calls
  <2>4. PICK from, to :
          Goto(t, from, to)
          /\ <<from, to>> \in {<<"find", "evaluate">>, <<"unlock", "printLock">>}
    BY <1>2 DEF Find, Unlock
  <2>5. TookEffect(t)' = TookEffect(t)
    BY <1>0, <2>3, <2>4 DEF TookEffect, Goto, TypeOK, Calling, CallFacts
  <2>6. m_clients' = m_clients
    BY <1>2 DEF Find, Unlock, table
  <2> QED BY <1>0, <2>3, <2>4, <2>5, <2>6, SeenAsStutter
<1>3. CASE Send(t)
  <2>1. PICK to : /\ Goto(t, "send", to)
                  /\ to = IF call[t].want = "LC_BUB" /\ call[t].status = "LC_STS_OK"
                          THEN "store" ELSE "unlock"
    BY <1>3 DEF Send
  <2>2. call' = call /\ m_clients' = m_clients
    BY <1>3 DEF Send, table
  <2>3. TookEffect(t)' = TookEffect(t)
    BY <1>0, <2>1, <2>2 DEF TookEffect, Goto, TypeOK, Calling, CallFacts
  <2> QED BY <1>0, <2>1, <2>2, <2>3, SeenAsStutter
<1> QED BY <1>1, <1>2, <1>3

\* A handler that settles its answer while it holds the mutex.
LEMMA AnswerView ==
  ASSUME TypeOK, NEW t \in Threads, NEW status \in LC_Status,
         Answer(t, "evaluate", "unlock", status)
  PROVE  /\ Registry!Pending(t, call[t].op)
         /\ Registry!Answer(t, status)
<1>1. /\ call'[t].op = call[t].op /\ call'[t].name = call[t].name
      /\ call'[t].want = call[t].want /\ call'[t].status = status
      /\ \A u \in Threads \ {t} : call'[u] = call[u]
      /\ pc[t] = "evaluate" /\ pc'[t] = "unlock"
  BY DEF Answer, Goto, TypeOK, Calls
<1>2. ~ TookEffect(t) /\ TookEffect(t)'
  BY <1>1 DEF TookEffect
<1> QED BY <1>1, <1>2, SeenAsAnswer DEF Answer

\* Registering happens when the entry is pushed, or found.
LEMMA RegisterStep ==
  ASSUME IInv, Calling, NEW t \in Threads, EvaluateRegister(t)
  PROVE  Registry!RegisterClient(t)
<1>0. TypeOK /\ pc[t] = "evaluate" /\ call[t].op = "LC_RegisterClient"
  BY DEF IInv, EvaluateRegister, Answer, Goto
<1>1. /\ Request[t].name = call[t].name
      /\ call[t].name # Blank
      /\ call[t].status # "LC_STS_OK_CLIENT_ALREADY_REGISTERED"
  BY <1>0 DEF Request, Calling, CallFacts
<1>2. Found(t) <=> Registry!Registered(call[t].name)
  BY <1>0, FoundEntry
<1>3. CASE Found(t)
  <2>1. Answer(t, "evaluate", "unlock", "LC_STS_OK_CLIENT_ALREADY_REGISTERED")
        /\ m_clients' = m_clients
    BY <1>0, <1>3 DEF EvaluateRegister
  <2>2. Table' = Table
    BY <2>1 DEF Table
  <2>3. "LC_STS_OK_CLIENT_ALREADY_REGISTERED" \in LC_Status
    BY DEF LC_Status
  <2> QED BY <1>0, <1>1, <1>2, <1>3, <2>1, <2>2, <2>3, AnswerView DEF Registry!RegisterClient
<1>4. CASE ~ Found(t)
  <2> DEFINE client == [name |-> call[t].name, stayActive |-> "LC_RELEASE"]
  <2>1. Answer(t, "evaluate", "unlock", "LC_STS_OK")
        /\ m_clients' = Append(m_clients, client)
    BY <1>0, <1>1, <1>4 DEF EvaluateRegister
  <2>2. Table' = Table \union {client}
    BY <1>0, <2>1, AppendTable DEF TypeOK
  <2>3. "LC_STS_OK" \in LC_Status
    BY DEF LC_Status
  <2> QED BY <1>0, <1>1, <1>2, <1>4, <2>1, <2>2, <2>3, AnswerView DEF Registry!RegisterClient
<1> QED BY <1>3, <1>4

\* Unregistering happens when the entry is erased, or not found.
LEMMA UnRegisterStep ==
  ASSUME IInv, Calling, NEW t \in Threads, EvaluateUnRegister(t)
  PROVE  Registry!UnRegisterClient(t)
<1>0. TypeOK /\ pc[t] = "evaluate" /\ call[t].op = "LC_UnRegisterClient"
  BY DEF IInv, EvaluateUnRegister, Answer, Goto
<1>1. Request[t].name = call[t].name /\ call[t].name # Blank
  BY <1>0 DEF Request, Calling, CallFacts
<1>2. Found(t) <=> Registry!Registered(call[t].name)
  BY <1>0, FoundEntry
<1>3. "LC_STS_OK" \in LC_Status /\ "LC_STS_NOT_OK" \in LC_Status
  BY DEF LC_Status
<1>4. CASE Found(t)
  <2>1. /\ Answer(t, "evaluate", "unlock", "LC_STS_OK")
        /\ m_clients' = RemoveAt(m_clients, call[t].it)
    BY <1>4 DEF EvaluateUnRegister
  <2>2. /\ call[t].it \in 1 .. Len(m_clients)
        /\ m_clients[call[t].it].name = call[t].name
        /\ \A i \in 1 .. Len(m_clients) : i # call[t].it => m_clients[i].name # call[t].name
    BY <1>0, <1>4, FoundEntry
  <2>3. m_clients \in Seq(Clients)
    BY <1>0 DEF TypeOK
  <2>4. Table' = {c \in Table : c.name # call[t].name}
    BY <2>1, <2>2, <2>3, EraseTable
  <2> QED BY <1>0, <1>1, <1>2, <1>3, <1>4, <2>1, <2>4, AnswerView
          DEF Registry!UnRegisterClient, Registry!Others
<1>5. CASE ~ Found(t)
  <2>1. Answer(t, "evaluate", "unlock", "LC_STS_NOT_OK") /\ m_clients' = m_clients
    BY <1>5 DEF EvaluateUnRegister
  <2>2. Table' = {c \in Table : c.name # call[t].name}
    BY <1>2, <1>5, <2>1 DEF Table, Registry!Registered
  <2> QED BY <1>0, <1>1, <1>2, <1>3, <1>5, <2>1, <2>2, AnswerView
          DEF Registry!UnRegisterClient, Registry!Others
<1> QED BY <1>4, <1>5

\* A client that is not registered is told so.
LEMMA UnknownStep ==
  ASSUME IInv, NEW t \in Threads, RefuseUnknown(t)
  PROVE  Registry!StayActive(t)
<1>0. TypeOK /\ pc[t] = "evaluate" /\ call[t].op = "LC_StayActive" /\ ~ Found(t)
      /\ Answer(t, "evaluate", "unlock", "LC_STS_NOT_OK") /\ m_clients' = m_clients
  BY DEF IInv, RefuseUnknown, Answer, Goto, table
<1>1. ~ Registry!Registered(Request[t].name)
  BY <1>0, FoundEntry DEF Request
<1>2. Table' = Table /\ "LC_STS_NOT_OK" \in LC_Status
  BY <1>0 DEF Table, LC_Status
<1> QED BY <1>0, <1>1, <1>2, AnswerView DEF Registry!StayActive

\* A LOCK or a RELEASE happens when it is recorded, before the microcontroller
\* is told; of a BUB nothing is seen yet.
LEMMA GrantStep ==
  ASSUME IInv, NEW t \in Threads, Grant(t)
  PROVE  Registry!StayActive(t) \/ UNCHANGED Registry!vars
<1>0. TypeOK /\ call[t].op = "LC_StayActive" /\ Found(t)
  BY DEF IInv, Grant
<1>1. PICK action : Decide(t, "LC_STS_OK", action)
  BY DEF Grant
<1>2. /\ call'[t].op = call[t].op /\ call'[t].name = call[t].name
      /\ call'[t].want = call[t].want /\ call'[t].status = "LC_STS_OK"
      /\ \A u \in Threads \ {t} : call'[u] = call[u]
      /\ pc[t] = "evaluate" /\ pc'[t] = "send" /\ Goto(t, "evaluate", "send")
  BY <1>0, <1>1 DEF Decide, Goto, TypeOK, Calls
<1>3. /\ call[t].it \in 1 .. Len(m_clients)
      /\ m_clients[call[t].it].name = call[t].name
      /\ \A i \in 1 .. Len(m_clients) : i # call[t].it => m_clients[i].name # call[t].name
      /\ Registry!Registered(call[t].name)
  BY <1>0, <1>2, FoundEntry
<1>4. CASE call[t].want = "LC_BUB"
  <2>1. ~ TookEffect(t) /\ ~ TookEffect(t)'
    BY <1>2, <1>4 DEF TookEffect
  <2>2. Request' = Request
    BY <1>0, <1>2, KeepsRequest
  <2>3. Result' = Result
    BY <1>0, <1>2, <2>1, OwnView DEF Result, Registry!NoResult
  <2>4. Table' = Table
    BY <1>4 DEF Grant, Table
  <2> QED BY <2>2, <2>3, <2>4 DEF Registry!vars
<1>5. CASE call[t].want # "LC_BUB"
  <2>1. ~ TookEffect(t) /\ TookEffect(t)'
    BY <1>2, <1>5 DEF TookEffect
  <2>2. Registry!Pending(t, "LC_StayActive") /\ Registry!Answer(t, "LC_STS_OK")
    BY <1>0, <1>2, <2>1, SeenAsAnswer
  <2>3. Record(t)
    BY <1>5 DEF Grant
  <2>4. Table' = {c \in Table : c.name # call[t].name}
                   \union {[name |-> call[t].name, stayActive |-> call[t].want]}
    BY <1>0, <1>3, <2>3, RecordTable
  <2>5. Request[t].name = call[t].name /\ Request[t].want = call[t].want
    BY DEF Request
  <2> QED BY <1>3, <2>2, <2>4, <2>5 DEF Registry!StayActive, Registry!Others
<1> QED BY <1>4, <1>5

\* A request is refused when the verdict falls; a RELEASE never is.
LEMMA RefuseStep ==
  ASSUME IInv, NEW t \in Threads, Refuse(t)
  PROVE  Registry!StayActive(t)
<1>0. TypeOK /\ call[t].op = "LC_StayActive" /\ call[t].want # "LC_RELEASE"
      /\ Decide(t, "LC_STS_NOT_OK", "STAY_INACTIVE") /\ m_clients' = m_clients
  BY DEF IInv, Refuse, Permitted, table
<1>1. /\ call'[t].op = call[t].op /\ call'[t].name = call[t].name
      /\ call'[t].want = call[t].want /\ call'[t].status = "LC_STS_NOT_OK"
      /\ \A u \in Threads \ {t} : call'[u] = call[u]
      /\ pc[t] = "evaluate" /\ pc'[t] = "send" /\ Goto(t, "evaluate", "send")
  BY <1>0 DEF Decide, Goto, TypeOK, Calls
<1>2. ~ TookEffect(t) /\ TookEffect(t)'
  BY <1>1 DEF TookEffect
<1>3. Registry!Pending(t, "LC_StayActive") /\ Registry!Answer(t, "LC_STS_NOT_OK")
  BY <1>0, <1>1, <1>2, SeenAsAnswer
<1>4. Table' = Table /\ Request[t].want # "LC_RELEASE"
  BY <1>0 DEF Table, Request
<1> QED BY <1>3, <1>4 DEF Registry!StayActive

\* A BUB happens when it is stored, after the microcontroller was told: the
\* mutex kept the entry where the search had found it.
LEMMA StoreStep ==
  ASSUME IInv, Calling, NEW t \in Threads, Store(t)
  PROVE  Registry!StayActive(t)
<1>0. TypeOK /\ Record(t) /\ call' = call
      /\ pc[t] = "store" /\ pc'[t] = "unlock" /\ Goto(t, "store", "unlock")
  BY DEF IInv, Store, Goto, TypeOK
<1>1. call[t].op = "LC_StayActive" /\ call[t].status = "LC_STS_OK"
  BY <1>0 DEF Calling, CallFacts
<1>2. Found(t)
  BY <1>0 DEF IInv, IteratorsValid
<1>3. /\ call[t].it \in 1 .. Len(m_clients)
      /\ m_clients[call[t].it].name = call[t].name
      /\ \A i \in 1 .. Len(m_clients) : i # call[t].it => m_clients[i].name # call[t].name
      /\ Registry!Registered(call[t].name)
  BY <1>0, <1>2, FoundEntry
<1>4. ~ TookEffect(t) /\ TookEffect(t)'
  BY <1>0, <1>1 DEF TookEffect
<1>5. Registry!Pending(t, "LC_StayActive") /\ Registry!Answer(t, "LC_STS_OK")
  BY <1>0, <1>1, <1>4, SeenAsAnswer
<1>6. Table' = {c \in Table : c.name # call[t].name}
                 \union {[name |-> call[t].name, stayActive |-> call[t].want]}
  BY <1>0, <1>3, RecordTable
<1>7. Request[t].name = call[t].name /\ Request[t].want = call[t].want
  BY DEF Request
<1> QED BY <1>3, <1>5, <1>6, <1>7 DEF Registry!StayActive, Registry!Others

\* Past the table: a blank name that was to be registered gets its answer now,
\* any other call has had it.
LEMMA PrintStep ==
  ASSUME IInv, Calling, NEW t \in Threads, PrintClients(t)
  PROVE  Registry!RegisterClient(t) \/ UNCHANGED Registry!vars
<1>0. TypeOK /\ ~ Unanswered(t) /\ call' = call /\ m_clients' = m_clients
      /\ pc[t] = "print" /\ pc'[t] = "reply" /\ Goto(t, "print", "reply")
  BY DEF IInv, PrintClients, Goto, TypeOK
<1>1. TookEffect(t)'
  BY <1>0 DEF TookEffect
<1>2. CASE TookEffect(t)
  BY <1>0, <1>1, <1>2, SeenAsStutter
<1>3. CASE ~ TookEffect(t)
  <2>1. call[t].op = "LC_RegisterClient" /\ call[t].name = Blank
    BY <1>0, <1>3 DEF TookEffect, Unanswered, Calling, CallFacts, TypeOK, Calls, Operations
  <2>2. call[t].status \in {"LC_STS_NOT_OK_CLIENT_NOT_REGISTERED", DefaultStatus}
    BY <2>1 DEF Calling, CallFacts
  <2>3. Registry!Pending(t, "LC_RegisterClient") /\ Registry!Answer(t, call[t].status)
    BY <1>0, <1>1, <1>3, <2>1, SeenAsAnswer
  <2>4. Table' = Table /\ Request[t].name = Blank
    BY <1>0, <2>1 DEF Table, Request
  <2> QED BY <2>2, <2>3, <2>4 DEF Registry!RegisterClient
<1> QED BY <1>2, <1>3

\* A handler that ends gives its answer back, if it has one.
LEMMA EndStep ==
  ASSUME IInv, Calling, NEW t \in Threads, PrintBlank(t) \/ Reply(t)
  PROVE  Registry!Return(t) \/ Registry!GiveUp(t)
<1>0. TypeOK /\ call[t].status \in LC_Status
  BY DEF IInv, TypeOK, Calls
<1>1. PICK from \in {"print", "reply"} :
        /\ Goto(t, from, "idle")
        /\ from = "print" => Unanswered(t)
        /\ call' = [call EXCEPT ![t] = NoCall] /\ m_clients' = m_clients
        /\ from = "reply" <=> Reply(t)
  BY DEF PrintBlank, Reply, table, Goto
<1>2. /\ call'[t] = NoCall /\ \A u \in Threads \ {t} : call'[u] = call[u]
      /\ pc[t] = from /\ pc'[t] = "idle"
  BY <1>0, <1>1 DEF Goto, TypeOK
<1>3. ~ TookEffect(t)'
  BY <1>2 DEF TookEffect
<1>4. Request' = [Request EXCEPT ![t] = Registry!Idle]
  BY <1>0, <1>1, <1>2, OwnView DEF Registry!Idle, NoCall
<1>5. Result' = [Result EXCEPT ![t] = Registry!NoResult]
  BY <1>0, <1>1, <1>2, <1>3, OwnView
<1>6. Table' = Table
  BY <1>1 DEF Table
<1>7. CASE from = "reply"
  <2>1. Result[t] = call[t].status
    BY <1>2, <1>7 DEF Result, TookEffect
  <2>2. Result[t] # Registry!NoResult
    BY <1>0, <2>1 DEF LC_Status, Registry!NoResult
  <2> QED BY <1>4, <1>5, <1>6, <2>2 DEF Registry!Return
<1>8. CASE from = "print"
  <2>1. call[t].op = "LC_UnRegisterClient" /\ call[t].name = Blank
    BY <1>1, <1>8 DEF Unanswered
  <2>2. ~ TookEffect(t)
    BY <1>2, <1>8, <2>1 DEF TookEffect
  <2>3. Result[t] = Registry!NoResult /\ Request[t].op = "LC_UnRegisterClient"
        /\ Request[t].name = Blank
    BY <2>1, <2>2 DEF Result, Request, Registry!NoResult
  <2>4. Result' = Result
    BY <1>5, <2>3 DEF Result
  <2> QED BY <1>4, <1>6, <2>3, <2>4 DEF Registry!GiveUp, Registry!Pending
<1> QED BY <1>1, <1>7, <1>8

-----------------------------------------------------------------------------
(* The theorem.                                                            *)

\* Nobody is registered and nobody has called when the daemon has started.
LEMMA InitRegistry == Init => Registry!Init
<1> SUFFICES ASSUME Init PROVE Registry!Init
  OBVIOUS
<1>1. Table = {}
  BY DEF Init, Table
<1>2. Request = [t \in Threads |-> Registry!Idle]
  BY DEF Init, Request, NoCall, Registry!Idle
<1>3. Result = [t \in Threads |-> Registry!NoResult]
  BY DEF Init, Result, TookEffect, Registry!NoResult
<1> QED BY <1>1, <1>2, <1>3 DEF Registry!Init

\* Every step is one operation of the atomic registry, or is not seen.
LEMMA StepRegistry ==
  ASSUME IInv, Calling, [Next]_vars
  PROVE  [Registry!Next]_(Registry!vars)
<1>1. ASSUME NEW t \in Threads, Enter(t) \/ TakeMutex(t) \/ Proceed(t)
      PROVE  [Registry!Next]_(Registry!vars)
  <2>1. CASE Enter(t)
    BY <2>1, EnterIsCall DEF Registry!Next, IInv
  <2>2. CASE TakeMutex(t) \/ Find(t) \/ Send(t) \/ Unlock(t)
    BY <2>2, QuietSteps DEF TakeMutex
  <2>3. CASE EvaluateRegister(t) \/ EvaluateUnRegister(t) \/ RefuseUnknown(t)
    BY <2>3, RegisterStep, UnRegisterStep, UnknownStep DEF Registry!Next
  <2>4. CASE Grant(t) \/ Refuse(t) \/ Store(t)
    BY <2>4, GrantStep, RefuseStep, StoreStep DEF Registry!Next
  <2>5. CASE PrintClients(t) \/ PrintBlank(t) \/ Reply(t)
    BY <2>5, PrintStep, EndStep DEF Registry!Next
  <2> QED BY <1>1, <2>1, <2>2, <2>3, <2>4, <2>5 DEF Proceed, Evaluate, Finish
<1>2. ASSUME NEW c \in Conditions, PublishState(c)
      PROVE  UNCHANGED Registry!vars
  BY <1>2 DEF PublishState, table, control, Registry!vars, Table, Request, Result, TookEffect
<1>3. CASE TakeLate
  BY <1>3 DEF TakeLate, table, control, Registry!vars, Table, Request, Result, TookEffect
<1>4. CASE UNCHANGED vars
  BY <1>4 DEF vars, Registry!vars, Table, Request, Result, TookEffect
<1> QED BY <1>1, <1>2, <1>3, <1>4 DEF Next

\* Handlers of any number of threads, interleaved lock by lock with each other
\* and with the NAD state, are seen as operations that happen at one instant.
THEOREM HandlersAreAtomic == Spec => RegistryIsAtomic
<1>1. IInv /\ Calling /\ [Next]_vars => [Registry!Next]_(Registry!vars)
  BY StepRegistry
<1> QED BY <1>1, InitRegistry, Invariance, CallingAlways, PTL
        DEF Spec, RegistryIsAtomic, Registry!Spec

=============================================================================
