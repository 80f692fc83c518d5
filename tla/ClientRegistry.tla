--------------------------- MODULE ClientRegistry ---------------------------
(***************************************************************************)
(* The table of registered clients, m_clients, and the three operations    *)
(* on it: register, unregister and stay-active.  They run on the D-Bus     *)
(* dispatcher (LC_RegisterClient, LC_UnRegisterClient, LC_StayActive) and  *)
(* on the Legato main loop (lifecycle_RegisterClient,                      *)
(* lifecycle_LC_StayActive) under m_clients_mtx.  The stay-active          *)
(* operation reports to the microcontroller while it holds the mutex.      *)
(*                                                                         *)
(* The NAD state is written, without the mutex, by the threads of module   *)
(* PowerMode; here it is an environment that moves as it pleases.          *)
(***************************************************************************)
EXTENDS LifecycleTypes, Naturals, Sequences, SequencesExt

CONSTANTS
  DBusThreads,    \* threads that run the LC_* handlers
  LegatoThreads,  \* threads that run the lifecycle_* handlers
  NoThread,       \* m_clients_mtx is free
  Names,          \* client names as the callers spell them
  Blank,          \* the empty name
  Trim,           \* a name without its leading and trailing characters <= 32
  DefaultStatus,  \* LC_Status{}: what a Legato handler answers when the
                  \*   operation leaves its status alone
  Conditions,     \* what the NAD can be in: [state, can, batt]
  LateBound       \* calls that may be carried out late

Threads == DBusThreads \union LegatoThreads

ASSUME ThreadsAssumption ==
  /\ DBusThreads \intersect LegatoThreads = {}
  /\ NoThread \notin DBusThreads \union LegatoThreads

ASSUME NamesAssumption ==
  /\ Blank \in Names
  /\ Trim \in [Names -> Names]
  /\ Trim[Blank] = Blank
  /\ \A n \in Names : Trim[Trim[n]] = Trim[n]

\* Were LC_Status{} LC_STS_OK_CLIENT_ALREADY_REGISTERED, a registration from
\* Legato would never insert: evaluate_RegisterClient tests the status it is
\* handed, and its search only ever sets it.
ASSUME DefaultAssumption ==
  DefaultStatus \in LC_Status \ {"LC_STS_OK_CLIENT_ALREADY_REGISTERED"}

ASSUME ConditionsAssumption ==
  Conditions \subseteq [state : LC_State, can : LC_CanStatus, batt : LC_MainBatteryStatus]

ASSUME LateAssumption == LateBound \in Nat

VARIABLES
  m_clients,      \* the table, in the order of registration
  m_clients_mtx,  \* who holds the mutex
  nad,            \* NAD_LifecycleState and the status fields beside it
  tcu,            \* the last PENDING_TCU_ACTION the microcontroller received
  late,           \* those of calls that timed out and are still on their way
  pc,             \* where each thread is
  call,           \* the operation each thread runs
  owed,           \* history: the PENDING_TCU_ACTION a handler settled on last,
                  \*   given up if the call to the microcontroller is lost
  seen            \* history: the NAD states a stay-active handler ran under

table    == <<m_clients, m_clients_mtx>>
control  == <<pc, call>>
vars     == <<m_clients, m_clients_mtx, nad, tcu, late, pc, call, owed, seen>>

Locations == {"idle", "lock", "find", "evaluate", "send", "store", "unlock",
              "printLock", "print", "reply"}

\* The locations at which a thread holds m_clients_mtx.
Locked == {"find", "evaluate", "send", "store", "unlock", "print"}

Operations == {"none", "LC_RegisterClient", "LC_UnRegisterClient", "LC_StayActive"}

\* client_t: its lcState is stored and printed but never used, and the eCall
\* flags are not even stored.
Clients == [name : Names, stayActive : LC_stayActiveEnum]

\* The locals of a handler: the name it works with, the LC_stayActiveEnum it
\* was given, the iterator, the result of its first look at the NAD state, the
\* status so far and the action it will send.
Calls == [op : Operations, name : Names, want : LC_stayActiveEnum,
          it : Nat, services : BOOLEAN, status : LC_Status,
          action : PENDING_TCU_ACTION]

NoCall == [op |-> "none", name |-> Blank, want |-> "LC_RELEASE",
           it |-> 0, services |-> FALSE, status |-> DefaultStatus,
           action |-> "STAY_INACTIVE"]

Init ==
  /\ m_clients = <<>>
  /\ m_clients_mtx = NoThread
  /\ nad \in Conditions
  /\ tcu = "NONE"
  /\ late = <<>>
  /\ pc = [t \in Threads |-> "idle"]
  /\ call = [t \in Threads |-> NoCall]
  /\ owed = "NONE"
  /\ seen = [t \in Threads |-> {}]

Goto(t, from, to) == pc[t] = from /\ pc' = [pc EXCEPT ![t] = to]

-----------------------------------------------------------------------------
(* The calls arrive.                                                       *)

Arrive(t, c, to) ==
  /\ Goto(t, "idle", to)
  /\ call' = [call EXCEPT ![t] = c]
  /\ UNCHANGED <<table, nad, tcu, late, owed, seen>>

\* A blank name goes straight to PrintRegisteredClients; the status answered
\* is then the one the caller started with.
Clean(name) == IF Trim[name] = Blank THEN "printLock" ELSE "lock"

\* Mutant: the name is stored as the caller spells it.
RegisterRaw(t, name) ==
  Arrive(t, [NoCall EXCEPT !.op = "LC_RegisterClient", !.name = name], Clean(name))

\* The NAD state it answers with is read here too, and goes to the caller only.
RegisterClient(t, name) ==
  Arrive(t, [NoCall EXCEPT
               !.op = "LC_RegisterClient",
               !.name = Trim[name],
               !.status = IF t \in DBusThreads
                          THEN "LC_STS_NOT_OK_CLIENT_NOT_REGISTERED"
                          ELSE DefaultStatus],
         Clean(name))

UnRegisterClient(t, name) ==
  /\ t \in DBusThreads
  /\ Arrive(t, [NoCall EXCEPT !.op = "LC_UnRegisterClient",
                              !.name = Trim[name],
                              !.status = "LC_STS_NOT_OK"],
            Clean(name))

\* The name is looked up as it is spelled.
StayActive(t, name, want) ==
  Arrive(t, [NoCall EXCEPT !.op = "LC_StayActive", !.name = name, !.want = want],
         "lock")

-----------------------------------------------------------------------------
(* The mutex and the search.                                               *)

Acquire(t) == m_clients_mtx = NoThread /\ m_clients_mtx' = t

Release == m_clients_mtx' = NoThread

Found(t) == call[t].it <= Len(m_clients)

Lock(t) ==
  /\ Goto(t, "lock", "find")
  /\ Acquire(t)
  /\ UNCHANGED <<m_clients, nad, tcu, late, call, owed, seen>>

\* Mutant: the search stops before the last entry.
FindShort(t) ==
  /\ Goto(t, "find", "evaluate")
  /\ \E i \in (1 .. Len(m_clients) + 1) \ {Len(m_clients)} :
       /\ \A j \in 1 .. i - 1 : j < Len(m_clients) => m_clients[j].name # call[t].name
       /\ i < Len(m_clients) => m_clients[i].name = call[t].name
       /\ call' = [call EXCEPT ![t].it = i,
                               ![t].services = nad.state = "NAD_STAY_ALIVE_SERVICES"]
  /\ seen' = [seen EXCEPT ![t] = {nad.state}]
  /\ UNCHANGED <<table, nad, tcu, late, owed>>

\* The first entry with the name, or one past the end.  evaluateLC_StayActive
\* compares the NAD state with STAY_ALIVE_SERVICES first and with
\* STAY_ALIVE_CONNECTED afterwards: the mutex does not guard the state, which
\* may move in between.  The first look is taken here, the second one later.
Find(t) ==
  /\ Goto(t, "find", "evaluate")
  /\ \E i \in 1 .. Len(m_clients) + 1 :
       /\ \A j \in 1 .. i - 1 : m_clients[j].name # call[t].name
       /\ i \in DOMAIN m_clients => m_clients[i].name = call[t].name
       /\ call' = [call EXCEPT ![t].it = i,
                               ![t].services = nad.state = "NAD_STAY_ALIVE_SERVICES"]
  /\ seen' = [seen EXCEPT ![t] = {nad.state}]
  /\ UNCHANGED <<table, nad, tcu, late, owed>>

-----------------------------------------------------------------------------
(* What each operation does with the entry it found.                       *)

Answer(t, from, to, status) ==
  /\ Goto(t, from, to)
  /\ call' = [call EXCEPT ![t].status = status]

EvaluateRegister(t) ==
  LET status == IF Found(t) THEN "LC_STS_OK_CLIENT_ALREADY_REGISTERED"
                ELSE call[t].status
      client == [name |-> call[t].name, stayActive |-> "LC_RELEASE"]
  IN  /\ call[t].op = "LC_RegisterClient"
      /\ IF status = "LC_STS_OK_CLIENT_ALREADY_REGISTERED"
         THEN /\ Answer(t, "evaluate", "unlock", status)
              /\ UNCHANGED m_clients
         ELSE /\ Answer(t, "evaluate", "unlock", "LC_STS_OK")
              /\ m_clients' = Append(m_clients, client)
      /\ UNCHANGED <<m_clients_mtx, nad, tcu, late, owed, seen>>

EvaluateUnRegister(t) ==
  /\ call[t].op = "LC_UnRegisterClient"
  /\ \/ /\ Found(t)
        /\ m_clients' = RemoveAt(m_clients, call[t].it)
        /\ Answer(t, "evaluate", "unlock", "LC_STS_OK")
     \/ /\ ~ Found(t)
        /\ UNCHANGED m_clients
        /\ Answer(t, "evaluate", "unlock", "LC_STS_NOT_OK")
  /\ UNCHANGED <<m_clients_mtx, nad, tcu, late, owed, seen>>

\* Mutant: an early return that forgets to unlock.
RefuseUnknownLocked(t) ==
  /\ call[t].op = "LC_StayActive"
  /\ ~ Found(t)
  /\ Answer(t, "evaluate", "printLock", "LC_STS_NOT_OK")
  /\ UNCHANGED <<table, nad, tcu, late, owed, seen>>

\* A client that is not in the table is refused, and the microcontroller is
\* told nothing.
RefuseUnknown(t) ==
  /\ call[t].op = "LC_StayActive"
  /\ ~ Found(t)
  /\ Answer(t, "evaluate", "unlock", "LC_STS_NOT_OK")
  /\ UNCHANGED <<table, nad, tcu, late, owed, seen>>

\* Mutant: STAY_ALIVE_CONNECTED is forgotten.
StayAliveServices(t) == call[t].services

StayAlive(t) ==
  call[t].services \/ nad.state = "NAD_STAY_ALIVE_CONNECTED"

\* BUB, the backup battery mode, is for a vehicle without CAN or main battery.
Permitted(t) ==
  \/ call[t].want = "LC_LOCK" /\ StayAlive(t)
  \/ call[t].want = "LC_RELEASE"
  \/ /\ call[t].want = "LC_BUB"
     /\ StayAlive(t)
     /\ nad.can = "LC_CAN_STS_OFF"
     /\ nad.batt = "LC_MAIN_BATT_STS_NOK"

Record(t) == m_clients' = [m_clients EXCEPT ![call[t].it].stayActive = call[t].want]

\* The handler settles on a status and on what to tell the microcontroller.
Decide(t, status, action) ==
  /\ Goto(t, "evaluate", "send")
  /\ call' = [call EXCEPT ![t].status = status, ![t].action = action]
  /\ owed' = action

\* Mutant: the mutex is released before the microcontroller is called.
GrantUnlocked(t) ==
  /\ call[t].op = "LC_StayActive" /\ Found(t)
  /\ Permitted(t)
  /\ Decide(t, "LC_STS_OK",
            IF call[t].want = "LC_LOCK" THEN "STAY_ACTIVE" ELSE "STAY_INACTIVE")
  /\ IF call[t].want = "LC_BUB" THEN UNCHANGED m_clients ELSE Record(t)
  /\ Release
  /\ UNCHANGED <<nad, tcu, late, seen>>

\* LOCK and RELEASE are recorded before the microcontroller is told, BUB after.
Grant(t) ==
  /\ call[t].op = "LC_StayActive" /\ Found(t)
  /\ Permitted(t)
  /\ Decide(t, "LC_STS_OK",
            IF call[t].want = "LC_LOCK" THEN "STAY_ACTIVE" ELSE "STAY_INACTIVE")
  /\ IF call[t].want = "LC_BUB" THEN UNCHANGED m_clients ELSE Record(t)
  /\ UNCHANGED <<m_clients_mtx, nad, tcu, late, seen>>

\* A refused client has the microcontroller told that nothing is pending.
Refuse(t) ==
  /\ call[t].op = "LC_StayActive" /\ Found(t)
  /\ ~ Permitted(t)
  /\ Decide(t, "LC_STS_NOT_OK", "STAY_INACTIVE")
  /\ UNCHANGED <<table, nad, tcu, late, seen>>

\* Mutant: the answer is sent in place of the action.
SendStatus(t) ==
  /\ Goto(t, "send", IF call[t].want = "LC_BUB" /\ call[t].status = "LC_STS_OK"
                     THEN "store" ELSE "unlock")
  /\ tcu' = call[t].status
  /\ UNCHANGED <<table, nad, late, call, owed, seen>>

\* What the microcontroller will have heard last once nothing is on its way.
Heard == IF late = <<>> THEN tcu ELSE Last(late)

\* update_TCU_Parameters: the call may be lost, or time out and be carried out
\* late; its CallStatus is not looked at.  Calls arrive in the order they were
\* made, so one that is answered finds no other on its way.  The mutex stays
\* held across it.
Send(t) ==
  /\ Goto(t, "send", IF call[t].want = "LC_BUB" /\ call[t].status = "LC_STS_OK"
                     THEN "store" ELSE "unlock")
  /\ \/ late = <<>> /\ tcu' = call[t].action /\ UNCHANGED <<late, owed>>
     \/ Len(late) < LateBound /\ late' = Append(late, call[t].action) /\ UNCHANGED <<tcu, owed>>
     \/ owed' = Heard /\ UNCHANGED <<tcu, late>>
  /\ UNCHANGED <<table, nad, call, seen>>

\* The microcontroller takes what no handler waits for any more.
TakeLate ==
  /\ late # <<>> /\ late' = Tail(late)
  /\ tcu' = Head(late)
  /\ UNCHANGED <<table, nad, control, owed, seen>>

\* Mutant: BUB is granted but never recorded.
StoreNothing(t) ==
  /\ Goto(t, "store", "unlock")
  /\ UNCHANGED <<table, nad, tcu, late, call, owed, seen>>

Store(t) ==
  /\ Goto(t, "store", "unlock")
  /\ Record(t)
  /\ UNCHANGED <<m_clients_mtx, nad, tcu, late, call, owed, seen>>

-----------------------------------------------------------------------------
(* The way out: PrintRegisteredClients takes the mutex once more.          *)

Unlock(t) ==
  /\ Goto(t, "unlock", "printLock")
  /\ Release
  /\ call' = [call EXCEPT ![t].it = 0, ![t].services = FALSE]
  /\ seen' = [seen EXCEPT ![t] = {}]
  /\ UNCHANGED <<m_clients, nad, tcu, late, owed>>

\* Mutant: the table is printed without the mutex.
PrintUnlocked(t) ==
  /\ Goto(t, "printLock", "print")
  /\ UNCHANGED <<table, nad, tcu, late, call, owed, seen>>

PrintLock(t) ==
  /\ Goto(t, "printLock", "print")
  /\ Acquire(t)
  /\ UNCHANGED <<m_clients, nad, tcu, late, call, owed, seen>>

\* LC_UnRegisterClient returns without a reply when the name is blank.
Unanswered(t) == call[t].op = "LC_UnRegisterClient" /\ call[t].name = Blank

PrintClients(t) ==
  /\ ~ Unanswered(t)
  /\ Goto(t, "print", "reply")
  /\ Release
  /\ UNCHANGED <<m_clients, nad, tcu, late, call, owed, seen>>

PrintBlank(t) ==
  /\ Unanswered(t)
  /\ Goto(t, "print", "idle")
  /\ Release
  /\ call' = [call EXCEPT ![t] = NoCall]
  /\ UNCHANGED <<m_clients, nad, tcu, late, owed, seen>>

Reply(t) ==
  /\ Goto(t, "reply", "idle")
  /\ call' = [call EXCEPT ![t] = NoCall]
  /\ UNCHANGED <<table, nad, tcu, late, owed, seen>>

-----------------------------------------------------------------------------
(* The other threads store a new NAD state, or new status fields.          *)

PublishState(c) ==
  /\ c # nad
  /\ nad' = c
  /\ seen' = [t \in Threads |-> IF pc[t] = "evaluate" THEN seen[t] \union {c.state}
                                ELSE seen[t]]
  /\ UNCHANGED <<table, tcu, late, control, owed>>

Enter(t) ==
  \E name \in Names :
    \/ RegisterClient(t, name)
    \/ UnRegisterClient(t, name)
    \/ \E want \in LC_stayActiveEnum : StayActive(t, name, want)

Evaluate(t) ==
  \/ EvaluateRegister(t)
  \/ EvaluateUnRegister(t)
  \/ RefuseUnknown(t)
  \/ Grant(t)
  \/ Refuse(t)

Finish(t) == Unlock(t) \/ PrintClients(t) \/ PrintBlank(t) \/ Reply(t)

Proceed(t) == Find(t) \/ Evaluate(t) \/ Send(t) \/ Store(t) \/ Finish(t)

TakeMutex(t) == Lock(t) \/ PrintLock(t)

Next ==
  \/ \E t \in Threads : Enter(t) \/ TakeMutex(t) \/ Proceed(t)
  \/ \E c \in Conditions : PublishState(c)
  \/ TakeLate

Spec == Init /\ [][Next]_vars

\* A thread that can step does: the dispatcher and the main loop are scheduled,
\* update_TCU_Parameters returns (CommonAPI answers a call or times it out),
\* and a thread that waits for the mutex while the mutex is free again and
\* again gets it.
Fairness == \A t \in Threads : WF_vars(Proceed(t)) /\ SF_vars(TakeMutex(t))

FairSpec == Spec /\ Fairness

-----------------------------------------------------------------------------
(* What the registry keeps.                                                *)

\* Every variable stays in its type: the table holds client records only, the
\* mutex names a thread or nobody, the microcontroller hears known actions.
TypeOK ==
  /\ m_clients \in Seq(Clients)
  /\ m_clients_mtx \in Threads \union {NoThread}
  /\ nad \in Conditions
  /\ tcu \in PENDING_TCU_ACTION \union {"NONE"}
  /\ late \in Seq(PENDING_TCU_ACTION)
  /\ pc \in [Threads -> Locations]
  /\ call \in [Threads -> Calls]
  /\ owed \in PENDING_TCU_ACTION \union {"NONE"}
  /\ seen \in [Threads -> SUBSET LC_State]

\* The D-Bus dispatcher and the Legato loop are never both inside m_clients:
\* who is between lock() and unlock() owns the mutex, and nobody else does.
MutexOwned == \A t \in Threads : pc[t] \in Locked <=> m_clients_mtx = t

\* The iterator a handler uses, also after it waited for update_TCU_Parameters,
\* still designates what its search found: the entry of that name, or no entry
\* when there is none.  An erase or a push_back of the other thread in between
\* would leave it dangling.
IteratorsValid ==
  \A t \in Threads :
    pc[t] \in {"evaluate", "send", "store"} =>
      /\ Found(t) => call[t].it # 0 /\ m_clients[call[t].it].name = call[t].name
      /\ ~ Found(t) => /\ pc[t] = "evaluate"
                       /\ \A i \in DOMAIN m_clients : m_clients[i].name # call[t].name

\* A client is in the table once, under its trimmed name, and nobody is in it
\* under the blank name, whichever threads register and unregister it at once.
UniqueNames ==
  /\ \A i, j \in DOMAIN m_clients : m_clients[i].name = m_clients[j].name => i = j
  /\ \A i \in DOMAIN m_clients :
       /\ m_clients[i].name # Blank
       /\ Trim[m_clients[i].name] = m_clients[i].name

\* Two stay-active calls never reach the microcontroller in the other order
\* than they were decided in: unless it is being sent or was lost, the last
\* decision is what the microcontroller hears last of the registry, also where
\* calls time out and are carried out later.  Hence the mutex held across
\* update_TCU_Parameters.
McuHeardLastDecision ==
  (\A t \in Threads : pc[t] # "send") => Heard = owed

\* A LOCK is granted only if the NAD was in a stay-alive state while it was
\* judged, and no LOCK is refused to a NAD that stayed in one of them all the
\* time, although the handler looks at the unguarded NAD_LifecycleState twice.
\* More cannot be said: a NAD that goes from STAY_ALIVE_CONNECTED to
\* STAY_ALIVE_SERVICES between the two looks is refused.
VerdictMatchesWindow ==
  \A t \in Threads :
    pc[t] = "send" /\ call[t].want = "LC_LOCK" =>
      /\ call[t].status = "LC_STS_OK" => seen[t] \intersect StayAliveStates # {}
      /\ call[t].status = "LC_STS_NOT_OK" => \A s \in StayAliveStates : seen[t] # {s}

\* Why the invariants above are inductive: a registration searches under a
\* trimmed name; the sender's action is the one owed; and while a request is
\* judged the states seen tell what the two looks at the NAD state can find.
HandlerFacts(t) ==
  /\ call[t].op = "LC_RegisterClient" /\ pc[t] \in {"lock", "find", "evaluate"} =>
       call[t].name # Blank /\ Trim[call[t].name] = call[t].name
  /\ pc[t] = "send" => owed = call[t].action
  /\ pc[t] = "evaluate" =>
       /\ nad.state \in seen[t]
       /\ call[t].services => "NAD_STAY_ALIVE_SERVICES" \in seen[t]
       /\ ~ call[t].services => seen[t] # {"NAD_STAY_ALIVE_SERVICES"}

Strengthening == \A t \in Threads : HandlerFacts(t)

IInv ==
  /\ TypeOK /\ MutexOwned /\ IteratorsValid /\ UniqueNames
  /\ McuHeardLastDecision /\ VerdictMatchesWindow /\ Strengthening

\* The registry as its callers see it.  A call has taken effect once its handler
\* is done with the table; a BUB that was granted still has to store it.
Table == {m_clients[i] : i \in DOMAIN m_clients}

Request ==
  [t \in Threads |-> [op |-> call[t].op, name |-> call[t].name, want |-> call[t].want]]

TookEffect(t) ==
  \/ pc[t] \in {"unlock", "reply"}
  \/ pc[t] \in {"printLock", "print"} /\ (call[t].op = "LC_StayActive" \/ call[t].name # Blank)
  \/ pc[t] = "send" /\ (call[t].want = "LC_BUB" => call[t].status = "LC_STS_NOT_OK")

Result == [t \in Threads |-> IF TookEffect(t) THEN call[t].status ELSE "none"]

Registry ==
  INSTANCE AtomicRegistry
    WITH table <- Table, request <- Request, result <- Result,
         BlankAnswers <- {"LC_STS_NOT_OK_CLIENT_NOT_REGISTERED", DefaultStatus}

\* Seen from outside, each operation happens at one instant on a set of clients:
\* the search, the erase or push_back and the stay-active store of one thread
\* are never mixed with those of another, and no answer contradicts the table.
RegistryIsAtomic == Registry!Spec

\* Every call that does not unregister a blank name is answered, whatever the
\* other thread does with the mutex.
CallsAnswered ==
  \A t \in Threads :
    (pc[t] # "idle" /\ ~ Unanswered(t)) ~> (pc[t] = "reply")

\* No client makes the microcontroller hear STAY_INACTIVE while another one
\* holds LC_LOCK: evaluateLC_StayActive logs that very message as "No more
\* Pending TCU actions".
InactiveMeansUnlocked ==
  [][\A t \in Threads :
       pc[t] = "send" /\ pc'[t] # "send" /\ tcu = "STAY_ACTIVE" /\ tcu' = "STAY_INACTIVE" =>
         \A i \in DOMAIN m_clients :
           m_clients[i].name # call[t].name => m_clients[i].stayActive # "LC_LOCK"]_vars

\* When no call runs or is on its way, a microcontroller that keeps the NAD
\* alive does so for a client that holds LC_LOCK: LC_UnRegisterClient carries
\* the comment "When Lifecycle can switch off (StayActive false), then we send
\* ACK to VuC".
ActiveMeansLocked ==
  (\A t \in Threads : pc[t] = "idle") /\ late = <<>> /\ tcu = "STAY_ACTIVE" =>
    \E i \in DOMAIN m_clients : m_clients[i].stayActive = "LC_LOCK"

=============================================================================
