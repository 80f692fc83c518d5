---------------------------- MODULE WakeupSocket ----------------------------
(***************************************************************************)
(* The wakeup reasons the kernel sends over a netlink socket.  Each time   *)
(* the proxy of the microcontroller's service becomes available an lpm     *)
(* thread starts; the threads compete for one netlink port, and the one    *)
(* that gets it reads messages for good and runs ql_lpm_handler for each,  *)
(* under g_mutex.  Nothing ends a thread that reads, and a thread that     *)
(* gives up closes nothing.                                                *)
(***************************************************************************)
EXTENDS LifecycleTypes, Naturals, Sequences

CONSTANTS
  LpmThreads,  \* the threads pthread_create may start
  Texts,       \* what the kernel may send
  Garbage,     \* what an uninitialised WakeupReason may hold
  QueueBound,  \* messages the socket's buffer holds
  Nobody       \* no thread, no reason

WakeupReason == {"SMS", "POWERKEY", "MODEM_SPURIOUS", "RTC", "MQTT", "NON_TCP"}

\* The prefixes ql_recvfrom_kernel looks for.
ReasonOf ==
  [glink_qmi |-> "MODEM_SPURIOUS", efs_qmi |-> "MODEM_SPURIOUS", NON_TCP |-> "MODEM_SPURIOUS",
   OTHERS |-> "MODEM_SPURIOUS", ABNORMAL |-> "MODEM_SPURIOUS", unknown |-> "MODEM_SPURIOUS",
   sms |-> "SMS", tcp |-> "MQTT", rtc |-> "RTC", gp98 |-> "POWERKEY"]

Reasons == WakeupReason \union Garbage

ASSUME SocketAssumption ==
  /\ QueueBound \in Nat \ {0}
  /\ Nobody \notin LpmThreads \union Reasons

\* The reasons that keep the TCU awake, and those the SoC is told of.
Locked    == {"POWERKEY", "SMS", "RTC", "MQTT"}
Announced == {"SMS", "MODEM_SPURIOUS", "MQTT"}

VARIABLES
  available,      \* SOC_LIFECYCLE_IsAvailable
  introduced,     \* the kernel has heard of the port
  kernel,         \* messages in the socket's buffer
  overrun,        \* a message found the buffer full; recvmsg says so once
  port,           \* the thread whose socket is bound to getpid()
  pc,             \* where each lpm thread is
  eWakeupReason,  \* its local
  g_mutex,
  source,         \* the wakeup source the handler stored last
  wakeLock,       \* TBM_set_wake_lock has succeeded
  told            \* the last SendEvent_SOC_WakeupReason_TCU

socket  == <<introduced, kernel, overrun, port>>
effects == <<source, wakeLock, told>>
vars    == <<available, introduced, kernel, overrun, port, pc, eWakeupReason, g_mutex,
             source, wakeLock, told>>

Reading == {"receive", "lock", "store", "acquire", "settle", "send", "unlock"}
Holding == {"store", "acquire", "settle", "send", "unlock"}

Init ==
  /\ available = FALSE
  /\ introduced = FALSE
  /\ kernel = <<>>
  /\ overrun = "no"
  /\ port = Nobody
  /\ pc = [t \in LpmThreads |-> "none"]
  /\ eWakeupReason = [t \in LpmThreads |-> Nobody]
  /\ g_mutex = Nobody
  /\ source = "WAKE_UNKNOWN"
  /\ wakeLock = FALSE
  /\ told = Nobody

Goto(t, from, to) == pc[t] = from /\ pc' = [pc EXCEPT ![t] = to]

-----------------------------------------------------------------------------
(* The proxy and the kernel.                                               *)

\* SOC_LIFECYCLE_ProxyAvailable starts a thread, whatever threads there are;
\* a pthread_create that fails is logged.
SOC_LIFECYCLE_ProxyAvailable ==
  /\ ~ available /\ available' = TRUE
  /\ \/ \E t \in LpmThreads : Goto(t, "none", "open")
     \/ UNCHANGED pc
  /\ UNCHANGED <<socket, eWakeupReason, g_mutex, effects>>

SOC_LIFECYCLE_ProxyNotAvailable ==
  /\ available /\ available' = FALSE
  /\ UNCHANGED <<socket, pc, eWakeupReason, g_mutex, effects>>

KernelSends(text) ==
  /\ introduced
  /\ Len(kernel) < QueueBound
  /\ kernel' = Append(kernel, text)
  /\ UNCHANGED <<available, introduced, overrun, port, pc, eWakeupReason, g_mutex, effects>>

\* A message that finds the buffer full is lost, and the first one makes the
\* next recvmsg fail.
KernelDrops ==
  /\ introduced
  /\ Len(kernel) = QueueBound
  /\ overrun = "no" /\ overrun' = "due"
  /\ UNCHANGED <<available, introduced, kernel, port, pc, eWakeupReason, g_mutex, effects>>

-----------------------------------------------------------------------------
(* An lpm thread up to its loop: ql_recvfrom_kernel.                       *)

\* The socket cannot be created.
SocketFails(t) ==
  /\ Goto(t, "open", "ended")
  /\ UNCHANGED <<available, socket, eWakeupReason, g_mutex, effects>>

\* Mutant of Bind: every thread binds a port of its own.
BindAnyPort(t) ==
  /\ Goto(t, "open", "allocate")
  /\ port' = t
  /\ UNCHANGED <<available, introduced, kernel, overrun, eWakeupReason, g_mutex, effects>>

Bind(t) ==
  /\ Goto(t, "open", "allocate")
  /\ port = Nobody /\ port' = t
  /\ UNCHANGED <<available, introduced, kernel, overrun, eWakeupReason, g_mutex, effects>>

\* All threads ask for the port of the process.
BindFails(t) ==
  /\ Goto(t, "open", "ended")
  /\ port # Nobody
  /\ UNCHANGED <<available, socket, eWakeupReason, g_mutex, effects>>

\* Without the payload's buffer the thread returns, and the socket stays bound.
AllocateFails(t) ==
  /\ Goto(t, "allocate", "ended")
  /\ UNCHANGED <<available, socket, eWakeupReason, g_mutex, effects>>

\* "ID %d come in": whether sendmsg succeeded is not looked at.
Introduce(t) ==
  /\ Goto(t, "allocate", "receive")
  /\ introduced' \in {introduced, TRUE}
  /\ \E value \in Garbage : eWakeupReason' = [eWakeupReason EXCEPT ![t] = value]
  /\ UNCHANGED <<available, kernel, overrun, port, g_mutex, effects>>

-----------------------------------------------------------------------------
(* The loop and ql_lpm_handler.                                            *)

\* A message without a known prefix leaves eWakeupReason as it was.
Receive(t) ==
  /\ Goto(t, "receive", "lock")
  /\ overrun # "due"
  /\ kernel # <<>>
  /\ kernel' = Tail(kernel)
  /\ overrun' = IF Len(kernel) = 1 THEN "no" ELSE overrun
  /\ eWakeupReason' = [eWakeupReason EXCEPT ![t] =
       IF Head(kernel) \in DOMAIN ReasonOf THEN ReasonOf[Head(kernel)] ELSE @]
  /\ UNCHANGED <<available, introduced, port, g_mutex, effects>>

\* recvmsg reports the overrun and leaves the cleared payload, which has no
\* prefix; what it returns is not looked at.
ReceiveFails(t) ==
  /\ Goto(t, "receive", "lock")
  /\ overrun = "due" /\ overrun' = "told"
  /\ UNCHANGED <<available, introduced, kernel, port, eWakeupReason, g_mutex, effects>>

Lock(t) ==
  /\ Goto(t, "lock", "store")
  /\ g_mutex = Nobody /\ g_mutex' = t
  /\ UNCHANGED <<available, socket, eWakeupReason, effects>>

\* Mutant of SocketSources: a reason without a source of its own is stored as it is.
SocketSourcesUnmapped(reason, old) ==
  CASE reason = "MQTT" -> {"WAKE_UP_MQTT"}
    [] reason = "SMS"  -> {"WAKE_UP_SMS"}
    [] OTHER           -> {reason}

\* The timer's source depends on the NAD state, which other threads store.
SocketSources(reason, old) ==
  CASE reason = "MQTT" -> {"WAKE_UP_MQTT"}
    [] reason = "SMS"  -> {"WAKE_UP_SMS"}
    [] reason = "RTC"  -> {"WAKE_UP_LM1_RTC", "WAKE_UP_LM3_RTC", old}
    [] OTHER           -> {"WAKE_UNKNOWN"}

setSocketWakeupSource(t) ==
  /\ Goto(t, "store", "acquire")
  /\ source' \in SocketSources(eWakeupReason[t], source)
  /\ UNCHANGED <<available, socket, eWakeupReason, g_mutex, wakeLock, told>>

\* A wake lock that cannot be had is logged.
AcquireWakeLock(t) ==
  /\ Goto(t, "acquire", "settle")
  /\ wakeLock' \in IF eWakeupReason[t] \in Locked THEN {wakeLock, TRUE} ELSE {wakeLock}
  /\ UNCHANGED <<available, socket, eWakeupReason, g_mutex, source, told>>

\* Mutant of Announce: any reason is sent.
AnnounceAll(t) ==
  /\ available
  /\ Goto(t, "settle", "send")
  /\ UNCHANGED <<available, socket, eWakeupReason, g_mutex, effects>>

\* Four seconds later; the proxy may still go between the test and the call.
Announce(t) ==
  /\ eWakeupReason[t] \in Announced
  /\ available
  /\ Goto(t, "settle", "send")
  /\ UNCHANGED <<available, socket, eWakeupReason, g_mutex, effects>>

\* Mutant of KeepSilent: the handler returns early, and the mutex stays locked.
KeepSilentEarly(t) ==
  /\ ~ (eWakeupReason[t] \in Announced /\ available)
  /\ Goto(t, "settle", "receive")
  /\ UNCHANGED <<available, socket, eWakeupReason, g_mutex, effects>>

KeepSilent(t) ==
  /\ ~ (eWakeupReason[t] \in Announced /\ available)
  /\ Goto(t, "settle", "unlock")
  /\ UNCHANGED <<available, socket, eWakeupReason, g_mutex, effects>>

\* A call that fails is logged, and the reason is not sent again.
SendEvent_SOC_WakeupReason_TCU(t) ==
  /\ Goto(t, "send", "unlock")
  /\ told' \in IF available THEN {told, eWakeupReason[t]} ELSE {told}
  /\ UNCHANGED <<available, socket, eWakeupReason, g_mutex, source, wakeLock>>

Unlock(t) ==
  /\ Goto(t, "unlock", "receive")
  /\ g_mutex' = Nobody
  /\ UNCHANGED <<available, socket, eWakeupReason, effects>>

-----------------------------------------------------------------------------
(* The specification.                                                      *)

Start(t) ==
  SocketFails(t) \/ Bind(t) \/ BindFails(t) \/ AllocateFails(t) \/ Introduce(t)

Handle(t) ==
  \/ Receive(t) \/ ReceiveFails(t)
  \/ Lock(t) \/ setSocketWakeupSource(t) \/ AcquireWakeLock(t)
  \/ Announce(t) \/ KeepSilent(t)
  \/ SendEvent_SOC_WakeupReason_TCU(t)
  \/ Unlock(t)

Next ==
  \/ SOC_LIFECYCLE_ProxyAvailable
  \/ SOC_LIFECYCLE_ProxyNotAvailable
  \/ \E text \in Texts : KernelSends(text)
  \/ KernelDrops
  \/ \E t \in LpmThreads : Start(t) \/ Handle(t)

Spec == Init /\ [][Next]_vars

\* A thread that exists is scheduled.
FairSpec == Spec /\ \A t \in LpmThreads : WF_vars(Start(t) \/ Handle(t))

-----------------------------------------------------------------------------
(* Properties.                                                             *)

TypeOK ==
  /\ available \in BOOLEAN
  /\ introduced \in BOOLEAN
  /\ kernel \in Seq(Texts) /\ Len(kernel) <= QueueBound
  /\ overrun \in {"no", "due", "told"}
  /\ port \in LpmThreads \union {Nobody}
  /\ pc \in [LpmThreads -> Reading \union {"none", "open", "allocate", "ended"}]
  /\ eWakeupReason \in [LpmThreads -> Reasons \union {Nobody}]
  /\ g_mutex \in LpmThreads \union {Nobody}
  /\ source \in LC_WakeupSource
  /\ wakeLock \in BOOLEAN
  /\ told \in Reasons \union {Nobody}

\* However often the proxy comes and goes, one thread at most reads the wakeup
\* messages, and g_mutex is locked exactly while it runs the handler.
OneReader ==
  \A t \in LpmThreads :
    /\ pc[t] \in Reading \union {"allocate"} => port = t
    /\ pc[t] \in Holding <=> g_mutex = t

\* The threads, the port and the mutex together serve the messages as one
\* channel would: the reason is that of the thread that has the port.
Last == IF port \in LpmThreads THEN eWakeupReason[port] ELSE Nobody

Serving ==
  IF port \in LpmThreads /\ pc[port] \in Reading \ {"receive"} THEN Last ELSE Nobody

Stored == port \in LpmThreads /\ pc[port] \in Holding \ {"store"}

Channel ==
  INSTANCE WakeupChannel WITH
    NoReason <- Nobody,
    Sources <- [reason \in Reasons |-> [old \in LC_WakeupSource |-> SocketSources(reason, old)]],
    inbox <- kernel, last <- Last, serving <- Serving, stored <- Stored

\* The reasons are served one at a time, in the order of their messages, each
\* once and under its own name: the wakeup source stored is that of the message
\* just read, and the SoC is told of no other, and only once it is stored.
ServedInOrder == Channel!Spec

\* A message at the head of the buffer of a thread that reads is handed to
\* setSocketWakeupSource, whatever the overruns and the proxy do.
HeadIsServed ==
  \A t \in LpmThreads, text \in DOMAIN ReasonOf :
    (pc[t] \in Reading /\ kernel # <<>> /\ Head(kernel) = text) ~>
      (pc[t] = "store" /\ eWakeupReason[t] = ReasonOf[text])

-----------------------------------------------------------------------------
(* What makes them inductive.                                              *)

\* A thread has a reason from the moment it reads; the kernel knows the port of
\* a thread that reads only, and a bound port is never given back.
ReaderFacts ==
  /\ \A t \in LpmThreads :
       /\ port = t => pc[t] \in Reading \union {"allocate", "ended"}
       /\ pc[t] \in Reading => eWakeupReason[t] \in Reasons
       /\ pc[t] \notin Reading => eWakeupReason[t] = Nobody
       /\ pc[t] = "send" => eWakeupReason[t] \in Announced
  /\ introduced => port \in LpmThreads /\ pc[port] \in Reading

IInv == TypeOK /\ OneReader /\ ReaderFacts

=============================================================================
