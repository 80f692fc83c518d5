--------------------------- MODULE EmergencyCall ----------------------------
(***************************************************************************)
(* The requests that only hand something on to the microcontroller: the    *)
(* state of an emergency call (LC_Emergency on D-Bus and lifecycle_LC_     *)
(* Emergency of Legato, through triggerLC_Emergency) and the RTC timer     *)
(* (LC_SetRTC).  Each is a synchronous call of the proxy, on the thread of *)
(* the client's request; it may find the service gone or time out, and     *)
(* what timed out may still be on its way.                                 *)
(***************************************************************************)
EXTENDS LifecycleTypes, Naturals, Sequences

CONSTANTS
  RequestedStates,  \* the states clients ask for
  Timeouts,         \* the timeouts they ask for, in minutes
  WireBound,        \* requests that may be on their way
  NoRequest

dispatcher == "dispatcher"
legato     == "legato"
Callers    == {dispatcher, legato}

\* call_status_enum, for the states triggerLC_Emergency has a case for.
CallStateOf ==
  [NAD_EMERGENCY |-> "NAD_EMERGENCY", NAD_EMERGENCY_LAW |-> "NAD_EMERGENCY_LAW",
   NAD_EMERGENCY_LAW_LP |-> "NAD_EMERGENCY_LAW_LP", NAD_ON |-> "NAD_ON"]

\* Mutant of CallState: the status of the case before is sent.
CallStateCopied(state) ==
  IF state = "NAD_EMERGENCY_LAW" THEN "NAD_EMERGENCY" ELSE CallStateOf[state]

CallState(state) == CallStateOf[state]

CallStatus == {"SUCCESS", "NOT_AVAILABLE", "REMOTE_ERROR"}

Emergency(state) == [kind |-> "emergency", value |-> state]
Timer(timeout)   == [kind |-> "rtc", value |-> timeout]

Requests == {Emergency(state) : state \in RequestedStates} \union {Timer(m) : m \in Timeouts}

TimerRequests == {r \in Requests : r.kind = "rtc"}

\* The requests triggerLC_Emergency hands on.
HandedOn == {r \in Requests : r.kind = "emergency" /\ r.value \in DOMAIN CallStateOf}

ASSUME CallAssumption ==
  /\ RequestedStates \subseteq LC_State
  /\ WireBound \in Nat
  /\ NoRequest \notin Requests

VARIABLES
  available,  \* the proxy has a service
  pc,         \* where each caller is
  request,    \* what it was asked for, last
  wire,       \* requests on their way; live: the caller still waits
  replied,    \* an answer of the service is on its way
  status,     \* _internalCallStatus
  answer,     \* the LC_Status of the last answer to a client
  call,       \* the microcontroller's call status
  rtc,        \* and its wakeup timer
  accepted,   \* history: it has taken the caller's current request
  latest      \* history: whose emergency request it took last

micro == <<call, rtc, latest>>
vars  == <<available, pc, request, wire, replied, status, answer, call, rtc, accepted, latest>>

Init ==
  /\ available = FALSE
  /\ pc = [c \in Callers |-> "idle"]
  /\ request = [c \in Callers |-> NoRequest]
  /\ wire = <<>>
  /\ replied = [c \in Callers |-> FALSE]
  /\ status \in [Callers -> CallStatus]
  /\ answer = [c \in Callers |-> "LC_STS_NOT_OK"]
  /\ call = "NAD_ON"
  /\ rtc = NoRequest
  /\ accepted = [c \in Callers |-> FALSE]
  /\ latest = NoRequest

Goto(c, from, to) == pc[c] = from /\ pc' = [pc EXCEPT ![c] = to]

-----------------------------------------------------------------------------
(* The handlers.                                                           *)

\* _internalCallStatus begins with what the stack held.
Begin(c, r, to) ==
  /\ Goto(c, "idle", to)
  /\ request' = [request EXCEPT ![c] = r]
  /\ \E garbage \in CallStatus : status' = [status EXCEPT ![c] = garbage]
  /\ accepted' = [accepted EXCEPT ![c] = FALSE]
  /\ UNCHANGED <<available, wire, replied, answer, micro>>

\* A state without a case calls nothing.
triggerLC_Emergency(c, state) ==
  Begin(c, Emergency(state), IF state \in DOMAIN CallStateOf THEN "call" ELSE "evaluate")

\* Mutant of LC_SetRTC: without a service it does not even try.
LC_SetRTCIfAvailable(timeout) ==
  Begin(dispatcher, Timer(timeout), IF available THEN "call" ELSE "evaluate")

LC_SetRTC(timeout) == Begin(dispatcher, Timer(timeout), "call")

Payload(c) ==
  IF request[c].kind = "rtc" THEN request[c] ELSE Emergency(CallState(request[c].value))

\* Update_Emergency_Call_status, SetSOC_Periodic_WakeUpTimer.
Call(c) ==
  /\ Goto(c, "call", "wait")
  /\ available
  /\ Len(wire) < WireBound
  /\ wire' = Append(wire, [caller |-> c, payload |-> Payload(c), live |-> TRUE])
  /\ UNCHANGED <<available, request, replied, status, answer, accepted, micro>>

CallUnavailable(c) ==
  /\ Goto(c, "call", "evaluate")
  /\ ~ available
  /\ status' = [status EXCEPT ![c] = "NOT_AVAILABLE"]
  /\ UNCHANGED <<available, request, wire, replied, answer, accepted, micro>>

Reply(c) ==
  /\ Goto(c, "wait", "evaluate")
  /\ replied[c] /\ replied' = [replied EXCEPT ![c] = FALSE]
  /\ status' = [status EXCEPT ![c] = "SUCCESS"]
  /\ UNCHANGED <<available, request, wire, answer, accepted, micro>>

\* The answer, should it still come, is not for anybody.
TimesOut(c) ==
  /\ Goto(c, "wait", "evaluate")
  /\ replied' = [replied EXCEPT ![c] = FALSE]
  /\ status' = [status EXCEPT ![c] = "REMOTE_ERROR"]
  /\ wire' = [i \in DOMAIN wire |->
                IF wire[i].caller = c THEN [wire[i] EXCEPT !.live = FALSE] ELSE wire[i]]
  /\ UNCHANGED <<available, request, answer, accepted, micro>>

\* Mutant of Verdict: a call that was made is taken for one that succeeded.
VerdictOnceCalled(c) == IF status[c] # "NOT_AVAILABLE" THEN "LC_STS_OK" ELSE "LC_STS_NOT_OK"

\* Mutant of Verdict: the refusal of the dormant evaluateLC_Emergency.
VerdictOfRegistry(c) ==
  IF status[c] = "SUCCESS" THEN "LC_STS_OK" ELSE "LC_STS_NOT_OK_CLIENT_NOT_REGISTERED"

\* LC_SetRTC logs the status and answers OK.
Verdict(c) ==
  IF request[c].kind = "rtc" \/ status[c] = "SUCCESS" THEN "LC_STS_OK" ELSE "LC_STS_NOT_OK"

Answer(c) ==
  /\ Goto(c, "evaluate", "idle")
  /\ answer' = [answer EXCEPT ![c] = Verdict(c)]
  /\ UNCHANGED <<available, request, wire, replied, status, accepted, micro>>

-----------------------------------------------------------------------------
(* The service of the microcontroller, and its network.                    *)

ServiceChanges ==
  /\ available' = ~ available
  /\ UNCHANGED <<pc, request, wire, replied, status, answer, accepted, micro>>

\* Requests arrive in the order they were sent.
Accept ==
  /\ wire # <<>> /\ wire' = Tail(wire)
  /\ LET r == Head(wire) IN
       /\ IF r.payload.kind = "rtc"
          THEN rtc' = r.payload.value /\ UNCHANGED <<call, latest>>
          ELSE call' = r.payload.value /\ latest' = r.caller /\ UNCHANGED rtc
       /\ replied' = [replied EXCEPT ![r.caller] = @ \/ r.live]
       /\ accepted' = [accepted EXCEPT ![r.caller] = @ \/ r.live]
  /\ UNCHANGED <<available, pc, request, status, answer>>

Lose ==
  /\ wire # <<>> /\ wire' = Tail(wire)
  /\ UNCHANGED <<available, pc, request, replied, status, answer, accepted, micro>>

-----------------------------------------------------------------------------
(* The specification.                                                      *)

Proceed(c) == Call(c) \/ CallUnavailable(c) \/ Reply(c) \/ TimesOut(c) \/ Answer(c)

Next ==
  \/ \E c \in Callers, state \in RequestedStates : triggerLC_Emergency(c, state)
  \/ \E timeout \in Timeouts : LC_SetRTC(timeout)
  \/ \E c \in Callers : Proceed(c)
  \/ ServiceChanges \/ Accept \/ Lose

Spec == Init /\ [][Next]_vars

-----------------------------------------------------------------------------
(* Properties.                                                             *)

Pending == [caller : Callers, payload : [kind : {"emergency", "rtc"},
            value : LC_State \union Timeouts], live : BOOLEAN]

TypeOK ==
  /\ available \in BOOLEAN
  /\ pc \in [Callers -> {"idle", "call", "wait", "evaluate"}]
  /\ request \in [Callers -> Requests \union {NoRequest}]
  /\ wire \in Seq(Pending) /\ Len(wire) <= WireBound
  /\ replied \in [Callers -> BOOLEAN]
  /\ status \in [Callers -> CallStatus]
  /\ answer \in [Callers -> {"LC_STS_OK", "LC_STS_NOT_OK"}]
  /\ call \in DOMAIN CallStateOf
  /\ rtc \in Timeouts \union {NoRequest}
  /\ accepted \in [Callers -> BOOLEAN]
  /\ latest \in Callers \union {NoRequest}

\* The last answer to the client of a caller is OK.
Granted(c) == pc[c] = "idle" /\ answer[c] = "LC_STS_OK" /\ request[c] \in HandedOn

\* A client whose emergency request is answered OK has it accepted, by this very
\* call: neither a call that timed out nor a late answer to it passes for one.
OkMeansAccepted == \A c \in Callers : Granted(c) => accepted[c]

\* What the microcontroller was told by a call that was answered OK stands until
\* another client's call: a request of the same client that timed out before
\* cannot come after it.
OkStands ==
  \A c \in Callers :
    Granted(c) /\ latest = c => call = request[c].value

\* LC_SetRTC answers OK in any case; the CallStatus it only logs tells.  Where
\* that is SUCCESS the timer is the one the client asked for, and stays so until
\* the next LC_SetRTC: neither one that timed out before nor what the stack held
\* passes for it.
TimerStands ==
  pc[dispatcher] = "idle" /\ request[dispatcher] \in TimerRequests
    /\ status[dispatcher] = "SUCCESS"
      => rtc = request[dispatcher].value

-----------------------------------------------------------------------------
(* What makes them inductive.                                              *)

CallFacts ==
  \A c \in Callers :
    /\ pc[c] # "idle" => request[c] \in Requests
    /\ pc[c] \in {"call", "wait"} => request[c].kind = "rtc" \/ request[c] \in HandedOn
    /\ pc[c] = "call" => ~ accepted[c]
    /\ replied[c] => pc[c] = "wait" /\ accepted[c]
    /\ pc[c] = "evaluate" /\ status[c] = "SUCCESS" /\ request[c] \in HandedOn => accepted[c]

\* A live request is the caller's current one and its last on the wire; once it
\* is accepted the wire holds none of the caller's.
WireFacts ==
  /\ \A i \in DOMAIN wire :
       /\ ~ accepted[wire[i].caller]
       /\ wire[i].payload.kind = "emergency" => wire[i].payload.value \in DOMAIN CallStateOf
       /\ wire[i].payload.kind = "rtc" => wire[i].payload.value \in Timeouts
       /\ wire[i].live => /\ pc[wire[i].caller] = "wait"
                          /\ wire[i].payload = Payload(wire[i].caller)
                          /\ \A j \in DOMAIN wire : j > i => wire[j].caller # wire[i].caller
  /\ \A c \in Callers :
       accepted[c] /\ latest = c /\ request[c] \in HandedOn => call = CallState(request[c].value)

IInv == TypeOK /\ OkMeansAccepted /\ CallFacts /\ WireFacts

\* Beside it: only the dispatcher sets the timer, with one request at a
\* time, and looks at a status that tells whether it was accepted.
TimerFacts ==
  /\ request[legato] \notin TimerRequests
  /\ \A i \in DOMAIN wire : wire[i].payload.kind = "rtc" => wire[i].caller = dispatcher
  /\ request[dispatcher] \in TimerRequests =>
       /\ accepted[dispatcher] => rtc = request[dispatcher].value
       /\ pc[dispatcher] \in {"evaluate", "idle"} /\ status[dispatcher] = "SUCCESS"
            => accepted[dispatcher]

=============================================================================
