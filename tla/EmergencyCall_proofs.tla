------------------------ MODULE EmergencyCall_proofs ------------------------
(***************************************************************************)
(* What holds of the emergency calls for every set of states and timeouts  *)
(* clients ask for and every number of requests that are on their way.     *)
(***************************************************************************)
EXTENDS EmergencyCall, SequenceTheorems, TLAPS

Places == {"idle", "call", "wait", "evaluate"}

-----------------------------------------------------------------------------
(* Requests and what is on the wire.                                       *)

\* A request hands on a state with a case, hands on a timeout, or calls nothing.
LEMMA RequestType ==
  ASSUME NEW r \in Requests
  PROVE  /\ r.kind = "rtc" => r.value \in Timeouts
         /\ r.kind \in {"emergency", "rtc"}
         /\ r.kind = "emergency" => r.value \in LC_State
         /\ r = [kind |-> r.kind, value |-> r.value]
BY CallAssumption DEF Requests, Emergency, Timer

\* The payload of a call.
LEMMA PayloadType ==
  ASSUME NEW c \in Callers, request[c] \in Requests,
         request[c].kind = "rtc" \/ request[c] \in HandedOn
  PROVE  /\ Payload(c) \in [kind : {"emergency", "rtc"}, value : LC_State \union Timeouts]
         /\ Payload(c).kind = "emergency" =>
              /\ request[c] \in HandedOn
              /\ Payload(c).value = CallState(request[c].value)
              /\ Payload(c).value \in DOMAIN CallStateOf
         /\ Payload(c).kind = "rtc" => Payload(c).value \in Timeouts
         /\ request[c] \in HandedOn => Payload(c).kind = "emergency"
<1>1. CASE request[c].kind = "rtc"
  <2>1. request[c] \notin HandedOn
    BY <1>1 DEF HandedOn
  <2> QED BY <1>1, <2>1, RequestType DEF Payload
<1>2. CASE request[c].kind # "rtc"
  <2>1. request[c] \in HandedOn /\ request[c].value \in DOMAIN CallStateOf
    BY <1>2 DEF HandedOn
  <2>2. CallState(request[c].value) \in LC_State \intersect DOMAIN CallStateOf
    BY <2>1 DEF CallState, CallStateOf, LC_State
  <2> QED BY <1>2, <2>1, <2>2 DEF Payload, Emergency
<1> QED BY <1>1, <1>2

\* What is known of the wire, item by item.
LEMMA WireType ==
  ASSUME TypeOK
  PROVE  /\ wire \in Seq(Pending) /\ Len(wire) \in Nat /\ DOMAIN wire = 1 .. Len(wire)
         /\ \A i \in DOMAIN wire : wire[i] \in Pending /\ wire[i].caller \in Callers
<1>1. wire \in Seq(Pending)
  BY DEF TypeOK
<1>2. Len(wire) \in Nat /\ DOMAIN wire = 1 .. Len(wire)
  BY <1>1, LenProperties
<1>3. \A i \in DOMAIN wire : wire[i] \in Pending
  BY <1>1, <1>2, ElementOfSeq
<1> QED BY <1>1, <1>2, <1>3 DEF Pending

\* What is left of the wire without its first request.
LEMMA TailType ==
  ASSUME TypeOK, wire # <<>>, wire' = Tail(wire)
  PROVE  /\ wire' \in Seq(Pending) /\ Len(wire') <= WireBound
         /\ \A i \in DOMAIN wire' : i + 1 \in DOMAIN wire /\ wire'[i] = wire[i + 1]
         /\ 1 \in DOMAIN wire /\ Head(wire) = wire[1]
         /\ \A i \in DOMAIN wire' : i \in Nat /\ i + 1 > 1
<1>1. wire \in Seq(Pending) /\ Len(wire) \in Nat /\ DOMAIN wire = 1 .. Len(wire)
  BY WireType
<1>2. /\ wire' \in Seq(Pending) /\ Len(wire') = Len(wire) - 1
      /\ \A i \in 1 .. Len(wire') : wire'[i] = wire[i + 1]
      /\ Head(wire) = wire[1]
  BY <1>1, HeadTailProperties
<1>3. DOMAIN wire' = 1 .. Len(wire') /\ Len(wire) >= 1
  BY <1>1, <1>2, LenProperties, EmptySeq
<1> QED BY <1>1, <1>2, <1>3, CallAssumption DEF TypeOK

\* A caller that moves is the only one that does.
LEMMA GotoType ==
  ASSUME TypeOK, NEW c \in Callers, NEW from, NEW to \in Places, Goto(c, from, to)
  PROVE  /\ pc' \in [Callers -> Places]
         /\ pc[c] = from /\ pc'[c] = to
         /\ \A d \in Callers \ {c} : pc'[d] = pc[d]
BY DEF Goto, TypeOK, Places

-----------------------------------------------------------------------------
(* The invariant.                                                          *)

\* The initial states satisfy it.
LEMMA InitIInv == Init => IInv
<1> SUFFICES ASSUME Init PROVE IInv
  OBVIOUS
<1>1. wire \in Seq(Pending) /\ Len(wire) <= WireBound /\ DOMAIN wire = {}
  BY EmptySeq, CallAssumption DEF Init
<1>2. TypeOK
  BY <1>1 DEF Init, TypeOK, CallStateOf
<1>3. OkMeansAccepted /\ CallFacts
  BY DEF Init, OkMeansAccepted, CallFacts, Granted
<1>4. WireFacts
  BY <1>1 DEF Init, WireFacts
<1> QED BY <1>2, <1>3, <1>4 DEF IInv

\* A handler that begins has no request on the wire that anybody waits for.
LEMMA BeginIInv ==
  ASSUME IInv, NEW c \in Callers, NEW r \in Requests, NEW to \in {"call", "evaluate"},
         to = "call" => r.kind = "rtc" \/ r \in HandedOn,
         to = "evaluate" => r \notin HandedOn,
         Begin(c, r, to)
  PROVE  IInv'
<1>1. /\ pc' \in [Callers -> Places] /\ pc[c] = "idle" /\ pc'[c] = to
      /\ \A d \in Callers \ {c} : pc'[d] = pc[d]
  BY GotoType DEF Begin, IInv, Places
<1>2. /\ request'[c] = r /\ \A d \in Callers \ {c} : request'[d] = request[d]
      /\ accepted'[c] = FALSE /\ \A d \in Callers \ {c} : accepted'[d] = accepted[d]
      /\ \A d \in Callers \ {c} : status'[d] = status[d]
  BY DEF Begin, IInv, TypeOK
<1>3. UNCHANGED <<available, wire, replied, answer, call, rtc, latest>>
  BY DEF Begin, micro
<1>4. TypeOK'
  BY <1>1, <1>3 DEF Begin, IInv, TypeOK, Places
<1>5. OkMeansAccepted'
  BY <1>1, <1>2, <1>3 DEF IInv, OkMeansAccepted, Granted
<1>6. CallFacts'
  BY <1>1, <1>2, <1>3 DEF IInv, CallFacts
<1>7. WireFacts'
  <2>1. \A i \in DOMAIN wire : wire[i].caller \in Callers
    BY WireType DEF IInv
  <2>2. \A d \in Callers \ {c} : Payload(d)' = Payload(d)
    BY <1>2 DEF Payload
  <2>3. \A i \in DOMAIN wire : wire[i].live => wire[i].caller # c
    BY <1>1 DEF IInv, WireFacts
  <2> QED BY <1>1, <1>2, <1>3, <2>1, <2>2, <2>3 DEF IInv, WireFacts
<1> QED BY <1>4, <1>5, <1>6, <1>7 DEF IInv

\* A step of a caller that leaves the wire, the requests and the microcontroller
\* alone, and neither begins to wait nor stops, keeps the facts about the wire.
LEMMA WireKept ==
  ASSUME IInv, UNCHANGED <<wire, request, accepted, call, latest>>,
         \A d \in Callers : pc[d] = "wait" =>
           pc'[d] = "wait" \/ \A i \in DOMAIN wire : wire[i].live => wire[i].caller # d
  PROVE  WireFacts'
<1>1. \A i \in DOMAIN wire : wire[i].caller \in Callers
  BY WireType DEF IInv
<1>2. \A d \in Callers : Payload(d)' = Payload(d)
  BY DEF Payload
<1> QED BY <1>1, <1>2 DEF IInv, WireFacts

\* Calls are made for what the handlers were asked.
LEMMA CallIInv == ASSUME IInv, NEW c \in Callers, Call(c) PROVE IInv'
<1>1. /\ pc' \in [Callers -> Places] /\ pc[c] = "call" /\ pc'[c] = "wait"
      /\ \A d \in Callers \ {c} : pc'[d] = pc[d]
  BY GotoType DEF Call, IInv, Places
<1>2. UNCHANGED <<available, request, replied, status, answer, accepted, call, rtc, latest>>
  BY DEF Call, micro
<1> DEFINE item == [caller |-> c, payload |-> Payload(c), live |-> TRUE]
<1>3. /\ request[c] \in Requests /\ ~ accepted[c]
      /\ request[c].kind = "rtc" \/ request[c] \in HandedOn
  BY <1>1 DEF IInv, CallFacts
<1>4. item \in Pending
  BY <1>3, PayloadType DEF Pending
<1>5. /\ wire \in Seq(Pending) /\ Len(wire) \in Nat /\ DOMAIN wire = 1 .. Len(wire)
      /\ \A i \in DOMAIN wire : wire[i].caller \in Callers
  BY WireType DEF IInv
<1>6. /\ wire' \in Seq(Pending) /\ Len(wire') = Len(wire) + 1
      /\ \A i \in 1 .. Len(wire) : wire'[i] = wire[i]
      /\ wire'[Len(wire) + 1] = item
  BY <1>4, <1>5, AppendProperties DEF Call
<1>7. DOMAIN wire' = 1 .. (Len(wire) + 1) /\ Len(wire') <= WireBound
  BY <1>5, <1>6, LenProperties, CallAssumption DEF Call
<1>8. TypeOK'
  BY <1>1, <1>2, <1>6, <1>7 DEF IInv, TypeOK, Places
<1>9. OkMeansAccepted' /\ CallFacts'
  BY <1>1, <1>2, <1>3 DEF IInv, OkMeansAccepted, Granted, CallFacts
<1>10. \A d \in Callers : Payload(d)' = Payload(d)
  BY <1>2 DEF Payload
<1>11. \A i \in DOMAIN wire : wire[i].live => wire[i].caller # c
  BY <1>1 DEF IInv, WireFacts
<1> HIDE DEF item
<1>12. WireFacts'
  <2>1. /\ item.caller = c /\ item.payload = Payload(c) /\ item.live
        /\ item.payload.kind = "emergency" => item.payload.value \in DOMAIN CallStateOf
        /\ item.payload.kind = "rtc" => item.payload.value \in Timeouts
    BY <1>3, PayloadType DEF item
  <2>2. ASSUME NEW i \in DOMAIN wire'
        PROVE  /\ ~ accepted[wire'[i].caller]
               /\ wire'[i].payload.kind = "emergency" =>
                    wire'[i].payload.value \in DOMAIN CallStateOf
               /\ wire'[i].payload.kind = "rtc" => wire'[i].payload.value \in Timeouts
               /\ wire'[i].live =>
                    /\ pc'[wire'[i].caller] = "wait"
                    /\ wire'[i].payload = Payload(wire'[i].caller)
                    /\ \A j \in DOMAIN wire' : j > i => wire'[j].caller # wire'[i].caller
    <3>1. CASE i \in DOMAIN wire
      <4>1. wire'[i] = wire[i]
        BY <1>5, <1>6, <3>1
      <4>2. wire[i].live => \A j \in DOMAIN wire' : j > i => wire'[j].caller # wire[i].caller
        BY <1>5, <1>6, <1>7, <1>11, <2>1, <3>1 DEF IInv, WireFacts
      <4> QED BY <1>1, <1>5, <1>11, <3>1, <4>1, <4>2 DEF IInv, WireFacts
    <3>2. CASE i = Len(wire) + 1
      BY <1>1, <1>3, <1>5, <1>6, <1>7, <2>1, <3>2
    <3> QED BY <1>5, <1>7, <3>1, <3>2
  <2>3. \A i \in DOMAIN wire' : wire'[i].caller \in Callers
    BY <1>5, <1>6, <1>7, <2>1
  <2> QED BY <1>2, <1>10, <2>2, <2>3 DEF IInv, WireFacts
<1> QED BY <1>8, <1>9, <1>12 DEF IInv

\* What times out stays on the wire, and nobody waits for it.
LEMMA TimesOutIInv == ASSUME IInv, NEW c \in Callers, TimesOut(c) PROVE IInv'
<1>1. /\ pc' \in [Callers -> Places] /\ pc[c] = "wait" /\ pc'[c] = "evaluate"
      /\ \A d \in Callers \ {c} : pc'[d] = pc[d]
  BY GotoType DEF TimesOut, IInv, Places
<1>2. UNCHANGED <<available, request, answer, accepted, call, rtc, latest>>
  BY DEF TimesOut, micro
<1>3. /\ replied' \in [Callers -> BOOLEAN] /\ replied'[c] = FALSE
      /\ status' \in [Callers -> CallStatus] /\ status'[c] = "REMOTE_ERROR"
      /\ \A d \in Callers \ {c} : replied'[d] = replied[d] /\ status'[d] = status[d]
  BY DEF TimesOut, IInv, TypeOK, CallStatus
<1>4. /\ wire \in Seq(Pending) /\ Len(wire) \in Nat /\ DOMAIN wire = 1 .. Len(wire)
      /\ \A i \in DOMAIN wire : wire[i] \in Pending /\ wire[i].caller \in Callers
  BY WireType DEF IInv
<1>5. /\ DOMAIN wire' = 1 .. Len(wire)
      /\ \A i \in DOMAIN wire :
           /\ wire'[i] \in Pending
           /\ wire'[i].caller = wire[i].caller /\ wire'[i].payload = wire[i].payload
           /\ wire'[i].live => wire[i].live /\ wire[i].caller # c
  BY <1>4 DEF TimesOut, Pending
<1>6. wire' \in Seq(Pending) /\ Len(wire') = Len(wire)
  <2>1. wire' = [i \in 1 .. Len(wire) |-> wire'[i]]
    BY <1>4 DEF TimesOut
  <2>2. wire' \in Seq(Pending)
    BY <1>4, <1>5, <2>1, IsASeq
  <2> QED BY <1>4, <1>5, <2>2, LenProperties
<1>7. TypeOK'
  BY <1>1, <1>2, <1>3, <1>6 DEF IInv, TypeOK, Places
<1>8. OkMeansAccepted' /\ CallFacts'
  BY <1>1, <1>2, <1>3 DEF IInv, OkMeansAccepted, Granted, CallFacts
<1>9. WireFacts'
  <2>1. \A d \in Callers : Payload(d)' = Payload(d)
    BY <1>2 DEF Payload
  <2> QED BY <1>1, <1>2, <1>4, <1>5, <2>1 DEF IInv, WireFacts
<1> QED BY <1>7, <1>8, <1>9 DEF IInv

\* The microcontroller takes the request that was sent first.
LEMMA AcceptIInv == ASSUME IInv, Accept PROVE IInv'
<1> DEFINE r == wire[1]
           c == r.caller
<1>1. /\ wire' \in Seq(Pending) /\ Len(wire') <= WireBound
      /\ \A i \in DOMAIN wire' : i + 1 \in DOMAIN wire /\ wire'[i] = wire[i + 1]
      /\ 1 \in DOMAIN wire /\ Head(wire) = wire[1]
      /\ \A i \in DOMAIN wire' : i \in Nat /\ i + 1 > 1
  BY TailType DEF Accept, IInv
<1>2. \A i \in DOMAIN wire : wire[i] \in Pending /\ wire[i].caller \in Callers
  BY WireType DEF IInv
<1>3. /\ r.payload.kind = "rtc" \/ r.payload.kind = "emergency"
      /\ r.live \in BOOLEAN /\ c \in Callers
  BY <1>1, <1>2 DEF Pending
<1>4. UNCHANGED <<available, pc, request, status, answer>>
  BY DEF Accept
<1>5. /\ ~ accepted[c] /\ ~ replied[c]
      /\ r.payload.kind = "emergency" => r.payload.value \in DOMAIN CallStateOf
      /\ r.payload.kind = "rtc" => r.payload.value \in Timeouts
      /\ r.live => pc[c] = "wait" /\ r.payload = Payload(c)
                     /\ \A j \in DOMAIN wire : j > 1 => wire[j].caller # c
  BY <1>1, <1>3 DEF IInv, WireFacts, CallFacts
<1>6. /\ r.payload.kind = "rtc" =>
           rtc' = r.payload.value /\ call' = call /\ latest' = latest
      /\ r.payload.kind = "emergency" =>
           call' = r.payload.value /\ latest' = c /\ rtc' = rtc
      /\ replied' = [replied EXCEPT ![c] = @ \/ r.live]
      /\ accepted' = [accepted EXCEPT ![c] = @ \/ r.live]
  BY <1>1 DEF Accept
<1> HIDE DEF r, c
<1>7. /\ replied' \in [Callers -> BOOLEAN] /\ replied'[c] = r.live
      /\ accepted' \in [Callers -> BOOLEAN] /\ accepted'[c] = r.live
      /\ \A d \in Callers \ {c} : replied'[d] = replied[d] /\ accepted'[d] = accepted[d]
  <2>1. /\ replied \in [Callers -> BOOLEAN] /\ accepted \in [Callers -> BOOLEAN]
        /\ (replied[c] \/ r.live) = r.live /\ (accepted[c] \/ r.live) = r.live
    BY <1>3, <1>5 DEF IInv, TypeOK
  <2> QED BY <1>3, <1>6, <2>1
<1>8. TypeOK'
  BY <1>1, <1>3, <1>4, <1>5, <1>6, <1>7 DEF IInv, TypeOK
<1>9. OkMeansAccepted'
  BY <1>4, <1>5, <1>7 DEF IInv, OkMeansAccepted, Granted
<1>10. CallFacts'
  BY <1>3, <1>4, <1>5, <1>7 DEF IInv, CallFacts
<1>11. \A d \in Callers : Payload(d)' = Payload(d)
  BY <1>4 DEF Payload
<1>12. WireFacts'
  <2>1. ASSUME NEW i \in DOMAIN wire'
        PROVE  /\ ~ accepted'[wire'[i].caller]
               /\ wire'[i].payload.kind = "emergency" =>
                    wire'[i].payload.value \in DOMAIN CallStateOf
               /\ wire'[i].payload.kind = "rtc" => wire'[i].payload.value \in Timeouts
               /\ wire'[i].live =>
                    /\ pc'[wire'[i].caller] = "wait"
                    /\ wire'[i].payload = Payload(wire'[i].caller)
                    /\ \A j \in DOMAIN wire' : j > i => wire'[j].caller # wire'[i].caller
    <3>1. wire'[i] = wire[i + 1] /\ i + 1 \in DOMAIN wire /\ i + 1 > 1 /\ i \in Nat
      BY <1>1
    <3>2. ~ accepted'[wire'[i].caller]
      BY <1>2, <1>5, <1>7, <3>1 DEF IInv, WireFacts
    <3>3. \A j \in DOMAIN wire' : j > i => j + 1 > i + 1 /\ wire'[j] = wire[j + 1]
                                            /\ j + 1 \in DOMAIN wire
      BY <1>1, <3>1
    <3> QED BY <1>4, <3>1, <3>2, <3>3 DEF IInv, WireFacts
  <2>2. \A i \in DOMAIN wire' : wire'[i].caller \in Callers
    BY <1>1, <1>2
  <2>3. ASSUME NEW d \in Callers, accepted'[d], latest' = d, request[d] \in HandedOn
        PROVE  call' = CallState(request[d].value)
    <3>1. CASE d = c
      <4>1. r.live /\ pc[d] = "wait" /\ r.payload = Payload(d)
        BY <1>5, <1>7, <2>3, <3>1
      <4>2. request[d] \in Requests
        BY <2>3 DEF HandedOn
      <4>3. r.payload.kind = "emergency" /\ r.payload.value = CallState(request[d].value)
        BY <2>3, <4>1, <4>2, PayloadType
      <4> QED BY <1>6, <4>3
    <3>2. CASE d # c
      <4>1. r.payload.kind = "rtc" /\ accepted[d]
        BY <1>3, <1>6, <1>7, <2>3, <3>2
      <4> QED BY <1>6, <2>3, <4>1 DEF IInv, WireFacts
    <3> QED BY <3>1, <3>2
  <2> QED BY <1>4, <1>11, <2>1, <2>2, <2>3 DEF WireFacts
<1> QED BY <1>8, <1>9, <1>10, <1>12 DEF IInv

\* A lost request is accepted by nobody.
LEMMA LoseIInv == ASSUME IInv, Lose PROVE IInv'
<1>1. /\ wire' \in Seq(Pending) /\ Len(wire') <= WireBound
      /\ \A i \in DOMAIN wire' : i + 1 \in DOMAIN wire /\ wire'[i] = wire[i + 1]
      /\ \A i \in DOMAIN wire' : i \in Nat /\ i + 1 > 1
  BY TailType DEF Lose, IInv
<1>2. UNCHANGED <<available, pc, request, replied, status, answer, accepted, call, rtc, latest>>
  BY DEF Lose, micro
<1>3. TypeOK'
  BY <1>1, <1>2 DEF IInv, TypeOK
<1>4. OkMeansAccepted' /\ CallFacts'
  BY <1>2 DEF IInv, OkMeansAccepted, Granted, CallFacts
<1>5. WireFacts'
  <2>1. \A i \in DOMAIN wire' : wire[i + 1].caller \in Callers
    BY <1>1, WireType DEF IInv
  <2>2. \A d \in Callers : Payload(d)' = Payload(d)
    BY <1>2 DEF Payload
  <2>3. \A i, j \in DOMAIN wire' : j > i => j + 1 > i + 1
    BY <1>1
  <2> QED BY <1>1, <1>2, <2>1, <2>2, <2>3 DEF IInv, WireFacts
<1> QED BY <1>3, <1>4, <1>5 DEF IInv

\* Every step keeps the invariant.
LEMMA StepIInv == IInv /\ [Next]_vars => IInv'
<1> SUFFICES ASSUME IInv, [Next]_vars PROVE IInv'
  OBVIOUS
<1>1. ASSUME NEW c \in Callers, NEW state \in RequestedStates, triggerLC_Emergency(c, state)
      PROVE  IInv'
  <2>1. Emergency(state) \in Requests
    BY DEF Requests
  <2>2. Emergency(state) \in HandedOn <=> state \in DOMAIN CallStateOf
    BY <2>1 DEF HandedOn, Emergency
  <2>3. CASE state \in DOMAIN CallStateOf
    BY <1>1, <2>1, <2>2, <2>3, BeginIInv DEF triggerLC_Emergency
  <2>4. CASE state \notin DOMAIN CallStateOf
    BY <1>1, <2>1, <2>2, <2>4, BeginIInv DEF triggerLC_Emergency
  <2> QED BY <2>3, <2>4
<1>2. ASSUME NEW m \in Timeouts, LC_SetRTC(m) PROVE IInv'
  BY <1>2, BeginIInv DEF LC_SetRTC, Requests, Timer, Callers
<1>3. ASSUME NEW c \in Callers, Call(c) PROVE IInv'
  BY <1>3, CallIInv
<1>4. ASSUME NEW c \in Callers, CallUnavailable(c) PROVE IInv'
  <2>1. /\ pc' \in [Callers -> Places] /\ pc[c] = "call" /\ pc'[c] = "evaluate"
        /\ \A d \in Callers \ {c} : pc'[d] = pc[d]
    BY <1>4, GotoType DEF CallUnavailable, IInv, Places
  <2>2. UNCHANGED <<available, request, wire, replied, answer, accepted, call, rtc, latest>>
    BY <1>4 DEF CallUnavailable, micro
  <2>3. /\ status' \in [Callers -> CallStatus] /\ status'[c] = "NOT_AVAILABLE"
        /\ \A d \in Callers \ {c} : status'[d] = status[d]
    BY <1>4 DEF CallUnavailable, IInv, TypeOK, CallStatus
  <2>4. TypeOK' /\ OkMeansAccepted' /\ CallFacts'
    BY <2>1, <2>2, <2>3 DEF IInv, TypeOK, Places, OkMeansAccepted, Granted, CallFacts
  <2> QED BY <2>1, <2>2, <2>4, WireKept DEF IInv
<1>5. ASSUME NEW c \in Callers, Reply(c) PROVE IInv'
  <2>1. /\ pc' \in [Callers -> Places] /\ pc[c] = "wait" /\ pc'[c] = "evaluate"
        /\ \A d \in Callers \ {c} : pc'[d] = pc[d]
    BY <1>5, GotoType DEF Reply, IInv, Places
  <2>2. UNCHANGED <<available, request, wire, answer, accepted, call, rtc, latest>>
    BY <1>5 DEF Reply, micro
  <2>3. /\ replied' \in [Callers -> BOOLEAN] /\ replied'[c] = FALSE /\ replied[c]
        /\ status' \in [Callers -> CallStatus]
        /\ \A d \in Callers \ {c} : replied'[d] = replied[d] /\ status'[d] = status[d]
    BY <1>5 DEF Reply, IInv, TypeOK, CallStatus
  <2>4. accepted[c]
    BY <2>3 DEF IInv, CallFacts
  <2>5. TypeOK' /\ OkMeansAccepted' /\ CallFacts'
    BY <2>1, <2>2, <2>3, <2>4
       DEF IInv, TypeOK, Places, OkMeansAccepted, Granted, CallFacts
  <2>6. \A i \in DOMAIN wire : wire[i].caller # c
    BY <2>4 DEF IInv, WireFacts
  <2> QED BY <2>1, <2>2, <2>5, <2>6, WireKept DEF IInv
<1>6. ASSUME NEW c \in Callers, TimesOut(c) PROVE IInv'
  BY <1>6, TimesOutIInv
<1>7. ASSUME NEW c \in Callers, Answer(c) PROVE IInv'
  <2>1. /\ pc' \in [Callers -> Places] /\ pc[c] = "evaluate" /\ pc'[c] = "idle"
        /\ \A d \in Callers \ {c} : pc'[d] = pc[d]
    BY <1>7, GotoType DEF Answer, IInv, Places
  <2>2. UNCHANGED <<available, request, wire, replied, status, accepted, call, rtc, latest>>
    BY <1>7 DEF Answer, micro
  <2>3. /\ answer' \in [Callers -> {"LC_STS_OK", "LC_STS_NOT_OK"}]
        /\ answer'[c] = Verdict(c)
        /\ \A d \in Callers \ {c} : answer'[d] = answer[d]
    BY <1>7 DEF Answer, IInv, TypeOK, Verdict
  <2>4. Verdict(c) = "LC_STS_OK" /\ request[c] \in HandedOn => accepted[c]
    BY <2>1 DEF Verdict, HandedOn, IInv, CallFacts
  <2>5. OkMeansAccepted'
    BY <2>1, <2>2, <2>3, <2>4 DEF IInv, OkMeansAccepted, Granted
  <2>6. TypeOK' /\ CallFacts'
    BY <2>1, <2>2, <2>3 DEF IInv, TypeOK, Places, CallFacts
  <2> QED BY <2>1, <2>2, <2>5, <2>6, WireKept DEF IInv
<1>8. ASSUME ServiceChanges PROVE IInv'
  <2>1. UNCHANGED <<pc, request, wire, replied, status, answer, accepted, call, rtc, latest>>
    BY <1>8 DEF ServiceChanges, micro
  <2>2. TypeOK' /\ OkMeansAccepted' /\ CallFacts'
    BY <1>8, <2>1 DEF ServiceChanges, IInv, TypeOK, OkMeansAccepted, Granted, CallFacts
  <2> QED BY <2>1, <2>2, WireKept DEF IInv
<1>9. ASSUME Accept PROVE IInv'
  BY <1>9, AcceptIInv
<1>10. ASSUME Lose PROVE IInv'
  BY <1>10, LoseIInv
<1>11. CASE UNCHANGED vars
  <2>1. TypeOK' /\ OkMeansAccepted' /\ CallFacts'
    BY <1>11 DEF vars, IInv, TypeOK, OkMeansAccepted, Granted, CallFacts
  <2> QED BY <1>11, <2>1, WireKept DEF vars, IInv
<1> QED BY <1>1, <1>2, <1>3, <1>4, <1>5, <1>6, <1>7, <1>8, <1>9, <1>10, <1>11
        DEF Next, Proceed

\* The invariant is inductive.
THEOREM Invariance == Spec => []IInv
BY InitIInv, StepIInv, PTL DEF Spec

-----------------------------------------------------------------------------
(* The timer.                                                              *)

\* A request for the timer is no emergency, and its payload is itself.
LEMMA TimerType ==
  /\ \A state \in RequestedStates : Emergency(state) \notin TimerRequests
  /\ \A c \in Callers : request[c] \in TimerRequests => Payload(c) = request[c]
  /\ \A c \in Callers : request[c] \notin TimerRequests /\ request[c] \in Requests
       => Payload(c).kind = "emergency"
BY DEF TimerRequests, Emergency, Payload

\* A step that leaves the requests, the wire and the microcontroller alone, and
\* takes no caller to a status it has not earned.
LEMMA TimerKept ==
  ASSUME TimerFacts, UNCHANGED <<request, wire, accepted, rtc>>,
         /\ pc'[dispatcher] \in {"evaluate", "idle"} /\ status'[dispatcher] = "SUCCESS"
              => \/ pc[dispatcher] \in {"evaluate", "idle"} /\ status[dispatcher] = "SUCCESS"
                 \/ accepted[dispatcher]
  PROVE  TimerFacts'
BY DEF TimerFacts

\* The steps of a handler.
LEMMA HandlerTimer ==
  ASSUME IInv, TimerFacts, NEW c \in Callers,
         \/ \E state \in RequestedStates : triggerLC_Emergency(c, state)
         \/ c = dispatcher /\ \E m \in Timeouts : LC_SetRTC(m)
         \/ Proceed(c)
  PROVE  TimerFacts'
<1> USE DEF Callers
<1>1. dispatcher # legato
  BY DEF dispatcher, legato
<1>2. ASSUME NEW state \in RequestedStates, NEW to \in Places, Begin(c, Emergency(state), to)
      PROVE  TimerFacts'
  <2>1. /\ request' = [request EXCEPT ![c] = Emergency(state)]
        /\ UNCHANGED <<wire, rtc>>
        /\ \A d \in Callers \ {c} : pc'[d] = pc[d] /\ status'[d] = status[d]
                                     /\ accepted'[d] = accepted[d] /\ request'[d] = request[d]
        /\ request'[c] = Emergency(state)
    BY <1>2 DEF Begin, Goto, micro, IInv, TypeOK
  <2> QED BY <1>1, <2>1, TimerType DEF TimerFacts
<1>3. ASSUME NEW m \in Timeouts, c = dispatcher, LC_SetRTC(m)
      PROVE  TimerFacts'
  <2>1. /\ request'[legato] = request[legato] /\ UNCHANGED <<wire, rtc>>
        /\ ~ accepted'[dispatcher] /\ pc'[dispatcher] = "call"
    BY <1>1, <1>3 DEF LC_SetRTC, Begin, Goto, micro, IInv, TypeOK
  <2> QED BY <2>1 DEF TimerFacts
<1>4. CASE Call(c)
  <2> DEFINE item == [caller |-> c, payload |-> Payload(c), live |-> TRUE]
  <2>1. /\ pc[c] = "call" /\ pc'[c] = "wait"
        /\ UNCHANGED <<request, status, accepted, rtc>>
        /\ \A d \in Callers \ {c} : pc'[d] = pc[d]
    BY <1>4, GotoType DEF Call, Places, IInv, micro
  <2>2. request[c] \in Requests /\ (request[c].kind = "rtc" \/ request[c] \in HandedOn)
    BY <2>1 DEF IInv, CallFacts
  <2>3. item.payload.kind = "rtc" => item.caller = dispatcher
    BY <2>2, TimerType DEF TimerFacts
  <2>4. item \in Pending
    BY <2>2, PayloadType DEF Pending
  <2>5. /\ wire \in Seq(Pending) /\ Len(wire) \in Nat /\ DOMAIN wire = 1 .. Len(wire)
    BY WireType DEF IInv
  <2>6. /\ wire' \in Seq(Pending) /\ Len(wire') = Len(wire) + 1
        /\ \A i \in 1 .. Len(wire) : wire'[i] = wire[i]
        /\ wire'[Len(wire) + 1] = item
    BY <1>4, <2>4, <2>5, AppendProperties DEF Call
  <2>7. DOMAIN wire' = 1 .. (Len(wire) + 1)
    BY <2>5, <2>6, LenProperties
  <2> HIDE DEF item
  <2>8. \A i \in DOMAIN wire' : wire'[i].payload.kind = "rtc" => wire'[i].caller = dispatcher
    BY <2>3, <2>5, <2>6, <2>7 DEF TimerFacts
  <2>9. pc'[dispatcher] \in {"evaluate", "idle"} => pc'[dispatcher] = pc[dispatcher]
    BY <2>1
  <2> QED BY <2>1, <2>8, <2>9 DEF TimerFacts
<1>5. CASE CallUnavailable(c)
  <2>1. /\ status'[c] = "NOT_AVAILABLE" /\ UNCHANGED <<request, wire, accepted, rtc>>
        /\ \A d \in Callers \ {c} : pc'[d] = pc[d] /\ status'[d] = status[d]
    BY <1>5 DEF CallUnavailable, Goto, micro, IInv, TypeOK
  <2> QED BY <2>1, TimerKept
<1>6. CASE Reply(c)
  <2>1. /\ accepted[c] /\ UNCHANGED <<request, wire, accepted, rtc>>
        /\ \A d \in Callers \ {c} : pc'[d] = pc[d] /\ status'[d] = status[d]
    BY <1>6 DEF Reply, Goto, micro, IInv, TypeOK, CallFacts
  <2> QED BY <2>1, TimerKept
<1>7. CASE TimesOut(c)
  <2>1. /\ status'[c] = "REMOTE_ERROR" /\ UNCHANGED <<request, accepted, rtc>>
        /\ \A d \in Callers \ {c} : pc'[d] = pc[d] /\ status'[d] = status[d]
    BY <1>7 DEF TimesOut, Goto, micro, IInv, TypeOK
  <2>2. \A i \in DOMAIN wire : wire[i] \in Pending
    BY WireType DEF IInv
  <2>3. /\ DOMAIN wire' = DOMAIN wire
        /\ \A i \in DOMAIN wire : wire'[i].payload = wire[i].payload
                                  /\ wire'[i].caller = wire[i].caller
    BY <1>7, <2>2 DEF TimesOut, Pending
  <2> QED BY <2>1, <2>3 DEF TimerFacts
<1>8. CASE Answer(c)
  <2>1. /\ UNCHANGED <<request, wire, accepted, rtc, status>>
        /\ pc[c] = "evaluate" /\ \A d \in Callers \ {c} : pc'[d] = pc[d]
    BY <1>8 DEF Answer, Goto, micro, IInv, TypeOK
  <2> QED BY <2>1, TimerKept
<1> QED BY <1>2, <1>3, <1>4, <1>5, <1>6, <1>7, <1>8
        DEF triggerLC_Emergency, Proceed, Places

\* The steps of the service and its network.
LEMMA ServiceTimer ==
  ASSUME IInv, TimerFacts, Accept \/ Lose
  PROVE  TimerFacts'
<1> USE DEF Callers
<1> DEFINE r == wire[1]
<1>1. /\ wire # <<>> /\ wire' = Tail(wire)
      /\ UNCHANGED <<pc, request, status>>
  BY DEF Accept, Lose
<1>2. /\ \A i \in DOMAIN wire' : i + 1 \in DOMAIN wire /\ wire'[i] = wire[i + 1]
      /\ 1 \in DOMAIN wire /\ Head(wire) = r
  BY <1>1, TailType DEF IInv
<1>3. \A i \in DOMAIN wire' : wire'[i].payload.kind = "rtc" => wire'[i].caller = dispatcher
  BY <1>2 DEF TimerFacts
<1>4. CASE Lose
  BY <1>1, <1>3, <1>4 DEF Lose, micro, TimerFacts
<1>5. CASE Accept
  <2>1. /\ rtc' = IF r.payload.kind = "rtc" THEN r.payload.value ELSE rtc
        /\ accepted' = [accepted EXCEPT ![r.caller] = @ \/ r.live]
        /\ r \in Pending /\ r.caller \in Callers /\ r.live \in BOOLEAN
    BY <1>2, <1>5, WireType DEF Accept, IInv, Pending
  <2>2. /\ r.payload.kind = "rtc" => r.caller = dispatcher
        /\ r.live => r.payload = Payload(r.caller)
        /\ ~ accepted[r.caller]
    BY <1>2 DEF TimerFacts, IInv, WireFacts
  <2> HIDE DEF r
  <2>3. ASSUME request[dispatcher] \in TimerRequests, accepted'[dispatcher]
        PROVE  rtc' = request[dispatcher].value
    <3>1. CASE r.caller = dispatcher
      <4>1. r.live
        BY <2>1, <2>2, <2>3, <3>1 DEF IInv, TypeOK
      <4>2. r.payload = request[dispatcher] /\ r.payload.kind = "rtc"
        BY <2>2, <2>3, <3>1, <4>1, TimerType DEF TimerRequests
      <4> QED BY <2>1, <4>2
    <3>2. CASE r.caller # dispatcher
      BY <2>1, <2>2, <2>3, <3>2 DEF TimerFacts, IInv, TypeOK
    <3> QED BY <3>1, <3>2
  <2>4. accepted[dispatcher] => accepted'[dispatcher]
    BY <2>1 DEF IInv, TypeOK
  <2> QED BY <1>1, <1>3, <2>3, <2>4 DEF TimerFacts
<1> QED BY <1>4, <1>5

\* The facts about the timer are inductive, given the invariant.
LEMMA TimerInvariance == Spec => []TimerFacts
<1>1. Init => TimerFacts
  <2> SUFFICES ASSUME Init PROVE TimerFacts
    OBVIOUS
  <2>1. NoRequest \notin TimerRequests /\ DOMAIN wire = {}
    BY CallAssumption, EmptySeq DEF TimerRequests, Init
  <2> QED BY <2>1 DEF Init, TimerFacts, Callers
<1>2. IInv /\ TimerFacts /\ [Next]_vars => TimerFacts'
  <2> SUFFICES ASSUME IInv, TimerFacts, [Next]_vars PROVE TimerFacts'
    OBVIOUS
  <2>1. CASE ServiceChanges \/ UNCHANGED vars
    BY <2>1, TimerKept DEF ServiceChanges, micro, vars
  <2>2. CASE Next
    BY <2>1, <2>2, HandlerTimer, ServiceTimer DEF Next, Callers
  <2> QED BY <2>1, <2>2
<1> QED BY <1>1, <1>2, Invariance, PTL DEF Spec

-----------------------------------------------------------------------------
(* The theorems.                                                           *)

\* Only states with a case reach the microcontroller, and only two statuses the
\* clients.
THEOREM TypeCorrect == Spec => []TypeOK
BY Invariance, PTL DEF IInv

\* An emergency request that is answered OK was accepted, however often calls
\* time out and the service goes.
THEOREM OkIsAccepted == Spec => []OkMeansAccepted
BY Invariance, PTL DEF IInv

\* And it stands until another client asks for something else.
THEOREM OkRemains == Spec => []OkStands
<1>1. IInv => OkStands
  <2> SUFFICES ASSUME IInv, NEW c \in Callers, Granted(c), latest = c
               PROVE  call = request[c].value
    BY DEF OkStands
  <2>1. accepted[c] /\ request[c] \in HandedOn
    BY DEF IInv, OkMeansAccepted, Granted
  <2>2. call = CallState(request[c].value)
    BY <2>1 DEF IInv, WireFacts
  <2>3. request[c].value \in DOMAIN CallStateOf
    BY <2>1 DEF HandedOn
  <2> QED BY <2>2, <2>3 DEF CallState, CallStateOf
<1> QED BY <1>1, Invariance, PTL

\* Where LC_SetRTC logs a success, the timer it asked for is the one in effect.
THEOREM TimerRemains == Spec => []TimerStands
<1>1. TimerFacts => TimerStands
  BY DEF TimerFacts, TimerStands
<1> QED BY <1>1, TimerInvariance, PTL

=============================================================================
