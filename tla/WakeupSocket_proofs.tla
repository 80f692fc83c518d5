------------------------ MODULE WakeupSocket_proofs ------------------------
(***************************************************************************)
(* What holds of the wakeup socket for every number of lpm threads, every  *)
(* set of messages and every size of the buffer.                           *)
(***************************************************************************)
EXTENDS WakeupSocket, SequenceTheorems, TLAPS

Places == Reading \union {"none", "open", "allocate", "ended"}

-----------------------------------------------------------------------------
(* The initial states, and what every step does to the locals.             *)

\* The initial states satisfy the invariant.
LEMMA InitIInv == Init => IInv
<1> SUFFICES ASSUME Init PROVE IInv
  OBVIOUS
<1>1. kernel \in Seq(Texts) /\ Len(kernel) <= QueueBound
  BY EmptySeq, SocketAssumption DEF Init
<1>2. TypeOK
  BY <1>1 DEF Init, TypeOK, LC_WakeupSource
<1>3. OneReader /\ ReaderFacts
  BY SocketAssumption DEF Init, OneReader, ReaderFacts, Reading, Holding
<1> QED BY <1>2, <1>3 DEF IInv

\* The known messages have reasons.
LEMMA ReasonType == \A text \in DOMAIN ReasonOf : ReasonOf[text] \in Reasons
BY DEF ReasonOf, Reasons, WakeupReason

\* What the handler stores is a wakeup source.
LEMMA SourceType ==
  ASSUME NEW old \in LC_WakeupSource, NEW reason
  PROVE  SocketSources(reason, old) \subseteq LC_WakeupSource
BY DEF SocketSources, LC_WakeupSource

\* A thread that moves is the only one that does.
LEMMA GotoType ==
  ASSUME pc \in [LpmThreads -> Places], NEW t \in LpmThreads, NEW from, NEW to \in Places,
         Goto(t, from, to)
  PROVE  /\ pc' \in [LpmThreads -> Places]
         /\ pc[t] = from /\ pc'[t] = to
         /\ \A u \in LpmThreads \ {t} : pc'[u] = pc[u]
BY DEF Goto

\* The buffer stays a sequence of messages within its bound.
LEMMA KernelType ==
  TypeOK /\ [Next]_vars => (kernel \in Seq(Texts) /\ Len(kernel) <= QueueBound)'
<1> SUFFICES ASSUME TypeOK, [Next]_vars
             PROVE  (kernel \in Seq(Texts) /\ Len(kernel) <= QueueBound)'
  OBVIOUS
<1> USE SocketAssumption
<1>1. ASSUME NEW text \in Texts, KernelSends(text)
      PROVE  (kernel \in Seq(Texts) /\ Len(kernel) <= QueueBound)'
  <2>1. kernel \in Seq(Texts) /\ Len(kernel) \in Nat
    BY LenProperties DEF TypeOK
  <2> QED BY <1>1, <2>1, AppendProperties DEF KernelSends
<1>2. ASSUME NEW t \in LpmThreads, Receive(t)
      PROVE  (kernel \in Seq(Texts) /\ Len(kernel) <= QueueBound)'
  <2>1. kernel \in Seq(Texts) /\ kernel # <<>> /\ Len(kernel) \in Nat
    BY <1>2, LenProperties DEF TypeOK, Receive
  <2>2. kernel' \in Seq(Texts) /\ Len(kernel') = Len(kernel) - 1
    BY <1>2, <2>1, HeadTailProperties DEF Receive
  <2> QED BY <2>1, <2>2 DEF TypeOK
<1>3. ASSUME kernel' = kernel PROVE (kernel \in Seq(Texts) /\ Len(kernel) <= QueueBound)'
  BY <1>3 DEF TypeOK
<1>4. CASE UNCHANGED vars
  BY <1>3, <1>4 DEF vars
<1>5. CASE Next
  BY <1>1, <1>2, <1>3, <1>5
     DEF Next, Start, Handle, SOC_LIFECYCLE_ProxyAvailable, SOC_LIFECYCLE_ProxyNotAvailable,
         KernelDrops, SocketFails, Bind, BindFails, AllocateFails, Introduce, ReceiveFails,
         Lock, setSocketWakeupSource, AcquireWakeLock, Announce, KeepSilent,
         SendEvent_SOC_WakeupReason_TCU, Unlock, socket
<1> QED BY <1>4, <1>5

\* The other types, and the facts about the reader: each needs the other.
LEMMA StepIInv == IInv /\ [Next]_vars => IInv'
<1> SUFFICES ASSUME IInv, [Next]_vars PROVE IInv'
  OBVIOUS
<1> DEFINE KernelOK == kernel \in Seq(Texts) /\ Len(kernel) <= QueueBound
<1>a. KernelOK'
  BY KernelType DEF IInv
<1>b. /\ pc \in [LpmThreads -> Places]
      /\ eWakeupReason \in [LpmThreads -> Reasons \union {Nobody}]
  BY DEF IInv, TypeOK, Places
<1>c. Nobody \notin LpmThreads /\ Nobody \notin Reasons
  BY SocketAssumption
<1> HIDE DEF KernelOK
<1>1. ASSUME SOC_LIFECYCLE_ProxyAvailable PROVE IInv'
  <2>1. CASE UNCHANGED pc
    BY <1>a, <1>1, <2>1
       DEF SOC_LIFECYCLE_ProxyAvailable, KernelOK, socket, effects, IInv, TypeOK,
       OneReader, ReaderFacts
  <2>2. ASSUME NEW t \in LpmThreads, Goto(t, "none", "open") PROVE IInv'
    <3>1. /\ pc' \in [LpmThreads -> Places] /\ pc[t] = "none" /\ pc'[t] = "open"
          /\ \A u \in LpmThreads \ {t} : pc'[u] = pc[u]
      BY <2>2, GotoType, <1>b DEF Places
    <3> QED BY <1>a, <1>c, <1>1, <3>1
       DEF SOC_LIFECYCLE_ProxyAvailable, KernelOK, socket, effects,
            IInv, TypeOK, OneReader, ReaderFacts, Places, Reading, Holding
  <2> QED BY <1>1, <2>1, <2>2 DEF SOC_LIFECYCLE_ProxyAvailable
<1>2. ASSUME SOC_LIFECYCLE_ProxyNotAvailable PROVE IInv'
  BY <1>a, <1>2
     DEF SOC_LIFECYCLE_ProxyNotAvailable, KernelOK, socket, effects, IInv, TypeOK,
         OneReader, ReaderFacts
<1>3. ASSUME NEW text \in Texts, KernelSends(text) PROVE IInv'
  BY <1>a, <1>3 DEF KernelSends, KernelOK, effects, IInv, TypeOK, OneReader, ReaderFacts
<1>4. ASSUME KernelDrops PROVE IInv'
  BY <1>a, <1>4
     DEF KernelDrops, KernelOK, socket, effects, IInv, TypeOK, OneReader, ReaderFacts
<1>5. ASSUME NEW t \in LpmThreads, SocketFails(t) PROVE IInv'
  <2>1. /\ pc' \in [LpmThreads -> Places] /\ pc[t] = "open" /\ pc'[t] = "ended"
        /\ \A u \in LpmThreads \ {t} : pc'[u] = pc[u]
    BY <1>5, <1>b, GotoType DEF SocketFails, Places, Reading
  <2>2. TypeOK'
    BY <1>a, <1>b, <1>c, <1>5, <2>1
       DEF SocketFails, KernelOK, socket, effects, IInv, TypeOK, Places
  <2>3. OneReader'
    BY <1>a, <1>b, <1>c, <1>5, <2>1
       DEF SocketFails, socket, effects, IInv, OneReader, ReaderFacts, Reading, Holding
  <2>4. ReaderFacts'
    BY <1>a, <1>b, <1>c, <1>5, <2>1
       DEF SocketFails, socket, effects, IInv, OneReader, ReaderFacts, Reading
  <2> QED BY <2>2, <2>3, <2>4 DEF IInv
<1>6. ASSUME NEW t \in LpmThreads, Bind(t) PROVE IInv'
  <2>1. /\ pc' \in [LpmThreads -> Places] /\ pc[t] = "open" /\ pc'[t] = "allocate"
        /\ \A u \in LpmThreads \ {t} : pc'[u] = pc[u]
    BY <1>6, <1>b, GotoType DEF Bind, Places, Reading
  <2>2. TypeOK'
    BY <1>a, <1>b, <1>c, <1>6, <2>1
       DEF Bind, KernelOK, socket, effects, IInv, TypeOK, Places
  <2>3. OneReader'
    BY <1>a, <1>b, <1>c, <1>6, <2>1
       DEF Bind, socket, effects, IInv, OneReader, ReaderFacts, Reading, Holding
  <2>4. ReaderFacts'
    BY <1>a, <1>b, <1>c, <1>6, <2>1
       DEF Bind, socket, effects, IInv, OneReader, ReaderFacts, Reading
  <2> QED BY <2>2, <2>3, <2>4 DEF IInv
<1>7. ASSUME NEW t \in LpmThreads, BindFails(t) PROVE IInv'
  <2>1. /\ pc' \in [LpmThreads -> Places] /\ pc[t] = "open" /\ pc'[t] = "ended"
        /\ \A u \in LpmThreads \ {t} : pc'[u] = pc[u]
    BY <1>7, <1>b, GotoType DEF BindFails, Places, Reading
  <2>2. TypeOK'
    BY <1>a, <1>b, <1>c, <1>7, <2>1
       DEF BindFails, KernelOK, socket, effects, IInv, TypeOK, Places
  <2>3. OneReader'
    BY <1>a, <1>b, <1>c, <1>7, <2>1
       DEF BindFails, socket, effects, IInv, OneReader, ReaderFacts, Reading, Holding
  <2>4. ReaderFacts'
    BY <1>a, <1>b, <1>c, <1>7, <2>1
       DEF BindFails, socket, effects, IInv, OneReader, ReaderFacts, Reading
  <2> QED BY <2>2, <2>3, <2>4 DEF IInv
<1>8. ASSUME NEW t \in LpmThreads, AllocateFails(t) PROVE IInv'
  <2>1. /\ pc' \in [LpmThreads -> Places] /\ pc[t] = "allocate" /\ pc'[t] = "ended"
        /\ \A u \in LpmThreads \ {t} : pc'[u] = pc[u]
    BY <1>8, <1>b, GotoType DEF AllocateFails, Places, Reading
  <2>2. TypeOK'
    BY <1>a, <1>b, <1>c, <1>8, <2>1
       DEF AllocateFails, KernelOK, socket, effects, IInv, TypeOK, Places
  <2>3. OneReader'
    BY <1>a, <1>b, <1>c, <1>8, <2>1
       DEF AllocateFails, socket, effects, IInv, OneReader, ReaderFacts, Reading, Holding
  <2>4. ReaderFacts'
    BY <1>a, <1>b, <1>c, <1>8, <2>1
       DEF AllocateFails, socket, effects, IInv, OneReader, ReaderFacts, Reading
  <2> QED BY <2>2, <2>3, <2>4 DEF IInv
<1>9. ASSUME NEW t \in LpmThreads, Introduce(t) PROVE IInv'
  <2>1. /\ pc' \in [LpmThreads -> Places] /\ pc[t] = "allocate" /\ pc'[t] = "receive"
        /\ \A u \in LpmThreads \ {t} : pc'[u] = pc[u]
    BY <1>9, <1>b, GotoType DEF Introduce, Places, Reading
  <2>2. /\ eWakeupReason' \in [LpmThreads -> Reasons \union {Nobody}]
        /\ eWakeupReason'[t] \in Reasons
        /\ \A u \in LpmThreads \ {t} : eWakeupReason'[u] = eWakeupReason[u]
    BY <1>9, <1>b DEF Introduce, Reasons
  <2>3. TypeOK'
    BY <1>a, <1>b, <1>c, <1>9, <2>1, <2>2
       DEF Introduce, KernelOK, socket, effects, IInv, TypeOK, Places
  <2>4. OneReader'
    BY <1>a, <1>b, <1>c, <1>9, <2>1, <2>2
       DEF Introduce, socket, effects, IInv, OneReader, ReaderFacts, Reading, Holding
  <2>5. ReaderFacts'
    BY <1>a, <1>b, <1>c, <1>9, <2>1, <2>2
       DEF Introduce, socket, effects, IInv, OneReader, ReaderFacts, Reading
  <2> QED BY <2>3, <2>4, <2>5 DEF IInv
<1>10. ASSUME NEW t \in LpmThreads, Receive(t) PROVE IInv'
  <2>1. /\ pc' \in [LpmThreads -> Places] /\ pc[t] = "receive" /\ pc'[t] = "lock"
        /\ \A u \in LpmThreads \ {t} : pc'[u] = pc[u]
    BY <1>10, <1>b, GotoType DEF Receive, Places, Reading
  <2>2. eWakeupReason[t] \in Reasons
    BY <2>1 DEF IInv, ReaderFacts, Reading
  <2>3. /\ eWakeupReason' \in [LpmThreads -> Reasons \union {Nobody}]
        /\ eWakeupReason'[t] \in Reasons
        /\ \A u \in LpmThreads \ {t} : eWakeupReason'[u] = eWakeupReason[u]
    BY <1>10, <1>b, <2>2, ReasonType DEF Receive
  <2>4. TypeOK'
    BY <1>a, <1>b, <1>c, <1>10, <2>1, <2>3
       DEF Receive, KernelOK, socket, effects, IInv, TypeOK, Places
  <2>5. OneReader'
    BY <1>a, <1>b, <1>c, <1>10, <2>1, <2>3
       DEF Receive, socket, effects, IInv, OneReader, ReaderFacts, Reading, Holding
  <2>6. ReaderFacts'
    BY <1>a, <1>b, <1>c, <1>10, <2>1, <2>3
       DEF Receive, socket, effects, IInv, OneReader, ReaderFacts, Reading
  <2> QED BY <2>4, <2>5, <2>6 DEF IInv
<1>11. ASSUME NEW t \in LpmThreads, ReceiveFails(t) PROVE IInv'
  <2>1. /\ pc' \in [LpmThreads -> Places] /\ pc[t] = "receive" /\ pc'[t] = "lock"
        /\ \A u \in LpmThreads \ {t} : pc'[u] = pc[u]
    BY <1>11, <1>b, GotoType DEF ReceiveFails, Places, Reading
  <2>2. TypeOK'
    BY <1>a, <1>b, <1>c, <1>11, <2>1
       DEF ReceiveFails, KernelOK, socket, effects, IInv, TypeOK, Places
  <2>3. OneReader'
    BY <1>a, <1>b, <1>c, <1>11, <2>1
       DEF ReceiveFails, socket, effects, IInv, OneReader, ReaderFacts, Reading, Holding
  <2>4. ReaderFacts'
    BY <1>a, <1>b, <1>c, <1>11, <2>1
       DEF ReceiveFails, socket, effects, IInv, OneReader, ReaderFacts, Reading
  <2> QED BY <2>2, <2>3, <2>4 DEF IInv
<1>12. ASSUME NEW t \in LpmThreads, Lock(t) PROVE IInv'
  <2>1. /\ pc' \in [LpmThreads -> Places] /\ pc[t] = "lock" /\ pc'[t] = "store"
        /\ \A u \in LpmThreads \ {t} : pc'[u] = pc[u]
    BY <1>12, <1>b, GotoType DEF Lock, Places, Reading
  <2>2. TypeOK'
    BY <1>a, <1>b, <1>c, <1>12, <2>1
       DEF Lock, KernelOK, socket, effects, IInv, TypeOK, Places
  <2>3. OneReader'
    BY <1>a, <1>b, <1>c, <1>12, <2>1
       DEF Lock, socket, effects, IInv, OneReader, ReaderFacts, Reading, Holding
  <2>4. ReaderFacts'
    BY <1>a, <1>b, <1>c, <1>12, <2>1
       DEF Lock, socket, effects, IInv, OneReader, ReaderFacts, Reading
  <2> QED BY <2>2, <2>3, <2>4 DEF IInv
<1>13. ASSUME NEW t \in LpmThreads, setSocketWakeupSource(t) PROVE IInv'
  <2>1. /\ pc' \in [LpmThreads -> Places] /\ pc[t] = "store" /\ pc'[t] = "acquire"
        /\ \A u \in LpmThreads \ {t} : pc'[u] = pc[u]
    BY <1>13, <1>b, GotoType DEF setSocketWakeupSource, Places, Reading
  <2>2. source' \in LC_WakeupSource
    BY <1>13, SourceType DEF setSocketWakeupSource, IInv, TypeOK
  <2>3. TypeOK'
    BY <1>a, <1>b, <1>c, <1>13, <2>1, <2>2
       DEF setSocketWakeupSource, KernelOK, socket, effects, IInv, TypeOK, Places
  <2>4. OneReader'
    BY <1>a, <1>b, <1>c, <1>13, <2>1, <2>2
       DEF setSocketWakeupSource, socket, effects, IInv, OneReader, ReaderFacts, Reading,
           Holding
  <2>5. ReaderFacts'
    BY <1>a, <1>b, <1>c, <1>13, <2>1, <2>2
       DEF setSocketWakeupSource, socket, effects, IInv, OneReader, ReaderFacts, Reading
  <2> QED BY <2>3, <2>4, <2>5 DEF IInv
<1>14. ASSUME NEW t \in LpmThreads, AcquireWakeLock(t) PROVE IInv'
  <2>1. /\ pc' \in [LpmThreads -> Places] /\ pc[t] = "acquire" /\ pc'[t] = "settle"
        /\ \A u \in LpmThreads \ {t} : pc'[u] = pc[u]
    BY <1>14, <1>b, GotoType DEF AcquireWakeLock, Places, Reading
  <2>2. wakeLock' \in BOOLEAN
    BY <1>14 DEF AcquireWakeLock, IInv, TypeOK
  <2>3. TypeOK'
    BY <1>a, <1>b, <1>c, <1>14, <2>1, <2>2
       DEF AcquireWakeLock, KernelOK, socket, effects, IInv, TypeOK, Places
  <2>4. OneReader'
    BY <1>a, <1>b, <1>c, <1>14, <2>1, <2>2
       DEF AcquireWakeLock, socket, effects, IInv, OneReader, ReaderFacts, Reading, Holding
  <2>5. ReaderFacts'
    BY <1>a, <1>b, <1>c, <1>14, <2>1, <2>2
       DEF AcquireWakeLock, socket, effects, IInv, OneReader, ReaderFacts, Reading
  <2> QED BY <2>3, <2>4, <2>5 DEF IInv
<1>15. ASSUME NEW t \in LpmThreads, Announce(t) PROVE IInv'
  <2>1. /\ pc' \in [LpmThreads -> Places] /\ pc[t] = "settle" /\ pc'[t] = "send"
        /\ \A u \in LpmThreads \ {t} : pc'[u] = pc[u]
    BY <1>15, <1>b, GotoType DEF Announce, Places, Reading
  <2>2. TypeOK'
    BY <1>a, <1>b, <1>c, <1>15, <2>1
       DEF Announce, KernelOK, socket, effects, IInv, TypeOK, Places
  <2>3. OneReader'
    BY <1>a, <1>b, <1>c, <1>15, <2>1
       DEF Announce, socket, effects, IInv, OneReader, ReaderFacts, Reading, Holding
  <2>4. ReaderFacts'
    BY <1>a, <1>b, <1>c, <1>15, <2>1
       DEF Announce, socket, effects, IInv, OneReader, ReaderFacts, Reading
  <2> QED BY <2>2, <2>3, <2>4 DEF IInv
<1>16. ASSUME NEW t \in LpmThreads, KeepSilent(t) PROVE IInv'
  <2>1. /\ pc' \in [LpmThreads -> Places] /\ pc[t] = "settle" /\ pc'[t] = "unlock"
        /\ \A u \in LpmThreads \ {t} : pc'[u] = pc[u]
    BY <1>16, <1>b, GotoType DEF KeepSilent, Places, Reading
  <2>2. TypeOK'
    BY <1>a, <1>b, <1>c, <1>16, <2>1
       DEF KeepSilent, KernelOK, socket, effects, IInv, TypeOK, Places
  <2>3. OneReader'
    BY <1>a, <1>b, <1>c, <1>16, <2>1
       DEF KeepSilent, socket, effects, IInv, OneReader, ReaderFacts, Reading, Holding
  <2>4. ReaderFacts'
    BY <1>a, <1>b, <1>c, <1>16, <2>1
       DEF KeepSilent, socket, effects, IInv, OneReader, ReaderFacts, Reading
  <2> QED BY <2>2, <2>3, <2>4 DEF IInv
<1>17. ASSUME NEW t \in LpmThreads, SendEvent_SOC_WakeupReason_TCU(t) PROVE IInv'
  <2>1. /\ pc' \in [LpmThreads -> Places] /\ pc[t] = "send" /\ pc'[t] = "unlock"
        /\ \A u \in LpmThreads \ {t} : pc'[u] = pc[u]
    BY <1>17, <1>b, GotoType DEF SendEvent_SOC_WakeupReason_TCU, Places, Reading
  <2>2. told' \in Reasons \union {Nobody}
    BY <1>17, <1>b DEF SendEvent_SOC_WakeupReason_TCU, IInv, TypeOK
  <2>3. TypeOK'
    BY <1>a, <1>b, <1>c, <1>17, <2>1, <2>2
       DEF SendEvent_SOC_WakeupReason_TCU, KernelOK, socket, effects, IInv, TypeOK, Places
  <2>4. OneReader'
    BY <1>a, <1>b, <1>c, <1>17, <2>1, <2>2
       DEF SendEvent_SOC_WakeupReason_TCU, socket, effects, IInv, OneReader, ReaderFacts,
           Reading, Holding
  <2>5. ReaderFacts'
    BY <1>a, <1>b, <1>c, <1>17, <2>1, <2>2
       DEF SendEvent_SOC_WakeupReason_TCU, socket, effects, IInv, OneReader, ReaderFacts,
           Reading
  <2> QED BY <2>3, <2>4, <2>5 DEF IInv
<1>18. ASSUME NEW t \in LpmThreads, Unlock(t) PROVE IInv'
  <2>1. /\ pc' \in [LpmThreads -> Places] /\ pc[t] = "unlock" /\ pc'[t] = "receive"
        /\ \A u \in LpmThreads \ {t} : pc'[u] = pc[u]
    BY <1>18, <1>b, GotoType DEF Unlock, Places, Reading
  <2>2. TypeOK'
    BY <1>a, <1>b, <1>c, <1>18, <2>1
       DEF Unlock, KernelOK, socket, effects, IInv, TypeOK, Places
  <2>3. OneReader'
    BY <1>a, <1>b, <1>c, <1>18, <2>1
       DEF Unlock, socket, effects, IInv, OneReader, ReaderFacts, Reading, Holding
  <2>4. ReaderFacts'
    BY <1>a, <1>b, <1>c, <1>18, <2>1
       DEF Unlock, socket, effects, IInv, OneReader, ReaderFacts, Reading
  <2> QED BY <2>2, <2>3, <2>4 DEF IInv
<1>19. CASE UNCHANGED vars
  BY <1>a, <1>19 DEF vars, KernelOK, IInv, TypeOK, OneReader, ReaderFacts
<1> QED BY <1>1, <1>2, <1>3, <1>4, <1>5, <1>6, <1>7, <1>8, <1>9, <1>10, <1>11, <1>12, <1>13,
           <1>14, <1>15, <1>16, <1>17, <1>18, <1>19
        DEF Next, Start, Handle

-----------------------------------------------------------------------------
(* The refinement of WakeupChannel.                                        *)

\* What the channel sees of a thread that reads, before and after a step.
LEMMA ReaderView ==
  ASSUME IInv, NEW t \in LpmThreads, pc[t] \in Reading
  PROVE  /\ port = t /\ Last = eWakeupReason[t] /\ Last # Nobody
         /\ Serving = IF pc[t] = "receive" THEN Nobody ELSE eWakeupReason[t]
BY SocketAssumption DEF IInv, OneReader, ReaderFacts, Last, Serving

\* And of one that does not.
LEMMA OtherView ==
  ASSUME IInv, NEW t \in LpmThreads, port = t, pc[t] \notin Reading
  PROVE  Last = Nobody /\ Serving = Nobody
BY DEF IInv, ReaderFacts, Last, Serving

\* Initially nobody has the port.
LEMMA InitChannel == Init => Channel!Init
BY SocketAssumption DEF Init, Channel!Init, Last, Serving, Stored

\* A step after which the port and its thread are as before is none of the
\* channel's.
LEMMA Unseen ==
  ASSUME UNCHANGED <<kernel, source, told, port, eWakeupReason>>,
         port \in LpmThreads =>
           /\ pc[port] \in Reading \ {"receive"} <=> pc'[port] \in Reading \ {"receive"}
           /\ pc[port] \in Holding \ {"store"} <=> pc'[port] \in Holding \ {"store"}
  PROVE  UNCHANGED Channel!vars
BY DEF Channel!vars, Last, Serving, Stored

\* Every step of the threads is a step of the channel, or none.
LEMMA StepChannel == IInv /\ IInv' /\ [Next]_vars => [Channel!Next]_(Channel!vars)
<1> SUFFICES ASSUME IInv, IInv', [Next]_vars
             PROVE  [Channel!Next]_(Channel!vars)
  OBVIOUS
<1>a. pc \in [LpmThreads -> Places] /\ Nobody \notin LpmThreads /\ Nobody \notin Reasons
  BY SocketAssumption DEF IInv, TypeOK, Places
<1>b. eWakeupReason \in [LpmThreads -> Reasons \union {Nobody}]
  BY DEF IInv, TypeOK
<1>c. \A t \in LpmThreads : port = t => pc[t] \in Reading \union {"allocate", "ended"}
  BY DEF IInv, ReaderFacts
<1>1. ASSUME SOC_LIFECYCLE_ProxyAvailable PROVE UNCHANGED Channel!vars
  <2>1. UNCHANGED <<kernel, source, told, port, eWakeupReason>>
    BY <1>1 DEF SOC_LIFECYCLE_ProxyAvailable, socket, effects
  <2>2. CASE UNCHANGED pc
    BY <2>1, <2>2, Unseen
  <2>3. ASSUME NEW t \in LpmThreads, Goto(t, "none", "open") PROVE UNCHANGED Channel!vars
    <3>1. pc[t] = "none" /\ \A u \in LpmThreads \ {t} : pc'[u] = pc[u]
      BY <2>3, <1>a DEF Goto
    <3>2. port # t
      BY <1>c, <3>1 DEF Reading
    <3> QED BY <2>1, <3>1, <3>2, Unseen
  <2> QED BY <1>1, <2>2, <2>3 DEF SOC_LIFECYCLE_ProxyAvailable
<1>2. ASSUME SOC_LIFECYCLE_ProxyNotAvailable PROVE UNCHANGED Channel!vars
  BY <1>2, Unseen DEF SOC_LIFECYCLE_ProxyNotAvailable, socket, effects
<1>3. ASSUME NEW text \in Texts, KernelSends(text) PROVE Channel!Arrive(text)
  <2>1. port \in LpmThreads /\ pc[port] \in Reading
    BY <1>3 DEF KernelSends, IInv, ReaderFacts
  <2>2. Last # Nobody
    BY <2>1, ReaderView
  <2> QED BY <1>3, <2>2 DEF KernelSends, effects, Channel!Arrive, Last, Serving, Stored
<1>4. ASSUME KernelDrops PROVE UNCHANGED Channel!vars
  BY <1>4, Unseen DEF KernelDrops, effects
<1>5. ASSUME NEW t \in LpmThreads, SocketFails(t) PROVE UNCHANGED Channel!vars
  <2>1. pc[t] = "open" /\ pc'[t] = "ended" /\ \A u \in LpmThreads \ {t} : pc'[u] = pc[u]
    BY <1>5, <1>a DEF SocketFails, Goto
  <2>2. port # t
    BY <1>c, <2>1 DEF Reading
  <2> QED BY <1>5, <2>1, <2>2, Unseen DEF SocketFails, socket, effects
<1>6. ASSUME NEW t \in LpmThreads, Bind(t) PROVE UNCHANGED Channel!vars
  <2>1. pc[t] = "open" /\ pc'[t] = "allocate" /\ \A u \in LpmThreads \ {t} : pc'[u] = pc[u]
    BY <1>6, <1>a DEF Bind, Goto
  <2>2. eWakeupReason[t] = Nobody /\ port' = t /\ port = Nobody
    BY <1>6, <2>1 DEF Bind, IInv, ReaderFacts, Reading
  <2> QED BY <1>6, <1>a, <2>1, <2>2 DEF Bind, effects, Channel!vars, Last, Serving, Stored,
        Reading, Holding
<1>7. ASSUME NEW t \in LpmThreads, BindFails(t) PROVE UNCHANGED Channel!vars
  <2>1. pc[t] = "open" /\ pc'[t] = "ended" /\ \A u \in LpmThreads \ {t} : pc'[u] = pc[u]
    BY <1>7, <1>a DEF BindFails, Goto
  <2>2. port # t
    BY <1>c, <2>1 DEF Reading
  <2> QED BY <1>7, <2>1, <2>2, Unseen DEF BindFails, socket, effects
<1>8. ASSUME NEW t \in LpmThreads, AllocateFails(t) PROVE UNCHANGED Channel!vars
  <2>1. pc[t] = "allocate" /\ pc'[t] = "ended" /\ \A u \in LpmThreads \ {t} : pc'[u] = pc[u]
    BY <1>8, <1>a DEF AllocateFails, Goto
  <2> QED BY <1>8, <2>1, Unseen DEF AllocateFails, socket, effects, Reading, Holding
<1>9. ASSUME NEW t \in LpmThreads, Introduce(t)
      PROVE  \E first \in Garbage : Channel!Open(first)
  <2>1. /\ pc[t] = "allocate" /\ pc'[t] = "receive"
        /\ \A u \in LpmThreads \ {t} : pc'[u] = pc[u]
    BY <1>9, <1>a DEF Introduce, Goto
  <2>2. port = t
    BY <2>1 DEF IInv, OneReader
  <2>3. Last = Nobody /\ Serving = Nobody
    BY <2>1, <2>2, OtherView DEF Reading
  <2>4. PICK first \in Garbage : eWakeupReason'[t] = first
    BY <1>9, <1>b DEF Introduce
  <2>5. Last' = first /\ Serving' = Nobody /\ UNCHANGED Stored
    BY <1>9, <2>1, <2>2, <2>4 DEF Introduce, Last, Serving, Stored, Holding
  <2> QED BY <1>9, <2>3, <2>5 DEF Introduce, effects, Channel!Open
<1>10. ASSUME NEW t \in LpmThreads, Receive(t) PROVE Channel!Serve
  <2>1. pc[t] = "receive" /\ pc'[t] = "lock" /\ \A u \in LpmThreads \ {t} : pc'[u] = pc[u]
    BY <1>10, <1>a DEF Receive, Goto
  <2>2. port = t /\ Last = eWakeupReason[t] /\ Last # Nobody /\ Serving = Nobody
    BY <2>1, ReaderView DEF Reading
  <2>3. /\ port' = t
        /\ eWakeupReason'[t] =
             IF Head(kernel) \in DOMAIN ReasonOf THEN ReasonOf[Head(kernel)] ELSE Last
    BY <1>10, <1>b, <2>2 DEF Receive
  <2>4. /\ Last' = eWakeupReason'[t] /\ Serving' = eWakeupReason'[t]
        /\ UNCHANGED Stored
    BY <2>1, <2>2, <2>3 DEF Last, Serving, Stored, Reading, Holding
  <2> QED BY <1>10, <2>2, <2>3, <2>4 DEF Receive, effects, Channel!Serve, Channel!Begin
<1>11. ASSUME NEW t \in LpmThreads, ReceiveFails(t) PROVE Channel!ServeAgain
  <2>1. pc[t] = "receive" /\ pc'[t] = "lock" /\ \A u \in LpmThreads \ {t} : pc'[u] = pc[u]
    BY <1>11, <1>a DEF ReceiveFails, Goto
  <2>2. port = t /\ Last = eWakeupReason[t] /\ Last # Nobody /\ Serving = Nobody
    BY <2>1, ReaderView DEF Reading
  <2>3. port' = t /\ eWakeupReason'[t] = Last
    BY <1>11, <1>b, <2>2 DEF ReceiveFails
  <2>4. /\ Last' = eWakeupReason'[t] /\ Serving' = eWakeupReason'[t]
        /\ UNCHANGED Stored
    BY <2>1, <2>2, <2>3 DEF Last, Serving, Stored, Reading, Holding
  <2> QED BY <1>11, <2>2, <2>3, <2>4
     DEF ReceiveFails, effects, Channel!ServeAgain, Channel!Begin
<1>12. ASSUME NEW t \in LpmThreads, Lock(t) PROVE UNCHANGED Channel!vars
  <2>1. pc[t] = "lock" /\ pc'[t] = "store" /\ \A u \in LpmThreads \ {t} : pc'[u] = pc[u]
    BY <1>12, <1>a DEF Lock, Goto
  <2>2. UNCHANGED <<kernel, source, told, port, eWakeupReason>>
    BY <1>12 DEF Lock, socket, effects
  <2> QED BY <2>1, <2>2, Unseen DEF Reading, Holding
<1>13. ASSUME NEW t \in LpmThreads, setSocketWakeupSource(t) PROVE Channel!Store
  <2>1. pc[t] = "store" /\ pc'[t] = "acquire" /\ \A u \in LpmThreads \ {t} : pc'[u] = pc[u]
    BY <1>13, <1>a DEF setSocketWakeupSource, Goto
  <2>2. /\ port = t /\ Serving = eWakeupReason[t]
        /\ eWakeupReason[t] \in Reasons /\ source \in LC_WakeupSource
    BY <2>1, ReaderView DEF Reading, IInv, TypeOK, ReaderFacts
  <2>3. UNCHANGED <<kernel, told, port, eWakeupReason>>
    BY <1>13 DEF setSocketWakeupSource, socket
  <2>4. UNCHANGED <<Last, Serving>> /\ ~ Stored /\ Stored'
    BY <2>1, <2>2, <2>3 DEF Last, Serving, Stored, Reading, Holding
  <2>5. source' \in SocketSources(Serving, source)
    BY <1>13, <2>2 DEF setSocketWakeupSource
  <2> QED BY <1>a, <2>2, <2>3, <2>4, <2>5 DEF Channel!Store
<1>14. ASSUME NEW t \in LpmThreads, AcquireWakeLock(t) PROVE UNCHANGED Channel!vars
  <2>1. pc[t] = "acquire" /\ pc'[t] = "settle" /\ \A u \in LpmThreads \ {t} : pc'[u] = pc[u]
    BY <1>14, <1>a DEF AcquireWakeLock, Goto
  <2>2. UNCHANGED <<kernel, source, told, port, eWakeupReason>>
    BY <1>14 DEF AcquireWakeLock, socket, effects
  <2> QED BY <2>1, <2>2, Unseen DEF Reading, Holding
<1>15. ASSUME NEW t \in LpmThreads, Announce(t) PROVE UNCHANGED Channel!vars
  <2>1. pc[t] = "settle" /\ pc'[t] = "send" /\ \A u \in LpmThreads \ {t} : pc'[u] = pc[u]
    BY <1>15, <1>a DEF Announce, Goto
  <2>2. UNCHANGED <<kernel, source, told, port, eWakeupReason>>
    BY <1>15 DEF Announce, socket, effects
  <2> QED BY <2>1, <2>2, Unseen DEF Reading, Holding
<1>16. ASSUME NEW t \in LpmThreads, KeepSilent(t) PROVE UNCHANGED Channel!vars
  <2>1. pc[t] = "settle" /\ pc'[t] = "unlock" /\ \A u \in LpmThreads \ {t} : pc'[u] = pc[u]
    BY <1>16, <1>a DEF KeepSilent, Goto
  <2>2. UNCHANGED <<kernel, source, told, port, eWakeupReason>>
    BY <1>16 DEF KeepSilent, socket, effects
  <2> QED BY <2>1, <2>2, Unseen DEF Reading, Holding
<1>17. ASSUME NEW t \in LpmThreads, SendEvent_SOC_WakeupReason_TCU(t)
       PROVE  Channel!Tell \/ UNCHANGED Channel!vars
  <2>1. pc[t] = "send" /\ pc'[t] = "unlock" /\ \A u \in LpmThreads \ {t} : pc'[u] = pc[u]
    BY <1>17, <1>a DEF SendEvent_SOC_WakeupReason_TCU, Goto
  <2>2. port = t /\ Serving = eWakeupReason[t] /\ eWakeupReason[t] \in Announced
    BY <2>1, ReaderView DEF Reading, IInv, ReaderFacts
  <2>3. UNCHANGED <<kernel, source, port, eWakeupReason>>
    BY <1>17 DEF SendEvent_SOC_WakeupReason_TCU, socket
  <2>4. UNCHANGED <<Last, Serving, Stored>> /\ Stored
    BY <2>1, <2>2, <2>3 DEF Last, Serving, Stored, Reading, Holding
  <2>5. told' = Serving \/ told' = told
    BY <1>17, <2>2 DEF SendEvent_SOC_WakeupReason_TCU
  <2> QED BY <2>2, <2>3, <2>4, <2>5 DEF Channel!Tell, Channel!vars
<1>18. ASSUME NEW t \in LpmThreads, Unlock(t) PROVE Channel!Done
  <2>1. pc[t] = "unlock" /\ pc'[t] = "receive" /\ \A u \in LpmThreads \ {t} : pc'[u] = pc[u]
    BY <1>18, <1>a DEF Unlock, Goto
  <2>2. port = t /\ Last = eWakeupReason[t] /\ Last # Nobody /\ Serving = Last
    BY <2>1, ReaderView DEF Reading
  <2>3. UNCHANGED <<kernel, source, told, port, eWakeupReason>>
    BY <1>18 DEF Unlock, socket, effects
  <2>4. Last' = Last /\ Serving' = Nobody /\ Stored /\ ~ Stored'
    BY <2>1, <2>2, <2>3 DEF Last, Serving, Stored, Holding
  <2> QED BY <2>2, <2>3, <2>4 DEF Channel!Done
<1>19. CASE UNCHANGED vars
  BY <1>19, Unseen DEF vars
<1> QED BY <1>1, <1>2, <1>3, <1>4, <1>5, <1>6, <1>7, <1>8, <1>9, <1>10, <1>11, <1>12, <1>13,
           <1>14, <1>15, <1>16, <1>17, <1>18, <1>19
        DEF Next, Start, Handle, Channel!Next

-----------------------------------------------------------------------------
(* The theorems.                                                           *)

\* The invariant is inductive.
THEOREM Invariance == Spec => []IInv
BY InitIInv, StepIInv, PTL DEF Spec

\* The socket's buffer, the locals and what the handler stores are well typed.
THEOREM TypeCorrect == Spec => []TypeOK
BY Invariance, PTL DEF IInv

\* However many threads the proxy's comings and goings start, one reads.
THEOREM ReadsAlone == Spec => []OneReader
BY Invariance, PTL DEF IInv

\* Threads that start, give up, read, wait for g_mutex and send serve the wakeup
\* messages as one channel does: in order, one at a time, under their own reason.
THEOREM ServesInOrder == Spec => ServedInOrder
<1>1. IInv /\ [Next]_vars => [Channel!Next]_(Channel!vars)
  BY StepIInv, StepChannel
<1> QED BY <1>1, InitChannel, Invariance, PTL DEF Spec, ServedInOrder, Channel!Spec

=============================================================================
