--------------------------- MODULE AtomicRegistry ---------------------------
(***************************************************************************)
(* What the registry promises to its callers: every operation takes effect *)
(* once, at an instant between the call and the answer, on a table that    *)
(* holds a client at most once.  A stay-active request other than          *)
(* LC_RELEASE may be refused; which ones are is the affair of module       *)
(* ClientRegistry, and what the microcontroller hears too.                 *)
(***************************************************************************)
EXTENDS LifecycleTypes

CONSTANTS
  Threads,      \* the threads that call
  Names,        \* the names a client is registered under, and looked up by
  Blank,        \* the name nobody is registered under
  BlankAnswers  \* what registering the blank name may answer

VARIABLES
  table,    \* the registered clients: [name, stayActive]
  request,  \* what each thread asked for
  result    \* the answer each thread holds, once the operation took effect

vars == <<table, request, result>>

Idle == [op |-> "none", name |-> Blank, want |-> "LC_RELEASE"]

\* No thread holds an answer that is not one of the interface.
NoResult == "none"

Init ==
  /\ table = {}
  /\ request = [t \in Threads |-> Idle]
  /\ result = [t \in Threads |-> NoResult]

Registered(name) == \E c \in table : c.name = name

Others(name) == {c \in table : c.name # name}

Pending(t, op) == request[t].op = op /\ result[t] = NoResult

Answer(t, status) ==
  /\ result' = [result EXCEPT ![t] = status]
  /\ UNCHANGED request

Call(t) ==
  /\ request[t] = Idle
  /\ \E op \in {"LC_RegisterClient", "LC_UnRegisterClient", "LC_StayActive"},
        name \in Names, want \in LC_stayActiveEnum :
       request' = [request EXCEPT ![t] = [op |-> op, name |-> name, want |-> want]]
  /\ UNCHANGED <<table, result>>

RegisterClient(t) ==
  LET name == request[t].name
  IN  /\ Pending(t, "LC_RegisterClient")
      /\ \/ /\ name = Blank
            /\ \E status \in BlankAnswers : Answer(t, status)
            /\ UNCHANGED table
         \/ /\ name # Blank /\ Registered(name)
            /\ Answer(t, "LC_STS_OK_CLIENT_ALREADY_REGISTERED")
            /\ UNCHANGED table
         \/ /\ name # Blank /\ ~ Registered(name)
            /\ Answer(t, "LC_STS_OK")
            /\ table' = table \union {[name |-> name, stayActive |-> "LC_RELEASE"]}

UnRegisterClient(t) ==
  LET name == request[t].name
  IN  /\ Pending(t, "LC_UnRegisterClient")
      /\ name # Blank
      /\ Answer(t, IF Registered(name) THEN "LC_STS_OK" ELSE "LC_STS_NOT_OK")
      /\ table' = Others(name)

StayActive(t) ==
  LET name == request[t].name
      want == request[t].want
  IN  /\ Pending(t, "LC_StayActive")
      /\ \/ /\ Registered(name)
            /\ Answer(t, "LC_STS_OK")
            /\ table' = Others(name) \union {[name |-> name, stayActive |-> want]}
         \/ /\ Registered(name) => want # "LC_RELEASE"
            /\ Answer(t, "LC_STS_NOT_OK")
            /\ UNCHANGED table

Return(t) ==
  /\ result[t] # NoResult
  /\ request' = [request EXCEPT ![t] = Idle]
  /\ result' = [result EXCEPT ![t] = NoResult]
  /\ UNCHANGED table

\* Unregistering the blank name ends without an answer.
GiveUp(t) ==
  /\ Pending(t, "LC_UnRegisterClient")
  /\ request[t].name = Blank
  /\ request' = [request EXCEPT ![t] = Idle]
  /\ UNCHANGED <<table, result>>

Next ==
  \E t \in Threads :
    Call(t) \/ RegisterClient(t) \/ UnRegisterClient(t) \/ StayActive(t)
    \/ Return(t) \/ GiveUp(t)

Spec == Init /\ [][Next]_vars

=============================================================================
