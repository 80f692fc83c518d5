--------------------------- MODULE WakeupChannel ---------------------------
(***************************************************************************)
(* What the lpm threads promise together: the wakeup messages of the       *)
(* kernel are served one at a time and in order, each once and for its own *)
(* reason: its wakeup source is stored, and only then may the SoC hear of  *)
(* it.  A message nobody knows, or a read that fails, serves the reason    *)
(* before.                                                                 *)
(***************************************************************************)
EXTENDS Sequences

CONSTANTS
  Texts,      \* the messages
  ReasonOf,   \* the reason of each message that is known
  Garbage,    \* what an uninitialised reason may hold
  Announced,  \* the reasons the SoC is told of
  NoReason,
  Sources     \* the wakeup sources of a reason, given the source before

VARIABLES
  inbox,    \* messages that wait
  last,     \* the reason served last, or what stands in its place
  serving,  \* the reason that is being served
  stored,   \* its wakeup source has been stored
  source,   \* the wakeup source
  told      \* the reason the SoC was told last

vars == <<inbox, last, serving, stored, source, told>>

Init ==
  /\ inbox = <<>>
  /\ last = NoReason /\ serving = NoReason /\ told = NoReason
  /\ ~ stored /\ source = "WAKE_UNKNOWN"

Open(first) ==
  /\ last = NoReason /\ last' = first
  /\ UNCHANGED <<inbox, serving, stored, source, told>>

Arrive(text) ==
  /\ last # NoReason
  /\ inbox' = Append(inbox, text)
  /\ UNCHANGED <<last, serving, stored, source, told>>

Begin(reason) ==
  /\ last # NoReason /\ serving = NoReason
  /\ last' = reason
  /\ serving' = reason
  /\ UNCHANGED <<stored, source, told>>

Serve ==
  /\ inbox # <<>> /\ inbox' = Tail(inbox)
  /\ Begin(IF Head(inbox) \in DOMAIN ReasonOf THEN ReasonOf[Head(inbox)] ELSE last)

ServeAgain ==
  /\ Begin(last)
  /\ UNCHANGED inbox

Store ==
  /\ serving # NoReason
  /\ ~ stored /\ stored'
  /\ source' \in Sources[serving][source]
  /\ UNCHANGED <<inbox, last, serving, told>>

Tell ==
  /\ stored /\ serving \in Announced
  /\ told' = serving
  /\ UNCHANGED <<inbox, last, serving, stored, source>>

Done ==
  /\ stored /\ ~ stored'
  /\ serving' = NoReason
  /\ UNCHANGED <<inbox, last, source, told>>

Next ==
  \/ \E first \in Garbage : Open(first)
  \/ \E text \in Texts : Arrive(text)
  \/ Serve \/ ServeAgain \/ Store \/ Tell \/ Done

Spec == Init /\ [][Next]_vars

=============================================================================
