------------------------------ MODULE Exchange ------------------------------
(***************************************************************************)
(* What a test of the send/receive scenario exchanges, without processes,  *)
(* connections and main loops: every message of every thread is sent,      *)
(* given to the receiver's Reaction once and in order, and, when it is a   *)
(* call, answered before its thread goes on.  Neither side ends before its *)
(* part is done.  SendReceive implements this.                             *)
(***************************************************************************)
EXTENDS Naturals

CONSTANTS
  Threads,  \* the sending threads
  Msgs      \* messages per thread

Messages == Threads \X (1..Msgs)

VARIABLES
  kind,      \* "call" or "signal"
  sent,      \* messages sent
  handled,   \* messages given to the Reaction
  answered,  \* calls whose reply has been taken by their thread
  over       \* the sides that have ended

vars == << kind, sent, handled, answered, over >>

Init ==
  /\ kind \in {"call", "signal"}
  /\ sent = {}
  /\ handled = {}
  /\ answered = {}
  /\ over = {}

\* The messages of a thread are sent in order, a call after the last answer.
Send(m) ==
  /\ "sender" \notin over
  /\ m \notin sent
  /\ \A n \in 1..(m[2] - 1) : << m[1], n >> \in (IF kind = "call" THEN answered ELSE sent)
  /\ sent' = sent \cup {m}
  /\ UNCHANGED << kind, handled, answered, over >>

\* A message is handled once, and not after a later one of its thread.
Handle(m) ==
  /\ "receiver" \notin over
  /\ m \in sent
  /\ \A n \in m[2]..Msgs : << m[1], n >> \notin handled
  /\ handled' = handled \cup {m}
  /\ UNCHANGED << kind, sent, answered, over >>

\* Only a call that was handled gets an answer, once.
Answer(m) ==
  /\ kind = "call"
  /\ "sender" \notin over
  /\ m \in handled \ answered
  /\ answered' = answered \cup {m}
  /\ UNCHANGED << kind, sent, handled, over >>

SenderEnds ==
  /\ "sender" \notin over
  /\ sent = Messages
  /\ kind = "call" => answered = Messages
  /\ over' = over \cup {"sender"}
  /\ UNCHANGED << kind, sent, handled, answered >>

ReceiverEnds ==
  /\ "receiver" \notin over
  /\ handled = Messages
  /\ over' = over \cup {"receiver"}
  /\ UNCHANGED << kind, sent, handled, answered >>

Next ==
  \/ \E m \in Messages : Send(m) \/ Handle(m) \/ Answer(m)
  \/ SenderEnds
  \/ ReceiverEnds

Spec == Init /\ [][Next]_vars
=============================================================================
