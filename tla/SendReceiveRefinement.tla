------------------------ MODULE SendReceiveRefinement ------------------------
(* SendReceive implements Exchange: every step of the processes and the    *)
(* bus is a step of the exchange or leaves it as it is.                    *)
EXTENDS SendReceiveProofs

-----------------------------------------------------------------------------
(* The state of the exchange that a state of the processes stands for.     *)

exchange == << mode.kind, SentMessages, handled, AnsweredCalls, EndedSides >>

\* What a step may change that the exchange does not see.
LEMMA Unseen ==
  ASSUME UNCHANGED << mode, sent, handled >>,
         \A t \in Threads : (thr'[t] = "await") <=> (thr[t] = "await"),
         (spc' = "exited") <=> (spc = "exited"),
         (rpc' = "exited") <=> (rpc = "exited")
  PROVE  UNCHANGED exchange
<1>1. SentMessages' = SentMessages BY DEF SentMessages
<1>2. \A m \in SentMessages : m[1] \in Threads BY DEF SentMessages, All
<1>3. AnsweredCalls' = AnsweredCalls BY <1>1, <1>2 DEF AnsweredCalls
<1>4. EndedSides' = EndedSides BY DEF EndedSides
<1>5. QED BY <1>1, <1>3, <1>4 DEF exchange

\* Steps that change nothing the exchange is made of.
LEMMA UnseenFrame ==
  ASSUME UNCHANGED << mode, sent, thr, handled, spc, rpc >>
  PROVE  UNCHANGED exchange
BY Unseen

-----------------------------------------------------------------------------
(* The Sender.                                                             *)

\* Waiting for the name and starting the threads is not seen.
LEMMA SenderMainMaps ==
  IInv /\ (AddWatch \/ CheckOwner \/ DispatchNews \/ NameAppeared) => UNCHANGED exchange
<1> USE DEF receiverVars
<1>1. ASSUME IInv, AddWatch \/ DispatchNews PROVE UNCHANGED exchange
  BY <1>1, Unseen DEF AddWatch, DispatchNews
<1>2. ASSUME IInv, spc \in {"match", "check"}, StartThreads,
             UNCHANGED << mode, sent, handled, rpc >>
      PROVE  UNCHANGED exchange
  <2>1. \A t \in Threads : thr[t] = "off" /\ thr'[t] = "prepare"
    BY <1>2 DEF IInv, Sending, StartThreads
  <2>2. QED BY <1>2, <2>1, Unseen DEF StartThreads
<1>3. ASSUME IInv, CheckOwner PROVE UNCHANGED exchange
  <2>1. CASE StartThreads BY <1>2, <1>3, <2>1 DEF CheckOwner
  <2>2. CASE spc' = "wait" /\ UNCHANGED << thr, watching >>
    BY <1>3, <2>2, Unseen DEF CheckOwner
  <2>3. QED BY <1>3, <2>1, <2>2 DEF CheckOwner
<1>4. ASSUME IInv, NameAppeared PROVE UNCHANGED exchange
  BY <1>2, <1>4 DEF NameAppeared
<1>5. QED BY <1>1, <1>3, <1>4

\* Joining the threads is the end of the sender's side.
LEMMA JoinThreadsMaps == IInv /\ JoinThreads => Exchanged!SenderEnds
<1> SUFFICES ASSUME IInv, JoinThreads PROVE Exchanged!SenderEnds OBVIOUS
<1>1. \A t \in Threads : thr[t] = "done" /\ sent[t] = Msgs
  BY DEF JoinThreads, IInv, Sending
<1>2. SentMessages = All BY <1>1, SendReceiveAssumption DEF SentMessages, All
<1>3. mode.kind = "call" => AnsweredCalls = All BY <1>1, <1>2 DEF AnsweredCalls, All
<1>4. spc = "run" /\ spc' = "exited" /\ UNCHANGED << mode, thr, sent, handled, rpc >>
  BY DEF JoinThreads, receiverVars
<1>5. SentMessages' = SentMessages /\ AnsweredCalls' = AnsweredCalls
  BY <1>4 DEF SentMessages, AnsweredCalls
<1>6. "sender" \notin EndedSides /\ EndedSides' = EndedSides \cup {"sender"}
  BY <1>4 DEF EndedSides
<1>7. QED
  BY <1>2, <1>3, <1>4, <1>5, <1>6 DEF Exchanged!SenderEnds, Exchanged!Messages, All

\* Sending a message is sending it.
LEMMA SendMaps ==
  ASSUME IInv, NEW t \in Threads, Send(t)
  PROVE  \E m \in All : Exchanged!Send(m)
<1>1. /\ thr[t] = "send" /\ sent[t] \in Nat /\ sent[t] < Msgs /\ mode' = mode
      /\ sent'[t] = sent[t] + 1
      /\ thr'[t] = IF mode.kind = "call" THEN "await" ELSE "send"
      /\ \A u \in Threads \ {t} : thr'[u] = thr[u] /\ sent'[u] = sent[u]
      /\ UNCHANGED << spc, rpc, handled >>
  BY SendReceiveAssumption DEF Send, IInv, TypeOK, StateOK, receiverVars
<1>2. \A u \in Threads : sent[u] \in Nat
  BY SendReceiveAssumption DEF IInv, TypeOK, StateOK
<1> DEFINE m == << t, sent[t] + 1 >>
<1>3. m \in All /\ m \notin SentMessages
  BY <1>1, SendReceiveAssumption DEF All, SentMessages
<1>4. SentMessages' = SentMessages \cup {m}
  <2>1. ASSUME NEW u \in Threads, NEW n \in 1..Msgs
        PROVE  << u, n >> \in SentMessages' <=> << u, n >> \in SentMessages \cup {m}
    <3>1. << u, n >> \in SentMessages' <=> n <= sent'[u] BY DEF SentMessages, All
    <3>2. << u, n >> \in SentMessages <=> n <= sent[u] BY DEF SentMessages, All
    <3>3. CASE u = t BY <1>1, <3>1, <3>2, <3>3
    <3>4. CASE u # t BY <1>1, <3>1, <3>2, <3>4
    <3>5. QED BY <3>3, <3>4
  <2>2. SentMessages' \subseteq All /\ SentMessages \cup {m} \subseteq All
    BY <1>3 DEF SentMessages
  <2>3. QED BY <2>1, <2>2 DEF All
<1>5. AnsweredCalls' = AnsweredCalls
  <2>1. CASE mode.kind # "call" BY <1>1, <2>1 DEF AnsweredCalls
  <2>2. CASE mode.kind = "call"
    <3>1. ASSUME NEW u \in Threads, NEW n \in 1..Msgs
          PROVE  << u, n >> \in AnsweredCalls' <=> << u, n >> \in AnsweredCalls
      <4>1. << u, n >> \in AnsweredCalls' <=>
              n <= sent'[u] /\ (thr'[u] = "await" => n < sent'[u])
        BY <1>1, <2>2 DEF AnsweredCalls, SentMessages, All
      <4>2. << u, n >> \in AnsweredCalls <=>
              n <= sent[u] /\ (thr[u] = "await" => n < sent[u])
        BY <2>2 DEF AnsweredCalls, SentMessages, All
      <4>3. CASE u = t BY <1>1, <2>2, <4>1, <4>2, <4>3
      <4>4. CASE u # t BY <1>1, <4>1, <4>2, <4>4
      <4>5. QED BY <4>3, <4>4
    <3>2. AnsweredCalls' \subseteq All /\ AnsweredCalls \subseteq All
      BY DEF AnsweredCalls, SentMessages
    <3>3. QED BY <3>1, <3>2 DEF All
  <2>3. QED BY <2>1, <2>2
<1>6. EndedSides' = EndedSides /\ "sender" \notin EndedSides
  BY <1>1 DEF EndedSides, IInv, Sending
<1>7. ASSUME NEW n \in 1..(m[2] - 1)
      PROVE  << m[1], n >> \in (IF mode.kind = "call" THEN AnsweredCalls ELSE SentMessages)
  BY <1>1, SendReceiveAssumption DEF AnsweredCalls, SentMessages, All
<1>8. Exchanged!Send(m) BY <1>1, <1>3, <1>4, <1>5, <1>6, <1>7 DEF Exchanged!Send
<1>9. QED BY <1>3, <1>8

\* Taking a reply is the answer to the call.
LEMMA HandleReplyMaps ==
  ASSUME IInv, NEW t \in Threads, HandleReply(t)
  PROVE  \E m \in All : Exchanged!Answer(m)
<1>1. /\ thr[t] = "await" /\ thr'[t] = "send" /\ answer[t] = "ok"
      /\ \A u \in Threads \ {t} : thr'[u] = thr[u]
      /\ UNCHANGED << mode, spc, rpc, sent, handled >>
      /\ sent[t] \in 0..Msgs
  BY DEF HandleReply, IInv, TypeOK, StateOK, receiverVars
<1>2. mode.kind = "call" /\ sent[t] > 0 /\ << t, sent[t] >> \in handled /\ spc # "exited"
  BY <1>1 DEF IInv, Sending
<1> DEFINE m == << t, sent[t] >>
<1>3. m \in All BY <1>1, <1>2, SendReceiveAssumption DEF All
<1>4. m \notin AnsweredCalls BY <1>1 DEF AnsweredCalls
<1>5. SentMessages' = SentMessages BY <1>1 DEF SentMessages
<1>6. AnsweredCalls' = AnsweredCalls \cup {m}
  <2>1. ASSUME NEW u \in Threads, NEW n \in 1..Msgs
        PROVE  << u, n >> \in AnsweredCalls' <=> << u, n >> \in AnsweredCalls \cup {m}
    <3>1. << u, n >> \in AnsweredCalls' <=>
            n <= sent[u] /\ (thr'[u] = "await" => n < sent[u])
      BY <1>1, <1>2 DEF AnsweredCalls, SentMessages, All
    <3>2. << u, n >> \in AnsweredCalls <=>
            n <= sent[u] /\ (thr[u] = "await" => n < sent[u])
      BY <1>2 DEF AnsweredCalls, SentMessages, All
    <3>3. CASE u = t BY <1>1, <3>1, <3>2, <3>3
    <3>4. CASE u # t BY <1>1, <3>1, <3>2, <3>4
    <3>5. QED BY <3>3, <3>4
  <2>2. AnsweredCalls' \subseteq All /\ AnsweredCalls \cup {m} \subseteq All
    BY <1>3 DEF AnsweredCalls, SentMessages
  <2>3. QED BY <2>1, <2>2 DEF All
<1>7. EndedSides' = EndedSides /\ "sender" \notin EndedSides
  BY <1>1, <1>2 DEF EndedSides
<1>8. Exchanged!Answer(m) BY <1>1, <1>2, <1>4, <1>5, <1>6, <1>7 DEF Exchanged!Answer
<1>9. QED BY <1>3, <1>8

\* The steps of a thread.
LEMMA SenderThreadMaps ==
  ASSUME IInv, NEW t \in Threads, SenderThread(t)
  PROVE  [Exchanged!Next]_exchange
<1> USE DEF receiverVars
<1>1. CASE Prepare(t) \/ Prepared(t) \/ ThreadDone(t)
  <2>1. /\ thr[t] # "await" /\ thr'[t] # "await"
        /\ \A u \in Threads \ {t} : thr'[u] = thr[u]
        /\ UNCHANGED << mode, sent, handled, spc, rpc >>
    BY <1>1 DEF Prepare, Prepared, ThreadDone, IInv, TypeOK, StateOK
  <2>2. QED BY <2>1, Unseen
<1>2. CASE Send(t)
  <2>1. PICK m \in All : Exchanged!Send(m) BY <1>2, SendMaps
  <2>2. QED BY <2>1 DEF Exchanged!Next, Exchanged!Messages, All
<1>3. CASE HandleReply(t)
  <2>1. PICK m \in All : Exchanged!Answer(m) BY <1>3, HandleReplyMaps
  <2>2. QED BY <2>1 DEF Exchanged!Next, Exchanged!Messages, All
<1>4. QED BY <1>1, <1>2, <1>3 DEF SenderThread

-----------------------------------------------------------------------------
(* The bus and the Receiver.                                               *)

\* What the bus does is not seen.
LEMMA BusMaps ==
  /\ \A t \in Threads : BusForward(t) => UNCHANGED exchange
  /\ BusServe => UNCHANGED exchange
BY UnseenFrame DEF BusForward, BusServe, senderVars

\* Dispatching is not seen, unless it gives a message to the Reaction.
LEMMA DispatchMaps == IInv /\ Dispatch => [Exchanged!Next]_exchange
<1> SUFFICES ASSUME IInv, Dispatch PROVE [Exchanged!Next]_exchange OBVIOUS
<1>1. UNCHANGED << mode, sent, thr, spc, rpc, k >> /\ batch # << >>
  BY DEF Dispatch, senderVars
<1>2. CASE handled' = handled BY <1>1, <1>2, UnseenFrame
<1>3. CASE Head(batch).kind = mode.kind /\ React(Head(batch))
  <2>1. PICK r \in Requests : /\ r = Head(batch) /\ Request(r) /\ r.n \in 1..Msgs
                              /\ r.thread \in Threads /\ r.thread # Bus
                              /\ handled' = handled \cup {<< r.thread, r.n >>}
    BY <1>1, <1>3, BatchHead, ReactCounts, MessageFields DEF Message
  <2> DEFINE m == << r.thread, r.n >>
  <2>2. m \in All /\ m \in SentMessages BY <2>1 DEF Request, SentMessages, All
  <2>3. ASSUME NEW n \in m[2]..Msgs PROVE << m[1], n >> \notin handled
    <3>1. n \in 1..Msgs /\ ~(n < r.n) BY <2>1
    <3>2. QED BY <2>1, <3>1 DEF Request
  <2>4. "receiver" \notin EndedSides BY <1>1, BatchHead DEF EndedSides
  <2>5. SentMessages' = SentMessages /\ AnsweredCalls' = AnsweredCalls
        /\ EndedSides' = EndedSides
    BY <1>1 DEF SentMessages, AnsweredCalls, EndedSides
  <2>6. Exchanged!Handle(m) BY <1>1, <2>1, <2>2, <2>3, <2>4, <2>5 DEF Exchanged!Handle
  <2>7. QED BY <2>2, <2>6 DEF Exchanged!Next, Exchanged!Messages, All
<1>4. QED BY <1>2, <1>3 DEF Dispatch

\* The end of the Receiver is the end of its side.
LEMMA ReceiverExitsMaps == IInv /\ ReceiverExits => Exchanged!ReceiverEnds
<1> SUFFICES ASSUME IInv, ReceiverExits PROVE Exchanged!ReceiverEnds OBVIOUS
<1>1. /\ rpc = "release" /\ rpc' = "exited"
      /\ UNCHANGED << mode, sent, thr, spc, handled >>
  BY DEF ReceiverExits, senderVars
<1>2. handled = All BY <1>1 DEF IInv, Released, Done
<1>3. SentMessages' = SentMessages /\ AnsweredCalls' = AnsweredCalls
  BY <1>1 DEF SentMessages, AnsweredCalls
<1>4. "receiver" \notin EndedSides /\ EndedSides' = EndedSides \cup {"receiver"}
  BY <1>1 DEF EndedSides
<1>5. QED
  BY <1>1, <1>2, <1>3, <1>4 DEF Exchanged!ReceiverEnds, Exchanged!Messages, All

\* The steps of the Receiver.
LEMMA ReceiverMaps == IInv /\ ReceiverStep => [Exchanged!Next]_exchange
<1> SUFFICES ASSUME IInv, ReceiverStep PROVE [Exchanged!Next]_exchange OBVIOUS
<1>1. CASE ServiceSetup \/ NameGranted \/ SetupReturns \/ Poll \/ DispatchOnce
           \/ DispatchReturns \/ ServiceTearDown
  BY <1>1, Unseen DEF ServiceSetup, NameGranted, SetupReturns, Poll, DispatchOnce,
     DispatchReturns, ServiceTearDown, senderVars
<1>2. CASE Dispatch BY <1>2, DispatchMaps
<1>3. CASE ReceiverExits BY <1>3, ReceiverExitsMaps DEF Exchanged!Next
<1>4. QED BY <1>1, <1>2, <1>3 DEF ReceiverStep

-----------------------------------------------------------------------------
(* The refinement.                                                         *)

\* The exchange has not begun.
LEMMA InitialMaps == Init => Exchanged!Init
<1> SUFFICES ASSUME Init PROVE Exchanged!Init OBVIOUS
<1>1. mode.kind \in {"call", "signal"} BY ModeFields DEF Init
<1>2. SentMessages = {} BY DEF Init, SentMessages, All
<1>3. AnsweredCalls = {} BY <1>2 DEF AnsweredCalls
<1>4. EndedSides = {} BY DEF Init, EndedSides
<1>5. QED BY <1>1, <1>2, <1>3, <1>4 DEF Init, Exchanged!Init

\* Every step is a step of the exchange or leaves it as it is.
LEMMA StepMaps == IInv /\ [Next]_vars => [Exchanged!Next]_(Exchanged!vars)
<1> SUFFICES ASSUME IInv, [Next]_vars PROVE [Exchanged!Next]_exchange
  BY DEF Exchanged!vars, exchange
<1>1. CASE SenderMain
  BY <1>1, SenderMainMaps, JoinThreadsMaps DEF SenderMain, Exchanged!Next
<1>2. ASSUME NEW t \in Threads, SenderThread(t) PROVE [Exchanged!Next]_exchange
  BY <1>2, SenderThreadMaps
<1>3. ASSUME NEW t \in Threads, BusForward(t) PROVE [Exchanged!Next]_exchange
  BY <1>3, BusMaps
<1>4. CASE BusServe BY <1>4, BusMaps
<1>5. CASE ReceiverStep BY <1>5, ReceiverMaps
<1>6. CASE UNCHANGED vars
  BY <1>6, UnseenFrame DEF vars, senderVars, receiverVars
<1>7. QED BY <1>1, <1>2, <1>3, <1>4, <1>5, <1>6 DEF Next

\* Whatever connections and main loops do, in every combination of implementations,
\* for any number of threads and messages: each message is handled once and in order,
\* a thread goes on only with the answer to its own call, and neither process ends
\* before its part of the exchange is done.
THEOREM Refinement == Spec => RefinesExchange
BY InitialMaps, StepMaps, Invariant, PTL DEF Spec, RefinesExchange, Exchanged!Spec
=============================================================================
