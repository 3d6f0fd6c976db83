--------------------------- MODULE FaultyBusProofs ---------------------------
(* Theorems about FaultyBus, for any number of faults, any finite set of   *)
(* threads, any number of messages and any combination of implementations. *)
EXTENDS FaultyBus, SendReceiveProofs

-----------------------------------------------------------------------------
(* The inductive invariant.  It is weaker than that of SendReceive: the    *)
(* bus may lose a message and its reply, and R are those it repeats.       *)

\* Message b may come after message n of thread t: it is a later one, or a copy.
Follows(R, b, t, n) ==
  b.thread = t /\ b.n > 0 => n < b.n \/ (n = b.n /\ << t, n >> \in R)

\* The messages of a sequence are in the order of their numbers, but for copies.
InOrder(R, s) == \A i, j \in 1..Len(s) : i < j => Follows(R, s[j], s[i].thread, s[i].n)

\* What is in r comes after what is in s.
Behind(R, s, r) == \A a \in Elems(s), b \in Elems(r) : Follows(R, b, a.thread, a.n)

\* Batch, inbox and wire are one queue.
Queues ==
  /\ InOrder(repeated, batch) /\ InOrder(repeated, rbox) /\ Behind(repeated, batch, rbox)
  /\ \A t \in Threads : /\ InOrder(repeated, wire[t])
                        /\ Behind(repeated, batch, wire[t])
                        /\ Behind(repeated, rbox, wire[t])

\* A message on its way was sent, and comes after what has been handled.
Carried(m) ==
  /\ m.kind \in Kinds <=> m.n > 0
  /\ m.n > 0 => /\ m.n <= sent[m.thread]
                /\ \A h \in handled : Follows(repeated, m, h[1], h[2])

Carrying ==
  /\ \A m \in Elems(batch) \cup Elems(rbox) : Carried(m)
  /\ \A t \in Threads : \A m \in Elems(wire[t]) : m.thread = t /\ Carried(m)

\* What a thread has sent and what was handled.  A call that its thread is done with
\* was handled; only a reply that the thread waits for is taken for its answer.
Sides ==
  \A t \in Threads :
    /\ thr[t] \in {"off", "prepare", "getall"} => sent[t] = 0
    /\ thr[t] = "await" => mode.kind = "call" /\ sent[t] > 0
    /\ thr[t] = "done" => sent[t] = Msgs
    /\ spc \in {"match", "check", "wait"} => thr[t] = "off"
    /\ spc = "exited" => thr[t] = "done"
    /\ answer[t] = "ok" => thr[t] \in {"getall", "await"}
    /\ answer[t] = "ok" /\ thr[t] = "await" => << t, sent[t] >> \in handled
    /\ \A n \in 1..Msgs : << t, n >> \in handled => n <= sent[t]
    /\ \A n \in 1..Msgs :
         mode.kind = "call" /\ n <= sent[t] /\ (thr[t] = "await" => n < sent[t])
           => << t, n >> \in handled

\* Replies are those of calls that were handled.
Replying ==
  \A m \in Elems(rout) : m.kind = "return" /\ m.n > 0 => << m.thread, m.n >> \in handled

\* Signals that come once are counted once: the receiver does not end before all have
\* come.
CountsOnce ==
  mode.kind = "signal" /\ repeated = {} =>
    /\ k <= Total
    /\ Counted <= Cardinality(handled)
    /\ rpc \in {"release", "exited"} => Done

\* A Reaction that checks what messages carry has handled no damaged one.
Intact ==
  /\ Checked => damaged \cap handled = {}
  /\ mode.receiver = "dbus" => thinned \cap handled = {}

FaultyIInv ==
  FaultyTypeOK /\ Queues /\ Carrying /\ Sides /\ Replying /\ CountsOnce /\ Intact

-----------------------------------------------------------------------------
(* Queues of messages.                                                     *)

\* A message that has no number, or comes after one that has none, is in order.
LEMMA NoNumber ==
  ASSUME NEW R, NEW b, b.n \in Nat, NEW t, NEW n \in Nat, b.n = 0 \/ n = 0
  PROVE  Follows(R, b, t, n)
BY DEF Follows

\* What is in order stays so when more messages are repeated.
LEMMA MoreRepeated ==
  ASSUME NEW R, NEW Q, R \subseteq Q
  PROVE  /\ \A b, t, n : Follows(R, b, t, n) => Follows(Q, b, t, n)
         /\ \A s : InOrder(R, s) => InOrder(Q, s)
         /\ \A s, r : Behind(R, s, r) => Behind(Q, s, r)
<1>1. \A b, t, n : Follows(R, b, t, n) => Follows(Q, b, t, n) BY DEF Follows
<1>2. QED BY <1>1 DEF InOrder, Behind

\* The rest of a queue in order is in order, and comes after the first message.
LEMMA FollowTail ==
  ASSUME NEW R, NEW s \in Seq(Message), s # << >>, InOrder(R, s)
  PROVE  /\ InOrder(R, Tail(s))
         /\ \A b \in Elems(Tail(s)) : Follows(R, b, Head(s).thread, Head(s).n)
<1>1. Len(s) \in Nat /\ Len(s) > 0 /\ Len(Tail(s)) = Len(s) - 1 /\ Head(s) = s[1]
  BY EmptySeq, LenProperties, TailElems
<1>2. \A i \in 1..Len(Tail(s)) : i + 1 \in 1..Len(s) /\ 1 < i + 1 /\ Tail(s)[i] = s[i + 1]
  BY <1>1, TailElems
<1>3. InOrder(R, Tail(s))
  <2> SUFFICES ASSUME NEW i \in 1..Len(Tail(s)), NEW j \in 1..Len(Tail(s)), i < j
               PROVE  Follows(R, Tail(s)[j], Tail(s)[i].thread, Tail(s)[i].n)
    BY DEF InOrder
  <2>1. i + 1 < j + 1 BY <1>1
  <2>2. QED BY <2>1, <1>2 DEF InOrder
<1>4. ASSUME NEW b \in Elems(Tail(s)) PROVE Follows(R, b, Head(s).thread, Head(s).n)
  <2>1. PICK i \in 1..Len(Tail(s)) : b = Tail(s)[i] BY DEF Elems
  <2>2. 1 \in 1..Len(s) BY <1>1
  <2>3. QED BY <1>1, <1>2, <2>1, <2>2 DEF InOrder
<1>5. QED BY <1>3, <1>4

\* A queue in order stays so with a message after it that may come after all of it.
LEMMA FollowAppend ==
  ASSUME NEW R, NEW s \in Seq(Message), NEW m \in Message, InOrder(R, s),
         \A a \in Elems(s) : Follows(R, m, a.thread, a.n)
  PROVE  InOrder(R, Append(s, m))
<1>1. Len(s) \in Nat BY LenProperties
<1> SUFFICES ASSUME NEW i \in 1..(Len(s) + 1), NEW j \in 1..(Len(s) + 1), i < j
             PROVE  Follows(R, Append(s, m)[j], Append(s, m)[i].thread, Append(s, m)[i].n)
  BY AppendElems DEF InOrder
<1>2. i \in 1..Len(s) /\ Append(s, m)[i] = s[i] /\ s[i] \in Elems(s)
  BY <1>1, AppendElems DEF Elems
<1>3. CASE j \in 1..Len(s) BY <1>2, <1>3, AppendElems DEF InOrder
<1>4. CASE j = Len(s) + 1 BY <1>2, <1>4, AppendElems
<1>5. QED BY <1>1, <1>3, <1>4

-----------------------------------------------------------------------------
(* What each part of the invariant reads.                                  *)

\* Queues reads the queue and what was repeated.
LEMMA QueuesFrame ==
  ASSUME Queues, UNCHANGED << batch, rbox, wire, repeated >>
  PROVE  Queues'
BY DEF Queues

\* Carrying reads the queue, what was sent, handled and repeated.
LEMMA CarryingFrame ==
  ASSUME Carrying, UNCHANGED << batch, rbox, wire, sent, handled, repeated >>
  PROVE  Carrying'
BY DEF Carrying, Carried

\* Sides reads the Sender and what was handled.
LEMMA SidesFrame ==
  ASSUME Sides, UNCHANGED << mode, spc, thr, sent, answer, handled >>
  PROVE  Sides'
BY DEF Sides

\* Replying reads the replies and what was handled.
LEMMA ReplyingFrame ==
  ASSUME Replying, UNCHANGED << rout, handled >>
  PROVE  Replying'
BY DEF Replying

\* CountsOnce reads the Receiver's loop and its counters.
LEMMA CountsOnceFrame ==
  ASSUME CountsOnce, UNCHANGED << mode, repeated, k, rpc, processed, handled >>
  PROVE  CountsOnce'
BY DEF CountsOnce, Counted, Done

\* Intact reads what is checked, what is damaged and what is handled.
LEMMA IntactFrame ==
  ASSUME Intact, UNCHANGED << mode, check, damaged, thinned, handled >>
  PROVE  Intact'
BY DEF Intact, Checked

\* A message stays one that was sent while its thread sends more.
LEMMA StaysCarried ==
  ASSUME FaultyTypeOK, NEW m \in Requests \cup Notes, Carried(m),
         UNCHANGED handled, repeated \subseteq repeated',
         sent' \in [Threads -> 0..Msgs], \A t \in Threads : sent[t] <= sent'[t]
  PROVE  Carried(m)'
<1>1. ASSUME m.n > 0 PROVE m.thread \in Threads
  <2>1. m \in Requests BY <1>1, MessageFields
  <2>2. QED BY <2>1, MessageFields
<1>2. \A h \in handled : Follows(repeated, m, h[1], h[2]) => Follows(repeated', m, h[1], h[2])
  BY MoreRepeated
<1>3. ASSUME m.n > 0 PROVE m.n <= sent'[m.thread]
  <2>1. m.n \in Nat /\ sent[m.thread] \in Nat /\ sent'[m.thread] \in Nat
    <3>1. sent \in [Threads -> 0..Msgs] BY DEF FaultyTypeOK, StateOK
    <3>2. m.n \in Nat BY MessageFields, SendReceiveAssumption DEF Message
    <3>3. QED BY <1>1, <1>3, <3>1, <3>2, SendReceiveAssumption
  <2>2. QED BY <1>1, <1>3, <2>1 DEF Carried
<1>4. QED BY <1>2, <1>3 DEF Carried

-----------------------------------------------------------------------------
(* The Sender.                                                             *)

\* The main thread looks for the name, starts the threads and joins them.
LEMMA MainLivesKeeps == FaultyIInv /\ MainLives => FaultyIInv'
<1> SUFFICES ASSUME FaultyIInv, MainLives PROVE FaultyIInv' OBVIOUS
<1> USE DEF FaultyIInv, MainLives, SenderMain, AddWatch, CheckOwner, DispatchNews,
            NameAppeared, JoinThreads, StartThreads, faultVars, busVars, receiverVars
<1>1. FaultyTypeOK'
  <2>1. thr' \in [Threads -> {"off", "prepare", "getall", "send", "await", "done"}]
    BY DEF FaultyTypeOK, StateOK
  <2>2. spc' \in {"match", "check", "wait", "run", "exited"} /\ watching' \in BOOLEAN
    BY DEF FaultyTypeOK, StateOK
  <2>3. news' \in Nat BY DEF FaultyTypeOK, StateOK
  <2>4. UNCHANGED << mode, sent, answer, wire, busVars, receiverVars, faultVars >> OBVIOUS
  <2>5. QED BY <2>1, <2>2, <2>3, <2>4 DEF FaultyTypeOK, StateOK
<1>2. Sides'
  <2>1. CASE AddWatch \/ DispatchNews \/ JoinThreads BY <2>1 DEF Sides
  <2>2. CASE CheckOwner \/ NameAppeared
    <3>1. \A t \in Threads : thr[t] = "off" /\ sent[t] = 0 BY <2>2 DEF Sides
    <3>2. CASE UNCHANGED thr BY <2>2, <3>2 DEF Sides
    <3>3. CASE StartThreads BY <2>2, <3>1, <3>3 DEF Sides
    <3>4. QED BY <2>2, <3>2, <3>3
  <2>3. QED BY <2>1, <2>2
<1>3. UNCHANGED << mode, check, batch, rbox, rout, wire, sent, handled, repeated, damaged,
                   k, rpc, processed >>
  OBVIOUS
<1>4. QED
  BY <1>1, <1>2, <1>3, QueuesFrame, CarryingFrame, ReplyingFrame, CountsOnceFrame,
     IntactFrame

\* A thread's wire with one more message that may come after what is on its way.
LEMMA WireGrows ==
  ASSUME FaultyIInv, NEW t \in Threads, NEW m \in Requests, m.thread = t,
         wire' = [wire EXCEPT ![t] = Append(@, m)],
         UNCHANGED << batch, rbox, handled, repeated >>,
         \A a \in Elems(batch) \cup Elems(rbox) \cup Elems(wire[t]) :
           Follows(repeated, m, a.thread, a.n),
         sent' \in [Threads -> 0..Msgs], \A u \in Threads : sent[u] <= sent'[u],
         Carried(m)'
  PROVE  wire' \in [Threads -> Seq(Requests)] /\ Queues' /\ Carrying'
<1> USE DEF FaultyIInv
<1>1. StateOK /\ m \in Message /\ wire[t] \in Seq(Requests) /\ wire[t] \in Seq(Message)
  BY InMessage DEF FaultyTypeOK, StateOK, Message
<1>2. wire'[t] = Append(wire[t], m) /\ \A u \in Threads \ {t} : wire'[u] = wire[u]
  BY <1>1 DEF StateOK
<1>3. Elems(wire'[t]) = Elems(wire[t]) \cup {m} /\ wire'[t] \in Seq(Requests)
  BY <1>1, <1>2, AppendElems
<1>4. wire' \in [Threads -> Seq(Requests)] BY <1>1, <1>2, <1>3 DEF StateOK
<1>5. Queues'
  <2>1. InOrder(repeated, wire'[t]) BY <1>1, <1>2, FollowAppend DEF Queues
  <2>2. Behind(repeated, batch, wire'[t]) /\ Behind(repeated, rbox, wire'[t])
    BY <1>3 DEF Queues, Behind
  <2>3. QED BY <1>2, <2>1, <2>2 DEF Queues
<1>6. Carrying'
  <2>1. \A a \in Requests \cup Notes : Carried(a) => Carried(a)' BY StaysCarried
  <2>2. \A a \in Elems(batch) \cup Elems(rbox) : Carried(a)'
    BY <1>1, <2>1, InMessage DEF Carrying
  <2>3. ASSUME NEW u \in Threads, NEW a \in Elems(wire'[u]) PROVE a.thread = u /\ Carried(a)'
    <3>1. CASE a \in Elems(wire[u]) BY <1>1, <2>1, <3>1, InMessage DEF Carrying
    <3>2. CASE a \notin Elems(wire[u]) BY <1>2, <1>3, <2>3, <3>2
    <3>3. QED BY <3>1, <3>2
  <2>4. QED BY <2>2, <2>3 DEF Carrying
<1>7. QED BY <1>4, <1>5, <1>6

\* A proxy asks for the properties; the other threads go on.
LEMMA PrepareLives ==
  ASSUME FaultyIInv, NEW t \in Threads, Prepare(t), UNCHANGED faultVars
  PROVE  FaultyIInv'
<1> USE DEF FaultyIInv, Prepare, faultVars, busVars, receiverVars
<1>1. StateOK BY DEF FaultyTypeOK
<1>2. thr' \in [Threads -> {"off", "prepare", "getall", "send", "await", "done"}]
      /\ sent[t] = 0
  BY <1>1 DEF StateOK, Sides
<1>3. Sides'
  <2>1. ASSUME NEW u \in Threads, u # t PROVE thr'[u] = thr[u] BY <1>1, <2>1 DEF StateOK
  <2>2. thr'[t] \in {"getall", "send"} /\ thr[t] = "prepare" BY <1>1 DEF StateOK
  <2>3. spc \notin {"match", "check", "wait", "exited"} BY <2>2 DEF Sides
  <2>4. answer[t] # "ok" BY <2>2 DEF Sides
  <2>5. QED BY <1>2, <2>1, <2>2, <2>3, <2>4, SendReceiveAssumption DEF Sides
<1>4. wire' \in [Threads -> Seq(Requests)] /\ Queues' /\ Carrying'
  <2>1. CASE UNCHANGED wire BY <1>1, <2>1, QueuesFrame, CarryingFrame DEF StateOK
  <2>2. CASE wire' = [wire EXCEPT ![t] = Append(@, Of(t, "getall", 0))]
    <3> DEFINE m == Of(t, "getall", 0)
    <3>1. m \in Requests /\ m.thread = t /\ m.n = 0 /\ m.kind = "getall"
      BY MakeMessages, SendReceiveAssumption
    <3>2. \A a \in Elems(batch) \cup Elems(rbox) \cup Elems(wire[t]) :
            Follows(repeated, m, a.thread, a.n)
      BY <3>1 DEF Follows
    <3>3. Carried(m)' BY <3>1 DEF Carried, Kinds
    <3>4. sent' \in [Threads -> 0..Msgs] /\ \A u \in Threads : sent[u] <= sent'[u]
      BY <1>1, SendReceiveAssumption DEF StateOK
    <3> HIDE DEF m
    <3>5. QED BY <2>2, <3>1, <3>2, <3>3, <3>4, WireGrows DEF m
  <2>3. QED BY <2>1, <2>2
<1>5. FaultyTypeOK'
  <2>1. UNCHANGED << mode, spc, watching, news, sent, answer, busVars, receiverVars >>
    OBVIOUS
  <2>2. StateOK' BY ONLY <1>1, <1>2, <1>4, <2>1 DEF StateOK, busVars, receiverVars
  <2>3. QED BY <1>2, <2>1, <2>2 DEF FaultyTypeOK
<1>6. QED
  BY <1>3, <1>4, <1>5, ReplyingFrame, CountsOnceFrame, IntactFrame

\* The next message is later than all before it.
LEMMA SendLives ==
  ASSUME FaultyIInv, NEW t \in Threads, Send(t), UNCHANGED faultVars
  PROVE  FaultyIInv'
<1> USE DEF FaultyIInv, Send, faultVars, busVars, receiverVars
<1>0. PICK m : m = Of(t, mode.kind, sent[t] + 1) OBVIOUS
<1>1. StateOK /\ mode.kind \in Kinds BY ModeFields DEF FaultyTypeOK, StateOK, Kinds
<1>2. sent[t] \in Nat /\ sent[t] + 1 \in 0..Msgs /\ Msgs \in Nat
  <2>1. sent \in [Threads -> 0..Msgs] /\ sent[t] < Msgs BY <1>1 DEF StateOK
  <2>2. QED BY ONLY <2>1, SendReceiveAssumption
<1>3. /\ m \in Requests /\ m.thread = t /\ m.n = sent[t] + 1 /\ m.kind = mode.kind
      /\ m \in Message
  BY <1>0, <1>1, <1>2, MakeMessages DEF Kinds, Message
<1>4. /\ sent'[t] = sent[t] + 1 /\ \A u \in Threads \ {t} : sent'[u] = sent[u]
      /\ sent' \in [Threads -> 0..Msgs] /\ \A u \in Threads : sent[u] <= sent'[u]
  <2>1. sent' = [sent EXCEPT ![t] = @ + 1] OBVIOUS
  <2>2. sent \in [Threads -> 0..Msgs] BY <1>1 DEF StateOK
  <2>3. QED BY ONLY <1>2, <2>1, <2>2
<1>5. \A a \in Elems(batch) \cup Elems(rbox) \cup Elems(wire[t]) :
        Follows(repeated, m, a.thread, a.n)
  <2> SUFFICES ASSUME NEW a \in Elems(batch) \cup Elems(rbox) \cup Elems(wire[t]),
                      a.thread = t
               PROVE  a.n < m.n
    BY <1>3 DEF Follows
  <2>1. Carried(a) /\ a \in Message BY <1>1, InMessage DEF Carrying
  <2>2. a.n \in Nat BY <2>1, MessageFields, SendReceiveAssumption
  <2>3. QED BY <1>2, <1>3, <2>1, <2>2 DEF Carried
<1>6. Carried(m)'
  <2>1. \A h \in handled : Follows(repeated, m, h[1], h[2])
    <3> SUFFICES ASSUME NEW h \in handled, h[1] = t PROVE h[2] < m.n BY <1>3 DEF Follows
    <3>1. h = << t, h[2] >> /\ h[2] \in 1..Msgs BY <1>1 DEF StateOK, All
    <3>2. h[2] <= sent[t] BY <3>1 DEF Sides
    <3>3. QED BY <1>2, <1>3, <3>1, <3>2
  <2>2. QED BY <1>1, <1>2, <1>3, <1>4, <2>1 DEF Carried
<1>7. wire' = [wire EXCEPT ![t] = Append(@, m)] /\ UNCHANGED << batch, rbox, handled, repeated >>
  BY <1>0
<1>8. wire' \in [Threads -> Seq(Requests)] /\ Queues' /\ Carrying'
  BY <1>3, <1>4, <1>5, <1>6, <1>7, WireGrows
<1>9. FaultyTypeOK'
  <2>1. thr' \in [Threads -> {"off", "prepare", "getall", "send", "await", "done"}]
    BY <1>1 DEF StateOK
  <2>2. StateOK'
    <3>1. UNCHANGED << mode, spc, watching, news, answer, busVars, receiverVars >> OBVIOUS
    <3>2. QED BY ONLY <1>1, <1>4, <1>8, <2>1, <3>1 DEF StateOK, busVars, receiverVars
  <2>3. QED BY <2>2 DEF FaultyTypeOK
<1>10. Sides'
  <2>1. ASSUME NEW u \in Threads, u # t PROVE thr'[u] = thr[u] BY <1>1, <2>1 DEF StateOK
  <2>2. /\ thr'[t] = (IF mode.kind = "call" THEN "await" ELSE "send")
        /\ thr[t] = "send" /\ answer[t] # "ok"
    BY <1>1 DEF StateOK, Sides
  <2>3. spc \notin {"match", "check", "wait", "exited"} BY <2>2 DEF Sides
  <2>4. \A n \in 1..Msgs : << t, n >> \in handled => n <= sent'[t]
    <3> SUFFICES ASSUME NEW n \in 1..Msgs, << t, n >> \in handled PROVE n <= sent'[t] OBVIOUS
    <3>1. n <= sent[t] BY DEF Sides
    <3>2. QED BY <1>2, <1>4, <3>1
  <2>5. \A n \in 1..Msgs :
          mode.kind = "call" /\ n <= sent'[t] /\ (thr'[t] = "await" => n < sent'[t])
            => << t, n >> \in handled
    <3> SUFFICES ASSUME NEW n \in 1..Msgs, mode.kind = "call", n < sent'[t]
                 PROVE  << t, n >> \in handled
      BY <2>2
    <3>1. n <= sent[t] BY <1>2, <1>4
    <3>2. QED BY <2>2, <3>1 DEF Sides
  <2>6. QED BY <1>2, <1>4, <2>1, <2>2, <2>3, <2>4, <2>5 DEF Sides
<1>11. QED
  BY <1>8, <1>9, <1>10, ReplyingFrame, CountsOnceFrame, IntactFrame

\* A thread takes its answer, or ends.
LEMMA ThreadGoesOn ==
  ASSUME FaultyIInv, NEW t \in Threads, Prepared(t) \/ HandleReply(t) \/ ThreadDone(t),
         UNCHANGED faultVars
  PROVE  FaultyIInv'
<1> USE DEF FaultyIInv, Prepared, HandleReply, ThreadDone, faultVars, busVars, receiverVars
<1>1. StateOK BY DEF FaultyTypeOK
<1>2. FaultyTypeOK'
  <2>1. /\ thr' \in [Threads -> {"off", "prepare", "getall", "send", "await", "done"}]
        /\ answer' \in [Threads -> {"none", "ok", "error"}]
    BY <1>1 DEF StateOK
  <2>2. UNCHANGED << mode, spc, watching, news, sent, wire, busVars, receiverVars >>
    OBVIOUS
  <2>3. StateOK' BY ONLY <1>1, <2>1, <2>2 DEF StateOK, busVars, receiverVars
  <2>4. QED BY <2>2, <2>3 DEF FaultyTypeOK
<1>3. Sides'
  <2>1. ASSUME NEW u \in Threads, u # t PROVE thr'[u] = thr[u] /\ answer'[u] = answer[u]
    BY <1>1, <2>1 DEF StateOK
  <2>2. \/ thr[t] \in {"getall", "await"} /\ thr'[t] = "send" /\ answer'[t] = "none"
           /\ (thr[t] = "await" => answer[t] = "ok")
        \/ thr[t] = "send" /\ sent[t] = Msgs /\ thr'[t] = "done" /\ answer'[t] = answer[t]
    BY <1>1 DEF StateOK
  <2>3. spc \notin {"match", "check", "wait", "exited"} BY <2>2 DEF Sides
  <2>4. sent[t] \in Nat /\ Msgs \in Nat BY <1>1, SendReceiveAssumption DEF StateOK
  <2>5. \A n \in 1..Msgs : mode.kind = "call" /\ n <= sent[t] => << t, n >> \in handled
    <3> SUFFICES ASSUME NEW n \in 1..Msgs, mode.kind = "call", n <= sent[t]
                 PROVE  << t, n >> \in handled
      OBVIOUS
    <3>1. CASE thr[t] = "await" /\ n = sent[t] BY <2>2, <3>1 DEF Sides
    <3>2. CASE thr[t] = "await" => n < sent[t] BY <3>2 DEF Sides
    <3>3. QED BY <2>4, <3>1, <3>2
  <2>6. QED BY <2>1, <2>2, <2>3, <2>5 DEF Sides
<1>4. UNCHANGED << mode, check, batch, rbox, rout, wire, sent, handled, repeated, damaged,
                   k, rpc, processed >>
  OBVIOUS
<1>5. QED
  BY <1>2, <1>3, <1>4, QueuesFrame, CarryingFrame, ReplyingFrame, CountsOnceFrame,
     IntactFrame

\* A thread of the Sender.
LEMMA SenderLivesKeeps == \A t \in Threads : FaultyIInv /\ SenderLives(t) => FaultyIInv'
BY PrepareLives, SendLives, ThreadGoesOn DEF SenderLives, SenderThread

-----------------------------------------------------------------------------
(* The Receiver.                                                           *)

\* A step of the Receiver's loop that takes no message.
LEMMA LoopSteps ==
  ASSUME FaultyIInv,
         UNCHANGED << mode, senderVars, answer, wire, busVars, rbox, batch, quit, counter,
                      handled, faultVars >>,
         rpc' \in {"start", "setup", "loop", "dispatch", "release", "exited"},
         k' \in 0..(UIntRange - 1), processed' \in Nat,
         rout' \in Seq(Replies \cup Notes), Replying', CountsOnce'
  PROVE  FaultyIInv'
<1> USE DEF FaultyIInv, senderVars, busVars, faultVars
<1>1. FaultyTypeOK' BY DEF FaultyTypeOK, StateOK
<1>2. QED BY <1>1, QueuesFrame, CarryingFrame, SidesFrame, IntactFrame

\* A note is no reply.
LEMMA NoteReplies ==
  ASSUME FaultyIInv, NEW m \in Notes, NEW s \in Seq(Replies \cup Notes),
         \A a \in Elems(s) : a.kind = "return" /\ a.n > 0 => << a.thread, a.n >> \in handled
  PROVE  /\ Append(s, m) \in Seq(Replies \cup Notes)
         /\ \A a \in Elems(Append(s, m)) :
              a.kind = "return" /\ a.n > 0 => << a.thread, a.n >> \in handled
<1>1. m \in Replies \cup Notes /\ m.kind # "return" BY DEF Notes
<1>2. QED BY <1>1, AppendElems

\* The object or the subscription, and the name.
LEMMA SetupLives == FaultyIInv /\ ServiceSetup /\ UNCHANGED faultVars => FaultyIInv'
<1> SUFFICES ASSUME FaultyIInv, ServiceSetup, UNCHANGED faultVars PROVE FaultyIInv' OBVIOUS
<1>1. rpc = "start" /\ rpc' = "setup"
      /\ UNCHANGED << mode, senderVars, answer, wire, busVars, rbox, batch, quit, k,
                      processed, counter, handled >>
  BY DEF ServiceSetup
<1>2. rout' = << Note("AddMatch"), Note("RequestName") >> \/ rout' = << Note("RequestName") >>
  BY DEF ServiceSetup
<1>3. Note("AddMatch") \in Notes /\ Note("RequestName") \in Notes
      /\ Note("AddMatch").kind # "return" /\ Note("RequestName").kind # "return"
  BY MakeMessages
<1>4. rout' \in Seq(Replies \cup Notes)
  <2>1. \A S : \A a, b \in S : << a >> \in Seq(S) /\ << a, b >> \in Seq(S) OBVIOUS
  <2>2. QED BY <1>2, <1>3, <2>1
<1>5. \A m \in Elems(rout') : m.kind # "return" BY <1>2, <1>3, ShortElems
<1>6. CountsOnce' BY <1>1 DEF FaultyIInv, CountsOnce, Counted, Done, faultVars
<1>7. k' \in 0..(UIntRange - 1) /\ processed' \in Nat BY <1>1 DEF FaultyIInv, FaultyTypeOK
<1>8. QED BY <1>1, <1>4, <1>5, <1>6, <1>7, LoopSteps DEF Replying

\* Steps between the parts of Receiver::operator().
LEMMA LoopLives ==
  ASSUME FaultyIInv,
         NameGranted \/ SetupReturns \/ DispatchOnce \/ ReceiverExits \/ ReleaseFails,
         UNCHANGED faultVars
  PROVE  FaultyIInv'
<1>1. /\ UNCHANGED << mode, senderVars, answer, wire, busVars, rout, rbox, batch, quit, k,
                      counter, handled >>
      /\ \/ rpc = "setup" /\ rpc' = "loop" /\ processed' = processed
         \/ rpc = "loop" /\ rpc' = "dispatch" /\ processed' = 0
         \/ rpc = "release" /\ rpc' = "exited" /\ processed' = processed
  BY DEF NameGranted, SetupReturns, DispatchOnce, ReceiverExits, ReleaseFails
<1>2. k \in 0..(UIntRange - 1) /\ processed \in Nat /\ UIntRange \in Nat
      /\ rout \in Seq(Replies \cup Notes)
  BY FaultyBusAssumption DEF FaultyIInv, FaultyTypeOK, StateOK
<1>3. k' \in 0..(UIntRange - 1) /\ processed' \in Nat BY <1>1, <1>2
<1>4. Counted' = Counted BY <1>1, <1>2, AllCounted DEF Counted
<1>5. CountsOnce' BY <1>1, <1>4 DEF FaultyIInv, CountsOnce, Done, faultVars
<1>6. Replying' BY <1>1, ReplyingFrame DEF FaultyIInv
<1>7. QED BY <1>1, <1>2, <1>3, <1>5, <1>6, LoopSteps

\* The end of the loop: signals that came once have all come.
LEMMA TearDownLives == FaultyIInv /\ ServiceTearDown /\ UNCHANGED faultVars => FaultyIInv'
<1> SUFFICES ASSUME FaultyIInv, ServiceTearDown, UNCHANGED faultVars PROVE FaultyIInv' OBVIOUS
<1>1. rpc = "loop" /\ k = 0 /\ rpc' = "release"
      /\ UNCHANGED << mode, senderVars, answer, wire, busVars, rbox, batch, quit, k,
                      processed, counter, handled >>
  BY DEF ServiceTearDown
<1>2. Note("RemoveMatch") \in Notes /\ Note("ReleaseName") \in Notes BY MakeMessages
<1>3. rout \in Seq(Replies \cup Notes) /\ handled \subseteq All
  BY DEF FaultyIInv, FaultyTypeOK, StateOK
<1>4. \/ rout' = Append(rout, Note("ReleaseName"))
      \/ rout' = Append(Append(rout, Note("RemoveMatch")), Note("ReleaseName"))
  <2>1. rout \in Seq(Message) /\ Append(rout, Note("RemoveMatch")) \in Seq(Message)
    BY <1>2, <1>3, AppendElems DEF Message
  <2>2. \A s \in Seq(Message) : \A a : s \o << a >> = Append(s, a) /\ s \o << >> = s OBVIOUS
  <2>3. QED BY <2>1, <2>2 DEF ServiceTearDown
<1>5. /\ rout' \in Seq(Replies \cup Notes)
      /\ \A a \in Elems(rout') : a.kind = "return" /\ a.n > 0 => << a.thread, a.n >> \in handled
  <2>1. \A a \in Elems(rout) : a.kind = "return" /\ a.n > 0 => << a.thread, a.n >> \in handled
    BY DEF FaultyIInv, Replying
  <2>2. CASE rout' = Append(rout, Note("ReleaseName"))
    BY <1>2, <1>3, <2>1, <2>2, NoteReplies
  <2>3. CASE rout' = Append(Append(rout, Note("RemoveMatch")), Note("ReleaseName"))
    <3> DEFINE s == Append(rout, Note("RemoveMatch"))
    <3>1. /\ s \in Seq(Replies \cup Notes)
          /\ \A a \in Elems(s) : a.kind = "return" /\ a.n > 0 => << a.thread, a.n >> \in handled
      BY <1>2, <1>3, <2>1, NoteReplies
    <3> HIDE DEF s
    <3>2. QED BY <1>2, <2>3, <3>1, NoteReplies DEF s
  <2>4. QED BY <1>4, <2>2, <2>3
<1>6. Replying' BY <1>1, <1>5 DEF Replying
<1>7. CountsOnce'
  <2>1. Counted = Total /\ Counted' = Counted BY <1>1, AllCounted DEF Counted
  <2>2. Total <= Cardinality(handled) => handled = All
    BY <1>3, SomeCounted, AllCounted
  <2>3. QED BY <1>1, <2>1, <2>2 DEF FaultyIInv, CountsOnce, Done, faultVars
<1>8. k' \in 0..(UIntRange - 1) /\ processed' \in Nat BY <1>1 DEF FaultyIInv, FaultyTypeOK
<1>9. QED BY <1>1, <1>5, <1>6, <1>7, <1>8, LoopSteps

\* dispatchOnce() returns, and k -= processed does not wrap.
LEMMA ReturnLives ==
  ASSUME FaultyIInv, DispatchReturns, processed <= k, UNCHANGED faultVars
  PROVE  FaultyIInv'
<1>1. rpc = "dispatch" /\ rpc' = "loop" /\ k' = k - processed
      /\ UNCHANGED << mode, senderVars, answer, wire, busVars, rout, rbox, batch, quit,
                      processed, counter, handled >>
  BY DEF DispatchReturns
<1>2. k \in 0..(UIntRange - 1) /\ processed \in Nat /\ UIntRange \in Nat
      /\ rout \in Seq(Replies \cup Notes)
  BY FaultyBusAssumption DEF FaultyIInv, FaultyTypeOK, StateOK
<1>3. k' \in 0..(UIntRange - 1) /\ k' <= k BY <1>1, <1>2
<1>4. Counted' = Counted BY <1>1, <1>2, AllCounted DEF Counted
<1>5. CountsOnce' BY <1>1, <1>2, <1>3, <1>4, AllCounted DEF FaultyIInv, CountsOnce, Done, faultVars
<1>6. Replying' BY <1>1, ReplyingFrame DEF FaultyIInv
<1>7. QED BY <1>1, <1>2, <1>3, <1>5, <1>6, LoopSteps

\* k -= processed wraps only when a signal came twice, or for calls.
LEMMA WrapsKeeps == FaultyIInv /\ Wraps => FaultyIInv'
<1> SUFFICES ASSUME FaultyIInv, Wraps PROVE FaultyIInv' OBVIOUS
<1>1. /\ rpc = "dispatch" /\ rpc' = "loop" /\ processed > k
      /\ k' = (k - processed) % UIntRange
      /\ UNCHANGED << mode, senderVars, answer, wire, busVars, rout, rbox, batch, quit,
                      processed, counter, handled, faultVars >>
  BY DEF Wraps
<1>2. k \in 0..(UIntRange - 1) /\ processed \in Nat /\ UIntRange \in Nat /\ UIntRange > 0
      /\ rout \in Seq(Replies \cup Notes) /\ handled \subseteq All
  BY FaultyBusAssumption, AllCounted DEF FaultyIInv, FaultyTypeOK, StateOK
<1>3. k' \in 0..(UIntRange - 1)
  <2>1. k - processed \in Int BY <1>2
  <2>2. \A a \in Int, b \in Nat : b > 0 => a % b \in 0..(b - 1) OBVIOUS
  <2>3. QED BY <1>1, <1>2, <2>1, <2>2
<1>4. ~(mode.kind = "signal" /\ repeated = {})
  <2>1. Cardinality(handled) \in 0..Total /\ Total \in Nat BY <1>2, SomeCounted, AllCounted
  <2>2. Counted > Total BY <1>1, <1>2, <2>1 DEF Counted
  <2>3. Counted \in Int BY <1>2, <2>1 DEF Counted
  <2>4. QED BY <2>1, <2>2, <2>3 DEF FaultyIInv, CountsOnce
<1>5. CountsOnce' BY <1>1, <1>4 DEF CountsOnce, faultVars
<1>6. Replying' BY <1>1, ReplyingFrame DEF FaultyIInv
<1>7. QED BY <1>1, <1>2, <1>3, <1>5, <1>6, LoopSteps

\* The queue when some of it moves on: an iteration takes its messages from the inbox.
LEMMA PollLives == FaultyIInv /\ Poll /\ UNCHANGED faultVars => FaultyIInv'
<1> SUFFICES ASSUME FaultyIInv, Poll, UNCHANGED faultVars PROVE FaultyIInv' OBVIOUS
<1> USE DEF FaultyIInv
<1>1. /\ batch = << >> /\ rbox # << >>
      /\ \/ batch' = << Head(rbox) >> /\ rbox' = Tail(rbox)
         \/ batch' = rbox /\ rbox' = << >>
      /\ UNCHANGED << mode, senderVars, answer, wire, busVars, rpc, rout, quit, k,
                      processed, counter, handled >>
      /\ UNCHANGED << check, faults, lost, repeated, damaged, thinned, spoilt, crashed, cut >>
  BY DEF Poll, faultVars
<1>2. StateOK /\ rbox \in Seq(Message) /\ rbox \in Seq(Requests \cup Notes)
  BY InMessage DEF FaultyTypeOK, StateOK
<1>3. /\ Head(rbox) \in Elems(rbox) /\ Head(rbox) \in Requests \cup Notes
      /\ Tail(rbox) \in Seq(Requests \cup Notes) /\ Elems(Tail(rbox)) \subseteq Elems(rbox)
  BY <1>1, <1>2, TailElems
<1>4. InOrder(repeated, Tail(rbox))
      /\ \A b \in Elems(Tail(rbox)) : Follows(repeated, b, Head(rbox).thread, Head(rbox).n)
  BY <1>1, <1>2, FollowTail DEF Queues
<1>5. /\ batch' \in Seq(Requests \cup Notes) /\ rbox' \in Seq(Requests \cup Notes)
      /\ Elems(batch') \subseteq Elems(rbox) /\ Elems(rbox') \subseteq Elems(rbox)
  <2>1. << Head(rbox) >> \in Seq(Requests \cup Notes) BY <1>3
  <2>2. << >> \in Seq(Requests \cup Notes) OBVIOUS
  <2>3. Elems(<< Head(rbox) >>) = {Head(rbox)} /\ Elems(<< >>) = {} BY ShortElems, EmptyElems
  <2>4. QED BY <1>1, <1>2, <1>3, <2>1, <2>2, <2>3
<1>6. InOrder(repeated, batch') /\ InOrder(repeated, rbox') /\ Behind(repeated, batch', rbox')
  <2>1. CASE batch' = << Head(rbox) >> /\ rbox' = Tail(rbox)
    <3>1. Elems(batch') = {Head(rbox)} /\ Len(batch') = 1 BY <2>1, ShortElems
    <3>2. InOrder(repeated, batch') BY <3>1 DEF InOrder
    <3>3. QED BY <1>4, <2>1, <3>1, <3>2 DEF Behind
  <2>2. CASE batch' = rbox /\ rbox' = << >>
    <3>1. Elems(rbox') = {} /\ Len(rbox') = 0 BY <2>2, EmptyElems
    <3>2. InOrder(repeated, rbox') BY <3>1 DEF InOrder
    <3>3. QED BY <2>2, <3>1, <3>2 DEF Queues, Behind
  <2>3. QED BY <1>1, <2>1, <2>2
<1>7. Queues' BY <1>1, <1>5, <1>6 DEF Queues, Behind
<1>8. Carrying' BY <1>1, <1>5 DEF Carrying, Carried, senderVars
<1>9. FaultyTypeOK'
  <2>1. StateOK BY DEF FaultyTypeOK
  <2>2. StateOK' BY ONLY <1>1, <1>5, <2>1 DEF StateOK, senderVars, busVars
  <2>3. QED BY <1>1, <2>2 DEF FaultyTypeOK
<1>10. QED
  BY <1>1, <1>7, <1>8, <1>9, SidesFrame, ReplyingFrame, CountsOnceFrame, IntactFrame
     DEF senderVars

\* What the first message of a batch is.
LEMMA FirstOfBatch ==
  ASSUME FaultyIInv, batch # << >>
  PROVE  /\ StateOK
         /\ Head(batch) \in Requests \cup Notes /\ Head(batch) \in Message
         /\ Carried(Head(batch))
         /\ Tail(batch) \in Seq(Requests \cup Notes) /\ Elems(Tail(batch)) \subseteq Elems(batch)
         /\ InOrder(repeated, Tail(batch))
         /\ \A b \in Elems(Tail(batch)) \cup Elems(rbox) :
              Follows(repeated, b, Head(batch).thread, Head(batch).n)
         /\ \A t \in Threads : \A b \in Elems(wire[t]) :
              Follows(repeated, b, Head(batch).thread, Head(batch).n)
<1>1. StateOK /\ batch \in Seq(Message) /\ batch \in Seq(Requests \cup Notes)
  BY InMessage DEF FaultyIInv, FaultyTypeOK, StateOK
<1>2. /\ Head(batch) \in Elems(batch) /\ Head(batch) \in Requests \cup Notes
      /\ Head(batch) \in Message
      /\ Tail(batch) \in Seq(Requests \cup Notes) /\ Elems(Tail(batch)) \subseteq Elems(batch)
  BY <1>1, TailElems
<1>3. InOrder(repeated, Tail(batch))
      /\ \A b \in Elems(Tail(batch)) : Follows(repeated, b, Head(batch).thread, Head(batch).n)
  BY <1>1, FollowTail DEF FaultyIInv, Queues
<1>4. QED BY <1>1, <1>2, <1>3 DEF FaultyIInv, Queues, Behind, Carrying

\* What is left of the queue when its first message was handled, or needs no Reaction.
LEMMA QueueMovesOn ==
  ASSUME FaultyIInv, batch # << >>, batch' = Tail(batch),
         UNCHANGED << rbox, wire, sent, repeated >>,
         handled' = handled \/ handled' = handled \cup {Id(Head(batch))}
  PROVE  Queues' /\ Carrying'
<1>1. /\ Elems(batch') \subseteq Elems(batch) /\ InOrder(repeated, batch')
      /\ \A b \in Elems(batch') \cup Elems(rbox) :
           Follows(repeated, b, Head(batch).thread, Head(batch).n)
      /\ \A t \in Threads : \A b \in Elems(wire[t]) :
           Follows(repeated, b, Head(batch).thread, Head(batch).n)
  BY FirstOfBatch
<1>2. Queues' BY <1>1 DEF FaultyIInv, Queues, Behind
<1>3. ASSUME NEW b, Carried(b), Follows(repeated, b, Head(batch).thread, Head(batch).n)
      PROVE  Carried(b)'
  <2>1. \A h \in handled' :
          h \in handled \/ (h[1] = Head(batch).thread /\ h[2] = Head(batch).n)
    BY DEF Id
  <2>2. QED BY <1>3, <2>1 DEF Carried
<1>4. Carrying' BY <1>1, <1>3 DEF FaultyIInv, Carrying
<1>5. QED BY <1>2, <1>4

\* A source that is no message of the test.
LEMMA OtherLives ==
  ASSUME FaultyIInv, Dispatch, UNCHANGED << handled, processed, counter >>,
         rout' = rout \/ rout' = Append(rout, Of(Head(batch).thread, "return", Head(batch).n)),
         Head(batch).kind = "getall" \/ (Head(batch).kind = "acquired" /\ rout' = rout),
         quit' \in BOOLEAN, UNCHANGED faultVars
  PROVE  FaultyIInv'
<1> USE DEF FaultyIInv
<1>1. /\ batch # << >> /\ batch' = Tail(batch)
      /\ UNCHANGED << mode, senderVars, answer, wire, busVars, rpc, rbox, k >>
      /\ UNCHANGED << check, faults, lost, repeated, damaged, thinned, spoilt, crashed, cut >>
  BY DEF Dispatch, faultVars
<1>2. Queues' /\ Carrying' BY <1>1, QueueMovesOn DEF senderVars
<1>3. rout' \in Seq(Replies \cup Notes) /\ Replying'
  <2>1. CASE rout' = rout BY <2>1, ReplyingFrame DEF FaultyTypeOK, StateOK
  <2>2. CASE rout' # rout
    <3> DEFINE a == Of(Head(batch).thread, "return", Head(batch).n)
    <3>1. Head(batch).kind = "getall" BY <2>2
    <3>2. Head(batch) \in Requests /\ Head(batch).n = 0
      <4>1. Head(batch) \notin Notes BY <3>1 DEF Notes
      <4>2. Head(batch).n \in Nat BY <1>1, FirstOfBatch, MessageFields, SendReceiveAssumption
      <4>3. QED BY <1>1, <3>1, <4>1, <4>2, FirstOfBatch DEF Carried, Kinds
    <3>3. a \in Replies /\ a.n = 0
      BY <3>2, MessageFields, MakeMessages, SendReceiveAssumption
    <3>4. rout \in Seq(Replies \cup Notes) BY DEF FaultyTypeOK, StateOK
    <3>5. rout' = Append(rout, a) BY <2>2
    <3> HIDE DEF a
    <3>6. Elems(rout') = Elems(rout) \cup {a} /\ rout' \in Seq(Replies \cup Notes)
      BY <3>3, <3>4, <3>5, AppendElems
    <3>7. QED BY <3>3, <3>6 DEF Replying
  <2>3. QED BY <2>1, <2>2
<1>4. FaultyTypeOK'
  <2>1. batch' \in Seq(Requests \cup Notes) BY <1>1, FirstOfBatch
  <2>2. StateOK /\ UNCHANGED << handled, counter >> /\ quit' \in BOOLEAN
    BY DEF FaultyTypeOK
  <2>3. StateOK' BY ONLY <1>1, <1>3, <2>1, <2>2 DEF StateOK, senderVars, busVars
  <2>4. QED BY <1>1, <2>3 DEF FaultyTypeOK
<1>5. QED
  BY <1>1, <1>2, <1>3, <1>4, SidesFrame, CountsOnceFrame, IntactFrame DEF senderVars

\* A message is given to the Reaction, which finds nothing wrong with it.
LEMMA ReactLives ==
  ASSUME FaultyIInv, Dispatch, Head(batch).kind = mode.kind, React(Head(batch)),
         ~Detects(Head(batch)), UNCHANGED faultVars
  PROVE  FaultyIInv'
<1> USE DEF FaultyIInv
<1>0. PICK m : m = Head(batch) OBVIOUS
<1>1. /\ batch # << >> /\ batch' = Tail(batch)
      /\ UNCHANGED << mode, senderVars, answer, wire, busVars, rpc, rbox, k >>
      /\ UNCHANGED << check, faults, lost, repeated, damaged, thinned, spoilt, crashed, cut >>
  BY DEF Dispatch, faultVars
<1>2. /\ processed' = IF mode.receiver = "dbus" THEN 1 ELSE processed + 1
      /\ handled' = handled \cup {Id(m)}
      /\ counter' = IF counter > 0 THEN counter - 1 ELSE 0
      /\ quit' \in BOOLEAN
      /\ rout' = rout \o AnswerTo(m)
  BY <1>0 DEF React, Id, FaultyTypeOK, StateOK
<1>3. StateOK /\ mode.kind \in Kinds BY ModeFields DEF FaultyTypeOK, StateOK, Kinds
<1>4. m \in Requests /\ m.thread \in Threads /\ m.n \in 1..Msgs /\ Id(m) \in All /\ Carried(m)
  <2>1. m \in Requests \cup Notes /\ m \in Message /\ Carried(m) BY <1>0, <1>1, FirstOfBatch
  <2>2. m.n > 0 /\ m.n \in 0..Msgs BY <1>0, <1>3, <2>1, MessageFields DEF Carried
  <2>3. m \in Requests BY <2>1, <2>2, MessageFields
  <2>4. QED BY <2>1, <2>2, <2>3, MessageFields, SendReceiveAssumption DEF Id, All
<1>5. handled \subseteq All /\ handled' \subseteq All /\ handled \subseteq handled'
  BY <1>2, <1>3, <1>4 DEF StateOK
<1>6. Queues' /\ Carrying' BY <1>0, <1>1, <1>2, QueueMovesOn DEF senderVars
<1>7. rout' \in Seq(Replies \cup Notes) /\ Replying'
  <2>1. rout \in Seq(Message) /\ rout \in Seq(Replies \cup Notes)
    BY <1>3, InMessage DEF StateOK
  <2>2. \A s \in Seq(Message) : \A a : s \o << a >> = Append(s, a) /\ s \o << >> = s OBVIOUS
  <2>3. \A a \in Elems(rout) : a.kind = "return" /\ a.n > 0 => << a.thread, a.n >> \in handled'
    BY <1>5 DEF Replying
  <2>4. \/ rout' = rout
        \/ \E a \in Replies \cup Notes :
             rout' = Append(rout, a) /\ (a.kind = "return" => << a.thread, a.n >> = Id(m))
    <3>1. CASE m.kind = "call"
      <4>1. rout' = Append(rout, Of(m.thread, "return", m.n))
        BY <1>2, <2>1, <2>2, <3>1 DEF AnswerTo
      <4>2. QED BY <1>4, <4>1, MakeMessages, SendReceiveAssumption DEF Id
    <3>2. CASE m.kind = "signal" /\ mode.receiver = "gdbus" /\ counter <= 1
      <4>1. rout' = Append(rout, Note("RemoveMatch")) BY <1>2, <2>1, <2>2, <3>2 DEF AnswerTo
      <4>2. QED BY <4>1, MakeMessages
    <3>3. CASE m.kind = "signal" /\ ~(mode.receiver = "gdbus" /\ counter <= 1)
      BY <1>2, <2>1, <2>2, <3>3 DEF AnswerTo
    <3>4. QED BY <1>0, <1>3, <3>1, <3>2, <3>3 DEF Kinds
  <2>5. CASE rout' = rout BY <2>1, <2>3, <2>5 DEF Replying
  <2>6. ASSUME NEW a \in Replies \cup Notes, rout' = Append(rout, a),
               a.kind = "return" => << a.thread, a.n >> = Id(m)
        PROVE  rout' \in Seq(Replies \cup Notes) /\ Replying'
    <3>1. Elems(rout') = Elems(rout) \cup {a} /\ rout' \in Seq(Replies \cup Notes)
      BY <2>1, <2>6, AppendElems
    <3>2. QED BY <1>2, <2>3, <2>6, <3>1 DEF Replying
  <2>7. QED BY <2>4, <2>5, <2>6
<1>8. FaultyTypeOK'
  <2>1. batch' \in Seq(Requests \cup Notes) BY <1>1, FirstOfBatch
  <2>2. processed' \in Nat BY <1>2 DEF FaultyTypeOK
  <2>3. counter' \in 0..Total BY <1>2, <1>3, AllCounted DEF StateOK
  <2>4. StateOK BY DEF FaultyTypeOK
  <2>5. StateOK'
    BY ONLY <1>1, <1>2, <1>5, <1>7, <2>1, <2>3, <2>4 DEF StateOK, senderVars, busVars
  <2>6. QED BY <1>1, <1>2, <2>2, <2>5 DEF FaultyTypeOK
<1>9. Sides'
  <2>1. m.n <= sent[m.thread] BY <1>4 DEF Carried
  <2>2. \A t \in Threads, n \in 1..Msgs : << t, n >> \in handled' =>
          << t, n >> \in handled \/ (t = m.thread /\ n = m.n)
    BY <1>2 DEF Id
  <2>3. \A t \in Threads : \A n \in 1..Msgs : << t, n >> \in handled' => n <= sent[t]
    BY <2>1, <2>2 DEF Sides
  <2>4. UNCHANGED << mode, spc, thr, sent, answer >> BY <1>1 DEF senderVars
  <2>5. QED BY <1>5, <2>3, <2>4 DEF Sides
<1>10. CountsOnce'
  <2> SUFFICES ASSUME mode.kind = "signal", repeated = {} PROVE CountsOnce'
    BY <1>1 DEF CountsOnce
  <2>1. Id(m) \notin handled
    <3> SUFFICES ASSUME Id(m) \in handled PROVE FALSE OBVIOUS
    <3>1. Follows(repeated, m, m.thread, m.n) BY <1>4 DEF Carried, Id
    <3>2. QED BY <1>4, <3>1, SendReceiveAssumption DEF Follows
  <2>2. Cardinality(handled') = Cardinality(handled) + 1 /\ Cardinality(handled) \in Nat
    BY <1>2, <1>4, <1>5, <2>1, SomeCounted
  <2>3. processed' <= processed + 1 /\ processed \in Nat /\ processed' \in Nat
    BY <1>2 DEF FaultyTypeOK
  <2>4. k \in Nat /\ Total \in Nat BY AllCounted, FaultyBusAssumption DEF FaultyTypeOK
  <2>5. Counted' <= Counted + 1 /\ Counted \in Int /\ Counted' \in Int
    <3>1. k' = k /\ rpc' = rpc BY <1>1
    <3>2. CASE rpc = "dispatch"
      <4>1. Counted = Total - k + processed /\ Counted' = Total - k + processed'
        BY <3>1, <3>2 DEF Counted
      <4>2. Total - k \in Int BY <2>4
      <4>3. QED BY <2>3, <4>1, <4>2
    <3>3. CASE rpc # "dispatch" BY <2>3, <2>4, <3>1, <3>3 DEF Counted
    <3>4. QED BY <3>2, <3>3
  <2>6. Counted' <= Cardinality(handled') BY <2>2, <2>5 DEF CountsOnce
  <2>7. Done => Done' BY <1>5 DEF Done
  <2>8. QED BY <1>1, <2>6, <2>7 DEF CountsOnce
<1>11. Intact'
  <2>1. /\ Checked => Id(m) \notin damaged
        /\ mode.receiver = "dbus" => Id(m) \notin thinned
    BY <1>0 DEF Detects
  <2>2. Checked' = Checked BY <1>1 DEF Checked
  <2>3. QED BY <1>1, <1>2, <2>1, <2>2 DEF Intact
<1>12. QED BY <1>6, <1>7, <1>8, <1>9, <1>10, <1>11

\* The Receiver.
LEMMA ReceiverLivesKeeps == FaultyIInv /\ ReceiverLives => FaultyIInv'
<1> SUFFICES ASSUME FaultyIInv, ReceiverLives PROVE FaultyIInv' OBVIOUS
<1>1. UNCHANGED faultVars BY DEF ReceiverLives
<1>2. CASE ServiceSetup BY <1>1, <1>2, SetupLives
<1>3. CASE NameGranted \/ SetupReturns \/ DispatchOnce \/ ReceiverExits
  BY <1>1, <1>3, LoopLives
<1>4. CASE ServiceTearDown BY <1>1, <1>4, TearDownLives
<1>5. CASE DispatchReturns
  <2>1. processed \in Nat /\ k \in Nat
    BY FaultyBusAssumption DEF FaultyIInv, FaultyTypeOK
  <2>2. processed <= k BY <1>5, <2>1 DEF ReceiverLives, DispatchReturns
  <2>3. QED BY <1>1, <1>5, <2>2, ReturnLives
<1>6. CASE Poll BY <1>1, <1>6, PollLives
<1>7. CASE Dispatch
  <2>1. CASE Head(batch).kind = mode.kind /\ React(Head(batch))
    <3>1. ~Detects(Head(batch)) BY <1>7 DEF ReceiverLives, Dispatch
    <3>2. QED BY <1>1, <1>7, <2>1, <3>1, ReactLives
  <2>2. CASE ~(Head(batch).kind = mode.kind /\ React(Head(batch)))
    <3>1. quit \in BOOLEAN BY DEF FaultyIInv, FaultyTypeOK, StateOK
    <3>2. /\ UNCHANGED << handled, processed, counter >>
          /\ Head(batch).kind = "getall" \/ (Head(batch).kind = "acquired" /\ rout' = rout)
          /\ quit' \in BOOLEAN
          /\ rout' = rout \/ rout' = Append(rout, Of(Head(batch).thread, "return", Head(batch).n))
      BY <1>7, <2>2, <3>1 DEF Dispatch
    <3>3. QED BY <1>1, <1>7, <3>2, OtherLives
  <2>3. QED BY <2>1, <2>2
<1>8. QED
  BY <1>2, <1>3, <1>4, <1>5, <1>6, <1>7 DEF ReceiverLives, ReceiverStep

-----------------------------------------------------------------------------
(* The bus at work.                                                        *)

\* The wire of a thread loses its first message.
LEMMA WireShrinks ==
  ASSUME FaultyIInv, NEW t \in Threads, wire[t] # << >>,
         wire' = [wire EXCEPT ![t] = Tail(@)]
  PROVE  LET m == Head(wire[t])
         IN  /\ m \in Requests /\ m \in Elems(wire[t]) /\ m.thread = t /\ Carried(m)
             /\ \A a \in Elems(batch) \cup Elems(rbox) : Follows(repeated, m, a.thread, a.n)
             /\ wire' \in [Threads -> Seq(Requests)]
             /\ \A u \in Threads : /\ Elems(wire'[u]) \subseteq Elems(wire[u])
                                   /\ InOrder(repeated, wire'[u])
                                   /\ \A b \in Elems(wire'[u]) : Follows(repeated, b, t, m.n)
<1> USE DEF FaultyIInv
<1>0. PICK m : m = Head(wire[t]) OBVIOUS
<1>1. StateOK /\ wire[t] \in Seq(Message) /\ wire[t] \in Seq(Requests)
  BY InMessage DEF FaultyTypeOK, StateOK
<1>2. /\ m \in Elems(wire[t]) /\ m \in Requests /\ m.thread = t /\ Carried(m)
      /\ Tail(wire[t]) \in Seq(Requests) /\ Elems(Tail(wire[t])) \subseteq Elems(wire[t])
  BY <1>0, <1>1, TailElems DEF Carrying
<1>3. InOrder(repeated, Tail(wire[t]))
      /\ \A b \in Elems(Tail(wire[t])) : Follows(repeated, b, t, m.n)
  BY <1>0, <1>1, <1>2, FollowTail DEF Queues
<1>4. wire'[t] = Tail(wire[t]) /\ \A u \in Threads \ {t} : wire'[u] = wire[u]
  BY <1>1 DEF StateOK
<1>5. wire' \in [Threads -> Seq(Requests)] BY <1>1, <1>2, <1>4 DEF StateOK
<1>6. ASSUME NEW u \in Threads
      PROVE  /\ Elems(wire'[u]) \subseteq Elems(wire[u]) /\ InOrder(repeated, wire'[u])
             /\ \A b \in Elems(wire'[u]) : Follows(repeated, b, t, m.n)
  <2>1. CASE u = t BY <1>2, <1>3, <1>4, <2>1
  <2>2. CASE u # t
    <3>1. \A b \in Elems(wire[u]) : b.thread # t BY <2>2 DEF Carrying
    <3>2. QED BY <1>4, <2>2, <3>1 DEF Queues, Follows
  <2>3. QED BY <2>1, <2>2
<1>7. \A a \in Elems(batch) \cup Elems(rbox) : Follows(repeated, m, a.thread, a.n)
  BY <1>2 DEF Queues, Behind
<1>8. QED BY <1>0, <1>2, <1>5, <1>6, <1>7

\* The queue when a message is taken from a wire and not delivered.
LEMMA QueueShrinks ==
  ASSUME FaultyIInv, UNCHANGED << batch, rbox, handled, sent, repeated >>,
         \A u \in Threads : /\ Elems(wire'[u]) \subseteq Elems(wire[u])
                            /\ InOrder(repeated, wire'[u])
  PROVE  Queues' /\ Carrying'
<1>1. Queues' BY DEF FaultyIInv, Queues, Behind
<1>2. Carrying' BY DEF FaultyIInv, Carrying, Carried
<1>3. QED BY <1>1, <1>2

\* The queue when a message reaches the inbox.
LEMMA BoxGrows ==
  ASSUME FaultyIInv, NEW m \in Requests \cup Notes, rbox' = Append(rbox, m), Carried(m)',
         UNCHANGED << batch, handled, sent >>, repeated \subseteq repeated',
         \A a \in Elems(batch) \cup Elems(rbox) : Follows(repeated', m, a.thread, a.n),
         \A u \in Threads : /\ Elems(wire'[u]) \subseteq Elems(wire[u])
                            /\ InOrder(repeated', wire'[u])
                            /\ \A b \in Elems(wire'[u]) : Follows(repeated', b, m.thread, m.n)
  PROVE  rbox' \in Seq(Requests \cup Notes) /\ Queues' /\ Carrying'
<1> USE DEF FaultyIInv
<1>1. StateOK /\ rbox \in Seq(Message) /\ rbox \in Seq(Requests \cup Notes) /\ m \in Message
      /\ sent \in [Threads -> 0..Msgs]
  BY InMessage DEF FaultyTypeOK, StateOK, Message
<1>2. Elems(rbox') = Elems(rbox) \cup {m} /\ rbox' \in Seq(Requests \cup Notes)
  BY <1>1, AppendElems
<1>3. /\ InOrder(repeated', batch) /\ InOrder(repeated', rbox)
      /\ Behind(repeated', batch, rbox)
      /\ \A u \in Threads : Behind(repeated', batch, wire[u]) /\ Behind(repeated', rbox, wire[u])
  BY MoreRepeated DEF Queues
<1>4. InOrder(repeated', rbox') BY <1>1, <1>3, FollowAppend
<1>5. Behind(repeated', batch, rbox') BY <1>2, <1>3 DEF Behind
<1>6. \A u \in Threads : Behind(repeated', batch, wire'[u]) /\ Behind(repeated', rbox', wire'[u])
  BY <1>2, <1>3 DEF Behind
<1>7. Queues' BY <1>3, <1>4, <1>5, <1>6 DEF Queues
<1>8. \A a \in Requests \cup Notes : Carried(a) => Carried(a)'
  <2>1. \A u \in Threads : sent[u] <= sent'[u] BY <1>1, SendReceiveAssumption
  <2>2. QED BY <1>1, <2>1, StaysCarried
<1>9. Carrying'
  <2>1. \A a \in Elems(batch) \cup Elems(rbox) : Carried(a)'
    BY <1>1, <1>8, InMessage DEF Carrying
  <2>2. ASSUME NEW u \in Threads, NEW a \in Elems(wire[u]) PROVE a.thread = u /\ Carried(a)'
    BY <1>1, <1>8, InMessage DEF Carrying
  <2>3. QED BY <1>2, <2>1, <2>2 DEF Carrying
<1>10. QED BY <1>2, <1>7, <1>9

\* A message of a thread is delivered, refused or dropped.
LEMMA BusWorksKeeps == \A t \in Threads : FaultyIInv /\ BusWorks(t) => FaultyIInv'
<1> SUFFICES ASSUME NEW t \in Threads, FaultyIInv, BusWorks(t) PROVE FaultyIInv' OBVIOUS
<1> USE DEF FaultyIInv
<1>0. PICK m : m = Head(wire[t]) OBVIOUS
<1>1. /\ wire[t] # << >> /\ wire' = [wire EXCEPT ![t] = Tail(@)]
      /\ UNCHANGED << mode, senderVars, owner, matched, rpc, rout, batch, quit, k,
                      processed, counter, handled >>
      /\ UNCHANGED << check, faults, lost, repeated, damaged, thinned, spoilt, crashed, cut >>
  BY DEF BusWorks, BusForward, faultVars
<1>2. /\ m \in Requests /\ m.thread = t /\ Carried(m)
      /\ \A a \in Elems(batch) \cup Elems(rbox) : Follows(repeated, m, a.thread, a.n)
      /\ wire' \in [Threads -> Seq(Requests)]
      /\ \A u \in Threads : /\ Elems(wire'[u]) \subseteq Elems(wire[u])
                            /\ InOrder(repeated, wire'[u])
                            /\ \A b \in Elems(wire'[u]) : Follows(repeated, b, t, m.n)
  BY <1>0, <1>1, WireShrinks
<1>3. StateOK BY DEF FaultyTypeOK
<1>4. \/ rbox' = Append(rbox, m) /\ UNCHANGED << answer, dropped >>
      \/ UNCHANGED << answer, rbox >> /\ dropped' = dropped + 1
      \/ UNCHANGED << dropped, rbox >>
         /\ answer' = [answer EXCEPT ![t] = IF Awaited(m) THEN "error" ELSE @]
  BY <1>0 DEF BusWorks, BusForward
<1>5. rbox' \in Seq(Requests \cup Notes) /\ Queues' /\ Carrying'
  <2>1. CASE rbox' = Append(rbox, m)
    <3>1. Carried(m)' BY <1>1, <1>2 DEF Carried, senderVars
    <3>2. m \in Requests \cup Notes /\ UNCHANGED << batch, handled, sent, repeated >>
      BY <1>1, <1>2 DEF senderVars
    <3>3. QED BY <1>2, <2>1, <3>1, <3>2, BoxGrows
  <2>2. CASE rbox' = rbox
    <3>1. UNCHANGED << batch, rbox, handled, sent, repeated >> BY <1>1, <2>2 DEF senderVars
    <3>2. QED BY <1>2, <1>3, <2>2, <3>1, QueueShrinks DEF StateOK
  <2>3. QED BY <1>4, <2>1, <2>2
<1>6. answer' \in [Threads -> {"none", "ok", "error"}] /\ dropped' \in Nat
      /\ \A u \in Threads : answer'[u] = answer[u] \/ answer'[u] = "error"
  <2>1. dropped \in Nat /\ answer \in [Threads -> {"none", "ok", "error"}] BY <1>3 DEF StateOK
  <2>2. dropped' \in Nat BY <1>4, <2>1
  <2>3. answer' \in [Threads -> {"none", "ok", "error"}] BY <1>4, <2>1
  <2>4. ASSUME NEW u \in Threads PROVE answer'[u] = answer[u] \/ answer'[u] = "error"
    BY <1>4, <2>1
  <2>5. QED BY <2>2, <2>3, <2>4
<1>7. FaultyTypeOK'
  <2>1. StateOK' BY ONLY <1>1, <1>2, <1>3, <1>5, <1>6 DEF StateOK, senderVars
  <2>2. QED BY <1>1, <1>2, <2>1 DEF FaultyTypeOK
<1>8. Sides' BY <1>1, <1>6 DEF Sides, senderVars
<1>9. QED
  BY <1>1, <1>5, <1>7, <1>8, ReplyingFrame, CountsOnceFrame, IntactFrame

\* A message of the receiver reaches the bus, or its answer the thread that waits.
LEMMA BusServesKeeps == FaultyIInv /\ BusServes => FaultyIInv'
<1> SUFFICES ASSUME FaultyIInv, BusServes PROVE FaultyIInv' OBVIOUS
<1> USE DEF FaultyIInv
<1>0. PICK m : m = Head(rout) OBVIOUS
<1>1. /\ rout # << >> /\ rout' = Tail(rout)
      /\ UNCHANGED << mode, spc, watching, thr, sent, wire, dropped, rpc, batch, quit, k,
                      processed, counter, handled >>
      /\ UNCHANGED << check, faults, lost, repeated, damaged, thinned, spoilt, crashed, cut >>
  BY DEF BusServes, BusServe, faultVars
<1>2. StateOK /\ rout \in Seq(Replies \cup Notes) BY DEF FaultyTypeOK, StateOK
<1>3. /\ m \in Elems(rout) /\ m \in Replies \cup Notes
      /\ rout' \in Seq(Replies \cup Notes) /\ Elems(rout') \subseteq Elems(rout)
  BY <1>0, <1>1, <1>2, TailElems
<1>4. /\ rbox' = rbox \/ \E a \in Notes : rbox' = Append(rbox, a) /\ a.kind \notin Kinds
      /\ owner' \in BOOLEAN /\ matched' \in BOOLEAN /\ news' \in Nat
  <2>1. owner \in BOOLEAN /\ matched \in BOOLEAN /\ news \in Nat BY <1>2 DEF StateOK
  <2>2. /\ rbox' = rbox \/ rbox' = Append(rbox, Note("acquired"))
                      \/ rbox' = Append(rbox, Note("released"))
        /\ owner' \in {owner, TRUE, FALSE} /\ matched' \in {matched, TRUE, FALSE}
        /\ news' = news \/ news' = news + 1
    BY DEF BusServes, BusServe
  <2>3. /\ Note("acquired") \in Notes /\ Note("released") \in Notes
        /\ Note("acquired").kind \notin Kinds /\ Note("released").kind \notin Kinds
    BY MakeMessages DEF Kinds
  <2>4. rbox' = rbox \/ \E a \in Notes : rbox' = Append(rbox, a) /\ a.kind \notin Kinds
    BY <2>2, <2>3
  <2>5. news' \in Nat
    <3> HIDE DEF FaultyIInv
    <3>1. news \in Nat /\ (news' = news \/ news' = news + 1) BY <2>1, <2>2
    <3>2. QED BY ONLY <3>1
  <2>6. owner' \in BOOLEAN BY <2>1, <2>2
  <2>7. matched' \in BOOLEAN BY <2>1, <2>2
  <2>8. QED BY <2>4, <2>5, <2>6, <2>7
<1>5. \/ answer' = answer
      \/ m.kind = "return"
         /\ answer' = [answer EXCEPT ![m.thread] = IF Awaited(m) THEN "ok" ELSE @]
  BY <1>0 DEF BusServes, BusServe
<1>6. rbox' \in Seq(Requests \cup Notes) /\ Queues' /\ Carrying'
  <2>1. CASE rbox' = rbox BY <1>1, <1>2, <2>1, QueuesFrame, CarryingFrame DEF StateOK
  <2>2. ASSUME NEW a \in Notes, rbox' = Append(rbox, a), a.kind \notin Kinds
        PROVE  rbox' \in Seq(Requests \cup Notes) /\ Queues' /\ Carrying'
    <3>1. a.n = 0 /\ a \in Requests \cup Notes BY MessageFields
    <3>2. Carried(a)' BY <2>2, <3>1 DEF Carried
    <3>3. \A b \in Elems(batch) \cup Elems(rbox) : Follows(repeated, a, b.thread, b.n)
      BY <3>1 DEF Follows
    <3>4. \A u \in Threads : \A b \in Elems(wire[u]) : Follows(repeated, b, a.thread, a.n)
      <4>1. \A u \in Threads : \A b \in Elems(wire[u]) : b.n \in Nat
        BY <1>2, InMessage, MessageFields, SendReceiveAssumption
      <4>2. QED BY <3>1, <4>1, NoNumber
    <3>5. QED BY <1>1, <2>2, <3>1, <3>2, <3>3, <3>4, BoxGrows DEF Queues
  <2>3. QED BY <1>4, <2>1, <2>2
<1>7. answer' \in [Threads -> {"none", "ok", "error"}] BY <1>2, <1>5 DEF StateOK
<1>8. FaultyTypeOK' BY <1>1, <1>3, <1>4, <1>6, <1>7 DEF FaultyTypeOK, StateOK
<1>9. Sides'
  <2>1. ASSUME NEW t \in Threads, answer'[t] # answer[t]
        PROVE  /\ thr[t] \in {"getall", "await"}
               /\ thr[t] = "await" => << t, sent[t] >> \in handled
    <3>1. m.kind = "return" /\ m.thread = t /\ Awaited(m) BY <1>2, <1>5, <2>1 DEF StateOK
    <3>2. m.n = sent[t] /\ thr[t] = (IF m.n = 0 THEN "getall" ELSE "await")
      BY <3>1 DEF Awaited
    <3>3. m.n \in Nat
      BY <1>3, MessageFields, SendReceiveAssumption DEF Message
    <3>4. m.n > 0 => << t, m.n >> \in handled BY <1>3, <3>1 DEF Replying
    <3>5. QED BY <3>2, <3>3, <3>4
  <2>2. QED BY <1>1, <2>1 DEF Sides
<1>10. Replying' BY <1>1, <1>3 DEF Replying
<1>11. QED BY <1>1, <1>6, <1>8, <1>9, <1>10, CountsOnceFrame, IntactFrame

-----------------------------------------------------------------------------
(* The faults of the bus.                                                  *)

\* The number of faults.
LEMMA FaultCounts == FaultyTypeOK /\ Fault => faults' \in 0..MaxFaults
BY FaultyBusAssumption DEF FaultyTypeOK, Fault

\* What the first message of a wire is, that the bus damages or repeats.
LEMMA FirstOnWire ==
  ASSUME FaultyIInv, NEW t \in Threads, wire[t] # << >>, Head(wire[t]).kind = mode.kind
  PROVE  LET m == Head(wire[t])
         IN  /\ m \in Requests /\ m.thread = t /\ Carried(m) /\ Id(m) \in All
             /\ \A a \in Elems(batch) \cup Elems(rbox) : Follows(repeated, m, a.thread, a.n)
             /\ \A b \in Elems(wire[t]) : b = m \/ Follows(repeated, b, t, m.n)
             /\ Id(m) \notin repeated => Id(m) \notin handled
<1> USE DEF FaultyIInv
<1>0. PICK m : m = Head(wire[t]) OBVIOUS
<1>1. /\ StateOK /\ mode.kind \in Kinds /\ wire[t] \in Seq(Requests)
  BY ModeFields DEF FaultyTypeOK, StateOK, Kinds
<1>2. m \in Elems(wire[t]) /\ m \in Requests /\ m.thread = t /\ Carried(m) /\ m = wire[t][1]
  BY <1>0, <1>1, TailElems DEF Carrying
<1>3. m.n > 0 /\ m.n \in 0..Msgs
  BY <1>0, <1>1, <1>2, MessageFields DEF Carried, Message
<1>4. Id(m) \in All BY <1>2, <1>3, SendReceiveAssumption DEF Id, All
<1>5. \A a \in Elems(batch) \cup Elems(rbox) : Follows(repeated, m, a.thread, a.n)
  BY <1>2 DEF Queues, Behind
<1>6. ASSUME NEW b \in Elems(wire[t]) PROVE b = m \/ Follows(repeated, b, t, m.n)
  <2>1. PICK i \in 1..Len(wire[t]) : b = wire[t][i] BY DEF Elems
  <2>2. Len(wire[t]) \in Nat BY <1>1, LenProperties
  <2>3. CASE i = 1 BY <1>2, <2>1, <2>3
  <2>4. CASE i # 1
    <3>1. 1 \in 1..Len(wire[t]) /\ 1 < i BY <2>2, <2>4
    <3>2. QED BY <1>2, <2>1, <3>1 DEF Queues, InOrder
  <2>5. QED BY <2>3, <2>4
<1>7. Id(m) \notin repeated => Id(m) \notin handled
  <2> SUFFICES ASSUME Id(m) \in handled, Id(m) \notin repeated PROVE FALSE OBVIOUS
  <2>1. Follows(repeated, m, m.thread, m.n) BY <1>2, <1>3 DEF Carried, Id
  <2>2. QED BY <1>3, <2>1, SendReceiveAssumption DEF Follows, Id
<1>8. QED BY <1>0, <1>2, <1>4, <1>5, <1>6, <1>7

\* A message, or what is left of it, is lost.
LEMMA BusLosesKeeps == \A t \in Threads : FaultyIInv /\ BusLoses(t) => FaultyIInv'
<1> SUFFICES ASSUME NEW t \in Threads, FaultyIInv, BusLoses(t) PROVE FaultyIInv' OBVIOUS
<1> USE DEF FaultyIInv
<1>0. PICK m : m = Head(wire[t]) OBVIOUS
<1>1. /\ wire[t] # << >> /\ wire' = [wire EXCEPT ![t] = Tail(@)]
      /\ lost' = lost \cup ({Id(m)} \ repeated)
      /\ UNCHANGED << mode, spc, watching, news, thr, sent, answer, owner, matched, dropped >>
      /\ UNCHANGED << rpc, rout, rbox, batch, quit, k, processed, counter, handled >>
      /\ UNCHANGED << check, repeated, damaged, thinned, spoilt, crashed, cut >>
  BY <1>0 DEF BusLoses, senderVars, busVars, receiverVars
<1>2. /\ m \in Requests /\ m.thread = t
      /\ wire' \in [Threads -> Seq(Requests)]
      /\ \A u \in Threads : Elems(wire'[u]) \subseteq Elems(wire[u]) /\ InOrder(repeated, wire'[u])
  BY <1>0, <1>1, WireShrinks
<1>3. Queues' /\ Carrying' BY <1>1, <1>2, QueueShrinks
<1>4. Id(m) \in Threads \X (0..Msgs) BY <1>2, MessageFields DEF Id, Message
<1>5. faults' \in 0..MaxFaults BY FaultCounts DEF BusLoses
<1>6. lost' \subseteq Threads \X (0..Msgs) BY <1>1, <1>4 DEF FaultyTypeOK
<1>7. FaultyTypeOK'
  <2>1. StateOK BY DEF FaultyTypeOK
  <2>2. StateOK' BY ONLY <1>1, <1>2, <2>1 DEF StateOK
  <2>3. QED BY <1>1, <1>5, <1>6, <2>2 DEF FaultyTypeOK
<1>8. QED
  BY <1>1, <1>3, <1>7, SidesFrame, ReplyingFrame, CountsOnceFrame, IntactFrame

\* A message is delivered, and is still on the wire.
LEMMA BusRepeatsKeeps == \A t \in Threads : FaultyIInv /\ BusRepeats(t) => FaultyIInv'
<1> SUFFICES ASSUME NEW t \in Threads, FaultyIInv, BusRepeats(t) PROVE FaultyIInv' OBVIOUS
<1> USE DEF FaultyIInv
<1>0. PICK m : m = Head(wire[t]) OBVIOUS
<1>1. /\ wire[t] # << >> /\ m.kind = mode.kind
      /\ rbox' = Append(rbox, m) /\ repeated' = repeated \cup {Id(m)}
      /\ UNCHANGED << mode, spc, watching, news, thr, sent, answer, wire, owner, matched,
                      dropped, rpc, rout, batch, quit, k, processed, counter, handled >>
      /\ UNCHANGED << check, lost, damaged, thinned, spoilt, crashed, cut >>
  BY <1>0 DEF BusRepeats, senderVars, busVars
<1>2. /\ m \in Requests /\ m.thread = t /\ Carried(m) /\ Id(m) \in All
      /\ \A a \in Elems(batch) \cup Elems(rbox) : Follows(repeated, m, a.thread, a.n)
      /\ \A b \in Elems(wire[t]) : b = m \/ Follows(repeated, b, t, m.n)
  BY <1>0, <1>1, FirstOnWire
<1>3. repeated \subseteq repeated' /\ repeated' \subseteq All /\ Id(m) \in repeated'
  BY <1>1, <1>2 DEF FaultyTypeOK
<1>4. StateOK /\ sent \in [Threads -> 0..Msgs] BY DEF FaultyTypeOK, StateOK
<1>5. Carried(m)'
  <2>1. \A u \in Threads : sent[u] <= sent'[u] BY <1>1, <1>4, SendReceiveAssumption
  <2>2. QED BY <1>1, <1>2, <1>3, <1>4, <2>1, StaysCarried
<1>6. ASSUME NEW u \in Threads
      PROVE  /\ InOrder(repeated', wire'[u])
             /\ \A b \in Elems(wire'[u]) : Follows(repeated', b, m.thread, m.n)
  <2>1. InOrder(repeated', wire'[u]) BY <1>1, <1>3, MoreRepeated DEF Queues
  <2>2. ASSUME NEW b \in Elems(wire[u]) PROVE Follows(repeated', b, m.thread, m.n)
    <3>1. CASE u # t BY <1>2, <2>2, <3>1 DEF Carrying, Follows
    <3>2. CASE b = m BY <1>2, <1>3, <3>2 DEF Follows, Id
    <3>3. CASE u = t /\ b # m
      <4>1. Follows(repeated, b, m.thread, m.n) BY <1>2, <3>3
      <4>2. QED BY <1>3, <4>1, MoreRepeated
    <3>4. QED BY <3>1, <3>2, <3>3
  <2>3. QED BY <1>1, <2>1, <2>2
<1>7. \A a \in Elems(batch) \cup Elems(rbox) : Follows(repeated', m, a.thread, a.n)
  BY <1>2, <1>3, MoreRepeated
<1>8. rbox' \in Seq(Requests \cup Notes) /\ Queues' /\ Carrying'
  <2>1. m \in Requests \cup Notes BY <1>2
  <2>2. QED BY <1>1, <1>3, <1>5, <1>6, <1>7, <2>1, BoxGrows
<1>9. faults' \in 0..MaxFaults BY FaultCounts DEF BusRepeats
<1>10. FaultyTypeOK'
  <2>1. StateOK BY DEF FaultyTypeOK
  <2>2. StateOK' BY ONLY <1>1, <1>8, <2>1 DEF StateOK
  <2>3. QED BY <1>1, <1>3, <1>9, <2>2 DEF FaultyTypeOK
<1>11. CountsOnce' BY <1>3 DEF CountsOnce
<1>12. QED BY <1>1, <1>8, <1>10, <1>11, SidesFrame, ReplyingFrame, IntactFrame

\* What is damaged is not handled yet, unless it is a copy.
LEMMA BusDamagesKeeps == \A t \in Threads : FaultyIInv /\ BusDamages(t) => FaultyIInv'
<1> SUFFICES ASSUME NEW t \in Threads, FaultyIInv, BusDamages(t) PROVE FaultyIInv' OBVIOUS
<1> USE DEF FaultyIInv
<1>0. PICK m : m = Head(wire[t]) OBVIOUS
<1>1. /\ wire[t] # << >> /\ m.kind = mode.kind
      /\ damaged \subseteq damaged' /\ damaged' \subseteq damaged \cup {Id(m)}
      /\ thinned \subseteq thinned' /\ thinned' \subseteq thinned \cup {Id(m)}
      /\ spoilt' \subseteq spoilt \cup {Id(m)}
      /\ Id(m) \notin repeated \/ UNCHANGED << damaged, thinned >>
      /\ UNCHANGED << mode, spc, watching, news, thr, sent, answer, wire, owner, matched,
                      dropped, rpc, rout, rbox, batch, quit, k, processed, counter, handled >>
      /\ UNCHANGED << check, lost, repeated, crashed, cut >>
  BY <1>0 DEF BusDamages, vars, senderVars, busVars, receiverVars
<1>2. Id(m) \in All /\ (Id(m) \notin repeated => Id(m) \notin handled)
  BY <1>0, <1>1, FirstOnWire
<1>3. faults' \in 0..MaxFaults BY FaultCounts DEF BusDamages
<1>4. damaged' \subseteq All /\ thinned' \subseteq All /\ spoilt' \subseteq All
  BY <1>1, <1>2 DEF FaultyTypeOK
<1>5. FaultyTypeOK'
  <2>1. StateOK BY DEF FaultyTypeOK
  <2>2. StateOK' BY ONLY <1>1, <1>3, <1>4, <2>1 DEF StateOK
  <2>3. QED BY <1>1, <1>3, <1>4, <2>2 DEF FaultyTypeOK
<1>6. Intact' BY <1>1, <1>2 DEF Intact, Checked
<1>7. QED
  BY <1>1, <1>5, <1>6, QueuesFrame, CarryingFrame, SidesFrame, ReplyingFrame, CountsOnceFrame

\* A reply is lost.
LEMMA BusLosesReplyKeeps == FaultyIInv /\ BusLosesReply => FaultyIInv'
<1> SUFFICES ASSUME FaultyIInv, BusLosesReply PROVE FaultyIInv' OBVIOUS
<1> USE DEF FaultyIInv
<1>1. /\ rout # << >> /\ rout' = Tail(rout) /\ Head(rout).kind = "return"
      /\ lost' = lost \cup {Id(Head(rout))}
      /\ UNCHANGED << mode, spc, watching, news, thr, sent, answer, wire, owner, matched,
                      dropped, rpc, rbox, batch, quit, k, processed, counter, handled >>
      /\ UNCHANGED << check, repeated, damaged, thinned, spoilt, crashed, cut >>
  BY DEF BusLosesReply, senderVars, busVars
<1>2. /\ Head(rout) \in Replies \cup Notes
      /\ rout' \in Seq(Replies \cup Notes) /\ Elems(rout') \subseteq Elems(rout)
  BY <1>1, TailElems DEF FaultyTypeOK, StateOK
<1>3. Id(Head(rout)) \in Threads \X (0..Msgs)
  <2>1. Head(rout) \in Replies BY <1>1, <1>2 DEF Notes
  <2>2. QED BY <2>1 DEF Replies, Id
<1>4. faults' \in 0..MaxFaults BY FaultCounts DEF BusLosesReply
<1>5. lost' \subseteq Threads \X (0..Msgs) BY <1>1, <1>3 DEF FaultyTypeOK
<1>6. FaultyTypeOK' BY <1>1, <1>2, <1>4, <1>5 DEF FaultyTypeOK, StateOK
<1>7. Replying' BY <1>1, <1>2 DEF Replying
<1>8. QED
  BY <1>1, <1>6, <1>7, QueuesFrame, CarryingFrame, SidesFrame, CountsOnceFrame, IntactFrame

\* The receiver's connection is gone, and who waits for it gets an error.
LEMMA ReceiverVanishesKeeps ==
  ASSUME FaultyIInv, ReceiverVanishes, faults' \in 0..MaxFaults
  PROVE  FaultyIInv'
<1> USE DEF FaultyIInv
<1>1. /\ cut' = TRUE /\ owner' = FALSE /\ matched' = FALSE /\ rout' = << >>
      /\ news' = news \/ news' = news + 1
      /\ answer' = [t \in Threads |->
                      IF /\ thr[t] \in {"getall", "await"} /\ answer[t] = "none"
                         /\ wire[t] = << >> /\ << t, sent[t] >> \notin lost
                      THEN "error" ELSE answer[t]]
      /\ UNCHANGED << mode, spc, watching, thr, sent, wire, dropped, rpc, rbox, batch, quit,
                      k, processed, counter, handled >>
      /\ UNCHANGED << check, lost, repeated, damaged, thinned, spoilt, crashed >>
  BY DEF ReceiverVanishes
<1>2. news' \in Nat BY <1>1 DEF FaultyTypeOK, StateOK
<1>3. /\ answer' \in [Threads -> {"none", "ok", "error"}]
      /\ \A t \in Threads : answer'[t] = answer[t] \/ answer'[t] = "error"
  BY <1>1 DEF FaultyTypeOK, StateOK
<1>4. rout' \in Seq(Replies \cup Notes) BY <1>1
<1>5. FaultyTypeOK' BY <1>1, <1>2, <1>3, <1>4 DEF FaultyTypeOK, StateOK
<1>6. Sides' BY <1>1, <1>3 DEF Sides
<1>7. Replying' BY <1>1, EmptyElems DEF Replying
<1>8. QED
  BY <1>1, <1>5, <1>6, <1>7, QueuesFrame, CarryingFrame, CountsOnceFrame, IntactFrame

\* A call that the receiver was given and did not dispatch is answered.
LEMMA BusSeesExitKeeps == \A t \in Threads : FaultyIInv /\ BusSeesExit(t) => FaultyIInv'
<1> SUFFICES ASSUME NEW t \in Threads, FaultyIInv, BusSeesExit(t) PROVE FaultyIInv' OBVIOUS
<1> USE DEF FaultyIInv
<1>1. /\ answer' = [answer EXCEPT ![t] = "error"]
      /\ UNCHANGED << mode, spc, watching, news, thr, sent, wire, owner, matched, dropped >>
      /\ UNCHANGED << rpc, rout, rbox, batch, quit, k, processed, counter, handled >>
      /\ UNCHANGED << check, faults, lost, repeated, damaged, thinned, spoilt, crashed, cut >>
  BY DEF BusSeesExit, senderVars, busVars, receiverVars, faultVars
<1>2. /\ answer' \in [Threads -> {"none", "ok", "error"}]
      /\ \A u \in Threads : answer'[u] = answer[u] \/ answer'[u] = "error"
  BY <1>1 DEF FaultyTypeOK, StateOK
<1>3. FaultyTypeOK'
  <2>1. StateOK BY DEF FaultyTypeOK
  <2>2. StateOK' BY ONLY <1>1, <1>2, <2>1 DEF StateOK
  <2>3. QED BY <1>1, <1>2, <2>2 DEF FaultyTypeOK
<1>4. Sides' BY <1>1, <1>2 DEF Sides
<1>5. QED
  BY <1>1, <1>3, <1>4, QueuesFrame, CarryingFrame, ReplyingFrame, CountsOnceFrame, IntactFrame

\* A process dies.
LEMMA CrashKeeps ==
  ASSUME FaultyIInv, NEW process \in {"sender", "receiver"}, Crash(process)
  PROVE  FaultyIInv'
<1> USE DEF FaultyIInv
<1>1. /\ crashed' = crashed \cup {process}
      /\ UNCHANGED << mode, spc, watching, news, thr, sent, answer, wire, owner, matched,
                      dropped, rpc, rout, rbox, batch, quit, k, processed, counter, handled >>
      /\ UNCHANGED << check, faults, lost, repeated, damaged, thinned, spoilt, cut >>
  BY DEF Crash, vars, senderVars, busVars, receiverVars
<1>2. FaultyTypeOK' BY <1>1 DEF FaultyTypeOK, StateOK
<1>3. QED
  BY <1>1, <1>2, QueuesFrame, CarryingFrame, SidesFrame, ReplyingFrame, CountsOnceFrame,
     IntactFrame

-----------------------------------------------------------------------------
(* The invariant.                                                          *)

\* Nothing has happened yet.
LEMMA FaultyInitially == FaultyInit => FaultyIInv
<1> SUFFICES ASSUME FaultyInit PROVE FaultyIInv OBVIOUS
<1> USE DEF FaultyInit, Init
<1>1. Elems(<< >>) = {} /\ Len(<< >>) = 0 BY EmptyElems
<1>2. StateOK
  <2>1. << >> \in Seq(Requests) /\ << >> \in Seq(Replies \cup Notes)
        /\ << >> \in Seq(Requests \cup Notes)
    OBVIOUS
  <2>2. Total \in 0..Total /\ 0 \in 0..Msgs BY AllCounted, SendReceiveAssumption
  <2>3. QED BY <2>1, <2>2 DEF StateOK
<1>3. FaultyTypeOK
  <2>1. k \in 0..(UIntRange - 1) BY AllCounted, FaultyBusAssumption
  <2>2. 0 \in 0..MaxFaults BY FaultyBusAssumption
  <2>3. QED BY <1>2, <2>1, <2>2 DEF FaultyTypeOK
<1>4. Queues BY <1>1 DEF Queues, InOrder, Behind
<1>5. Carrying BY <1>1 DEF Carrying
<1>6. Sides BY SendReceiveAssumption DEF Sides
<1>7. Replying BY <1>1 DEF Replying
<1>8. CountsOnce
  <2>1. Cardinality({}) = 0 BY FS_EmptySet
  <2>2. Counted = 0 BY AllCounted DEF Counted
  <2>3. QED BY <2>1, <2>2, AllCounted DEF CountsOnce
<1>9. Intact BY DEF Intact
<1>10. QED BY <1>3, <1>4, <1>5, <1>6, <1>7, <1>8, <1>9 DEF FaultyIInv

\* Every step keeps the invariant.
LEMMA FaultyInductive == FaultyIInv /\ [FaultyNext]_allVars => FaultyIInv'
<1> SUFFICES ASSUME FaultyIInv, [FaultyNext]_allVars PROVE FaultyIInv' OBVIOUS
<1>1. CASE MainLives BY <1>1, MainLivesKeeps
<1>2. CASE ReceiverLives BY <1>2, ReceiverLivesKeeps
<1>3. CASE BusServes BY <1>3, BusServesKeeps
<1>4. ASSUME NEW t \in Threads, SenderLives(t) \/ BusWorks(t) \/ BusSeesExit(t)
      PROVE  FaultyIInv'
  BY <1>4, SenderLivesKeeps, BusWorksKeeps, BusSeesExitKeeps
<1>5. ASSUME NEW t \in Threads, BusLoses(t) \/ BusRepeats(t) \/ BusDamages(t)
      PROVE  FaultyIInv'
  BY <1>5, BusLosesKeeps, BusRepeatsKeeps, BusDamagesKeeps
<1>6. ASSUME NEW t \in Threads, SenderFails(t) PROVE FaultyIInv'
  BY <1>6, CrashKeeps DEF SenderFails
<1>7. CASE BusLosesReply BY <1>7, BusLosesReplyKeeps
<1>8. CASE BusCutsReceiver \/ BusSeesDeath
  <2>1. faults' \in 0..MaxFaults
    BY <1>8, FaultCounts DEF BusCutsReceiver, BusSeesDeath, FaultyIInv, FaultyTypeOK
  <2>2. QED BY <1>8, <2>1, ReceiverVanishesKeeps DEF BusCutsReceiver, BusSeesDeath
<1>9. CASE CheckFails \/ ReceiverDisconnected
  BY <1>9, CrashKeeps DEF CheckFails, ReceiverDisconnected
<1>10. CASE ReleaseFails
  <2>1. UNCHANGED faultVars BY <1>10 DEF ReleaseFails
  <2>2. QED BY <1>10, <2>1, LoopLives
<1>11. CASE Wraps BY <1>11, WrapsKeeps
<1>12. CASE UNCHANGED allVars
  <2> USE <1>12 DEF allVars, vars, faultVars, senderVars, busVars, receiverVars
  <2>1. FaultyTypeOK' BY DEF FaultyIInv, FaultyTypeOK, StateOK
  <2>2. QED
    BY <2>1, QueuesFrame, CarryingFrame, SidesFrame, ReplyingFrame, CountsOnceFrame,
       IntactFrame DEF FaultyIInv
<1>13. QED
  BY <1>1, <1>2, <1>3, <1>4, <1>5, <1>6, <1>7, <1>8, <1>9, <1>10, <1>11, <1>12 DEF FaultyNext

\* The invariant holds in every state that a test reaches on a bus that misbehaves.
THEOREM FaultyInvariant == FaultySpec => []FaultyIInv
BY FaultyInitially, FaultyInductive, PTL DEF FaultySpec

\* Whatever the bus does, every variable has its type, and k stays an unsigned number.
THEOREM FaultyTypeCorrect == FaultySpec => []FaultyTypeOK
<1>1. FaultyIInv => FaultyTypeOK BY DEF FaultyIInv
<1>2. QED BY <1>1, FaultyInvariant, PTL

\* A test that passes handled every message, however many faults there were: a call
\* because its sender had the answer, a signal because it was counted.
THEOREM PassesDelivered == FaultySpec => []PassMeansDelivered
<1>1. ASSUME FaultyIInv PROVE PassMeansDelivered
  <2> SUFFICES ASSUME spc = "exited", rpc = "exited", ~Miscounted PROVE handled = All
    BY DEF PassMeansDelivered, Passed
  <2>1. StateOK BY <1>1 DEF FaultyIInv, FaultyTypeOK
  <2>2. CASE mode.kind = "signal"
    BY <1>1, <2>2 DEF FaultyIInv, CountsOnce, Miscounted, Done
  <2>3. CASE mode.kind = "call"
    <3>1. ASSUME NEW t \in Threads, NEW n \in 1..Msgs PROVE << t, n >> \in handled
      <4>1. thr[t] = "done" /\ sent[t] = Msgs BY <1>1 DEF FaultyIInv, Sides
      <4>2. n <= Msgs BY SendReceiveAssumption
      <4>3. QED BY <1>1, <2>3, <4>1, <4>2 DEF FaultyIInv, Sides
    <3>2. QED BY <2>1, <3>1 DEF StateOK, All
  <2>4. QED BY <2>1, <2>2, <2>3, ModeFields DEF StateOK
<1>2. QED BY <1>1, FaultyInvariant, PTL

\* A test that passes and checks contents had no message that was changed in every copy,
\* however many faults there were: it handled every one, and dies of a damaged one.
THEOREM PassesIntact == FaultySpec => []PassMeansIntact
<1>1. ASSUME FaultyIInv, PassMeansDelivered PROVE PassMeansIntact
  <2>1. damaged \subseteq All /\ thinned \subseteq All /\ StateOK
    BY <1>1 DEF FaultyIInv, FaultyTypeOK
  <2>2. mode.receiver = "dbus" \/ mode.receiver = "gdbus" BY <2>1, ModeFields DEF StateOK
  <2>3. QED BY <1>1, <2>1, <2>2 DEF FaultyIInv, Intact, PassMeansDelivered, PassMeansIntact
<1>2. QED BY <1>1, FaultyInvariant, PassesDelivered, PTL

-----------------------------------------------------------------------------
(* Without faults.                                                         *)

\* While there was no fault the scenario is in a state of SendReceive.
Faultless ==
  faults = 0 =>
    /\ IInv
    /\ lost = {} /\ repeated = {} /\ damaged = {} /\ thinned = {} /\ spoilt = {}
    /\ crashed = {} /\ ~cut

\* Nothing is wrong before the bus does anything.
LEMMA FaultlessInitially == FaultyInit => Faultless
BY Initially DEF FaultyInit, Faultless

\* A step before the first fault is one of SendReceive, and no process dies.
LEMMA FaultlessStep ==
  ASSUME FaultyTypeOK, Faultless, FaultyNext, faults' = 0
  PROVE  /\ [Next]_vars
         /\ UNCHANGED << lost, repeated, damaged, thinned, spoilt, crashed, cut >>
<1>1. faults \in Nat BY FaultyBusAssumption DEF FaultyTypeOK
<1>2. ~Fault BY <1>1 DEF Fault
<1>3. faults = 0
  <2>1. faults' = faults
    BY <1>2 DEF FaultyNext, MainLives, ReceiverLives, BusServes, SenderLives, BusWorks,
       SenderFails, BusSeesExit, BusLoses, BusRepeats, BusDamages, BusLosesReply,
       BusCutsReceiver, BusSeesDeath, CheckFails, ReceiverDisconnected, ReleaseFails, Wraps,
       Crash, faultVars
  <2>2. QED BY <2>1
<1>4. /\ IInv /\ damaged = {} /\ thinned = {} /\ spoilt = {} /\ crashed = {} /\ ~cut
  BY <1>3 DEF Faultless
<1>5. CASE MainLives BY <1>5 DEF MainLives, Next, faultVars
<1>6. CASE ReceiverLives BY <1>6 DEF ReceiverLives, Next, faultVars
<1>7. CASE BusServes BY <1>7 DEF BusServes, Next, faultVars
<1>8. ASSUME NEW t \in Threads, SenderLives(t) \/ BusWorks(t)
      PROVE  Next /\ UNCHANGED faultVars
  BY <1>8 DEF SenderLives, BusWorks, Next
<1>9. ASSUME NEW t \in Threads, SenderFails(t) PROVE FALSE
  BY <1>4, <1>9 DEF SenderFails, IInv, Unharmed, NoCallRefused
<1>10. ASSUME NEW t \in Threads, BusSeesExit(t) PROVE FALSE
  <2>1. rpc = "exited" BY <1>10 DEF BusSeesExit
  <2>2. PICK i \in 1..Len(rbox) : rbox[i].thread = t BY <1>10 DEF BusSeesExit
  <2>3. rbox[i] \in Elems(rbox) BY DEF Elems
  <2>4. Done BY <1>4, <2>1 DEF IInv, Released
  <2>5. t # Bus BY SendReceiveAssumption
  <2>6. rbox[i] \in Requests /\ Request(rbox[i])
    BY <1>4, <2>2, <2>3, <2>5, InMessage, MessageFields DEF IInv, TypeOK, Requested
  <2>7. QED BY <1>4, <2>4, <2>6, DoneSilent
<1>11. ASSUME NEW t \in Threads, BusLoses(t) \/ BusRepeats(t) \/ BusDamages(t) PROVE FALSE
  BY <1>2, <1>11 DEF BusLoses, BusRepeats, BusDamages
<1>12. ~BusLosesReply /\ ~BusCutsReceiver BY <1>2 DEF BusLosesReply, BusCutsReceiver
<1>13. ~BusSeesDeath BY <1>4 DEF BusSeesDeath, Alive
<1>14. ~CheckFails BY <1>4 DEF CheckFails, Detects, MayDetect
<1>15. ~ReceiverDisconnected /\ ~ReleaseFails BY <1>4 DEF ReceiverDisconnected, ReleaseFails
<1>16. ~Wraps
  <2>1. NoUnderflow BY <1>4, NoneTooMany
  <2>2. k \in Nat /\ processed \in Nat
    BY <1>4, AllCounted DEF IInv, TypeOK
  <2>3. QED BY <2>1, <2>2 DEF Wraps, NoUnderflow
<1>17. QED
  BY <1>5, <1>6, <1>7, <1>8, <1>9, <1>10, <1>11, <1>12, <1>13, <1>14, <1>15, <1>16
     DEF FaultyNext, faultVars

\* Every step keeps it.
LEMMA FaultlessKeeps == FaultyTypeOK /\ Faultless /\ [FaultyNext]_allVars => Faultless'
<1> SUFFICES ASSUME FaultyTypeOK, Faultless, [FaultyNext]_allVars, faults' = 0
             PROVE  Faultless'
  BY DEF Faultless
<1>1. CASE FaultyNext
  <2>1. /\ [Next]_vars /\ UNCHANGED << lost, repeated, damaged, thinned, spoilt, crashed, cut >>
    BY <1>1, FaultlessStep
  <2>2. faults = 0
    <3>1. faults \in Nat /\ (faults' = faults \/ faults' = faults + 1)
      BY <1>1, FaultyBusAssumption
         DEF FaultyTypeOK, FaultyNext, MainLives, ReceiverLives, BusServes, SenderLives, BusWorks,
         SenderFails, BusSeesExit, BusLoses, BusRepeats, BusDamages, BusLosesReply,
         BusCutsReceiver, BusSeesDeath, CheckFails, ReceiverDisconnected, ReleaseFails, Wraps,
         Crash, Fault, faultVars
    <3>2. QED BY <3>1
  <2>3. IInv' BY <2>1, <2>2, Inductive DEF Faultless
  <2>4. QED BY <2>1, <2>2, <2>3 DEF Faultless
<1>2. CASE UNCHANGED allVars
  <2>1. UNCHANGED vars /\ UNCHANGED faultVars BY <1>2 DEF allVars
  <2>2. faults = 0 BY <2>1 DEF faultVars
  <2>3. IInv' BY <2>1, <2>2, Inductive DEF Faultless
  <2>4. QED BY <2>1, <2>2, <2>3 DEF Faultless, faultVars
<1>3. QED BY <1>1, <1>2

\* As long as the bus makes no mistake neither process dies and every step is one of
\* SendReceive, so that what is proved of SendReceive holds of FaultyBus until then.
THEOREM FaultFree == FaultySpec => HarmlessWithoutFaults
<1>1. FaultyTypeOK /\ Faultless /\ [FaultyNext]_allVars =>
        [faults' = 0 => [Next]_vars /\ crashed' = {}]_allVars
  <2> SUFFICES ASSUME FaultyTypeOK, Faultless, FaultyNext, faults' = 0
               PROVE  [Next]_vars /\ crashed' = {}
    OBVIOUS
  <2>1. /\ [Next]_vars /\ UNCHANGED << lost, repeated, damaged, thinned, spoilt, crashed, cut >>
    BY FaultlessStep
  <2>2. Faultless' BY FaultlessKeeps
  <2>3. QED BY <2>1, <2>2 DEF Faultless
<1>2. QED
  BY <1>1, FaultyTypeCorrect, FaultlessInitially, FaultlessKeeps, PTL
     DEF FaultySpec, HarmlessWithoutFaults
=============================================================================
