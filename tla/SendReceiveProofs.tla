-------------------------- MODULE SendReceiveProofs --------------------------
(* Theorems about SendReceive, for any finite set of threads, any number   *)
(* of messages and any combination of implementations and kinds.           *)
EXTENDS SendReceive, FiniteSetTheorems, SequenceTheorems, TLAPS

-----------------------------------------------------------------------------
(* The inductive invariant.                                                *)

\* The messages of a sequence.
Elems(s) == {s[i] : i \in 1..Len(s)}

\* A thread's messages are in the order of their numbers.
Sorted(s) ==
  \A i, j \in 1..Len(s) :
    i < j /\ s[i].thread = s[j].thread /\ s[i].thread # Bus => s[i].n < s[j].n

\* What is in s belongs to earlier messages of its thread than what is in r.
Before(s, r) ==
  \A a \in Elems(s), b \in Elems(r) :
    a.thread = b.thread /\ a.thread # Bus => a.n < b.n

\* The way of a message, and of its reply back, is one queue: replies, batch,
\* inbox, wire.  No message is in it twice.
Ordered ==
  /\ Sorted(rout) /\ Sorted(batch) /\ Sorted(rbox)
  /\ Before(rout, batch) /\ Before(rout, rbox) /\ Before(batch, rbox)
  /\ \A t \in Threads : /\ Sorted(wire[t])
                        /\ Before(rout, wire[t])
                        /\ Before(batch, wire[t])
                        /\ Before(rbox, wire[t])

\* A call on its way, or its reply, is what its thread waits for.
Pending(m) ==
  /\ answer[m.thread] = "none"
  /\ mode.kind = "call" =>
       /\ m.n = sent[m.thread]
       /\ thr[m.thread] = IF m.n = 0 THEN "getall" ELSE "await"

\* A message on its way to the Reaction is later than what has been handled.
Request(m) ==
  m.thread # Bus =>
    /\ m.kind = IF m.n = 0 THEN "getall" ELSE mode.kind
    /\ m.n = 0 => mode.kind = "call"
    /\ m.n <= sent[m.thread]
    /\ \A n \in 1..Msgs : << m.thread, n >> \in handled => n < m.n
    /\ Pending(m)

\* A reply on its way back belongs to a call that was handled.
Reply(m) ==
  m.thread # Bus =>
    /\ mode.kind = "call"
    /\ m.n > 0 => << m.thread, m.n >> \in handled
    /\ Pending(m)

Requested ==
  /\ \A m \in Elems(rout) : Reply(m)
  /\ \A m \in Elems(batch) : Request(m)
  /\ \A m \in Elems(rbox) : Request(m)
  /\ \A t \in Threads : \A m \in Elems(wire[t]) : m.thread = t /\ Request(m)

\* Where a thread is tells what it has sent.
Sending ==
  \A t \in Threads :
    /\ thr[t] \in {"off", "prepare", "getall"} => sent[t] = 0
    /\ thr[t] = "getall" => mode.kind = "call" /\ mode.sender = "gdbus"
    /\ thr[t] = "await" => mode.kind = "call" /\ sent[t] > 0
    /\ thr[t] = "done" => sent[t] = Msgs
    /\ answer[t] # "none" => thr[t] \in {"getall", "await"}
    /\ answer[t] = "ok" /\ thr[t] = "await" => << t, sent[t] >> \in handled
    /\ \A n \in 1..Msgs : << t, n >> \in handled => n <= sent[t]
    /\ spc \in {"match", "check", "wait"} <=> thr[t] = "off"
    /\ spc = "exited" => thr[t] = "done"

Done == handled = All

\* The name and the subscription come before the first message and go after the
\* last.
Named ==
  /\ spc \in {"run", "exited"} => owner \/ rpc \in {"release", "exited"}
  /\ rpc = "start" => ~owner /\ rout = << >>
  /\ rpc = "start" \/ (rpc = "setup" /\ ~owner) => rbox = << >> /\ batch = << >> /\ ~quit
  /\ rpc = "setup" /\ ~owner =>
       \/ mode.kind = "signal" /\ rout = << Note("AddMatch"), Note("RequestName") >>
       \/ (mode.kind = "signal" => matched) /\ rout = << Note("RequestName") >>
  /\ rpc \in {"loop", "dispatch"} => owner
  /\ owner \/ rpc \notin {"start", "setup"} =>
       \A m \in Elems(rout) : m.kind \notin {"AddMatch", "RequestName"}
  /\ \A m \in Elems(rout) : m.kind = "RemoveMatch" => Done
  /\ mode.kind = "signal" /\ owner /\ ~matched => Done

\* Releasing the name is the last thing the receiver asks of the bus.
Released ==
  /\ \A i \in 1..Len(rout) : rout[i].kind = "ReleaseName" => rpc = "release" /\ i = Len(rout)
  /\ \A m \in Elems(rbox) : m.kind = "released" => ~owner /\ rpc \in {"release", "exited"}
  /\ rpc \in {"release", "exited"} => Done /\ (~owner => rout = << >>)
  /\ rpc = "exited" => ~owner
  /\ rpc = "release" /\ owner => rout # << >> /\ rout[Len(rout)].kind = "ReleaseName"

\* When there is a batch, and what is the first thing setup() dispatches.
Looping ==
  /\ rpc \in {"start", "loop", "release", "exited"} => batch = << >>
  /\ mode.receiver = "dbus" => /\ rpc = "setup" => batch = << >>
                               /\ Len(batch) <= 1
                               /\ batch # << >> => processed = 0
                               /\ ~quit
  /\ rpc = "setup" /\ ~quit =>
       /\ batch # << >> => batch[1].kind = "acquired"
       /\ batch = << >> /\ rbox # << >> => rbox[1].kind = "acquired"
       /\ owner => batch # << >> \/ rbox # << >>

\* The messages the receiver has accounted for.
Counted == Total - k + (IF rpc = "dispatch" THEN processed ELSE 0)

Counting ==
  /\ counter = Total - Cardinality(handled)
  /\ rpc \in {"start", "setup"} => k = Total
  /\ processed <= Cardinality(handled)
  /\ Counted <= Cardinality(handled)
  /\ ~Exposed => Counted = Cardinality(handled)

\* A proxy that waits for the properties has sent nothing, so that setup() can only
\* dispatch its question.
Shielded ==
  ~Exposed /\ rpc \in {"start", "setup"} /\ mode.receiver = "gdbus" =>
    /\ \A m \in Elems(batch) : m.n = 0
    /\ ~quit => /\ \A t \in Threads : thr[t] \notin {"send", "await", "done"} /\ answer[t] = "none"
                /\ \A m \in Elems(rout) : m.thread = Bus

Unharmed == NoCallRefused /\ NoSignalMissed

IInv ==
  /\ TypeOK /\ Unharmed
  /\ Ordered /\ Requested /\ Sending
  /\ Named /\ Released /\ Looping /\ Counting /\ Shielded

-----------------------------------------------------------------------------
(* Sequences of messages.                                                  *)

Message == Requests \cup Replies \cup Notes

\* The empty sequence has no messages, and they are in order.
LEMMA EmptyElems == Elems(<< >>) = {} /\ Sorted(<< >>)
BY DEF Elems, Sorted

\* What the first message and the rest of a sequence are.
LEMMA TailElems ==
  ASSUME NEW S, NEW s \in Seq(S), s # << >>
  PROVE  /\ Head(s) \in Elems(s) /\ Head(s) = s[1] /\ Head(s) \in S
         /\ Elems(Tail(s)) \subseteq Elems(s)
         /\ Tail(s) \in Seq(S) /\ Len(Tail(s)) = Len(s) - 1
         /\ \A i \in 1..Len(Tail(s)) : Tail(s)[i] = s[i + 1]
<1>1. Len(s) \in Nat /\ Len(s) > 0 BY EmptySeq, LenProperties
<1>2. Head(s) = s[1] OBVIOUS
<1>3. \A i \in 1..Len(Tail(s)) : i + 1 \in 1..Len(s) /\ Tail(s)[i] = s[i + 1]
  BY <1>1, HeadTailProperties
<1>4. QED BY <1>1, <1>2, <1>3, HeadTailProperties DEF Elems

\* What a sequence is with a message after it.
LEMMA AppendElems ==
  ASSUME NEW S, NEW s \in Seq(S), NEW m \in S
  PROVE  /\ Elems(Append(s, m)) = Elems(s) \cup {m}
         /\ Append(s, m) \in Seq(S) /\ Append(s, m) # << >>
         /\ Len(Append(s, m)) = Len(s) + 1
         /\ Append(s, m)[Len(s) + 1] = m
         /\ \A i \in 1..Len(s) : Append(s, m)[i] = s[i]
<1>1. Len(s) \in Nat BY LenProperties
<1>2. 1..(Len(s) + 1) = 1..Len(s) \cup {Len(s) + 1} BY <1>1
<1>3. QED BY <1>1, <1>2, AppendProperties DEF Elems

\* The rest of a sequence in order is in order, and after the first message.
LEMMA TailSorted ==
  ASSUME NEW s \in Seq(Message), s # << >>, Sorted(s)
  PROVE  /\ Sorted(Tail(s))
         /\ \A b \in Elems(Tail(s)) :
              Head(s).thread = b.thread /\ b.thread # Bus => Head(s).n < b.n
<1>1. Len(s) \in Nat /\ Len(s) > 0 /\ Len(Tail(s)) = Len(s) - 1
  BY EmptySeq, LenProperties, TailElems
<1>2. \A i \in 1..Len(Tail(s)) : i + 1 \in 1..Len(s) /\ Tail(s)[i] = s[i + 1]
  BY <1>1, TailElems
<1>3. Sorted(Tail(s))
  <2> SUFFICES ASSUME NEW i \in 1..Len(Tail(s)), NEW j \in 1..Len(Tail(s)), i < j,
                      Tail(s)[i].thread = Tail(s)[j].thread, Tail(s)[i].thread # Bus
               PROVE  Tail(s)[i].n < Tail(s)[j].n
    BY DEF Sorted
  <2>1. i + 1 < j + 1 /\ i + 1 \in 1..Len(s) /\ j + 1 \in 1..Len(s) BY <1>1, <1>2
  <2>2. QED BY <2>1, <1>2 DEF Sorted
<1>4. ASSUME NEW b \in Elems(Tail(s)), Head(s).thread = b.thread, b.thread # Bus
      PROVE  Head(s).n < b.n
  <2>1. PICK i \in 1..Len(Tail(s)) : b = Tail(s)[i] BY DEF Elems
  <2>2. 1 < i + 1 /\ 1 \in 1..Len(s) /\ i + 1 \in 1..Len(s) /\ b = s[i + 1]
    BY <1>1, <1>2, <2>1
  <2>3. QED BY <1>4, <2>2, TailElems DEF Sorted
<1>5. QED BY <1>3, <1>4

\* A sequence in order stays so with a later message after it.
LEMMA AppendSorted ==
  ASSUME NEW s \in Seq(Message), NEW m \in Message, Sorted(s),
         \A a \in Elems(s) : a.thread = m.thread /\ a.thread # Bus => a.n < m.n
  PROVE  Sorted(Append(s, m))
<1>1. Len(s) \in Nat BY LenProperties
<1> SUFFICES ASSUME NEW i \in 1..(Len(s) + 1), NEW j \in 1..(Len(s) + 1), i < j,
                    Append(s, m)[i].thread = Append(s, m)[j].thread,
                    Append(s, m)[i].thread # Bus
             PROVE  Append(s, m)[i].n < Append(s, m)[j].n
  BY AppendElems DEF Sorted
<1>2. i \in 1..Len(s) /\ Append(s, m)[i] = s[i] BY <1>1, AppendElems
<1>3. CASE j \in 1..Len(s) BY <1>2, <1>3, AppendElems DEF Sorted
<1>4. CASE j = Len(s) + 1
  <2>1. Append(s, m)[j] = m BY <1>4, AppendElems
  <2>2. s[i] \in Elems(s) BY <1>2 DEF Elems
  <2>3. QED BY <1>2, <2>1, <2>2
<1>5. QED BY <1>1, <1>3, <1>4

\* The sets of messages.
LEMMA MessageFields ==
  /\ \A m \in Message : m.n \in 0..Msgs /\ m.thread \in Threads \cup {Bus}
  /\ \A m \in Requests \cup Notes : m.thread # Bus => m \in Requests
  /\ \A m \in Replies \cup Notes : m.thread # Bus => m \in Replies
  /\ \A m \in Notes : m.thread = Bus /\ m.n = 0
  /\ \A m \in Requests \cup Replies : m.thread \in Threads /\ m.thread # Bus
BY SendReceiveAssumption DEF Message, Requests, Replies, Notes

\* Note() and Of() make messages of the three sets.
LEMMA MakeMessages ==
  /\ \A kind \in {"AddMatch", "RequestName", "RemoveMatch", "ReleaseName",
                  "acquired", "released"} :
       /\ Note(kind) \in Notes
       /\ Note(kind).kind = kind /\ Note(kind).thread = Bus /\ Note(kind).n = 0
  /\ \A t \in Threads, n \in 0..Msgs, kind \in {"getall", "call", "signal", "return"} :
       /\ Of(t, kind, n).kind = kind /\ Of(t, kind, n).thread = t /\ Of(t, kind, n).n = n
       /\ kind # "return" => Of(t, kind, n) \in Requests
       /\ kind = "return" => Of(t, kind, n) \in Replies
BY SendReceiveAssumption DEF Note, Of, Notes, Requests, Replies

-----------------------------------------------------------------------------
(* Counting messages.                                                      *)

\* There are Total messages.
LEMMA AllCounted ==
  /\ IsFiniteSet(All) /\ Cardinality(All) = Total /\ Total \in Nat
  /\ Cardinality(Threads) \in Nat
<1>1. Cardinality(Threads) \in Nat BY SendReceiveAssumption, FS_CardinalityType
<1>2. IsFiniteSet(1..Msgs) /\ Cardinality(1..Msgs) = Msgs
  <2>1. 1 \in Int /\ Msgs \in Int /\ 1 <= Msgs BY SendReceiveAssumption
  <2>2. Msgs - 1 + 1 = Msgs BY <2>1
  <2>3. QED BY <2>1, <2>2, FS_Interval
<1>3. IsFiniteSet(All) /\ Cardinality(All) = Cardinality(Threads) * Msgs
  BY <1>2, SendReceiveAssumption, FS_Product DEF All
<1>4. Cardinality(Threads) * Msgs \in Nat BY <1>1, SendReceiveAssumption
<1>5. QED BY <1>1, <1>3, <1>4 DEF Total

\* A set of messages has at most Total, and all only when it has Total.
LEMMA SomeCounted ==
  ASSUME NEW H, H \subseteq All
  PROVE  /\ IsFiniteSet(H) /\ Cardinality(H) \in 0..Total
         /\ Cardinality(H) = Total => H = All
         /\ \A m \in All \ H : Cardinality(H \cup {m}) = Cardinality(H) + 1
<1>1. IsFiniteSet(H) /\ Cardinality(H) <= Total BY AllCounted, FS_Subset
<1>2. Cardinality(H) \in Nat BY <1>1, FS_CardinalityType
<1>3. Cardinality(H) = Total => H = All BY AllCounted, FS_Subset
<1>4. \A m \in All \ H : Cardinality(H \cup {m}) = Cardinality(H) + 1
  BY <1>1, FS_AddElement
<1>5. QED BY <1>1, <1>2, <1>3, <1>4, AllCounted

-----------------------------------------------------------------------------
(* What each part of the invariant reads.                                  *)

\* Ordered reads the four parts of a message's way.
LEMMA OrderedFrame ==
  ASSUME Ordered, UNCHANGED << rout, batch, rbox, wire >>
  PROVE  Ordered'
BY DEF Ordered

\* Requested reads the messages and the state of their threads.
LEMMA RequestedFrame ==
  ASSUME Requested,
         UNCHANGED << mode, thr, sent, answer, handled, rout, batch, rbox, wire >>
  PROVE  Requested'
BY DEF Requested, Request, Reply, Pending

\* Sending reads the Sender and what was handled.
LEMMA SendingFrame ==
  ASSUME Sending, UNCHANGED << mode, spc, thr, sent, answer, handled >>
  PROVE  Sending'
BY DEF Sending

\* Named reads the name, the subscription and where both processes are.
LEMMA NamedFrame ==
  ASSUME Named,
         UNCHANGED << mode, spc, owner, matched, rpc, rout, rbox, batch, quit, handled >>
  PROVE  Named'
BY DEF Named, Done

\* Released reads the Receiver's connection and its name.
LEMMA ReleasedFrame ==
  ASSUME Released, UNCHANGED << rpc, owner, rout, rbox, handled >>
  PROVE  Released'
BY DEF Released, Done

\* Looping reads the Receiver's inbox and main loop.
LEMMA LoopingFrame ==
  ASSUME Looping, UNCHANGED << mode, rpc, owner, rbox, batch, quit, processed >>
  PROVE  Looping'
BY DEF Looping

\* Counting reads the three counters and what was handled.
LEMMA CountingFrame ==
  ASSUME Counting, UNCHANGED << mode, rpc, k, processed, counter, handled >>
  PROVE  Counting'
BY DEF Counting, Counted, Exposed

\* Shielded reads the Receiver's main loop and the threads.
LEMMA ShieldedFrame ==
  ASSUME Shielded, UNCHANGED << mode, rpc, rout, batch, quit, thr, answer >>
  PROVE  Shielded'
BY DEF Shielded, Exposed

\* Unharmed reads the answers and the dropped signals.
LEMMA UnharmedFrame ==
  ASSUME Unharmed, UNCHANGED << answer, dropped >>
  PROVE  Unharmed'
BY DEF Unharmed, NoCallRefused, NoSignalMissed

-----------------------------------------------------------------------------
(* Consequences of the invariant.                                          *)

\* A thread that waits for no answer has nothing on its way, unless it is a signal.
LEMMA Silent ==
  ASSUME IInv, NEW t \in Threads, thr[t] \notin {"getall", "await"},
         mode.kind = "call" \/ sent[t] = 0
  PROVE  /\ \A m \in Elems(rout) : m.thread # t
         /\ \A m \in Elems(batch) : m.thread # t
         /\ \A m \in Elems(rbox) : m.thread # t
         /\ wire[t] = << >>
<1>1. t # Bus BY SendReceiveAssumption
<1>2. \A m : Pending(m) /\ m.thread = t => mode.kind # "call"
  <2> SUFFICES ASSUME NEW m, Pending(m), m.thread = t, mode.kind = "call" PROVE FALSE
    OBVIOUS
  <2>1. thr[t] = "getall" \/ thr[t] = "await" BY DEF Pending
  <2>2. QED BY <2>1
<1>3. ASSUME NEW m, Reply(m) PROVE m.thread # t BY <1>1, <1>2, <1>3 DEF Reply
<1>4. ASSUME NEW m, Request(m), m.n \in Nat PROVE m.thread # t
  <2> SUFFICES ASSUME m.thread = t PROVE FALSE OBVIOUS
  <2>1. Pending(m) /\ m.n <= sent[t] /\ (m.n = 0 => mode.kind = "call")
    BY <1>1, <1>4 DEF Request
  <2>2. mode.kind # "call" BY <1>2, <2>1
  <2>3. sent[t] = 0 /\ m.n = 0 BY <1>4, <2>1, <2>2
  <2>4. QED BY <2>1, <2>2, <2>3
<1>5. \A m \in Elems(rbox) \cup Elems(batch) \cup Elems(wire[t]) : m.n \in Nat
  <2>1. rbox \in Seq(Message) /\ batch \in Seq(Message) /\ wire[t] \in Seq(Message)
    BY DEF IInv, TypeOK, StateOK, Message
  <2>2. \A s \in Seq(Message) : \A m \in Elems(s) : m \in Message BY DEF Elems
  <2>3. QED BY <2>1, <2>2, MessageFields, SendReceiveAssumption
<1>6. \A m \in Elems(wire[t]) : m.thread = t /\ m.thread # t
  BY <1>4, <1>5 DEF IInv, Requested
<1>7. wire[t] = << >>
  <2> SUFFICES ASSUME wire[t] # << >> PROVE FALSE OBVIOUS
  <2>1. Head(wire[t]) \in Elems(wire[t]) BY TailElems DEF IInv, TypeOK, StateOK
  <2>2. QED BY <2>1, <1>6
<1>8. QED BY <1>3, <1>4, <1>5, <1>7 DEF IInv, Requested

\* Nothing is on its way to the Reaction when everything was handled.
LEMMA DoneSilent ==
  ASSUME IInv, Done, NEW m \in Requests, Request(m)
  PROVE  FALSE
<1>1. m.thread \in Threads /\ m.thread # Bus /\ m.n \in 0..Msgs
  BY MessageFields DEF Message
<1>2. Msgs \in 1..Msgs /\ m.n <= Msgs BY <1>1, SendReceiveAssumption
<1>3. << m.thread, Msgs >> \in handled BY <1>1, <1>2 DEF Done, All
<1>4. Msgs < m.n BY <1>1, <1>2, <1>3 DEF Request
<1>5. QED BY <1>1, <1>2, <1>4, SendReceiveAssumption

-----------------------------------------------------------------------------
(* The main thread of the Sender.                                          *)

\* Adding the match for NameOwnerChanged.
LEMMA AddWatchKeeps == IInv /\ AddWatch => IInv'
<1> SUFFICES ASSUME IInv, AddWatch PROVE IInv' OBVIOUS
<1> USE DEF IInv, AddWatch, busVars, receiverVars
<1>1. TypeOK' BY DEF TypeOK, StateOK
<1>2. Sending' BY DEF Sending
<1>3. Named' BY DEF Named, Done
<1>4. QED
  BY <1>1, <1>2, <1>3, UnharmedFrame, OrderedFrame, RequestedFrame, ReleasedFrame,
     LoopingFrame, CountingFrame, ShieldedFrame

\* A NameOwnerChanged signal makes libdbus look again.
LEMMA DispatchNewsKeeps == IInv /\ DispatchNews => IInv'
<1> SUFFICES ASSUME IInv, DispatchNews PROVE IInv' OBVIOUS
<1> USE DEF IInv, DispatchNews, busVars, receiverVars
<1>1. TypeOK' BY DEF TypeOK, StateOK
<1>2. Sending' BY DEF Sending
<1>3. Named' BY DEF Named, Done
<1>4. QED
  BY <1>1, <1>2, <1>3, UnharmedFrame, OrderedFrame, RequestedFrame, ReleasedFrame,
     LoopingFrame, CountingFrame, ShieldedFrame

\* The threads are started when the name has an owner.
LEMMA StartThreadsKeeps ==
  ASSUME IInv, spc \in {"match", "check"}, owner, StartThreads, watching' \in BOOLEAN,
         UNCHANGED << mode, news, sent, answer, wire, busVars, receiverVars >>
  PROVE  IInv'
<1> USE DEF IInv, StartThreads, busVars, receiverVars
<1>1. TypeOK' BY DEF TypeOK, StateOK
<1>2. \A t \in Threads : thr[t] = "off" /\ sent[t] = 0 /\ answer[t] = "none"
  BY DEF Sending, TypeOK, StateOK
<1>3. Requested'
  <2>1. \A t \in Threads : /\ \A m \in Elems(rout) : m.thread # t
                           /\ \A m \in Elems(batch) : m.thread # t
                           /\ \A m \in Elems(rbox) : m.thread # t
                           /\ wire[t] = << >>
    BY <1>2, Silent
  <2>2. \A t \in Threads : Elems(wire[t]) = {} BY <2>1, EmptyElems
  <2>3. \A m \in Elems(rout) \cup Elems(batch) \cup Elems(rbox) : m.thread = Bus
    <3>1. rout \in Seq(Message) /\ batch \in Seq(Message) /\ rbox \in Seq(Message)
      BY DEF TypeOK, StateOK, Message
    <3>2. \A s \in Seq(Message) : \A m \in Elems(s) : m \in Message BY DEF Elems
    <3>3. QED BY <3>1, <3>2, <2>1, MessageFields
  <2>4. QED BY <2>2, <2>3 DEF Requested, Request, Reply
<1>4. Sending' BY <1>2 DEF Sending, TypeOK, StateOK
<1>5. Named' BY DEF Named, Done
<1>6. Shielded' BY <1>2 DEF Shielded, Exposed
<1>7. QED
  BY <1>1, <1>3, <1>4, <1>5, <1>6, UnharmedFrame, OrderedFrame, ReleasedFrame,
     LoopingFrame, CountingFrame

\* nameHasOwner() of libdbus.
LEMMA CheckOwnerKeeps == IInv /\ CheckOwner => IInv'
<1> SUFFICES ASSUME IInv, CheckOwner PROVE IInv' OBVIOUS
<1>1. CASE owner /\ StartThreads /\ watching' = FALSE
  BY <1>1, StartThreadsKeeps DEF CheckOwner
<1>2. CASE ~owner /\ spc' = "wait" /\ UNCHANGED << thr, watching >>
  <2> USE <1>2 DEF IInv, CheckOwner, busVars, receiverVars
  <2>1. TypeOK' BY DEF TypeOK, StateOK
  <2>2. Sending' BY DEF Sending
  <2>3. Named' BY DEF Named, Done
  <2>4. QED
    BY <2>1, <2>2, <2>3, UnharmedFrame, OrderedFrame, RequestedFrame, ReleasedFrame,
       LoopingFrame, CountingFrame, ShieldedFrame
<1>3. QED BY <1>1, <1>2 DEF CheckOwner

\* g_bus_watch_name() reports the owner.
LEMMA NameAppearedKeeps == IInv /\ NameAppeared => IInv'
BY StartThreadsKeeps DEF NameAppeared, IInv, TypeOK, StateOK

\* The threads are joined when they are done.
LEMMA JoinThreadsKeeps == IInv /\ JoinThreads => IInv'
<1> SUFFICES ASSUME IInv, JoinThreads PROVE IInv' OBVIOUS
<1> USE DEF IInv, JoinThreads, busVars, receiverVars
<1>1. TypeOK' BY DEF TypeOK, StateOK
<1>2. Sending' BY DEF Sending
<1>3. Named' BY DEF Named, Done
<1>4. QED
  BY <1>1, <1>2, <1>3, UnharmedFrame, OrderedFrame, RequestedFrame, ReleasedFrame,
     LoopingFrame, CountingFrame, ShieldedFrame

-----------------------------------------------------------------------------
(* The Sender's threads.                                                   *)

\* The messages that are somewhere between a thread and its answer.
OnTheWay(t) == Elems(rout) \cup Elems(batch) \cup Elems(rbox) \cup Elems(wire[t])

\* What is on its way are messages, requests one way and replies the other.
LEMMA InMessage ==
  ASSUME StateOK
  PROVE  /\ rout \in Seq(Message) /\ batch \in Seq(Message) /\ rbox \in Seq(Message)
         /\ \A t \in Threads : wire[t] \in Seq(Message)
         /\ \A m \in Elems(rout) : m \in Replies \cup Notes /\ m \in Message
         /\ \A m \in Elems(batch) \cup Elems(rbox) : m \in Requests \cup Notes /\ m \in Message
         /\ \A t \in Threads : \A m \in Elems(wire[t]) : m \in Requests /\ m \in Message
BY DEF StateOK, Message, Elems

\* What a thread does to its own state does not matter to the messages of the others.
LEMMA OtherThreads ==
  ASSUME StateOK, NEW t \in Threads, NEW m \in Message, m.thread # t,
         UNCHANGED << mode, handled >>,
         \A u \in Threads \ {t} : /\ thr'[u] = thr[u] /\ sent'[u] = sent[u]
                                  /\ answer'[u] = answer[u]
  PROVE  (Request(m) => Request(m)') /\ (Reply(m) => Reply(m)')
BY MessageFields DEF Request, Reply, Pending

\* A thread sends a message that is later than its messages before.
LEMMA WireAppend ==
  ASSUME StateOK, Ordered, NEW t \in Threads, NEW m \in Requests, m.thread = t,
         \A a \in OnTheWay(t) : a.thread = t => a.n < m.n,
         wire' = [wire EXCEPT ![t] = Append(@, m)],
         UNCHANGED << rout, batch, rbox >>
  PROVE  /\ Ordered'
         /\ wire' \in [Threads -> Seq(Requests)]
         /\ \A u \in Threads : Elems(wire'[u]) \subseteq
                               Elems(wire[u]) \cup (IF u = t THEN {m} ELSE {})
<1>1. m \in Message /\ wire[t] \in Seq(Requests) /\ wire[t] \in Seq(Message)
  BY DEF StateOK, Message
<1>2. wire'[t] = Append(wire[t], m) /\ \A u \in Threads \ {t} : wire'[u] = wire[u]
  BY DEF StateOK
<1>3. Elems(wire'[t]) = Elems(wire[t]) \cup {m} /\ wire'[t] \in Seq(Requests)
  BY <1>1, <1>2, AppendElems
<1>4. Sorted(wire'[t]) BY <1>1, <1>2, AppendSorted DEF OnTheWay, Ordered
<1>5. Before(rout, wire'[t]) /\ Before(batch, wire'[t]) /\ Before(rbox, wire'[t])
  BY <1>3 DEF OnTheWay, Ordered, Before
<1>6. ASSUME NEW u \in Threads
      PROVE  /\ Sorted(wire'[u])
             /\ Before(rout, wire'[u]) /\ Before(batch, wire'[u]) /\ Before(rbox, wire'[u])
  BY <1>2, <1>4, <1>5 DEF Ordered
<1>7. Ordered' BY <1>6 DEF Ordered
<1>8. wire' \in [Threads -> Seq(Requests)] BY <1>2, <1>3 DEF StateOK
<1>9. QED BY <1>2, <1>3, <1>7, <1>8

\* prepareForSending(): a proxy sends its question, the others nothing.
LEMMA PrepareKeeps == \A t \in Threads : IInv /\ Prepare(t) => IInv'
<1> SUFFICES ASSUME NEW t \in Threads, IInv, Prepare(t) PROVE IInv' OBVIOUS
<1> USE DEF IInv, Prepare, busVars, receiverVars
<1>1. thr[t] = "prepare" /\ sent[t] = 0 /\ answer[t] = "none" /\ StateOK
  BY DEF Sending, TypeOK, StateOK
<1>2. \A a \in OnTheWay(t) : a.thread # t
  BY <1>1, Silent, EmptyElems DEF OnTheWay
<1>3. CASE mode.sender = "gdbus" /\ mode.kind = "call"
  <2>1. PICK m \in Requests : /\ m = Of(t, "getall", 0)
                              /\ m.thread = t /\ m.kind = "getall" /\ m.n = 0
    BY MakeMessages, SendReceiveAssumption
  <2>2. wire' = [wire EXCEPT ![t] = Append(@, m)] /\ thr' = [thr EXCEPT ![t] = "getall"]
    BY <1>3, <2>1
  <2>3. /\ Ordered'
        /\ wire' \in [Threads -> Seq(Requests)]
        /\ \A u \in Threads : Elems(wire'[u]) \subseteq
                              Elems(wire[u]) \cup (IF u = t THEN {m} ELSE {})
    <3>1. \A a \in OnTheWay(t) : a.thread = t => a.n < m.n BY <1>2
    <3>2. UNCHANGED << rout, batch, rbox >> /\ Ordered OBVIOUS
    <3> HIDE DEF IInv, Prepare
    <3>3. QED BY <1>1, <2>1, <2>2, <3>1, <3>2, WireAppend
  <2>4. TypeOK' BY <2>2, <2>3 DEF TypeOK, StateOK
  <2>5. thr'[t] = "getall" /\ \A u \in Threads \ {t} : thr'[u] = thr[u]
    BY <2>2 DEF TypeOK, StateOK
  <2>6. Request(m)'
    <3>1. \A n \in 1..Msgs : << t, n >> \in handled => n <= sent[t] BY DEF Sending
    <3>2. \A n \in 1..Msgs : ~(<< t, n >> \in handled) BY <1>1, <3>1
    <3>3. Pending(m)' BY <1>1, <2>1, <2>5 DEF Pending
    <3>4. QED BY <1>1, <1>3, <2>1, <3>2, <3>3, SendReceiveAssumption DEF Request
  <2>7. Requested'
    <3>1. \A a \in OnTheWay(t) : (Request(a) => Request(a)') /\ (Reply(a) => Reply(a)')
      BY <1>1, <1>2, <2>5, InMessage, OtherThreads DEF OnTheWay
    <3>2. \A u \in Threads \ {t} : \A a \in Elems(wire[u]) : a.thread = u /\ Request(a)'
      BY <1>1, <2>5, InMessage, OtherThreads DEF Requested
    <3>3. ASSUME NEW u \in Threads, NEW a \in Elems(wire'[u])
          PROVE  a.thread = u /\ Request(a)'
      BY <2>1, <2>3, <2>6, <3>1, <3>2, <3>3 DEF Requested, OnTheWay
    <3>4. QED BY <3>1, <3>3 DEF Requested, OnTheWay
  <2>8. Sending' BY <1>1, <1>3, <2>5 DEF Sending, TypeOK, StateOK
  <2>9. Shielded' BY <2>5 DEF Shielded, Exposed
  <2>10. QED
    BY <2>3, <2>4, <2>7, <2>8, <2>9, UnharmedFrame, NamedFrame, ReleasedFrame,
       LoopingFrame, CountingFrame
<1>4. CASE ~(mode.sender = "gdbus" /\ mode.kind = "call")
  <2>1. thr' = [thr EXCEPT ![t] = "send"] /\ wire' = wire BY <1>4
  <2>2. TypeOK' BY <2>1 DEF TypeOK, StateOK
  <2>3. thr'[t] = "send" /\ \A u \in Threads \ {t} : thr'[u] = thr[u]
    BY <2>1 DEF TypeOK, StateOK
  <2>4. Requested'
    <3>1. \A a \in OnTheWay(t) : (Request(a) => Request(a)') /\ (Reply(a) => Reply(a)')
      BY <1>1, <1>2, <2>3, InMessage, OtherThreads DEF OnTheWay
    <3>2. \A u \in Threads \ {t} : \A a \in Elems(wire[u]) : Request(a)'
      BY <1>1, <2>3, InMessage, OtherThreads DEF Requested
    <3>3. QED BY <2>1, <3>1, <3>2 DEF Requested, OnTheWay
  <2>5. Sending' BY <1>1, <2>3 DEF Sending, TypeOK, StateOK
  <2>6. Shielded'
    <3>1. mode.receiver = "gdbus" => Exposed BY <1>4 DEF Exposed, TypeOK, StateOK
    <3>2. QED BY <3>1 DEF Shielded, Exposed
  <2>7. QED
    BY <2>1, <2>2, <2>4, <2>5, <2>6, UnharmedFrame, OrderedFrame, NamedFrame,
       ReleasedFrame, LoopingFrame, CountingFrame
<1>5. QED BY <1>3, <1>4

\* A thread sends its next message: for a call nothing of it is on its way, and
\* a signal is later than its signals before.
LEMMA SendKeeps == \A t \in Threads : IInv /\ Send(t) => IInv'
<1> SUFFICES ASSUME NEW t \in Threads, IInv, Send(t) PROVE IInv' OBVIOUS
<1> USE DEF IInv, Send, busVars, receiverVars
<1>1. thr[t] = "send" /\ answer[t] = "none" /\ StateOK /\ t # Bus
  BY SendReceiveAssumption DEF Sending, TypeOK, StateOK
<1>2. mode.kind \in {"call", "signal"} /\ sent[t] + 1 \in 0..Msgs /\ sent[t] + 1 # 0
  BY SendReceiveAssumption DEF TypeOK, StateOK, Kinds
<1>3. PICK m \in Requests : /\ m = Of(t, mode.kind, sent[t] + 1)
                            /\ m.thread = t /\ m.kind = mode.kind /\ m.n = sent[t] + 1
  BY <1>2, MakeMessages
<1>4. wire' = [wire EXCEPT ![t] = Append(@, m)] BY <1>3
<1>5. mode.kind = "call" => \A a \in OnTheWay(t) : a.thread # t
  BY <1>1, Silent, EmptyElems DEF OnTheWay
<1>6. \A a \in OnTheWay(t) : a.thread = t => a.n < m.n
  <2> SUFFICES ASSUME NEW a \in OnTheWay(t), a.thread = t PROVE a.n < m.n OBVIOUS
  <2>1. mode.kind # "call" BY <1>5
  <2>2. a \notin Elems(rout) BY <1>1, <2>1 DEF Requested, Reply
  <2>3. Request(a) BY <2>2 DEF OnTheWay, Requested
  <2>4. a.n <= sent[t] BY <1>1, <2>3 DEF Request
  <2>5. a.n \in Nat BY <1>1, InMessage, MessageFields, SendReceiveAssumption DEF OnTheWay
  <2>6. QED BY <1>1, <1>3, <2>4, <2>5 DEF StateOK
<1>7. /\ Ordered'
      /\ wire' \in [Threads -> Seq(Requests)]
      /\ \A u \in Threads : Elems(wire'[u]) \subseteq
                            Elems(wire[u]) \cup (IF u = t THEN {m} ELSE {})
  BY <1>1, <1>3, <1>4, <1>6, WireAppend
<1>8. TypeOK' BY <1>2, <1>7 DEF TypeOK, StateOK
<1>9. /\ sent'[t] = sent[t] + 1
      /\ thr'[t] = IF mode.kind = "call" THEN "await" ELSE "send"
      /\ \A u \in Threads \ {t} : thr'[u] = thr[u] /\ sent'[u] = sent[u]
  BY DEF TypeOK, StateOK
<1>10. Request(m)'
  <2>1. \A n \in 1..Msgs : << t, n >> \in handled => n < m.n
    <3>1. \A n \in 1..Msgs : << t, n >> \in handled => n <= sent[t] BY DEF Sending
    <3>2. sent[t] \in Nat BY <1>1 DEF StateOK
    <3>3. QED BY <1>3, <3>1, <3>2
  <2>2. Pending(m)' BY <1>1, <1>2, <1>3, <1>9 DEF Pending
  <2>3. QED BY <1>1, <1>2, <1>3, <1>9, <2>1, <2>2 DEF Request
<1>11. Requested'
  <2>1. \A a \in OnTheWay(t) : (Request(a) => Request(a)') /\ (Reply(a) => Reply(a)')
    <3> SUFFICES ASSUME NEW a \in OnTheWay(t)
                 PROVE  (Request(a) => Request(a)') /\ (Reply(a) => Reply(a)')
      OBVIOUS
    <3>1. a \in Message BY <1>1, InMessage DEF OnTheWay
    <3>2. CASE a.thread # t BY <1>1, <1>9, <3>1, <3>2, OtherThreads
    <3>3. CASE a.thread = t
      <4>1. mode.kind = "signal" BY <1>2, <1>5, <3>3
      <4>2. a.n \in Nat BY <3>1, MessageFields, SendReceiveAssumption
      <4>3. sent[t] \in Nat BY <1>1 DEF StateOK
      <4>4. Request(a) => Request(a)'
        BY <1>1, <1>9, <3>3, <4>1, <4>2, <4>3 DEF Request, Pending
      <4>5. ~Reply(a) BY <1>1, <3>3, <4>1 DEF Reply
      <4>6. QED BY <4>4, <4>5
    <3>4. QED BY <3>2, <3>3
  <2>2. \A u \in Threads \ {t} : \A a \in Elems(wire[u]) : Request(a)'
    BY <1>1, <1>9, InMessage, OtherThreads DEF Requested
  <2>3. ASSUME NEW u \in Threads, NEW a \in Elems(wire'[u])
        PROVE  a.thread = u /\ Request(a)'
    BY <1>3, <1>7, <1>10, <2>1, <2>2, <2>3 DEF Requested, OnTheWay
  <2>4. QED BY <2>1, <2>3 DEF Requested, OnTheWay
<1>12. Sending'
  <2>1. sent[t] \in Nat BY <1>1 DEF StateOK
  <2>2. \A n \in 1..Msgs : << t, n >> \in handled => n <= sent'[t]
    <3>1. \A n \in 1..Msgs : << t, n >> \in handled => n <= sent[t] BY DEF Sending
    <3>2. QED BY <1>9, <2>1, <3>1
  <2>3. \A u \in Threads : \A n \in 1..Msgs : << u, n >> \in handled => n <= sent'[u]
    BY <1>9, <2>2 DEF Sending
  <2>4. sent'[t] > 0 /\ spc # "exited" /\ spc \notin {"match", "check", "wait"}
    <3>1. sent'[t] > 0 BY <1>9, <2>1
    <3>2. spc # "exited" BY <1>1 DEF Sending
    <3>3. spc \notin {"match", "check", "wait"} BY <1>1 DEF Sending
    <3>4. QED BY <3>1, <3>2, <3>3
  <2>5. thr'[t] \in {"await", "send"} /\ (thr'[t] = "await" => mode.kind = "call")
    BY <1>2, <1>9
  <2>6. QED BY <1>1, <1>9, <2>3, <2>4, <2>5 DEF Sending
<1>13. Shielded' BY <1>1 DEF Shielded, Exposed
<1>14. QED
  BY <1>7, <1>8, <1>11, <1>12, <1>13, UnharmedFrame, NamedFrame, ReleasedFrame,
     LoopingFrame, CountingFrame

\* A thread that takes its answer has nothing on its way any more.
LEMMA TakeAnswerKeeps ==
  ASSUME IInv, NEW t \in Threads, thr[t] \in {"getall", "await"}, answer[t] # "none",
         thr' = [thr EXCEPT ![t] = "send"], answer' = [answer EXCEPT ![t] = "none"],
         UNCHANGED << mode, spc, watching, news, sent, wire, busVars, receiverVars >>
  PROVE  IInv'
<1> USE DEF IInv, busVars, receiverVars
<1>1. TypeOK' /\ StateOK /\ t # Bus BY SendReceiveAssumption DEF TypeOK, StateOK
<1>2. /\ thr'[t] = "send" /\ answer'[t] = "none"
      /\ \A u \in Threads \ {t} : thr'[u] = thr[u] /\ answer'[u] = answer[u]
  BY DEF TypeOK, StateOK
<1>3. Requested'
  <2>1. \A m : m.thread = t => ~Request(m) /\ ~Reply(m)
    BY <1>1 DEF Request, Reply, Pending
  <2>2. \A m \in Message : (Request(m) => Request(m)') /\ (Reply(m) => Reply(m)')
    BY <1>1, <1>2, <2>1, OtherThreads
  <2>3. QED BY <1>1, <2>2, InMessage DEF Requested
<1>4. Sending' BY <1>2 DEF Sending, TypeOK, StateOK
<1>5. Shielded' BY DEF Shielded, Exposed, TypeOK, StateOK
<1>6. Unharmed' BY DEF Unharmed, NoCallRefused, NoSignalMissed, TypeOK, StateOK
<1>7. QED
  BY <1>1, <1>3, <1>4, <1>5, <1>6, OrderedFrame, NamedFrame, ReleasedFrame,
     LoopingFrame, CountingFrame

\* The proxy has its properties.
LEMMA PreparedKeeps == \A t \in Threads : IInv /\ Prepared(t) => IInv'
BY TakeAnswerKeeps DEF Prepared

\* handleReply() takes the answer.
LEMMA HandleReplyKeeps == \A t \in Threads : IInv /\ HandleReply(t) => IInv'
BY TakeAnswerKeeps DEF HandleReply

\* A thread that has sent everything is done.
LEMMA ThreadDoneKeeps == \A t \in Threads : IInv /\ ThreadDone(t) => IInv'
<1> SUFFICES ASSUME NEW t \in Threads, IInv, ThreadDone(t) PROVE IInv' OBVIOUS
<1> USE DEF IInv, ThreadDone, busVars, receiverVars
<1>1. TypeOK' /\ StateOK BY DEF TypeOK, StateOK
<1>2. thr[t] = "send" /\ thr'[t] = "done" /\ \A u \in Threads \ {t} : thr'[u] = thr[u]
  BY DEF TypeOK, StateOK
<1>3. Requested'
  <2>1. \A m \in Message : (Request(m) => Request(m)') /\ (Reply(m) => Reply(m)')
    <3> SUFFICES ASSUME NEW m \in Message
                 PROVE  (Request(m) => Request(m)') /\ (Reply(m) => Reply(m)')
      OBVIOUS
    <3>1. CASE m.thread # t BY <1>1, <1>2, <3>1, OtherThreads
    <3>2. CASE m.thread = t
      BY <1>2, <3>2, SendReceiveAssumption DEF Request, Reply, Pending
    <3>3. QED BY <3>1, <3>2
  <2>2. QED BY <1>1, <2>1, InMessage DEF Requested
<1>4. Sending' BY <1>2 DEF Sending, TypeOK, StateOK
<1>5. Shielded' BY <1>2 DEF Shielded, Exposed
<1>6. QED
  BY <1>1, <1>3, <1>4, <1>5, UnharmedFrame, OrderedFrame, NamedFrame, ReleasedFrame,
     LoopingFrame, CountingFrame

-----------------------------------------------------------------------------
(* The Receiver where it moves no message of a thread.                     *)

\* The kind of message and the implementation of the receiver.
LEMMA ModeFields ==
  \A m \in Modes : m.kind \in {"call", "signal"} /\ m.receiver \in {"dbus", "gdbus"}
BY SendReceiveAssumption DEF Impls, Kinds

\* The messages of the sequences that Service::setup() writes.
LEMMA ShortElems ==
  /\ \A a : Elems(<< a >>) = {a}
  /\ \A a, b : Elems(<< a, b >>) = {a, b}
<1>1. ASSUME NEW a PROVE Elems(<< a >>) = {a}
  <2>1. Len(<< a >>) = 1 /\ << a >>[1] = a /\ 1..1 = {1} OBVIOUS
  <2>2. QED BY <2>1 DEF Elems
<1>2. ASSUME NEW a, NEW b PROVE Elems(<< a, b >>) = {a, b}
  <2>1. Len(<< a, b >>) = 2 /\ << a, b >>[1] = a /\ << a, b >>[2] = b /\ 1..2 = {1, 2}
    OBVIOUS
  <2>2. QED BY <2>1 DEF Elems
<1>3. QED BY <1>1, <1>2

\* A message that belongs to no thread has no place in the order.
LEMMA NoteAppended ==
  ASSUME NEW s \in Seq(Message), NEW m \in Notes, Sorted(s)
  PROVE  /\ Sorted(Append(s, m))
         /\ \A r : Before(s, r) => Before(Append(s, m), r)
         /\ \A r : Before(r, s) => Before(r, Append(s, m))
<1>1. m \in Message /\ m.thread = Bus BY MessageFields DEF Message
<1>2. Sorted(Append(s, m)) BY <1>1, AppendSorted
<1>3. Elems(Append(s, m)) = Elems(s) \cup {m} BY <1>1, AppendElems
<1>4. QED BY <1>1, <1>2, <1>3 DEF Before

\* A sequence without messages of threads is in order with any other.
LEMMA NotesOnly ==
  ASSUME NEW s, \A m \in Elems(s) : m.thread = Bus
  PROVE  /\ Sorted(s)
         /\ \A r : Before(s, r) /\ Before(r, s)
BY DEF Sorted, Before, Elems

\* Service::setup() subscribes and asks for the name.
LEMMA ServiceSetupKeeps == IInv /\ ServiceSetup => IInv'
<1> SUFFICES ASSUME IInv, ServiceSetup PROVE IInv' OBVIOUS
<1> USE DEF IInv, ServiceSetup, busVars, senderVars
<1>1. /\ Note("AddMatch") \in Notes /\ Note("RequestName") \in Notes
      /\ Note("AddMatch").kind = "AddMatch" /\ Note("RequestName").kind = "RequestName"
      /\ Note("AddMatch").thread = Bus /\ Note("RequestName").thread = Bus
  BY MakeMessages
<1>2. rout' \in Seq(Replies \cup Notes)
  <2>1. \A S : \A a, b \in S : << a >> \in Seq(S) /\ << a, b >> \in Seq(S) OBVIOUS
  <2>2. /\ << Note("RequestName") >> \in Seq(Replies \cup Notes)
        /\ << Note("AddMatch"), Note("RequestName") >> \in Seq(Replies \cup Notes)
    BY <1>1, <2>1
  <2>3. QED BY <2>2
<1>3. TypeOK' BY <1>2 DEF TypeOK, StateOK
<1>4. \A m \in Elems(rout') : /\ m.thread = Bus
                              /\ m.kind \in {"AddMatch", "RequestName"}
  BY <1>1, ShortElems
<1>5. ~owner /\ rbox = << >> /\ batch = << >> /\ ~quit BY DEF Named
<1>6. Ordered' BY <1>4, NotesOnly DEF Ordered
<1>7. Requested' BY <1>4 DEF Requested, Request, Reply, Pending
<1>8. Sending' BY SendingFrame
<1>9. Named'
  <2>1. mode.kind \in {"call", "signal"} BY ModeFields DEF TypeOK, StateOK
  <2>2. QED BY <1>4, <1>5, <2>1 DEF Named, Done
<1>10. Released'
  <2>1. \A i \in 1..Len(rout') : rout'[i] \in Elems(rout') BY DEF Elems
  <2>2. \A i \in 1..Len(rout') : rout'[i].kind # "ReleaseName" BY <1>4, <2>1
  <2>3. QED BY <1>5, <2>2, EmptyElems DEF Released, Done
<1>11. Looping' BY <1>5 DEF Looping
<1>12. Counting' BY DEF Counting, Counted, Exposed
<1>13. Shielded' BY <1>4 DEF Shielded, Exposed
<1>14. QED
  BY <1>3, <1>6, <1>7, <1>8, <1>9, <1>10, <1>11, <1>12, <1>13, UnharmedFrame

\* setup() ends with the name, and with nothing taken from the inbox.
LEMMA SetupEnds ==
  ASSUME IInv, rpc = "setup", owner, batch = << >>, rpc' = "loop",
         UNCHANGED << mode, senderVars, answer, wire, busVars, rout, rbox, batch, quit, k,
                      processed, counter, handled >>
  PROVE  IInv'
<1> USE DEF IInv, busVars, senderVars
<1>1. TypeOK' BY DEF TypeOK, StateOK
<1>2. Named' BY DEF Named, Done
<1>3. Released' BY DEF Released, Done
<1>4. Looping' BY DEF Looping
<1>5. Counting' BY DEF Counting, Counted, Exposed
<1>6. Shielded' BY DEF Shielded
<1>7. QED
  BY <1>1, <1>2, <1>3, <1>4, <1>5, <1>6, UnharmedFrame, OrderedFrame, RequestedFrame,
     SendingFrame

\* dbus_bus_request_name() returns.
LEMMA NameGrantedKeeps == IInv /\ NameGranted => IInv'
<1> SUFFICES ASSUME IInv, NameGranted PROVE IInv' OBVIOUS
<1>1. rbox # << >> BY DEF NameGranted
<1>2. owner BY <1>1 DEF NameGranted, IInv, Named
<1>3. batch = << >> BY DEF NameGranted, IInv, Looping
<1>4. QED BY <1>2, <1>3, SetupEnds DEF NameGranted

\* g_main_loop_run() of setup() returns after the name was acquired.
LEMMA SetupReturnsKeeps == IInv /\ SetupReturns => IInv'
<1> SUFFICES ASSUME IInv, SetupReturns PROVE IInv' OBVIOUS
<1>1. owner BY DEF SetupReturns, IInv, Named
<1>2. QED BY <1>1, SetupEnds DEF SetupReturns

\* dispatchOnce() sets the count of messages to 0.
LEMMA DispatchOnceKeeps == IInv /\ DispatchOnce => IInv'
<1> SUFFICES ASSUME IInv, DispatchOnce PROVE IInv' OBVIOUS
<1> USE DEF IInv, DispatchOnce, busVars, senderVars
<1>1. Cardinality(handled) \in Nat /\ Total \in Nat
  BY AllCounted, SomeCounted DEF TypeOK, StateOK
<1>2. TypeOK' BY <1>1 DEF TypeOK, StateOK
<1>3. Named' BY DEF Named, Done
<1>4. Released' BY DEF Released, Done
<1>5. Looping' BY DEF Looping
<1>6. Counting' BY <1>1 DEF Counting, Counted, Exposed, TypeOK
<1>7. Shielded' BY DEF Shielded
<1>8. QED
  BY <1>2, <1>3, <1>4, <1>5, <1>6, <1>7, UnharmedFrame, OrderedFrame, RequestedFrame,
     SendingFrame

\* Receiver::operator() subtracts what dispatchOnce() reports.
LEMMA DispatchReturnsKeeps == IInv /\ DispatchReturns => IInv'
<1> SUFFICES ASSUME IInv, DispatchReturns PROVE IInv' OBVIOUS
<1> USE DEF IInv, DispatchReturns, busVars, senderVars
<1>1. Cardinality(handled) \in 0..Total /\ Total \in Nat
  BY AllCounted, SomeCounted DEF TypeOK, StateOK
<1>2. k \in 0..Total /\ processed \in 0..Total /\ processed <= k
  BY <1>1 DEF Counting, Counted, TypeOK
<1>3. TypeOK' BY <1>1, <1>2 DEF TypeOK, StateOK
<1>4. Named' BY DEF Named, Done
<1>5. Released' BY DEF Released, Done
<1>6. Looping' BY DEF Looping
<1>7. Counting' BY <1>1, <1>2 DEF Counting, Counted, Exposed
<1>8. Shielded' BY DEF Shielded
<1>9. QED
  BY <1>3, <1>4, <1>5, <1>6, <1>7, <1>8, UnharmedFrame, OrderedFrame, RequestedFrame,
     SendingFrame

\* The loop ends when everything has been handled.
LEMMA LoopDone == IInv /\ rpc = "loop" /\ k = 0 => Done
<1> SUFFICES ASSUME IInv, rpc = "loop", k = 0 PROVE Done OBVIOUS
<1>1. handled \subseteq All BY DEF IInv, TypeOK, StateOK
<1>2. Cardinality(handled) \in 0..Total /\ Total \in Nat
  BY <1>1, AllCounted, SomeCounted
<1>3. Cardinality(handled) = Total BY <1>2 DEF IInv, Counting, Counted
<1>4. QED BY <1>1, <1>3, SomeCounted DEF Done

\* tearDown() asks to release the name after everything else.
LEMMA ServiceTearDownKeeps == IInv /\ ServiceTearDown => IInv'
<1> SUFFICES ASSUME IInv, ServiceTearDown PROVE IInv' OBVIOUS
<1> USE DEF IInv, ServiceTearDown, busVars, senderVars
<1>1. Done /\ owner /\ batch = << >> BY LoopDone DEF Named, Looping
<1>2. PICK first \in Seq(Message) :
        /\ first \in Seq(Replies \cup Notes)
        /\ rout' = Append(first, Note("ReleaseName"))
        /\ \/ first = rout
           \/ first = Append(rout, Note("RemoveMatch"))
  <2>1. rout \in Seq(Replies \cup Notes) /\ rout \in Seq(Message)
    BY DEF TypeOK, StateOK, Message
  <2>2. Note("RemoveMatch") \in Notes BY MakeMessages
  <2>3. /\ Append(rout, Note("RemoveMatch")) \in Seq(Replies \cup Notes)
        /\ Append(rout, Note("RemoveMatch")) \in Seq(Message)
    BY <2>1, <2>2, AppendElems DEF Message
  <2>4. \A s \in Seq(Message) : \A a : s \o << a >> = Append(s, a) /\ s \o << >> = s
    OBVIOUS
  <2>5. CASE mode.receiver = "dbus" /\ mode.kind = "signal"
    <3>1. rout' = Append(Append(rout, Note("RemoveMatch")), Note("ReleaseName"))
      BY <2>1, <2>3, <2>4, <2>5
    <3>2. QED BY <2>3, <3>1
  <2>6. CASE ~(mode.receiver = "dbus" /\ mode.kind = "signal")
    <3>1. rout' = Append(rout, Note("ReleaseName")) BY <2>1, <2>4, <2>6
    <3>2. QED BY <2>1, <3>1
  <2>7. QED BY <2>5, <2>6
<1>3. /\ Note("ReleaseName") \in Notes /\ Note("RemoveMatch") \in Notes
      /\ Note("ReleaseName").kind = "ReleaseName" /\ Note("RemoveMatch").kind = "RemoveMatch"
      /\ Note("ReleaseName").thread = Bus /\ Note("RemoveMatch").thread = Bus
      /\ rout \in Seq(Message)
  BY MakeMessages DEF TypeOK, StateOK, Message
<1>4. /\ Sorted(first)
      /\ \A r : Before(rout, r) => Before(first, r)
      /\ Elems(first) \subseteq Elems(rout) \cup {Note("RemoveMatch")}
      /\ \A i \in 1..Len(first) : first[i].kind # "ReleaseName"
  <2>1. \A i \in 1..Len(rout) : rout[i].kind # "ReleaseName" BY DEF Released
  <2>2. CASE first = rout BY <2>1, <2>2 DEF Ordered
  <2>3. CASE first = Append(rout, Note("RemoveMatch"))
    <3>1. Len(rout) \in Nat /\ Note("RemoveMatch") \in Message
      BY <1>3, LenProperties DEF Message
    <3>2. \A i \in 1..Len(first) : i \in 1..Len(rout) \/ i = Len(rout) + 1
      BY <1>3, <2>3, <3>1, AppendElems
    <3>3. \A i \in 1..Len(first) : first[i].kind # "ReleaseName"
      BY <1>3, <2>1, <2>3, <3>1, <3>2, AppendElems
    <3>4. QED BY <1>3, <2>3, <3>1, <3>3, NoteAppended, AppendElems DEF Ordered
  <2>4. QED BY <1>2, <2>2, <2>3
<1>5. /\ Elems(rout') \subseteq Elems(rout) \cup {Note("RemoveMatch"), Note("ReleaseName")}
      /\ rout' \in Seq(Replies \cup Notes) /\ rout' # << >>
      /\ Len(rout') = Len(first) + 1 /\ rout'[Len(first) + 1] = Note("ReleaseName")
      /\ \A i \in 1..Len(first) : rout'[i] = first[i]
  <2> HIDE DEF IInv, ServiceTearDown
  <2> DEFINE last == Note("ReleaseName")
  <2>0. last \in Message /\ last \in Replies \cup Notes BY <1>3 DEF Message
  <2>1. /\ Elems(rout') = Elems(first) \cup {last} /\ rout' # << >>
        /\ Len(rout') = Len(first) + 1 /\ rout'[Len(first) + 1] = last
        /\ \A i \in 1..Len(first) : rout'[i] = first[i]
    <3> HIDE DEF last
    <3>1. rout' = Append(first, last) BY <1>2 DEF last
    <3>2. QED BY <1>2, <2>0, <3>1, AppendElems
  <2>2. rout' \in Seq(Replies \cup Notes)
    <3> HIDE DEF last
    <3>1. rout' = Append(first, last) BY <1>2 DEF last
    <3>2. QED BY <1>2, <2>0, <3>1, AppendElems
  <2>3. QED BY <1>4, <2>1, <2>2
<1>6. TypeOK' BY <1>5 DEF TypeOK, StateOK
<1>7. Ordered'
  <2>1. Sorted(rout') /\ \A r : Before(rout, r) => Before(rout', r)
    BY <1>2, <1>3, <1>4, NoteAppended
  <2>2. QED BY <2>1 DEF Ordered
<1>8. Requested' BY <1>3, <1>5 DEF Requested, Request, Reply, Pending
<1>9. Sending' BY SendingFrame
<1>10. Named'
  <2>1. Done' BY <1>1 DEF Done
  <2>2. \A m \in Elems(rout') : m.kind \notin {"AddMatch", "RequestName"}
    BY <1>1, <1>3, <1>5 DEF Named
  <2>3. QED BY <1>1, <2>1, <2>2 DEF Named
<1>11. Released'
  <2>1. Len(first) \in Nat BY <1>2, LenProperties
  <2>2. \A i \in 1..Len(rout') : rout'[i].kind = "ReleaseName" => i = Len(rout')
    BY <1>4, <1>5, <2>1
  <2>3. QED BY <1>1, <1>3, <1>5, <2>2 DEF Released, Done
<1>12. Looping' BY <1>1 DEF Looping
<1>13. Counting' BY DEF Counting, Counted, Exposed
<1>14. Shielded' BY DEF Shielded
<1>15. QED
  BY <1>6, <1>7, <1>8, <1>9, <1>10, <1>11, <1>12, <1>13, <1>14, UnharmedFrame

\* The answer to ReleaseName comes when the bus has read all replies.
LEMMA ReceiverExitsKeeps == IInv /\ ReceiverExits => IInv'
<1> SUFFICES ASSUME IInv, ReceiverExits PROVE IInv' OBVIOUS
<1> USE DEF IInv, ReceiverExits, busVars, senderVars
<1>1. ~owner
  <2>1. PICK i \in 1..Len(rbox) : rbox[i].kind = "released" OBVIOUS
  <2>2. rbox[i] \in Elems(rbox) BY DEF Elems
  <2>3. QED BY <2>1, <2>2 DEF Released
<1>2. rout = << >> /\ Done BY <1>1 DEF Released
<1>3. TypeOK' BY DEF TypeOK, StateOK
<1>4. Named' BY DEF Named, Done
<1>5. Released'
  <2>1. Len(rout) = 0 /\ 1..Len(rout) = {} BY <1>2
  <2>2. QED BY <1>1, <1>2, <2>1 DEF Released, Done
<1>6. Looping' BY DEF Looping
<1>7. Counting' BY DEF Counting, Counted, Exposed
<1>8. Shielded' BY DEF Shielded
<1>9. QED
  BY <1>3, <1>4, <1>5, <1>6, <1>7, <1>8, UnharmedFrame, OrderedFrame, RequestedFrame,
     SendingFrame

-----------------------------------------------------------------------------
(* The Receiver's main loop.                                               *)

\* An iteration takes one message, or all there are.
LEMMA PollKeeps == IInv /\ Poll => IInv'
<1> SUFFICES ASSUME IInv, Poll PROVE IInv' OBVIOUS
<1> USE DEF IInv, Poll, busVars, senderVars
<1>1. batch = << >> /\ rbox # << >> /\ rpc \in {"setup", "dispatch"} /\ StateOK
  BY DEF TypeOK
<1>2. /\ Head(rbox) \in Elems(rbox) /\ Head(rbox) = rbox[1]
      /\ Head(rbox) \in Requests \cup Notes
      /\ Elems(Tail(rbox)) \subseteq Elems(rbox)
      /\ Tail(rbox) \in Seq(Requests \cup Notes)
  BY <1>1, TailElems DEF StateOK
<1>3. /\ batch' \in Seq(Requests \cup Notes) /\ rbox' \in Seq(Requests \cup Notes)
      /\ Elems(batch') \subseteq Elems(rbox) /\ Elems(rbox') \subseteq Elems(rbox)
      /\ batch' # << >> /\ batch'[1] = rbox[1]
  <2>1. CASE mode.receiver = "dbus" /\ batch' = << Head(rbox) >> /\ rbox' = Tail(rbox)
    BY <1>2, <2>1, ShortElems
  <2>2. CASE mode.receiver = "gdbus" /\ batch' = rbox /\ rbox' = << >>
    BY <1>1, <2>2, EmptyElems DEF StateOK
  <2>3. QED BY <2>1, <2>2
<1>4. TypeOK' BY <1>3 DEF TypeOK, StateOK
<1>5. Ordered'
  <2>1. rbox \in Seq(Message) BY <1>1, InMessage
  <2>2. Sorted(batch') /\ Sorted(rbox') /\ Before(batch', rbox')
    <3>1. CASE mode.receiver = "dbus" /\ batch' = << Head(rbox) >> /\ rbox' = Tail(rbox)
      <4>1. Sorted(<< Head(rbox) >>) BY DEF Sorted
      <4>2. Sorted(Tail(rbox)) BY <1>1, <2>1, TailSorted DEF Ordered
      <4>3. Before(<< Head(rbox) >>, Tail(rbox))
        BY <1>1, <2>1, TailSorted, ShortElems DEF Ordered, Before
      <4>4. QED BY <3>1, <4>1, <4>2, <4>3
    <3>2. CASE mode.receiver = "gdbus" /\ batch' = rbox /\ rbox' = << >>
      BY <3>2, EmptyElems DEF Ordered, Before
    <3>3. QED BY <3>1, <3>2
  <2>3. \A s : (Before(s, rbox) => Before(s, batch') /\ Before(s, rbox'))
            /\ (Before(rbox, s) => Before(batch', s) /\ Before(rbox', s))
    BY <1>3 DEF Before
  <2>4. QED BY <2>2, <2>3 DEF Ordered
<1>6. Requested' BY <1>3 DEF Requested, Request, Reply, Pending
<1>7. Sending' BY SendingFrame
<1>8. rpc = "setup" => owner BY <1>1 DEF Named
<1>9. Named' BY <1>1, <1>8 DEF Named, Done
<1>10. Released' BY <1>3 DEF Released, Done
<1>11. Looping'
  <2>1. mode.receiver = "dbus" => Len(batch') <= 1 /\ processed = 0 /\ rpc = "dispatch"
    <3> SUFFICES ASSUME mode.receiver = "dbus"
                 PROVE  Len(batch') <= 1 /\ processed = 0 /\ rpc = "dispatch"
      OBVIOUS
    <3>1. batch' = << Head(rbox) >> /\ Len(<< Head(rbox) >>) = 1 OBVIOUS
    <3>2. processed = 0 /\ rpc = "dispatch" OBVIOUS
    <3>3. QED BY <3>1, <3>2
  <2>2. rpc = "setup" /\ ~quit => batch'[1].kind = "acquired"
    BY <1>1, <1>3 DEF Looping
  <2>3. QED BY <1>1, <1>3, <2>1, <2>2 DEF Looping
<1>12. Counting' BY CountingFrame
<1>13. Shielded'
  <2> SUFFICES ASSUME ~Exposed, rpc = "setup", mode.receiver = "gdbus",
                      NEW m \in Elems(batch')
               PROVE  m.n = 0
    BY <1>1 DEF Shielded, Exposed
  <2>1. m \in Elems(rbox) /\ Request(m) BY <1>3 DEF Requested
  <2>2. m \in Requests \cup Notes BY <1>1, <2>1, InMessage
  <2>3. CASE m \in Notes BY <2>3, MessageFields
  <2>4. CASE m \in Requests
    <3>1. m.thread \in Threads /\ m.thread # Bus /\ m.n \in 0..Msgs
      BY <2>4, MessageFields DEF Message
    <3>2. thr[m.thread] \notin {"send", "await", "done"} BY <2>1, <3>1 DEF Shielded
    <3>3. sent[m.thread] = 0 BY <1>1, <3>1, <3>2 DEF Sending, StateOK
    <3>4. QED BY <2>1, <3>1, <3>3, SendReceiveAssumption DEF Request
  <2>5. QED BY <2>2, <2>3, <2>4
<1>14. QED
  BY <1>4, <1>5, <1>6, <1>7, <1>9, <1>10, <1>11, <1>12, <1>13, UnharmedFrame


\* Later s: the messages of s come after m.
After(m, s) == \A b \in Elems(s) : m.thread = b.thread /\ b.thread # Bus => m.n < b.n

\* What Dispatch takes from the batch, what it leaves, and where the Receiver is.
LEMMA BatchHead ==
  ASSUME IInv, batch # << >>
  PROVE  LET m == Head(batch)
             rest == Tail(batch)
         IN  /\ m \in Requests \cup Notes /\ m \in Message /\ Request(m)
             /\ m \in Elems(batch) /\ m = batch[1]
             /\ m.kind \in {"getall", "call", "signal"} => m \in Requests
             /\ Elems(rest) \subseteq Elems(batch)
             /\ rest \in Seq(Requests \cup Notes) /\ Sorted(rest)
             /\ After(m, rest) /\ After(m, rbox)
             /\ \A t \in Threads : After(m, wire[t])
             /\ rpc \in {"setup", "dispatch"} /\ owner
             /\ rpc = "setup" => mode.receiver = "gdbus"
             /\ mode.receiver = "dbus" => processed = 0 /\ rest = << >> /\ ~quit
<1> DEFINE m == Head(batch)
           rest == Tail(batch)
<1>1. StateOK /\ batch \in Seq(Message) /\ batch \in Seq(Requests \cup Notes)
  BY InMessage DEF IInv, TypeOK, StateOK
<1>2. /\ m \in Elems(batch) /\ m = batch[1] /\ m \in Requests \cup Notes
      /\ Elems(rest) \subseteq Elems(batch) /\ rest \in Seq(Requests \cup Notes)
      /\ Len(rest) = Len(batch) - 1
  BY <1>1, TailElems
<1>3. m \in Message /\ Request(m) BY <1>2 DEF IInv, Requested, Message
<1>4. m.kind \in {"getall", "call", "signal"} => m \in Requests BY <1>2 DEF Notes
<1>5. Sorted(rest) /\ After(m, rest) BY <1>1, TailSorted DEF IInv, Ordered, After
<1>6. After(m, rbox) /\ \A t \in Threads : After(m, wire[t])
  BY <1>2 DEF IInv, Ordered, Before, After
<1>7. rpc \in {"setup", "dispatch"} BY DEF IInv, TypeOK, StateOK, Looping
<1>8. owner BY <1>7 DEF IInv, Named
<1>9. rpc = "setup" => mode.receiver = "gdbus"
  BY <1>1, ModeFields DEF IInv, Looping, StateOK
<1>10. mode.receiver = "dbus" => processed = 0 /\ rest = << >> /\ ~quit
  <2> SUFFICES ASSUME mode.receiver = "dbus" PROVE processed = 0 /\ rest = << >> /\ ~quit
    OBVIOUS
  <2>1. processed = 0 /\ ~quit /\ Len(batch) <= 1 BY DEF IInv, Looping
  <2>2. Len(rest) \in Nat /\ Len(batch) \in Nat BY <1>1, <1>2, LenProperties
  <2>3. Len(rest) = 0 BY <1>2, <2>1, <2>2
  <2>4. rest = << >> BY <1>2, <2>3, EmptySeq
  <2>5. QED BY <2>1, <2>4
<1>11. QED
  BY <1>2, <1>3, <1>4, <1>5, <1>6, <1>7, <1>8, <1>9, <1>10

\* What happens to the order when the head of the batch leaves it, and when it is
\* answered.
LEMMA DispatchOrder ==
  ASSUME IInv, batch # << >>, batch' = Tail(batch), UNCHANGED << rbox, wire >>,
         \/ rout' = rout
         \/ \E a \in Notes : rout' = Append(rout, a)
         \/ \E a \in Replies : /\ a.thread = Head(batch).thread /\ a.n = Head(batch).n
                               /\ rout' = Append(rout, a)
  PROVE  Ordered'
<1> DEFINE Fits(s) == /\ Sorted(s) /\ Before(s, batch') /\ Before(s, rbox)
                      /\ \A t \in Threads : Before(s, wire[t])
<1>1. /\ Sorted(batch') /\ \A s : Before(rout, batch) => Before(rout, batch')
      /\ Elems(batch') \subseteq Elems(batch)
  BY BatchHead DEF Before
<1>2. Before(batch', rbox) /\ \A t \in Threads : Before(batch', wire[t])
  BY <1>1 DEF IInv, Ordered, Before
<1>3. Fits(rout) /\ rout \in Seq(Message)
  BY <1>1, InMessage DEF IInv, Ordered, TypeOK
<1>4. Fits(rout')
  <2>1. CASE rout' = rout BY <1>3, <2>1
  <2>2. ASSUME NEW a \in Notes, rout' = Append(rout, a) PROVE Fits(rout')
    BY <1>3, <2>2, NoteAppended
  <2>3. ASSUME NEW a \in Replies, a.thread = Head(batch).thread, a.n = Head(batch).n,
               rout' = Append(rout, a)
        PROVE  Fits(rout')
    <3>1. a \in Message /\ a.thread # Bus BY MessageFields DEF Message
    <3>2. Head(batch) \in Elems(batch) BY BatchHead
    <3>3. Sorted(rout')
      BY <1>3, <2>3, <3>1, <3>2, AppendSorted DEF IInv, Ordered, Before
    <3>4. Elems(rout') = Elems(rout) \cup {a} BY <1>3, <2>3, <3>1, AppendElems
    <3>5. \A s : Before(rout, s) /\ After(Head(batch), s) => Before(rout', s)
      BY <2>3, <3>4 DEF Before, After
    <3>6. QED BY <1>3, <3>3, <3>5, BatchHead
  <2>4. QED BY <2>1, <2>2, <2>3
<1>5. QED BY <1>1, <1>2, <1>4 DEF IInv, Ordered

\* What dispatching a message does not depend on, whatever the message is.
LEMMA DispatchRest ==
  ASSUME IInv, batch # << >>, batch' = Tail(batch),
         UNCHANGED << mode, senderVars, answer, wire, busVars, rpc, rbox, k >>,
         \/ rout' = rout
         \/ \E a \in Replies \cup Notes : /\ rout' = Append(rout, a)
                                          /\ a.kind \in {"return", "RemoveMatch"}
                                          /\ a.kind = "RemoveMatch" => Done',
         Done => Done',
         mode.receiver = "dbus" => ~quit',
         rpc = "setup" => quit'
  PROVE  Named' /\ Released' /\ Looping' /\ Shielded'
<1> USE DEF busVars, senderVars
<1>1. /\ rpc \in {"setup", "dispatch"} /\ owner
      /\ rpc = "setup" => mode.receiver = "gdbus"
      /\ mode.receiver = "dbus" => batch' = << >>
      /\ Elems(batch') \subseteq Elems(batch)
  BY BatchHead
<1>2. /\ Named /\ Released /\ Shielded /\ Looping
      /\ rout \in Seq(Message) /\ rout \in Seq(Replies \cup Notes)
  BY InMessage DEF IInv, TypeOK, StateOK
<1>3. /\ \A m \in Elems(rout') :
           m \in Elems(rout) \/ m.kind = "return" \/ (m.kind = "RemoveMatch" /\ Done')
      /\ \A i \in 1..Len(rout') : rout'[i].kind # "ReleaseName"
  <2>1. \A i \in 1..Len(rout) : rout[i].kind # "ReleaseName" BY <1>1, <1>2 DEF Released
  <2>2. CASE rout' = rout BY <2>1, <2>2
  <2>3. ASSUME NEW a \in Replies \cup Notes, rout' = Append(rout, a),
               a.kind \in {"return", "RemoveMatch"}, a.kind = "RemoveMatch" => Done'
        PROVE  <1>3
    <3>1. /\ Elems(rout') = Elems(rout) \cup {a}
          /\ Len(rout') = Len(rout) + 1 /\ rout'[Len(rout) + 1] = a
          /\ \A i \in 1..Len(rout) : rout'[i] = rout[i]
      BY <1>2, <2>3, AppendElems
    <3>2. \A i \in 1..Len(rout') : i \in 1..Len(rout) \/ i = Len(rout) + 1
      BY <1>2, <3>1, LenProperties
    <3>3. QED BY <2>1, <2>3, <3>1, <3>2
  <2>4. QED BY <2>2, <2>3
<1>4. Named' BY <1>1, <1>2, <1>3 DEF Named
<1>5. Released'
  <2>1. \A m \in Elems(rbox) : m.kind # "released" BY <1>1, <1>2 DEF Released
  <2>2. QED BY <1>1, <1>3, <2>1 DEF Released
<1>6. Looping'
  <2>1. Len(<< >>) = 0 OBVIOUS
  <2>2. QED BY <1>1, <2>1 DEF Looping
<1>7. Shielded' BY <1>1, <1>2 DEF Shielded, Exposed
<1>8. QED BY <1>4, <1>5, <1>6, <1>7

\* The note that the name was acquired is dispatched.
LEMMA DispatchAcquired ==
  ASSUME IInv, batch # << >>, Head(batch).kind = "acquired", batch' = Tail(batch),
         quit' = (quit \/ mode.receiver = "gdbus"),
         UNCHANGED << mode, senderVars, answer, wire, busVars, rpc, rbox, k, rout,
                      processed, counter, handled >>
  PROVE  IInv'
<1> USE DEF busVars, senderVars
<1>1. TypeOK' BY BatchHead DEF IInv, TypeOK, StateOK
<1>2. Ordered' BY DispatchOrder
<1>3. Elems(batch') \subseteq Elems(batch) BY BatchHead
<1>4. Requested' BY <1>3 DEF IInv, Requested, Request, Reply, Pending
<1>5. Sending' BY SendingFrame DEF IInv
<1>6. Counting' BY CountingFrame DEF IInv
<1>7. Unharmed' BY UnharmedFrame DEF IInv
<1>8. /\ mode.receiver \in {"dbus", "gdbus"}
      /\ mode.receiver = "dbus" => ~quit
      /\ rpc = "setup" => mode.receiver = "gdbus"
  BY BatchHead, ModeFields DEF IInv, TypeOK, StateOK
<1>9. (mode.receiver = "dbus" => ~quit') /\ (rpc = "setup" => quit') BY <1>8
<1>10. Done => Done' BY DEF Done
<1>11. Named' /\ Released' /\ Looping' /\ Shielded' BY <1>9, <1>10, DispatchRest
<1>12. QED BY <1>1, <1>2, <1>4, <1>5, <1>6, <1>7, <1>11 DEF IInv

\* The question for properties is dispatched and answered.
LEMMA DispatchGetAll ==
  ASSUME IInv, batch # << >>, Head(batch).kind = "getall", batch' = Tail(batch),
         rout' = Append(rout, Of(Head(batch).thread, "return", Head(batch).n)),
         UNCHANGED << mode, senderVars, answer, wire, busVars, rpc, rbox, k, quit,
                      processed, counter, handled >>
  PROVE  IInv'
<1> USE DEF busVars, senderVars
<1>1. PICK m \in Requests : m = Head(batch) /\ Request(m) /\ m.kind = "getall" BY BatchHead
<1>2. m.thread \in Threads /\ m.thread # Bus /\ m.n \in 0..Msgs
  BY MessageFields DEF Message
<1>3. PICK a \in Replies : /\ a = Of(m.thread, "return", m.n) /\ a.kind = "return"
                           /\ a.thread = m.thread /\ a.n = m.n
  BY <1>2, MakeMessages
<1>4. rout' = Append(rout, a) BY <1>1, <1>3
<1>5. mode.kind = "call" /\ m.n = 0 /\ Reply(a)
  <2>1. mode.kind # "getall" BY ModeFields DEF IInv, TypeOK, StateOK
  <2>2. m.n = 0 /\ mode.kind = "call" /\ Pending(m) BY <1>1, <1>2, <2>1 DEF Request
  <2>3. Pending(a) BY <1>3, <2>2 DEF Pending
  <2>4. QED BY <1>3, <2>2, <2>3 DEF Reply
<1>6. rout \in Seq(Replies \cup Notes) /\ a \in Replies \cup Notes
  BY DEF IInv, TypeOK, StateOK
<1>7. Elems(rout') = Elems(rout) \cup {a} /\ rout' \in Seq(Replies \cup Notes)
  BY <1>4, <1>6, AppendElems
<1>8. TypeOK' BY <1>7, BatchHead DEF IInv, TypeOK, StateOK
<1>9. Ordered' BY <1>1, <1>3, <1>4, DispatchOrder
<1>10. Elems(batch') \subseteq Elems(batch) BY BatchHead
<1>11. Requested'
  <2>1. \A x : (Reply(x) => Reply(x)') /\ (Request(x) => Request(x)')
    BY DEF Reply, Request, Pending
  <2>2. QED BY <1>5, <1>7, <1>10, <2>1 DEF IInv, Requested
<1>12. Sending' BY SendingFrame DEF IInv
<1>13. Counting' BY CountingFrame DEF IInv
<1>14. Unharmed' BY UnharmedFrame DEF IInv
<1>15. (mode.receiver = "dbus" => ~quit') /\ (rpc = "setup" => quit')
  BY <1>1, BatchHead DEF IInv, Looping
<1>16. Done => Done' BY DEF Done
<1>17. Named' /\ Released' /\ Looping' /\ Shielded'
  BY <1>3, <1>4, <1>6, <1>15, <1>16, DispatchRest
<1>18. QED BY <1>8, <1>9, <1>11, <1>12, <1>13, <1>14, <1>17 DEF IInv

\* The message that is handled was not handled before, and is counted.
LEMMA ReactCounts ==
  ASSUME IInv, batch # << >>, Head(batch).kind = mode.kind, React(Head(batch)),
         UNCHANGED << mode, rpc, k >>
  PROVE  LET m == Head(batch)
         IN  /\ m \in Requests /\ m.n \in 1..Msgs
             /\ << m.thread, m.n >> \in All \ handled
             /\ handled' = handled \cup {<< m.thread, m.n >>}
             /\ IsFiniteSet(handled')
             /\ Cardinality(handled') = Cardinality(handled) + 1
             /\ Cardinality(handled') \in 0..Total
             /\ counter' = counter - 1 /\ counter > 0
             /\ processed' = processed + 1
             /\ rpc = "setup" => Exposed
             /\ Counting'
<1> DEFINE m == Head(batch)
<1>1. m \in Requests /\ Request(m) /\ m.kind \in {"call", "signal"}
  BY BatchHead, ModeFields DEF IInv, TypeOK, StateOK
<1>2. m.thread \in Threads /\ m.thread # Bus /\ m.n \in 0..Msgs
  BY <1>1, MessageFields DEF Message
<1>3. m.n \in 1..Msgs
  <2>1. m.n # 0 BY <1>1, <1>2 DEF Request
  <2>2. QED BY <1>2, <2>1, SendReceiveAssumption
<1>4. << m.thread, m.n >> \in All \ handled
  <2>1. ~(m.n < m.n) BY <1>3
  <2>2. << m.thread, m.n >> \notin handled BY <1>1, <1>2, <1>3, <2>1 DEF Request
  <2>3. QED BY <1>2, <1>3, <2>2 DEF All
<1>5. handled' = handled \cup {<< m.thread, m.n >>} BY DEF React
<1>6. handled \subseteq All /\ handled' \subseteq All
  BY <1>4, <1>5 DEF IInv, TypeOK, StateOK
<1>7. /\ Cardinality(handled') = Cardinality(handled) + 1
      /\ Cardinality(handled') \in 0..Total /\ IsFiniteSet(handled')
      /\ Cardinality(handled) \in 0..Total /\ Total \in Nat
  BY <1>4, <1>5, <1>6, SomeCounted, AllCounted
<1>8. counter = Total - Cardinality(handled) /\ counter > 0
  BY <1>7 DEF IInv, Counting
<1>9. counter' = counter - 1 BY <1>8 DEF React
<1>10. processed' = processed + 1
  <2>1. mode.receiver = "dbus" => processed = 0 BY BatchHead
  <2>2. CASE mode.receiver = "dbus" BY <2>1, <2>2 DEF React
  <2>3. CASE mode.receiver # "dbus" BY <2>3 DEF React
  <2>4. QED BY <2>2, <2>3
<1>11. rpc = "setup" => Exposed
  <2> SUFFICES ASSUME rpc = "setup", ~Exposed PROVE FALSE OBVIOUS
  <2>1. mode.receiver = "gdbus" BY BatchHead
  <2>2. m \in Elems(batch) BY BatchHead
  <2>3. m.n = 0 BY <2>1, <2>2 DEF IInv, Shielded
  <2>4. QED BY <1>3, <2>3
<1>12. Counting'
  <2>1. Exposed' <=> Exposed BY DEF Exposed
  <2>2. rpc \in {"setup", "dispatch"} BY BatchHead
  <2>3. counter' = Total - Cardinality(handled') BY <1>7, <1>8, <1>9
  <2>4. processed \in Nat /\ k \in Nat /\ processed <= Cardinality(handled)
    BY <1>7 DEF IInv, TypeOK, Counting
  <2>5. Counted <= Cardinality(handled) /\ (~Exposed => Counted = Cardinality(handled))
    BY DEF IInv, Counting
  <2>6. CASE rpc = "setup"
    <3>1. Counted' = Counted /\ k = Total
      BY <2>6 DEF Counted, IInv, Counting
    <3>2. Counted = 0 BY <1>7, <2>6, <3>1 DEF Counted
    <3>3. QED BY <1>7, <1>10, <1>11, <2>1, <2>3, <2>4, <2>6, <3>1, <3>2 DEF Counting
  <2>7. CASE rpc = "dispatch"
    <3>1. Counted' = Counted + 1
      BY <1>7, <1>10, <2>4, <2>7 DEF Counted
    <3>2. Counted \in Int BY <1>7, <2>4, <2>7 DEF Counted
    <3>3. Counted' <= Cardinality(handled') /\ (~Exposed => Counted' = Cardinality(handled'))
      BY <1>7, <2>5, <3>1, <3>2
    <3>4. processed' <= Cardinality(handled') BY <1>7, <1>10, <2>4
    <3>5. QED BY <2>1, <2>3, <2>7, <3>3, <3>4 DEF Counting
  <2>8. QED BY <2>2, <2>6, <2>7
<1>13. QED BY <1>1, <1>3, <1>4, <1>5, <1>7, <1>8, <1>9, <1>10, <1>11, <1>12

\* What the handler sends.
LEMMA ReactAnswers ==
  ASSUME IInv, batch # << >>, Head(batch).kind = mode.kind, React(Head(batch)),
         UNCHANGED << mode, rpc, k >>
  PROVE  LET m == Head(batch)
         IN  \/ mode.kind = "signal" /\ rout' = rout
             \/ /\ mode.kind = "call"
                /\ \E a \in Replies : /\ a.thread = m.thread /\ a.n = m.n /\ a.kind = "return"
                                      /\ rout' = Append(rout, a)
             \/ /\ mode.kind = "signal" /\ Done'
                /\ \E a \in Notes : a.kind = "RemoveMatch" /\ rout' = Append(rout, a)
<1> DEFINE m == Head(batch)
<1>1. m \in Requests /\ m.thread \in Threads /\ m.n \in 0..Msgs
  BY ReactCounts, MessageFields DEF Message
<1>2. m.kind = mode.kind /\ mode.kind \in {"call", "signal"}
  BY ModeFields DEF IInv, TypeOK, StateOK
<1>3. rout \in Seq(Message) /\ rout' = rout \o AnswerTo(m)
  BY InMessage DEF IInv, TypeOK, React
<1>4. \A s \in Seq(Message) : \A a : s \o << a >> = Append(s, a) /\ s \o << >> = s
  OBVIOUS
<1>5. CASE mode.kind = "call"
  <2>1. AnswerTo(m) = << Of(m.thread, "return", m.n) >> BY <1>2, <1>5 DEF AnswerTo
  <2>2. rout' = Append(rout, Of(m.thread, "return", m.n)) BY <1>3, <1>4, <2>1
  <2>3. QED BY <1>1, <1>5, <2>2, MakeMessages
<1>6. CASE mode.kind = "signal" /\ mode.receiver = "gdbus" /\ counter <= 1
  <2>1. AnswerTo(m) = << Note("RemoveMatch") >> BY <1>2, <1>6 DEF AnswerTo
  <2>2. rout' = Append(rout, Note("RemoveMatch")) BY <1>3, <1>4, <2>1
  <2>3. Done'
    <3>1. counter = Total - Cardinality(handled) /\ handled \subseteq All
      BY DEF IInv, Counting, TypeOK, StateOK
    <3>2. Cardinality(handled) \in 0..Total /\ Total \in Nat
      BY <3>1, SomeCounted, AllCounted
    <3>3. Cardinality(handled') = Total BY <1>6, <3>1, <3>2, ReactCounts
    <3>4. handled' \subseteq All BY <3>1, ReactCounts
    <3>5. QED BY <3>3, <3>4, SomeCounted DEF Done
  <2>4. QED BY <1>6, <2>2, <2>3, MakeMessages
<1>7. CASE mode.kind = "signal" /\ ~(mode.receiver = "gdbus" /\ counter <= 1)
  <2>1. AnswerTo(m) = << >> BY <1>2, <1>7 DEF AnswerTo
  <2>2. QED BY <1>3, <1>4, <1>7, <2>1
<1>8. QED BY <1>2, <1>5, <1>6, <1>7

\* A message is given to the Reaction.
LEMMA DispatchReact ==
  ASSUME IInv, batch # << >>, Head(batch).kind = mode.kind, batch' = Tail(batch),
         React(Head(batch)),
         UNCHANGED << mode, senderVars, answer, wire, busVars, rpc, rbox, k >>
  PROVE  IInv'
<1> USE DEF busVars, senderVars
<1>1. PICK m \in Requests : /\ m = Head(batch) /\ Request(m) /\ m.n \in 1..Msgs
                            /\ << m.thread, m.n >> \in All \ handled
                            /\ handled' = handled \cup {<< m.thread, m.n >>}
                            /\ m.thread \in Threads /\ m.thread # Bus
  BY BatchHead, ReactCounts, MessageFields DEF Message
<1>2. rout \in Seq(Message) /\ rout \in Seq(Replies \cup Notes)
  BY InMessage DEF IInv, TypeOK, StateOK
<1>3. ~Done /\ (Done => Done') BY <1>1 DEF Done
<1>4. \/ rout' = rout
      \/ \E a \in Notes : a.kind = "RemoveMatch" /\ Done' /\ rout' = Append(rout, a)
      \/ /\ mode.kind = "call"
         /\ \E a \in Replies : /\ a.thread = m.thread /\ a.n = m.n /\ a.kind = "return"
                               /\ rout' = Append(rout, a)
  BY <1>1, ReactAnswers
<1>5. Ordered' BY <1>1, <1>4, DispatchOrder
<1>6. /\ rout' \in Seq(Replies \cup Notes)
      /\ \A x \in Elems(rout') : \/ x \in Elems(rout)
                                 \/ x.thread = Bus
                                 \/ /\ mode.kind = "call" /\ x.thread = m.thread
                                    /\ x.n = m.n
  <2>1. CASE rout' = rout BY <1>2, <2>1
  <2>2. ASSUME NEW a \in Notes, rout' = Append(rout, a) PROVE <1>6
    BY <1>2, <2>2, AppendElems, MessageFields DEF Message
  <2>3. ASSUME NEW a \in Replies, a.thread = m.thread, a.n = m.n, mode.kind = "call",
               rout' = Append(rout, a)
        PROVE  <1>6
    BY <1>2, <2>3, AppendElems DEF Message
  <2>4. QED BY <1>4, <2>1, <2>2, <2>3
<1>7. TypeOK'
  <2>1. counter' \in 0..Total /\ processed' \in 0..Total
    <3>1. counter \in 0..Total /\ processed \in 0..Total /\ Total \in Nat
      BY AllCounted DEF IInv, TypeOK, StateOK
    <3>2. /\ counter > 0 /\ counter' = counter - 1 /\ processed' = processed + 1
          /\ Cardinality(handled') \in 0..Total
      BY ReactCounts
    <3>3. processed' <= Cardinality(handled') BY ReactCounts DEF Counting
    <3>4. QED BY <3>1, <3>2, <3>3
  <2>2. quit' \in BOOLEAN BY DEF React, IInv, TypeOK, StateOK
  <2>3. handled' \subseteq All BY <1>1 DEF IInv, TypeOK, StateOK
  <2>4. QED BY <1>6, <2>1, <2>2, <2>3, BatchHead DEF IInv, TypeOK, StateOK
<1>8. Requested'
  <2>1. \A x : Reply(x) => Reply(x)' BY <1>1 DEF Reply, Pending
  <2>2. ASSUME NEW x, Request(x),
               m.thread = x.thread /\ x.thread # Bus => m.n < x.n
        PROVE  Request(x)'
    <3> SUFFICES ASSUME x.thread # Bus, NEW n \in 1..Msgs, << x.thread, n >> \in handled'
                 PROVE  n < x.n
      BY <2>2 DEF Request, Pending
    <3>1. CASE << x.thread, n >> \in handled BY <2>2, <3>1 DEF Request
    <3>2. CASE << x.thread, n >> = << m.thread, m.n >>
      <4>1. x.thread = m.thread /\ n = m.n BY <3>2
      <4>2. QED BY <2>2, <4>1
    <3>3. QED BY <1>1, <3>1, <3>2
  <2>3. \A x \in Elems(rout') : Reply(x)'
    <3>1. ASSUME NEW x, mode.kind = "call", x.thread = m.thread, x.n = m.n
          PROVE  Reply(x)'
      <4>1. Pending(m) BY <1>1 DEF Request
      <4>2. Pending(x)' BY <3>1, <4>1 DEF Pending
      <4>3. QED BY <1>1, <3>1, <4>2 DEF Reply
    <3>2. \A x : x.thread = Bus => Reply(x)' BY DEF Reply
    <3>3. QED BY <1>6, <2>1, <3>1, <3>2 DEF IInv, Requested
  <2>4. \A x \in Elems(batch') : Request(x)'
    BY <1>1, <2>2, BatchHead DEF IInv, Requested, After
  <2>5. \A x \in Elems(rbox) : Request(x)'
    BY <1>1, <2>2, BatchHead DEF IInv, Requested, After
  <2>6. \A t \in Threads : \A x \in Elems(wire[t]) : x.thread = t /\ Request(x)'
    BY <1>1, <2>2, BatchHead DEF IInv, Requested, After
  <2>7. QED BY <2>3, <2>4, <2>5, <2>6 DEF Requested
<1>9. Sending'
  <2>1. m.n <= sent[m.thread] BY <1>1 DEF Request
  <2>2. ASSUME NEW t \in Threads, NEW n \in 1..Msgs, << t, n >> \in handled'
        PROVE  n <= sent[t]
    <3>1. CASE << t, n >> \in handled BY <3>1 DEF IInv, Sending
    <3>2. CASE << t, n >> = << m.thread, m.n >> BY <2>1, <3>2
    <3>3. QED BY <1>1, <2>2, <3>1, <3>2
  <2>3. QED BY <1>1, <2>2 DEF IInv, Sending
<1>10. Unharmed' BY UnharmedFrame DEF IInv
<1>11. /\ mode.receiver = "dbus" => ~quit'
       /\ rpc = "setup" => quit'
  <2>1. mode.receiver = "dbus" => ~quit BY BatchHead
  <2>2. rpc = "setup" => quit
    <3>1. m.kind # "acquired" BY <1>1, ModeFields DEF IInv, TypeOK, StateOK
    <3>2. QED BY <1>1, <3>1, BatchHead DEF IInv, Looping
  <2>3. QED BY <2>1, <2>2 DEF React
<1>12. Named' /\ Released' /\ Looping' /\ Shielded'
  <2>1. \/ rout' = rout
        \/ \E a \in Replies \cup Notes : /\ rout' = Append(rout, a)
                                         /\ a.kind \in {"return", "RemoveMatch"}
                                         /\ a.kind = "RemoveMatch" => Done'
    BY <1>4
  <2>2. QED BY <1>3, <1>11, <2>1, DispatchRest
<1>13. Counting' BY ReactCounts
<1>14. QED BY <1>5, <1>7, <1>8, <1>9, <1>10, <1>12, <1>13 DEF IInv

\* One source of a batch is dispatched.
LEMMA DispatchKeeps == IInv /\ Dispatch => IInv'
<1> SUFFICES ASSUME IInv, Dispatch PROVE IInv' OBVIOUS
<1>1. batch # << >> /\ batch' = Tail(batch) BY DEF Dispatch
<1>2. UNCHANGED << mode, senderVars, answer, wire, busVars, rpc, rbox, k >> BY DEF Dispatch
<1>3. CASE /\ Head(batch).kind = "acquired"
           /\ quit' = (quit \/ mode.receiver = "gdbus")
           /\ UNCHANGED << rout, processed, counter, handled >>
  BY <1>1, <1>2, <1>3, DispatchAcquired
<1>4. CASE /\ Head(batch).kind = "getall"
           /\ rout' = Append(rout, Of(Head(batch).thread, "return", Head(batch).n))
           /\ UNCHANGED << quit, processed, counter, handled >>
  BY <1>1, <1>2, <1>4, DispatchGetAll
<1>5. CASE Head(batch).kind = mode.kind /\ React(Head(batch))
  BY <1>1, <1>2, <1>5, DispatchReact
<1>6. QED BY <1>3, <1>4, <1>5 DEF Dispatch

-----------------------------------------------------------------------------
(* The bus.                                                                *)

\* While a thread has a message on its way to the Reaction, the sender has started,
\* the receiver has its name and something is left to handle.
LEMMA NothingRefused ==
  ASSUME IInv, NEW m \in Requests, Request(m)
  PROVE  /\ owner /\ ~Done
         /\ mode.kind = "signal" => matched
         /\ m.kind # "signal" => mode.kind = "call"
         /\ m.kind = "signal" => mode.kind = "signal"
         /\ m.kind \notin {"acquired", "released"}
<1>1. m.thread \in Threads /\ m.thread # Bus /\ m.n \in 0..Msgs
  BY MessageFields DEF Message
<1>2. ~Done BY DoneSilent
<1>3. thr[m.thread] # "off"
  <2> SUFFICES ASSUME thr[m.thread] = "off" PROVE FALSE OBVIOUS
  <2>1. sent[m.thread] = 0 BY <1>1 DEF IInv, Sending
  <2>2. m.n = 0 /\ mode.kind = "call" BY <1>1, <2>1, SendReceiveAssumption DEF Request
  <2>3. thr[m.thread] = "getall" BY <1>1, <2>2 DEF Request, Pending
  <2>4. QED BY <2>3
<1>4. spc \in {"run", "exited"} BY <1>1, <1>3 DEF IInv, Sending, TypeOK, StateOK
<1>5. owner BY <1>2, <1>4 DEF IInv, Named, Released
<1>6. mode.kind = "signal" => matched BY <1>2, <1>5 DEF IInv, Named
<1>7. /\ m.kind # "signal" => mode.kind = "call"
      /\ m.kind = "signal" => mode.kind = "signal"
  BY <1>1, ModeFields DEF Request, IInv, TypeOK, StateOK
<1>8. m.kind \notin {"acquired", "released"} BY DEF Requests
<1>9. QED BY <1>2, <1>5, <1>6, <1>7, <1>8

\* The bus forwards a message of a thread to the Receiver.
LEMMA BusForwardKeeps == \A t \in Threads : IInv /\ BusForward(t) => IInv'
<1> SUFFICES ASSUME NEW t \in Threads, IInv, BusForward(t) PROVE IInv' OBVIOUS
<1> USE DEF busVars, senderVars
<1>1. StateOK /\ wire[t] # << >> /\ wire[t] \in Seq(Message) /\ wire[t] \in Seq(Requests)
      /\ rbox \in Seq(Message) /\ rbox \in Seq(Requests \cup Notes)
  BY InMessage DEF BusForward, IInv, TypeOK, StateOK
<1>2. PICK m \in Requests : /\ m = Head(wire[t]) /\ m \in Elems(wire[t])
                            /\ Request(m) /\ m.thread = t
  BY <1>1, TailElems DEF IInv, Requested
<1>3. t # Bus /\ m \in Message /\ m \in Requests \cup Notes
  BY SendReceiveAssumption DEF Message
<1>4. /\ owner /\ ~Done
      /\ mode.kind = "signal" => matched
      /\ m.kind # "signal" => mode.kind = "call"
      /\ m.kind = "signal" => mode.kind = "signal"
      /\ m.kind \notin {"acquired", "released"}
  BY <1>2, NothingRefused
<1>5. /\ rbox' = Append(rbox, m) /\ wire' = [wire EXCEPT ![t] = Tail(@)]
      /\ UNCHANGED << mode, senderVars, answer, busVars, rpc, rout, batch, quit, k,
                      processed, counter, handled >>
  BY <1>2, <1>4 DEF BusForward
<1>6. /\ wire'[t] = Tail(wire[t]) /\ \A u \in Threads \ {t} : wire'[u] = wire[u]
      /\ Tail(wire[t]) \in Seq(Requests) /\ Elems(Tail(wire[t])) \subseteq Elems(wire[t])
  BY <1>1, <1>5, TailElems DEF StateOK
<1>7. \A u \in Threads : Elems(wire'[u]) \subseteq Elems(wire[u]) BY <1>6
<1>8. /\ Elems(rbox') = Elems(rbox) \cup {m} /\ rbox' \in Seq(Requests \cup Notes)
      /\ rbox' # << >> /\ (rbox # << >> => rbox'[1] = rbox[1])
  <2>1. rbox # << >> => 1 \in 1..Len(rbox) BY <1>1, EmptySeq, LenProperties
  <2>2. QED BY <1>1, <1>3, <1>5, <2>1, AppendElems
<1>9. TypeOK'
  <2>1. wire' \in [Threads -> Seq(Requests)] BY <1>1, <1>5, <1>6 DEF StateOK
  <2>2. QED BY <1>5, <1>8, <2>1 DEF IInv, TypeOK, StateOK
<1>10. Ordered'
  <2>1. Sorted(rbox')
    <3>1. \A a \in Elems(rbox) : a.thread = m.thread /\ a.thread # Bus => a.n < m.n
      BY <1>2 DEF IInv, Ordered, Before
    <3>2. QED BY <1>1, <1>3, <1>5, <3>1, AppendSorted DEF IInv, Ordered
  <2>2. Before(rout, rbox') /\ Before(batch, rbox')
    BY <1>2, <1>8 DEF IInv, Ordered, Before
  <2>3. ASSUME NEW u \in Threads
        PROVE  /\ Sorted(wire'[u]) /\ Before(rout, wire'[u]) /\ Before(batch, wire'[u])
               /\ Before(rbox', wire'[u])
    <3>1. Before(rout, wire'[u]) /\ Before(batch, wire'[u]) /\ Before(rbox, wire'[u])
      BY <1>7 DEF IInv, Ordered, Before
    <3>2. CASE u = t
      <4>1. Sorted(Tail(wire[t])) /\ After(m, Tail(wire[t]))
        BY <1>1, <1>2, TailSorted DEF IInv, Ordered, After
      <4>2. QED BY <1>6, <1>8, <3>1, <3>2, <4>1 DEF Before, After
    <3>3. CASE u # t
      <4>1. \A b \in Elems(wire[u]) : b.thread # m.thread BY <1>2, <3>3 DEF IInv, Requested
      <4>2. QED BY <1>6, <1>8, <3>1, <3>3, <4>1 DEF Before, IInv, Ordered
    <3>4. QED BY <3>2, <3>3
  <2>4. QED BY <1>5, <2>1, <2>2, <2>3 DEF IInv, Ordered
<1>11. Requested'
  <2>1. \A x : (Reply(x) => Reply(x)') /\ (Request(x) => Request(x)')
    BY <1>5 DEF Reply, Request, Pending
  <2>2. QED BY <1>2, <1>5, <1>7, <1>8, <2>1 DEF IInv, Requested
<1>12. Sending' BY <1>5, SendingFrame DEF IInv
<1>13. Named' BY <1>4, <1>5 DEF IInv, Named, Done
<1>14. Released' BY <1>4, <1>5, <1>8 DEF IInv, Released, Done
<1>15. Looping' BY <1>4, <1>5, <1>8 DEF IInv, Looping
<1>16. Counting' BY <1>5, CountingFrame DEF IInv
<1>17. Shielded' BY <1>5, ShieldedFrame DEF IInv
<1>18. Unharmed' BY <1>5, UnharmedFrame DEF IInv
<1>19. QED
  BY <1>9, <1>10, <1>11, <1>12, <1>13, <1>14, <1>15, <1>16, <1>17, <1>18 DEF IInv

\* The first message of the receiver's output leaves it, and a note may come back.
LEMMA ServeOrder ==
  ASSUME IInv, rout # << >>, rout' = Tail(rout), UNCHANGED << batch, wire >>,
         rbox' = rbox \/ \E a \in Notes : rbox' = Append(rbox, a)
  PROVE  /\ Ordered'
         /\ Elems(rout') \subseteq Elems(rout) /\ rout' \in Seq(Replies \cup Notes)
         /\ Len(rout') = Len(rout) - 1
         /\ \A i \in 1..Len(rout') : i + 1 \in 1..Len(rout) /\ rout'[i] = rout[i + 1]
<1>1. /\ StateOK /\ rout \in Seq(Message) /\ rout \in Seq(Replies \cup Notes)
      /\ rbox \in Seq(Message)
  BY InMessage DEF IInv, TypeOK, StateOK
<1>2. /\ Elems(rout') \subseteq Elems(rout) /\ rout' \in Seq(Replies \cup Notes)
      /\ Len(rout') = Len(rout) - 1
      /\ \A i \in 1..Len(rout') : rout'[i] = rout[i + 1]
  BY <1>1, TailElems
<1>3. \A i \in 1..Len(rout') : i + 1 \in 1..Len(rout) BY <1>1, <1>2, LenProperties
<1>4. Sorted(rout') BY <1>1, TailSorted DEF IInv, Ordered
<1>5. /\ Sorted(rbox')
      /\ \A r : Before(rbox, r) => Before(rbox', r)
      /\ \A r : Before(r, rbox) => Before(r, rbox')
  BY <1>1, NoteAppended DEF IInv, Ordered
<1>6. \A s : Before(rout, s) => Before(rout', s) BY <1>2 DEF Before
<1>7. Ordered' BY <1>4, <1>5, <1>6 DEF IInv, Ordered
<1>8. QED BY <1>2, <1>3, <1>7

\* What serving a message of the receiver leaves as it is.
LEMMA ServeRequested ==
  ASSUME IInv, rout # << >>, rout' = Tail(rout),
         UNCHANGED << mode, thr, sent, answer, handled, batch, wire >>,
         rbox' = rbox \/ \E a \in Notes : rbox' = Append(rbox, a)
  PROVE  Requested'
<1>1. \A x : (Reply(x) => Reply(x)') /\ (Request(x) => Request(x)')
  BY DEF Reply, Request, Pending
<1>2. Elems(rout') \subseteq Elems(rout) BY ServeOrder
<1>3. \A x \in Elems(rbox') : x \in Elems(rbox) \/ x.thread = Bus
  <2>1. rbox \in Seq(Message) BY InMessage DEF IInv, TypeOK
  <2>2. ASSUME NEW a \in Notes PROVE Elems(Append(rbox, a)) = Elems(rbox) \cup {a}
    BY <2>1, AppendElems DEF Message
  <2>3. \A a \in Notes : a.thread = Bus BY MessageFields
  <2>4. QED BY <2>2, <2>3
<1>4. \A x : x.thread = Bus => Request(x) BY DEF Request
<1>5. QED BY <1>1, <1>2, <1>3, <1>4 DEF IInv, Requested

\* The notes of the receiver: what the bus does for them changes its own state.
LEMMA ServeNote ==
  ASSUME IInv, rout # << >>, rout' = Tail(rout), Head(rout).kind # "return",
         rbox' = rbox \/ \E a \in Notes : rbox' = Append(rbox, a),
         owner' \in BOOLEAN, matched' \in BOOLEAN, news' \in Nat,
         UNCHANGED << mode, spc, watching, thr, sent, answer, wire, dropped, rpc, batch,
                      quit, k, processed, counter, handled >>,
         Named', Released', Looping'
  PROVE  IInv'
<1>1. Ordered' /\ rout' \in Seq(Replies \cup Notes) /\ Elems(rout') \subseteq Elems(rout)
  BY ServeOrder
<1>2. rbox' \in Seq(Requests \cup Notes)
  <2>1. rbox \in Seq(Requests \cup Notes) BY DEF IInv, TypeOK, StateOK
  <2>2. \A a \in Notes : Append(rbox, a) \in Seq(Requests \cup Notes)
    BY <2>1, AppendElems
  <2>3. QED BY <2>1, <2>2
<1>3. TypeOK' BY <1>1, <1>2 DEF IInv, TypeOK, StateOK
<1>4. Requested' BY ServeRequested
<1>5. Sending' BY SendingFrame DEF IInv
<1>6. Counting' BY CountingFrame DEF IInv
<1>7. Unharmed' BY UnharmedFrame DEF IInv
<1>8. Shielded' BY <1>1 DEF IInv, Shielded, Exposed
<1>9. QED BY <1>1, <1>3, <1>4, <1>5, <1>6, <1>7, <1>8 DEF IInv

\* Where the receiver is when a message of it is the first in its output.
LEMMA ServeHead ==
  ASSUME IInv, rout # << >>
  PROVE  LET m == Head(rout)
         IN  /\ m \in Elems(rout) /\ m \in Replies \cup Notes /\ Reply(m)
             /\ rpc # "start"
             /\ m.kind \in {"AddMatch", "RequestName"} => rpc = "setup" /\ ~owner
             /\ m.kind \notin {"AddMatch", "RequestName"} => rpc # "setup" \/ owner
             /\ m.kind = "ReleaseName" => rpc = "release" /\ Tail(rout) = << >> /\ owner
             /\ m.kind # "ReleaseName" /\ rpc = "release" =>
                  /\ owner /\ Tail(rout) # << >>
                  /\ Tail(rout)[Len(Tail(rout))].kind = "ReleaseName"
             /\ rpc \in {"release", "exited"} => rpc = "release" /\ owner
<1> DEFINE m == Head(rout)
<1>1. /\ StateOK /\ rout \in Seq(Replies \cup Notes)
      /\ Named /\ Released
  BY DEF IInv, TypeOK, StateOK
<1>2. /\ m \in Elems(rout) /\ m = rout[1] /\ m \in Replies \cup Notes
      /\ Len(Tail(rout)) = Len(rout) - 1
      /\ \A i \in 1..Len(Tail(rout)) : Tail(rout)[i] = rout[i + 1]
      /\ Len(rout) \in Nat /\ Len(rout) > 0
  BY <1>1, TailElems, EmptySeq, LenProperties
<1>3. Reply(m) BY <1>2 DEF IInv, Requested
<1>4. rpc # "start" BY <1>1 DEF Named
<1>5. m.kind \in {"AddMatch", "RequestName"} => rpc = "setup" /\ ~owner
  BY <1>1, <1>2, <1>4 DEF Named, StateOK
<1>6. m.kind \notin {"AddMatch", "RequestName"} => rpc # "setup" \/ owner
  <2> SUFFICES ASSUME rpc = "setup", ~owner
               PROVE  m.kind \in {"AddMatch", "RequestName"}
    OBVIOUS
  <2>1. \/ rout = << Note("AddMatch"), Note("RequestName") >>
        \/ rout = << Note("RequestName") >>
    BY <1>1 DEF Named
  <2>2. m = Note("AddMatch") \/ m = Note("RequestName") BY <2>1
  <2>3. QED BY <2>2, MakeMessages
<1>7. rpc \in {"release", "exited"} => rpc = "release" /\ owner
  BY <1>1 DEF Released
<1>8. m.kind = "ReleaseName" => rpc = "release" /\ Tail(rout) = << >> /\ owner
  <2> SUFFICES ASSUME m.kind = "ReleaseName" PROVE rpc = "release" /\ Tail(rout) = << >>
    BY <1>7
  <2>1. rpc = "release" /\ Len(rout) = 1
    <3>1. \A i \in 1..Len(rout) : rout[i].kind = "ReleaseName" => rpc = "release" /\ i = Len(rout)
      BY <1>1 DEF Released
    <3>2. 1 \in 1..Len(rout) /\ rout[1].kind = "ReleaseName" BY <1>2
    <3>3. QED BY <3>1, <3>2
  <2>2. Len(Tail(rout)) = 0
    <3>1. Len(Tail(rout)) = Len(rout) - 1 BY <1>2
    <3>2. QED BY <2>1, <3>1
  <2>3. Tail(rout) \in Seq(Replies \cup Notes) BY <1>1, TailElems
  <2>4. QED BY <2>1, <2>2, <2>3, EmptySeq
<1>9. m.kind # "ReleaseName" /\ rpc = "release" =>
        /\ owner /\ Tail(rout) # << >>
        /\ Tail(rout)[Len(Tail(rout))].kind = "ReleaseName"
  <2> SUFFICES ASSUME m.kind # "ReleaseName", rpc = "release"
               PROVE  /\ Tail(rout) # << >>
                      /\ Tail(rout)[Len(Tail(rout))].kind = "ReleaseName"
    BY <1>7
  <2>1. rout[Len(rout)].kind = "ReleaseName" BY <1>1, <1>7 DEF Released
  <2>2. Len(rout) # 1 BY <1>2, <2>1
  <2>3. Len(Tail(rout)) > 0 /\ Len(Tail(rout)) \in 1..Len(Tail(rout)) BY <1>2, <2>2
  <2>4. Tail(rout)[Len(Tail(rout))] = rout[Len(rout)] BY <1>2, <2>3
  <2>5. Tail(rout) # << >> BY <2>3
  <2>6. QED BY <2>1, <2>4, <2>5
<1>10. QED BY <1>2, <1>3, <1>4, <1>5, <1>6, <1>7, <1>8, <1>9

\* Serving anything but the release of the name.
LEMMA ServeReleased ==
  ASSUME IInv, rout # << >>, rout' = Tail(rout), Head(rout).kind # "ReleaseName",
         owner' = owner \/ rpc = "setup", UNCHANGED << rpc, handled >>,
         rbox' = rbox \/ \E a \in Notes : a.kind = "acquired" /\ rbox' = Append(rbox, a)
  PROVE  Released'
<1>1. Released BY DEF IInv
<1>2. \A m \in Elems(rbox') : m \in Elems(rbox) \/ m.kind = "acquired"
  <2>1. rbox \in Seq(Message) BY InMessage DEF IInv, TypeOK
  <2>2. \A a \in Notes : Elems(Append(rbox, a)) = Elems(rbox) \cup {a}
    BY <2>1, AppendElems DEF Message
  <2>3. QED BY <2>2
<1>3. /\ Len(rout') = Len(rout) - 1 /\ Len(rout) \in Nat
      /\ \A i \in 1..Len(rout') : i + 1 \in 1..Len(rout) /\ rout'[i] = rout[i + 1]
  BY ServeOrder, LenProperties DEF IInv, TypeOK, StateOK
<1>4. \A i \in 1..Len(rout') : rout'[i].kind = "ReleaseName" =>
                                 rpc = "release" /\ i = Len(rout')
  <2> SUFFICES ASSUME NEW i \in 1..Len(rout'), rout'[i].kind = "ReleaseName"
               PROVE  rpc = "release" /\ i = Len(rout')
    OBVIOUS
  <2>1. rpc = "release" /\ i + 1 = Len(rout)
    <3>1. i + 1 \in 1..Len(rout) /\ rout[i + 1].kind = "ReleaseName" BY <1>3
    <3>2. QED BY <1>1, <3>1 DEF Released
  <2>2. Len(rout') = Len(rout) - 1 /\ Len(rout) \in Nat BY <1>3
  <2>3. i = Len(rout') BY <2>1, <2>2
  <2>4. QED BY <2>1, <2>3
<1>5. /\ rpc \in {"release", "exited"} => rpc = "release" /\ owner' = owner /\ owner
      /\ rpc = "release" =>
           rout' # << >> /\ rout'[Len(rout')].kind = "ReleaseName"
  BY ServeHead
<1>6. \A m \in Elems(rbox') : m.kind # "released"
  <2>1. \A m \in Elems(rbox) : m.kind # "released" BY <1>1, <1>5 DEF Released
  <2>2. QED BY <1>2, <2>1
<1>7. rpc \in {"release", "exited"} => Done' BY <1>1 DEF Released, Done
<1>8. QED BY <1>4, <1>5, <1>6, <1>7 DEF Released

\* The bus adds the match for the signal.
LEMMA ServeAddMatch ==
  ASSUME IInv, BusServe, Head(rout).kind = "AddMatch"
  PROVE  IInv'
<1>1. /\ rout # << >> /\ rout' = Tail(rout) /\ matched' = TRUE
      /\ UNCHANGED << mode, spc, watching, thr, sent, answer, wire, dropped, rpc, batch,
                      quit, k, processed, counter, handled, owner, news, rbox >>
  BY DEF BusServe
<1>2. rpc = "setup" /\ ~owner BY <1>1, ServeHead
<1>3. rout = << Note("AddMatch"), Note("RequestName") >>
  <2>1. rout # << Note("RequestName") >> BY MakeMessages
  <2>2. QED BY <1>2, <2>1 DEF IInv, Named
<1>4. rout' = << Note("RequestName") >> BY <1>1, <1>3
<1>5. \A m \in Elems(rout') : m.kind = "RequestName" BY <1>4, ShortElems, MakeMessages
<1>6. Named' BY <1>1, <1>2, <1>4, <1>5 DEF IInv, Named, Done
<1>7. Released' BY <1>1, ServeReleased
<1>8. Looping' BY <1>1, LoopingFrame DEF IInv
<1>9. QED BY <1>1, <1>6, <1>7, <1>8, ServeNote DEF IInv, TypeOK, StateOK

\* The bus removes the match for the signal.
LEMMA ServeRemoveMatch ==
  ASSUME IInv, BusServe, Head(rout).kind = "RemoveMatch"
  PROVE  IInv'
<1>1. /\ rout # << >> /\ rout' = Tail(rout) /\ matched' = FALSE
      /\ UNCHANGED << mode, spc, watching, thr, sent, answer, wire, dropped, rpc, batch,
                      quit, k, processed, counter, handled, owner, news, rbox >>
  BY DEF BusServe
<1>2. rpc # "start" /\ (rpc # "setup" \/ owner) BY <1>1, ServeHead
<1>3. Done /\ Elems(rout') \subseteq Elems(rout)
  BY <1>1, ServeHead, ServeOrder DEF IInv, Named
<1>4. Named' BY <1>1, <1>2, <1>3 DEF IInv, Named, Done
<1>5. Released' BY <1>1, ServeReleased
<1>6. Looping' BY <1>1, LoopingFrame DEF IInv
<1>7. QED BY <1>1, <1>4, <1>5, <1>6, ServeNote DEF IInv, TypeOK, StateOK

\* The bus gives the name to the Receiver.
LEMMA ServeRequestName ==
  ASSUME IInv, BusServe, Head(rout).kind = "RequestName"
  PROVE  IInv'
<1> DEFINE acquired == Note("acquired")
<1>1. /\ rout # << >> /\ rout' = Tail(rout) /\ owner' = TRUE
      /\ news' = IF watching THEN news + 1 ELSE news
      /\ rbox' = Append(rbox, acquired)
      /\ UNCHANGED << mode, spc, watching, thr, sent, answer, wire, dropped, rpc, batch,
                      quit, k, processed, counter, handled, matched >>
  BY DEF BusServe
<1>2. rpc = "setup" /\ ~owner BY <1>1, ServeHead
<1>3. acquired \in Notes /\ acquired.kind = "acquired" BY MakeMessages
<1>4. rbox = << >> /\ batch = << >> /\ ~quit BY <1>2 DEF IInv, Named
<1>5. rout = << Note("RequestName") >> /\ (mode.kind = "signal" => matched)
  <2>1. Head(<< Note("AddMatch"), Note("RequestName") >>).kind = "AddMatch" BY MakeMessages
  <2>2. rout # << Note("AddMatch"), Note("RequestName") >> BY <2>1
  <2>3. QED BY <1>2, <2>2 DEF IInv, Named
<1>6. rout' = << >> BY <1>1, <1>5
<1>7. rbox' # << >> /\ rbox'[1] = acquired BY <1>1, <1>4
<1>8. Named' BY <1>1, <1>2, <1>5, <1>6, EmptyElems DEF IInv, Named, Done
<1>9. Released' BY <1>1, <1>2, <1>3, ServeReleased
<1>10. Looping' BY <1>1, <1>2, <1>3, <1>4, <1>7 DEF IInv, Looping
<1>11. news' \in Nat BY <1>1 DEF IInv, TypeOK, StateOK
<1>12. QED BY <1>1, <1>3, <1>8, <1>9, <1>10, <1>11, ServeNote DEF IInv, TypeOK, StateOK

\* The bus takes the name from the Receiver.
LEMMA ServeReleaseName ==
  ASSUME IInv, BusServe, Head(rout).kind = "ReleaseName"
  PROVE  IInv'
<1> DEFINE released == Note("released")
<1>1. /\ rout # << >> /\ rout' = Tail(rout) /\ owner' = FALSE
      /\ news' = IF watching THEN news + 1 ELSE news
      /\ rbox' = Append(rbox, released)
      /\ UNCHANGED << mode, spc, watching, thr, sent, answer, wire, dropped, rpc, batch,
                      quit, k, processed, counter, handled, matched >>
  BY DEF BusServe
<1>2. rpc = "release" /\ rout' = << >> BY <1>1, ServeHead
<1>3. released \in Notes /\ released.kind = "released" BY MakeMessages
<1>4. Done /\ Done' BY <1>1, <1>2 DEF IInv, Released, Done
<1>5. Elems(rout') = {} /\ Len(rout') = 0 BY <1>2, EmptyElems
<1>6. Named' BY <1>1, <1>2, <1>5 DEF IInv, Named
<1>7. Released'
  <2>1. 1..0 = {} OBVIOUS
  <2>2. QED BY <1>1, <1>2, <1>4, <1>5, <2>1 DEF IInv, Released
<1>8. Looping' BY <1>1, <1>2 DEF IInv, Looping
<1>9. news' \in Nat BY <1>1 DEF IInv, TypeOK, StateOK
<1>10. QED BY <1>1, <1>3, <1>6, <1>7, <1>8, <1>9, ServeNote DEF IInv, TypeOK, StateOK

\* The bus takes a reply to its thread, which waits for it; no other message of
\* the thread is on its way.
LEMMA ServeReturn ==
  ASSUME IInv, BusServe, Head(rout).kind = "return"
  PROVE  IInv'
<1>1. /\ rout # << >> /\ rout' = Tail(rout)
      /\ answer' = [answer EXCEPT ![Head(rout).thread] = IF Awaited(Head(rout)) THEN "ok" ELSE @]
      /\ UNCHANGED << mode, spc, watching, thr, sent, wire, dropped, rpc, batch,
                      quit, k, processed, counter, handled, owner, matched, news, rbox >>
  BY DEF BusServe
<1>2. PICK m \in Replies : /\ m = Head(rout) /\ Reply(m)
                           /\ m.thread \in Threads /\ m.thread # Bus /\ m.n \in 0..Msgs
  <2>1. Head(rout) \in Replies BY <1>1, ServeHead DEF Notes
  <2>2. QED BY <1>1, <2>1, ServeHead, MessageFields DEF Message
<1> DEFINE t == m.thread
<1>3. /\ StateOK /\ mode.kind = "call" /\ Awaited(m) /\ answer[t] = "none"
      /\ m.n = sent[t] /\ (m.n > 0 => << t, m.n >> \in handled)
      /\ thr[t] = IF m.n = 0 THEN "getall" ELSE "await"
  BY <1>2 DEF Reply, Pending, Awaited, IInv, TypeOK
<1>4. answer'[t] = "ok" /\ \A u \in Threads \ {t} : answer'[u] = answer[u]
  BY <1>1, <1>2, <1>3 DEF StateOK
<1>5. /\ Ordered' /\ rout' \in Seq(Replies \cup Notes) /\ Elems(rout') \subseteq Elems(rout)
  BY <1>1, ServeOrder
<1>6. TypeOK' BY <1>1, <1>2, <1>5 DEF IInv, TypeOK, StateOK
<1>7. Requested'
  <2>1. /\ After(m, rout') /\ After(m, batch) /\ After(m, rbox)
        /\ \A u \in Threads : After(m, wire[u])
    <3>1. rout \in Seq(Message) /\ m \in Elems(rout) /\ Ordered
      BY <1>1, <1>2, <1>3, InMessage, ServeHead DEF IInv
    <3>2. After(m, rout') BY <1>1, <1>2, <3>1, TailSorted DEF Ordered, After
    <3>3. QED BY <3>1, <3>2 DEF Ordered, Before, After
  <2>2. \A x : (Request(x) \/ Reply(x)) /\ x.thread = t => ~(m.n < x.n)
    <3> SUFFICES ASSUME NEW x, Request(x) \/ Reply(x), x.thread = t PROVE ~(m.n < x.n)
      OBVIOUS
    <3>1. x.n = sent[t] BY <1>2, <1>3 DEF Request, Reply, Pending
    <3>2. QED BY <1>2, <1>3, <3>1
  <2>3. \A x \in Message : (Request(x) \/ Reply(x)) /\ x.thread # t =>
                             (Request(x) => Request(x)') /\ (Reply(x) => Reply(x)')
    BY <1>1, <1>2, <1>3, <1>4, OtherThreads
  <2>4. \A s : After(m, s) => \A x \in Elems(s) : Request(x) \/ Reply(x) => x.thread # t
    BY <1>2, <2>2 DEF After
  <2>5. QED BY <1>1, <1>3, <1>5, <2>1, <2>3, <2>4, InMessage DEF IInv, Requested
<1>8. Sending'
  <2>1. t \in Threads /\ thr[t] \in {"getall", "await"} BY <1>2, <1>3
  <2>2. thr[t] = "await" => << t, sent[t] >> \in handled
    BY <1>2, <1>3 DEF IInv, Sending
  <2>3. QED BY <1>1, <1>4, <2>1, <2>2 DEF IInv, Sending
<1>9. rpc # "start" /\ (rpc # "setup" \/ owner) BY <1>1, <1>2, ServeHead
<1>10. Named' BY <1>1, <1>5, <1>9 DEF IInv, Named, Done
<1>11. Released' BY <1>1, ServeReleased
<1>12. Looping' BY <1>1, LoopingFrame DEF IInv
<1>13. Counting' BY <1>1, CountingFrame DEF IInv
<1>14. Shielded'
  <2> SUFFICES ASSUME ~Exposed, rpc \in {"start", "setup"}, mode.receiver = "gdbus"
               PROVE  /\ \A x \in Elems(batch) : x.n = 0
                      /\ quit
    BY <1>1 DEF Shielded, Exposed
  <2>1. m \in Elems(rout) BY <1>1, <1>2, ServeHead
  <2>2. QED BY <1>2, <2>1 DEF IInv, Shielded
<1>15. Unharmed' BY <1>1, <1>4 DEF IInv, Unharmed, NoCallRefused, NoSignalMissed
<1>16. QED
  BY <1>5, <1>6, <1>7, <1>8, <1>10, <1>11, <1>12, <1>13, <1>14, <1>15 DEF IInv

\* The bus serves a message of the Receiver.
LEMMA BusServeKeeps == IInv /\ BusServe => IInv'
<1> SUFFICES ASSUME IInv, BusServe PROVE IInv' OBVIOUS
<1>1. Head(rout).kind \in {"AddMatch", "RemoveMatch", "RequestName", "ReleaseName", "return"}
  BY DEF BusServe
<1>2. QED
  BY <1>1, ServeAddMatch, ServeRemoveMatch, ServeRequestName, ServeReleaseName, ServeReturn

-----------------------------------------------------------------------------
(* The invariant is inductive.                                             *)

\* The invariant holds initially.
LEMMA Initially == Init => IInv
<1> SUFFICES ASSUME Init PROVE IInv OBVIOUS
<1>1. Total \in Nat /\ Total = Cardinality(Threads) * Msgs /\ Cardinality({}) = 0
  BY AllCounted, FS_EmptySet DEF Total
<1>2. TypeOK
  <2>1. \A S : << >> \in Seq(S) OBVIOUS
  <2>2. k \in 0..Total /\ processed \in 0..Total /\ counter \in 0..Total BY <1>1 DEF Init
  <2>3. 0 \in 0..Msgs BY SendReceiveAssumption
  <2>4. QED BY <2>1, <2>2, <2>3 DEF Init, TypeOK, StateOK
<1>3. Unharmed BY DEF Init, Unharmed, NoCallRefused, NoSignalMissed
<1>4. /\ Elems(rout) = {} /\ Elems(batch) = {} /\ Elems(rbox) = {}
      /\ \A t \in Threads : Elems(wire[t]) = {} /\ wire[t] = << >>
  BY EmptyElems DEF Init
<1>5. Ordered BY <1>4, EmptyElems DEF Init, Ordered, Before
<1>6. Requested BY <1>4 DEF Requested
<1>7. Sending BY SendReceiveAssumption DEF Init, Sending
<1>8. Named BY <1>4 DEF Init, Named
<1>9. Released
  <2>1. Len(<< >>) = 0 /\ 1..0 = {} OBVIOUS
  <2>2. QED BY <1>4, <2>1 DEF Init, Released
<1>10. Looping
  <2>1. Len(<< >>) = 0 OBVIOUS
  <2>2. QED BY <2>1 DEF Init, Looping
<1>11. Counting BY <1>1 DEF Init, Counting, Counted
<1>12. Shielded BY <1>4 DEF Init, Shielded
<1>13. QED
  BY <1>2, <1>3, <1>5, <1>6, <1>7, <1>8, <1>9, <1>10, <1>11, <1>12 DEF IInv

\* A step that changes nothing keeps the invariant.
LEMMA Stutters == IInv /\ UNCHANGED vars => IInv'
<1> SUFFICES ASSUME IInv, UNCHANGED vars PROVE IInv' OBVIOUS
<1> USE DEF IInv, vars, senderVars, busVars, receiverVars
<1>1. TypeOK' BY DEF TypeOK, StateOK
<1>2. QED
  BY <1>1, UnharmedFrame, OrderedFrame, RequestedFrame, SendingFrame, NamedFrame,
     ReleasedFrame, LoopingFrame, CountingFrame, ShieldedFrame

\* Every step keeps the invariant.
LEMMA Inductive == IInv /\ [Next]_vars => IInv'
<1> SUFFICES ASSUME IInv, [Next]_vars PROVE IInv' OBVIOUS
<1>1. CASE SenderMain
  BY <1>1, AddWatchKeeps, CheckOwnerKeeps, DispatchNewsKeeps, NameAppearedKeeps,
     JoinThreadsKeeps DEF SenderMain
<1>2. ASSUME NEW t \in Threads, SenderThread(t) PROVE IInv'
  BY <1>2, PrepareKeeps, PreparedKeeps, SendKeeps, HandleReplyKeeps, ThreadDoneKeeps
     DEF SenderThread
<1>3. ASSUME NEW t \in Threads, BusForward(t) PROVE IInv'
  BY <1>3, BusForwardKeeps
<1>4. CASE BusServe BY <1>4, BusServeKeeps
<1>5. CASE ReceiverStep
  BY <1>5, ServiceSetupKeeps, NameGrantedKeeps, SetupReturnsKeeps, PollKeeps, DispatchKeeps,
     DispatchOnceKeeps, DispatchReturnsKeeps, ServiceTearDownKeeps, ReceiverExitsKeeps
     DEF ReceiverStep
<1>6. CASE UNCHANGED vars BY <1>6, Stutters
<1>7. QED BY <1>1, <1>2, <1>3, <1>4, <1>5, <1>6 DEF Next

\* The inductive invariant, for every set of threads, number of messages and
\* combination of implementations.
THEOREM Invariant == Spec => []IInv
BY Initially, Inductive, PTL DEF Spec

-----------------------------------------------------------------------------
(* What follows from it.                                                   *)

\* The variables have their types: the numbers stay within Total, in particular the
\* unsigned k of Receiver::operator() and the Counter of the Reaction.
THEOREM TypeCorrect == Spec => []TypeOK
<1>1. IInv => TypeOK BY DEF IInv
<1>2. QED BY <1>1, Invariant, PTL

\* SetupWaitForName and the order in Service::setup() and tearDown(): a call is never
\* sent while nobody has the name.
THEOREM CallsAccepted == Spec => []NoCallRefused
<1>1. IInv => NoCallRefused BY DEF IInv, Unharmed
<1>2. QED BY <1>1, Invariant, PTL

\* Service::setup() subscribes before it asks for the name: no signal is missed.
THEOREM SignalsSeen == Spec => []NoSignalMissed
<1>1. IInv => NoSignalMissed BY DEF IInv, Unharmed
<1>2. QED BY <1>1, Invariant, PTL

\* dispatchOnce() never reports more than what is left.
LEMMA NoneTooMany == IInv => NoUnderflow
<1> SUFFICES ASSUME IInv PROVE NoUnderflow
  OBVIOUS
<1>1. handled \subseteq All BY DEF IInv, TypeOK, StateOK
<1>2. Cardinality(handled) \in 0..Total /\ Total \in Nat BY <1>1, SomeCounted, AllCounted
<1>3. k \in 0..Total /\ processed \in 0..Total BY DEF IInv, TypeOK
<1>4. Counted <= Cardinality(handled) BY DEF IInv, Counting
<1>5. QED BY <1>2, <1>3, <1>4 DEF NoUnderflow, Counted

\* Receiver::operator(): dispatchOnce() never reports more than what is left.
THEOREM CountsDown == Spec => []NoUnderflow
BY NoneTooMany, Invariant, PTL

\* Service::tearDown() waits for the answer to the last thing it asks of the bus, so
\* that the replies before it have left the process when it ends.
THEOREM RepliesLeave == Spec => []NoReplyLost
<1>1. IInv => NoReplyLost BY DEF IInv, Released, NoReplyLost
<1>2. QED BY <1>1, Invariant, PTL

\* Receiver::operator() counts every message unless its setup() runs a main loop that
\* may dispatch some.
THEOREM Accounted == Spec => []AccountedUnlessExposed
<1>1. ASSUME IInv PROVE AccountedUnlessExposed
  <2> SUFFICES ASSUME ~Exposed, rpc = "loop" PROVE k + Cardinality(handled) = Total
    BY DEF AccountedUnlessExposed, AllAccounted
  <2>1. handled \subseteq All BY <1>1 DEF IInv, TypeOK, StateOK
  <2>2. Cardinality(handled) \in 0..Total /\ Total \in Nat BY <2>1, SomeCounted, AllCounted
  <2>3. k \in 0..Total BY <1>1 DEF IInv, TypeOK
  <2>4. Counted = Cardinality(handled) BY <1>1 DEF IInv, Counting
  <2>5. Counted = Total - k BY <2>2, <2>3 DEF Counted
  <2>6. QED BY <2>2, <2>3, <2>4, <2>5
<1>2. QED BY <1>1, Invariant, PTL

\* The catalogue's arithmetic: a thread has one call on its way, so that 16/Fds threads
\* never have more than 16 descriptors in messages.
THEOREM FdsBounded == Spec => []FdsWithinLimit
<1>1. ASSUME IInv PROVE FdsWithinLimit
  <2> SUFFICES ASSUME mode.kind = "call" PROVE Fds * Cardinality(InFlight) <= 16
    BY DEF FdsWithinLimit
  <2>1. ASSUME NEW c \in InFlight PROVE c \in All /\ c = << c[1], sent[c[1]] >>
    <3>1. PICK t \in Threads, n \in 1..Msgs : c = << t, n >> BY DEF InFlight, All
    <3> DEFINE m == Of(t, "call", n)
    <3>2. m.thread = t /\ m.n = n /\ t # Bus
      BY MakeMessages, SendReceiveAssumption DEF Of
    <3>3. m \in Elems(wire[t]) \/ m \in Elems(rbox) \/ m \in Elems(batch)
      BY <3>1 DEF InFlight, In, Elems
    <3>4. Request(m) BY <1>1, <3>3 DEF IInv, Requested
    <3>5. n = sent[t] BY <3>2, <3>4 DEF Request, Pending
    <3>6. QED BY <3>1, <3>5 DEF All
  <2> DEFINE f == [c \in InFlight |-> c[1]]
  <2>2. f \in [InFlight -> Threads] BY <2>1 DEF All
  <2>3. \A a, b \in InFlight : f[a] = f[b] => a = b BY <2>1
  <2>4. f \in Injection(InFlight, Threads) BY <2>2, <2>3 DEF Injection, IsInjective
  <2>5. IsFiniteSet(InFlight) /\ Cardinality(InFlight) <= Cardinality(Threads)
    BY <2>4, SendReceiveAssumption, FS_Injection
  <2>6. Cardinality(InFlight) \in Nat /\ Cardinality(Threads) \in Nat /\ Fds \in Nat
    BY <2>5, AllCounted, FS_CardinalityType, SendReceiveAssumption
  <2>7. Fds * Cardinality(InFlight) <= Fds * Cardinality(Threads) BY <2>5, <2>6
  <2>8. QED BY <2>6, <2>7, SendReceiveAssumption
<1>2. QED BY <1>1, Invariant, PTL
=============================================================================
