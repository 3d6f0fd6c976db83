----------------------------- MODULE SendReceive -----------------------------
(***************************************************************************)
(* The send/receive scenario (ScenarioSendReceive.h): a Sender process     *)
(* whose threads send method calls or signals, a Receiver process that     *)
(* handles them, and the bus between them, for each of the two             *)
(* implementations (ImplDbus.h, ImplGdbus.h) of either side.               *)
(*                                                                         *)
(* A connection is a FIFO to the bus and a FIFO from it.  The receiver's   *)
(* inbox holds what has reached its process and is not yet dispatched.     *)
(* libdbus dispatches one message per call.  A GLib main context           *)
(* dispatches, in one iteration, every source that was ready when the      *)
(* iteration began: a batch.                                               *)
(*                                                                         *)
(* External, modelled from how the code uses them: the bus (Bus...), the   *)
(* blocking round trips of libdbus, g_bus_own_name() and                   *)
(* g_bus_watch_name().                                                     *)
(***************************************************************************)
EXTENDS Naturals, Sequences, FiniteSets

CONSTANTS
  Threads,  \* the sending threads, TestSpec::threads()
  Msgs,     \* messages per thread, TestSpec::msgs()
  Fds,      \* file descriptors carried by each call, TestSpec::payload_size()
  Modes     \* the combinations of sender, receiver and kind of message

Impls == {"dbus", "gdbus"}
Kinds == {"call", "signal"}

\* Stands for the thread in messages that belong to none.
Bus == "bus"

\* The catalogue runs 16/Fds threads when calls carry descriptors.
ASSUME SendReceiveAssumption ==
  /\ IsFiniteSet(Threads) /\ Threads # {} /\ Bus \notin Threads
  /\ Msgs \in Nat \ {0}
  /\ Fds \in Nat /\ Fds * Cardinality(Threads) <= 16
  /\ Modes \subseteq [sender : Impls, receiver : Impls, kind : Kinds]

\* The messages of the test, by thread and number, and how many there are.
All == Threads \X (1..Msgs)
Total == Cardinality(Threads) * Msgs

\* A message, or the reply to it, belongs to a thread and has a number: 0 is the
\* question of a GDBus proxy for properties.
Of(t, kind, n) == [kind |-> kind, thread |-> t, n |-> n]
Note(kind)     == Of(Bus, kind, 0)

Requests == [kind : {"getall", "call", "signal"}, thread : Threads, n : 0..Msgs]
Replies  == [kind : {"return"}, thread : Threads, n : 0..Msgs]
Notes    == [kind : {"AddMatch", "RequestName", "RemoveMatch", "ReleaseName",
                     "acquired", "released"}, thread : {Bus}, n : {0}]

VARIABLES
  mode,      \* the combination this test runs, chosen at the start
  \* the Sender process
  spc,       \* where its main thread is
  watching,  \* its match for NameOwnerChanged is installed
  news,      \* NameOwnerChanged signals in its inbox
  thr,       \* thr[t]: where thread t is
  sent,      \* sent[t]: messages sent by thread t
  answer,    \* answer[t]: the reply that waits for thread t
  \* the bus
  wire,      \* wire[t]: messages of thread t on their way to the bus
  owner,     \* the receiver owns its well-known name
  matched,   \* the receiver's match for the signal is installed
  dropped,   \* signals that reached the bus and had no subscriber
  \* the Receiver process
  rpc,       \* where it is
  rout,      \* its messages on their way to the bus
  rbox,      \* its inbox
  batch,     \* what the current iteration has still to dispatch
  quit,      \* g_main_loop_quit() was called on its loop
  k,         \* the messages Receiver::operator() still waits for
  processed, \* ServiceSetupData::processed, not read before it is reset
  counter,   \* ImplCommon::Counter of its Reaction
  handled    \* the messages given to the Reaction

senderVars   == << spc, watching, news, thr, sent >>
busVars      == << owner, matched, dropped >>
receiverVars == << rpc, rout, rbox, batch, quit, k, processed, counter, handled >>
vars == << mode, senderVars, answer, wire, busVars, receiverVars >>

StateOK ==
  /\ mode \in Modes
  /\ spc \in {"match", "check", "wait", "run", "exited"}
  /\ watching \in BOOLEAN
  /\ news \in Nat
  /\ thr \in [Threads -> {"off", "prepare", "getall", "send", "await", "done"}]
  /\ sent \in [Threads -> 0..Msgs]
  /\ answer \in [Threads -> {"none", "ok", "error"}]
  /\ wire \in [Threads -> Seq(Requests)]
  /\ owner \in BOOLEAN
  /\ matched \in BOOLEAN
  /\ dropped \in Nat
  /\ rpc \in {"start", "setup", "loop", "dispatch", "release", "exited"}
  /\ rout \in Seq(Replies \cup Notes)
  /\ rbox \in Seq(Requests \cup Notes)
  /\ batch \in Seq(Requests \cup Notes)
  /\ quit \in BOOLEAN
  /\ counter \in 0..Total
  /\ handled \subseteq All

TypeOK == StateOK /\ k \in 0..Total /\ processed \in 0..Total

Init ==
  /\ mode \in Modes
  /\ spc = "match"
  /\ watching = FALSE
  /\ news = 0
  /\ thr = [t \in Threads |-> "off"]
  /\ sent = [t \in Threads |-> 0]
  /\ answer = [t \in Threads |-> "none"]
  /\ wire = [t \in Threads |-> << >>]
  /\ owner = FALSE
  /\ matched = FALSE
  /\ dropped = 0
  /\ rpc = "start"
  /\ rout = << >>
  /\ rbox = << >>
  /\ batch = << >>
  /\ quit = FALSE
  /\ k = Total
  /\ processed = 0
  /\ counter = Total
  /\ handled = {}

-----------------------------------------------------------------------------
(* Broken variants of the actions below, one for each property: the change *)
(* a slip in the code would make.  No specification uses them.             *)

\* The match is not added before the owner is asked.
AddWatchNot ==
  /\ mode.sender = "dbus"
  /\ spc = "match"
  /\ spc' = "check"
  /\ UNCHANGED << mode, watching, news, thr, sent, answer, wire, busVars, receiverVars >>

\* The sender starts whatever the bus says of the owner.
NameAppearedUnchecked ==
  /\ mode.sender = "gdbus"
  /\ spc = "match"
  /\ spc' = "run"
  /\ thr' = [t \in Threads |-> "prepare"]
  /\ UNCHANGED << mode, watching, news, sent, answer, wire, busVars, receiverVars >>

\* A call does not wait for its reply.
SendNoWait(t) ==
  /\ thr[t] = "send"
  /\ sent[t] < Msgs
  /\ sent' = [sent EXCEPT ![t] = @ + 1]
  /\ wire' = [wire EXCEPT ![t] = Append(@, Of(t, mode.kind, sent[t] + 1))]
  /\ UNCHANGED << mode, spc, watching, news, thr, answer, busVars, receiverVars >>

\* A thread sends one message too many.
SendOneMore(t) ==
  /\ thr[t] = "send"
  /\ sent[t] <= Msgs
  /\ sent' = [sent EXCEPT ![t] = @ + 1]
  /\ wire' = [wire EXCEPT ![t] = Append(@, Of(t, mode.kind, sent[t] + 1))]
  /\ thr' = [thr EXCEPT ![t] = IF mode.kind = "call" THEN "await" ELSE "send"]
  /\ UNCHANGED << mode, spc, watching, news, answer, busVars, receiverVars >>

\* An error reply is taken for an answer.
HandleReplyUnchecked(t) ==
  /\ thr[t] = "await"
  /\ answer[t] # "none"
  /\ answer' = [answer EXCEPT ![t] = "none"]
  /\ thr' = [thr EXCEPT ![t] = "send"]
  /\ UNCHANGED << mode, spc, watching, news, sent, wire, busVars, receiverVars >>

\* The name is requested before the subscription is made.
ServiceSetupNameFirst ==
  /\ rpc = "start"
  /\ rpc' = "setup"
  /\ rout' = << Note("RequestName"), Note("AddMatch") >>
  /\ UNCHANGED << mode, senderVars, answer, wire, busVars, rbox, batch, quit, k,
                  processed, counter, handled >>

\* processed is not reset when dispatchOnce() is entered.
DispatchOnceNoReset ==
  /\ rpc = "loop"
  /\ k > 0
  /\ rpc' = "dispatch"
  /\ UNCHANGED << mode, senderVars, answer, wire, busVars, rout, rbox, batch, quit, k,
                  processed, counter, handled >>

\* "exactly one message" is taken for granted.
DispatchReturnsOne ==
  /\ rpc = "dispatch"
  /\ batch = << >>
  /\ processed > 0
  /\ k' = k - 1
  /\ rpc' = "loop"
  /\ UNCHANGED << mode, senderVars, answer, wire, busVars, rout, rbox, batch, quit,
                  processed, counter, handled >>

\* The loop ends one message early.
ServiceTearDownEarly ==
  /\ rpc = "loop"
  /\ k <= 1
  /\ rpc' = "release"
  /\ rout' = Append(rout, Note("ReleaseName"))
  /\ UNCHANGED << mode, senderVars, answer, wire, busVars, rbox, batch, quit, k,
                  processed, counter, handled >>

\* The receiver ends without waiting for the answer to ReleaseName.
ReceiverExitsAtOnce ==
  /\ rpc = "release"
  /\ rpc' = "exited"
  /\ UNCHANGED << mode, senderVars, answer, wire, busVars, rout, rbox, batch, quit, k,
                  processed, counter, handled >>

-----------------------------------------------------------------------------
(* The Sender: SetupWaitForName::setup().                                  *)

StartThreads ==
  /\ spc' = "run"
  /\ thr' = [t \in Threads |-> "prepare"]

\* libdbus: the match for NameOwnerChanged is added before the owner is asked.
AddWatch ==
  /\ mode.sender = "dbus"
  /\ spc = "match"
  /\ watching' = TRUE
  /\ spc' = "check"
  /\ UNCHANGED << mode, news, thr, sent, answer, wire, busVars, receiverVars >>

\* libdbus: nameHasOwner(), and dbus_bus_remove_match() when there is one.
CheckOwner ==
  /\ spc = "check"
  /\ \/ owner /\ StartThreads /\ watching' = FALSE
     \/ ~owner /\ spc' = "wait" /\ UNCHANGED << thr, watching >>
  /\ UNCHANGED << mode, news, sent, answer, wire, busVars, receiverVars >>

\* libdbus: dbus_connection_read_write_dispatch() blocks for one message.
DispatchNews ==
  /\ spc = "wait"
  /\ news > 0
  /\ news' = news - 1
  /\ spc' = "check"
  /\ UNCHANGED << mode, watching, thr, sent, answer, wire, busVars, receiverVars >>

\* GLib: g_bus_watch_name() reports the owner and the loop is left.
NameAppeared ==
  /\ mode.sender = "gdbus"
  /\ spc = "match"
  /\ owner
  /\ StartThreads
  /\ UNCHANGED << mode, watching, news, sent, answer, wire, busVars, receiverVars >>

-----------------------------------------------------------------------------
(* The Sender's threads.                                                   *)

\* prepareForSending(): creating a GDBusProxy asks for the properties of the
\* service and blocks for the answer; the other methods only copy handles.
Prepare(t) ==
  /\ thr[t] = "prepare"
  /\ \/ /\ mode.sender = "gdbus" /\ mode.kind = "call"
        /\ wire' = [wire EXCEPT ![t] = Append(@, Of(t, "getall", 0))]
        /\ thr' = [thr EXCEPT ![t] = "getall"]
     \/ /\ ~(mode.sender = "gdbus" /\ mode.kind = "call")
        /\ thr' = [thr EXCEPT ![t] = "send"]
        /\ UNCHANGED wire
  /\ UNCHANGED << mode, spc, watching, news, sent, answer, busVars, receiverVars >>

Prepared(t) ==
  /\ thr[t] = "getall"
  /\ answer[t] # "none"
  /\ answer' = [answer EXCEPT ![t] = "none"]
  /\ thr' = [thr EXCEPT ![t] = "send"]
  /\ UNCHANGED << mode, spc, watching, news, sent, wire, busVars, receiverVars >>

\* One message: a call blocks for its reply (the asynchronous GDBus method runs
\* its own loop until the callback), a signal is flushed to the bus.
Send(t) ==
  /\ thr[t] = "send"
  /\ sent[t] < Msgs
  /\ sent' = [sent EXCEPT ![t] = @ + 1]
  /\ wire' = [wire EXCEPT ![t] = Append(@, Of(t, mode.kind, sent[t] + 1))]
  /\ thr' = [thr EXCEPT ![t] = IF mode.kind = "call" THEN "await" ELSE "send"]
  /\ UNCHANGED << mode, spc, watching, news, answer, busVars, receiverVars >>

\* handleReply(): an error reply fails the sender, which stays where it is.
HandleReply(t) ==
  /\ thr[t] = "await"
  /\ answer[t] = "ok"
  /\ answer' = [answer EXCEPT ![t] = "none"]
  /\ thr' = [thr EXCEPT ![t] = "send"]
  /\ UNCHANGED << mode, spc, watching, news, sent, wire, busVars, receiverVars >>

ThreadDone(t) ==
  /\ thr[t] = "send"
  /\ sent[t] = Msgs
  /\ thr' = [thr EXCEPT ![t] = "done"]
  /\ UNCHANGED << mode, spc, watching, news, sent, answer, wire, busVars, receiverVars >>

\* The threads are joined, tearDown(), exit.
JoinThreads ==
  /\ spc = "run"
  /\ \A t \in Threads : thr[t] = "done"
  /\ spc' = "exited"
  /\ UNCHANGED << mode, watching, news, thr, sent, answer, wire, busVars, receiverVars >>

-----------------------------------------------------------------------------
(* The bus.                                                                *)

\* A reply carries the serial of its call: no other call is answered by it, and none
\* that has its answer.
Awaited(m) ==
  /\ thr[m.thread] = (IF m.n = 0 THEN "getall" ELSE "await")
  /\ m.n = sent[m.thread]
  /\ answer[m.thread] = "none"

\* A message of thread t: a call goes to the owner of the name, or is answered
\* with an error; a signal goes to its subscriber, if there is one.
BusForward(t) ==
  /\ wire[t] # << >>
  /\ wire' = [wire EXCEPT ![t] = Tail(@)]
  /\ LET m == Head(wire[t])
     IN  \/ /\ m.kind = "signal" /\ matched
            /\ rbox' = Append(rbox, m)
            /\ UNCHANGED << answer, dropped >>
         \/ /\ m.kind = "signal" /\ ~matched
            /\ dropped' = dropped + 1
            /\ UNCHANGED << answer, rbox >>
         \/ /\ m.kind # "signal" /\ owner
            /\ rbox' = Append(rbox, m)
            /\ UNCHANGED << answer, dropped >>
         \/ /\ m.kind # "signal" /\ ~owner
            /\ answer' = [answer EXCEPT ![t] = IF Awaited(m) THEN "error" ELSE @]
            /\ UNCHANGED << dropped, rbox >>
  /\ UNCHANGED << mode, senderVars, owner, matched, rpc, rout, batch, quit, k,
                  processed, counter, handled >>

\* A message of the receiver.
BusServe ==
  /\ rout # << >>
  /\ rout' = Tail(rout)
  /\ LET m == Head(rout)
     IN  \/ /\ m.kind = "AddMatch"
            /\ matched' = TRUE
            /\ UNCHANGED << owner, news, answer, rbox >>
         \/ /\ m.kind = "RemoveMatch"
            /\ matched' = FALSE
            /\ UNCHANGED << owner, news, answer, rbox >>
         \/ /\ m.kind = "RequestName"
            /\ owner' = TRUE
            /\ news' = IF watching THEN news + 1 ELSE news
            /\ rbox' = Append(rbox, Note("acquired"))
            /\ UNCHANGED << matched, answer >>
         \/ /\ m.kind = "ReleaseName"
            /\ owner' = FALSE
            /\ news' = IF watching THEN news + 1 ELSE news
            /\ rbox' = Append(rbox, Note("released"))
            /\ UNCHANGED << matched, answer >>
         \/ /\ m.kind = "return"
            /\ answer' = [answer EXCEPT ![m.thread] = IF Awaited(m) THEN "ok" ELSE @]
            /\ UNCHANGED << owner, matched, news, rbox >>
  /\ UNCHANGED << mode, spc, watching, thr, sent, wire, dropped, rpc, batch, quit, k,
                  processed, counter, handled >>

-----------------------------------------------------------------------------
(* The Receiver: Receiver::operator().                                     *)

\* Service::setup(): the object or the subscription comes before the name.
ServiceSetup ==
  /\ rpc = "start"
  /\ rpc' = "setup"
  /\ rout' = IF mode.kind = "signal"
             THEN << Note("AddMatch"), Note("RequestName") >>
             ELSE << Note("RequestName") >>
  /\ UNCHANGED << mode, senderVars, answer, wire, busVars, rbox, batch, quit, k,
                  processed, counter, handled >>

\* libdbus: dbus_bus_request_name() blocks for its reply and dispatches nothing.
NameGranted ==
  /\ mode.receiver = "dbus"
  /\ rpc = "setup"
  /\ \E i \in 1..Len(rbox) : rbox[i].kind = "acquired"
  /\ rpc' = "loop"
  /\ UNCHANGED << mode, senderVars, answer, wire, busVars, rout, rbox, batch, quit, k,
                  processed, counter, handled >>

\* The sources an iteration takes: one message for libdbus, all for GLib.
Poll ==
  /\ \/ rpc = "setup" /\ mode.receiver = "gdbus" /\ ~quit
     \/ rpc = "dispatch" /\ processed = 0
  /\ batch = << >>
  /\ rbox # << >>
  /\ \/ mode.receiver = "dbus" /\ batch' = << Head(rbox) >> /\ rbox' = Tail(rbox)
     \/ mode.receiver = "gdbus" /\ batch' = rbox /\ rbox' = << >>
  /\ UNCHANGED << mode, senderVars, answer, wire, busVars, rpc, rout, quit, k,
                  processed, counter, handled >>

\* What the handler of a message sends: the reply to a call.  With the last
\* expected signal GDBus ends the subscription.
AnswerTo(m) ==
  CASE m.kind = "call" -> << Of(m.thread, "return", m.n) >>
    [] m.kind = "signal" /\ mode.receiver = "gdbus" /\ counter <= 1
         -> << Note("RemoveMatch") >>
    [] OTHER -> << >>

\* The handler of a message: processed, the Reaction's counter, the answer.
React(m) ==
  /\ processed' = IF mode.receiver = "dbus" THEN 1 ELSE processed + 1
  /\ handled' = handled \cup {<< m.thread, m.n >>}
  /\ counter' = IF counter > 0 THEN counter - 1 ELSE 0
  /\ quit' = (quit \/ (mode.receiver = "gdbus" /\ counter' = 0))
  /\ rout' = rout \o AnswerTo(m)

\* One source of the batch is dispatched.
Dispatch ==
  /\ batch # << >>
  /\ batch' = Tail(batch)
  /\ LET m == Head(batch)
     IN  \/ /\ m.kind = "acquired"
            /\ quit' = (quit \/ mode.receiver = "gdbus")
            /\ UNCHANGED << rout, processed, counter, handled >>
         \/ /\ m.kind = "getall"
            /\ rout' = Append(rout, Of(m.thread, "return", m.n))
            /\ UNCHANGED << quit, processed, counter, handled >>
         \/ m.kind = mode.kind /\ React(m)
  /\ UNCHANGED << mode, senderVars, answer, wire, busVars, rpc, rbox, k >>

\* g_main_loop_run() of setup() returns at the end of the iteration.
SetupReturns ==
  /\ rpc = "setup"
  /\ batch = << >>
  /\ quit
  /\ rpc' = "loop"
  /\ UNCHANGED << mode, senderVars, answer, wire, busVars, rout, rbox, batch, quit, k,
                  processed, counter, handled >>

\* Dispatcher::dispatchOnce() is entered: nothing is processed yet.
DispatchOnce ==
  /\ rpc = "loop"
  /\ k > 0
  /\ processed' = 0
  /\ rpc' = "dispatch"
  /\ UNCHANGED << mode, senderVars, answer, wire, busVars, rout, rbox, batch, quit, k,
                  counter, handled >>

\* dispatchOnce() returns at the end of an iteration that processed something.
DispatchReturns ==
  /\ rpc = "dispatch"
  /\ batch = << >>
  /\ processed > 0
  /\ k' = k - processed
  /\ rpc' = "loop"
  /\ UNCHANGED << mode, senderVars, answer, wire, busVars, rout, rbox, batch, quit,
                  processed, counter, handled >>

\* Service::tearDown(): releasing the name is a blocking round trip.  libdbus
\* removes its match first.
ServiceTearDown ==
  /\ rpc = "loop"
  /\ k = 0
  /\ rpc' = "release"
  /\ rout' = rout \o (IF mode.receiver = "dbus" /\ mode.kind = "signal"
                      THEN << Note("RemoveMatch") >> ELSE << >>)
                  \o << Note("ReleaseName") >>
  /\ UNCHANGED << mode, senderVars, answer, wire, busVars, rbox, batch, quit, k,
                  processed, counter, handled >>

ReceiverExits ==
  /\ rpc = "release"
  /\ \E i \in 1..Len(rbox) : rbox[i].kind = "released"
  /\ rpc' = "exited"
  /\ UNCHANGED << mode, senderVars, answer, wire, busVars, rout, rbox, batch, quit, k,
                  processed, counter, handled >>

SenderMain == AddWatch \/ CheckOwner \/ DispatchNews \/ NameAppeared \/ JoinThreads

SenderThread(t) ==
  Prepare(t) \/ Prepared(t) \/ Send(t) \/ HandleReply(t) \/ ThreadDone(t)

ReceiverStep ==
  \/ ServiceSetup \/ NameGranted \/ SetupReturns \/ Poll \/ Dispatch
  \/ DispatchOnce \/ DispatchReturns \/ ServiceTearDown \/ ReceiverExits

Next ==
  \/ SenderMain
  \/ \E t \in Threads : SenderThread(t) \/ BusForward(t)
  \/ BusServe
  \/ ReceiverStep

Spec == Init /\ [][Next]_vars

\* Processes and threads are scheduled and the bus moves messages.
FairSpec ==
  /\ Spec
  /\ WF_vars(SenderMain)
  /\ \A t \in Threads : WF_vars(SenderThread(t)) /\ WF_vars(BusForward(t))
  /\ WF_vars(BusServe)
  /\ WF_vars(ReceiverStep)

-----------------------------------------------------------------------------
(* The exchange that a test makes, and the state of it that is reached.    *)

SentMessages == {m \in All : m[2] <= sent[m[1]]}

\* A thread waits for the answer to the last call it has sent.
AnsweredCalls ==
  {m \in SentMessages : mode.kind = "call" /\ (thr[m[1]] = "await" => m[2] < sent[m[1]])}

EndedSides == (IF spc = "exited" THEN {"sender"} ELSE {})
                \cup (IF rpc = "exited" THEN {"receiver"} ELSE {})

Exchanged == INSTANCE Exchange WITH kind <- mode.kind, sent <- SentMessages,
                                    answered <- AnsweredCalls, over <- EndedSides

\* Whatever connections and main loops do, messages are handled once each and in
\* order, a thread goes on only with the answer to its own call, and neither
\* process ends before its part of the exchange is done.
RefinesExchange == Exchanged!Spec

-----------------------------------------------------------------------------
(* Properties.                                                             *)

In(s, m) == \E i \in 1..Len(s) : s[i] = m

\* The calls that carry file descriptors and were not given to the Reaction yet.
InFlight ==
  {c \in All : LET m == Of(c[1], "call", c[2])
              IN  In(wire[c[1]], m) \/ In(rbox, m) \/ In(batch, m)}

\* "we must take special care": with 16/k threads that send k descriptors each,
\* no more than 16 descriptors are in flight, because every way of sending a
\* call waits for its reply.
FdsWithinLimit == mode.kind = "call" => Fds * Cardinality(InFlight) <= 16

\* No call reaches the bus while its destination has no owner: the sender waits
\* for the name, and the receiver keeps it until it has handled every call.
NoCallRefused == \A t \in Threads : answer[t] # "error"

\* No signal reaches the bus before the receiver has subscribed to it.
NoSignalMissed == dropped = 0

\* The subtraction of unsigned numbers in Receiver::operator() cannot wrap.
NoUnderflow == rpc = "dispatch" => processed <= k

\* When the receiver process ends, no reply is left in its connection, so that
\* every caller gets its answer.
NoReplyLost == rpc = "exited" => rout = << >>

\* "we need to account how many messages were already received": at the head of
\* the loop k is what remains of Total.
AllAccounted == rpc = "loop" => k + Cardinality(handled) = Total

\* The receiver's setup() runs a main loop, and senders do not wait for an answer
\* of it first, as a GDBus proxy does when it asks for properties.
Exposed == mode.receiver = "gdbus" /\ ~(mode.sender = "gdbus" /\ mode.kind = "call")

\* In all other combinations every message is accounted for: none is handled
\* before the receiver counts (dispatchOnce() sets the count to 0).
AccountedUnlessExposed == Exposed \/ AllAccounted

\* Both processes end by themselves unless a message was handled by setup().
BothEndIfAccounted == <>(spc = "exited" /\ rpc = "exited") \/ <>~AllAccounted
=============================================================================
