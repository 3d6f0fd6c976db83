--------------------------- MODULE NameManagement ---------------------------
(***************************************************************************)
(* The name management scenario (ScenarioNameManagement.h): a NameOwner    *)
(* process that requests and releases a well-known name a given number of  *)
(* times, and a Receiver process that waits for the NameOwnerChanged       *)
(* signals this makes the bus send.                                        *)
(*                                                                         *)
(* They synchronize first (ImplGdbus::Synchronizer): the name owner owns a *)
(* second name, the receiver waits for it and sends a signal.  Waiter,     *)
(* name operations and Synchronizer are those of the concept               *)
(* nameOwnerChangedConcept() of main.cpp: see Modes.                       *)
(*                                                                         *)
(* A connection is a FIFO to the bus.  GLib dispatches, in one iteration   *)
(* of a main context, every message that was ready when it began; the      *)
(* order inside such a batch cannot be observed here, so that the inbox of *)
(* the name owner is a set and that of the receiver a number of signals.   *)
(***************************************************************************)
EXTENDS Naturals, Sequences

CONSTANTS
  Ops,      \* TestSpec::iterations_ops()
  Modes     \* the combinations of name operations and waiter

\* "composite" is the GDBus name owner whose second operation is composite.
AllModes == [owner : {"gdbus", "dbus", "composite"}, waiter : {"gdbus", "dbus"}]

ASSUME NameManagementAssumption ==
  /\ Ops \in Nat
  /\ Modes \subseteq AllModes

\* TestSpec::iterations_ops(v) also sets iterations_signals.
Signals == Ops * 2

\* The name owner's connections: the private bus, and the shared bus of the
\* composite operation.
Conns == {"private", "shared"}

VARIABLES
  mode,       \* the combination this test runs
  \* the NameOwner process
  opc,        \* where it is
  oout,       \* its messages for the synchronization on their way to the bus
  obox,       \* messages that reached it
  obatch,     \* what the current iteration has still to dispatch
  oquit,      \* its service's loop was told to quit
  processed,  \* ServiceSetupData::processed, not read before it is reset
  step,       \* the name operation that is next
  iter,       \* iterations of execute() that are complete
  registered, \* connections whose own_registrations holds the name
  \* the bus
  syncOwned,  \* the synchronization name has an owner
  syncMatched,\* the name owner is subscribed to the synchronization signal
  subscribed, \* the receiver is subscribed to NameOwnerChanged
  nameOwner,  \* the connection that owns the tested name
  waiting,    \* the connections in the queue for the tested name
  emitted,    \* NameOwnerChanged signals sent for the tested name
  missed,     \* those of them sent when the receiver was not subscribed
  \* the Receiver process
  rpc,        \* where it is
  rout,       \* the messages of its GDBus connection on their way to the bus
  rbox,       \* signals that reached it
  rbatch,     \* signals the current iteration has still to dispatch
  rquit,      \* its loop was told to quit, or done
  countExpected,
  countReceived

ownerVars == << opc, oout, obox, obatch, oquit, processed >>
opVars    == << step, iter, registered >>
syncVars  == << syncOwned, syncMatched >>
nameVars  == << nameOwner, waiting, emitted, missed >>
recvVars  == << rpc, rbatch, rquit, countExpected, countReceived >>
vars == << mode, ownerVars, opVars, syncVars, subscribed, nameVars, recvVars, rout, rbox >>

TypeOK ==
  /\ mode \in Modes
  /\ opc \in {"start", "setup", "listen", "dispatch", "release", "ops", "exited", "failed"}
  /\ oout \in Seq({"AddMatch", "RequestName", "RemoveMatch", "ReleaseName"})
  /\ obox \subseteq {"acquired", "sync"}
  /\ obatch \subseteq {"acquired", "sync"}
  /\ oquit \in BOOLEAN
  /\ processed \in Nat
  /\ step \in {"request", "requestAgain", "releaseAgain", "release"}
  /\ iter \in 0..Ops
  /\ registered \subseteq Conns
  /\ syncOwned \in BOOLEAN
  /\ syncMatched \in BOOLEAN
  /\ subscribed \in BOOLEAN
  /\ nameOwner \in Conns \cup {"none"}
  /\ waiting \subseteq Conns
  /\ emitted \in Nat
  /\ missed \in Nat
  /\ rpc \in {"start", "wait", "signal", "expect", "looping", "exited"}
  /\ rout \in Seq({"AddMatch", "sync"})
  /\ rbox \in Nat
  /\ rbatch \in Nat
  /\ rquit \in BOOLEAN
  /\ countExpected \in 0..Signals
  /\ countReceived \in Nat

Init ==
  /\ mode \in Modes
  /\ opc = "start" /\ oout = << >> /\ obox = {} /\ obatch = {}
  /\ oquit = FALSE /\ processed = 0
  /\ step = "request" /\ iter = 0 /\ registered = {}
  /\ syncOwned = FALSE /\ syncMatched = FALSE
  /\ subscribed = FALSE
  /\ nameOwner = "none" /\ waiting = {} /\ emitted = 0 /\ missed = 0
  /\ rpc = "start" /\ rout = << >> /\ rbox = 0 /\ rbatch = 0 /\ rquit = FALSE
  /\ countExpected = 0 /\ countReceived = 0

\* The bus tells the receiver that the name has another owner.
Notify ==
  /\ emitted' = emitted + 1
  /\ \/ subscribed /\ rbox' = rbox + 1 /\ UNCHANGED missed
     \/ ~subscribed /\ missed' = missed + 1 /\ UNCHANGED rbox

-----------------------------------------------------------------------------
(* Broken variants of the actions below, one for each property: the change *)
(* a slip in the code would make.  No specification uses them.             *)

\* The name is requested before the subscription is made.
ServiceSetupNameFirst ==
  /\ opc = "start"
  /\ opc' = "setup"
  /\ oout' = << "RequestName", "AddMatch" >>
  /\ UNCHANGED << mode, obox, obatch, oquit, processed, opVars, syncVars, subscribed,
                  nameVars, recvVars, rout, rbox >>

\* synchronizeService() does not wait for the signal of the receiver.
SynchronizedByName ==
  /\ opc = "listen"
  /\ opc' = "ops"
  /\ UNCHANGED << mode, oout, obox, obatch, oquit, processed, opVars, syncVars,
                  subscribed, nameVars, recvVars, rout, rbox >>

\* The composite operation does not unown the name: "2.2 unown to avoid getting
\* name" is missing.
RequestNameAgainKept ==
  /\ opc = "ops"
  /\ step = "requestAgain"
  /\ step' = "release"
  /\ waiting' = waiting \cup {"shared"}
  /\ UNCHANGED << mode, opc, oout, obox, obatch, oquit, processed, registered, iter,
                  syncVars, subscribed, nameOwner, emitted, missed, recvVars, rout, rbox >>

\* TIMES(n) makes n - 1 iterations.
FinishEarly ==
  /\ opc = "ops"
  /\ step = "request"
  /\ iter + 1 = Ops
  /\ opc' = "exited"
  /\ UNCHANGED << mode, oout, obox, obatch, oquit, processed, opVars, syncVars,
                  subscribed, nameVars, recvVars, rout, rbox >>

\* TIMES(n) makes n + 1 iterations.
RequestNameOnceMore ==
  /\ opc = "ops" /\ iter <= Ops
  /\ step = "request"
  /\ step' = IF mode.owner = "composite" THEN "requestAgain" ELSE "release"
  /\ registered' = registered \cup {"private"}
  /\ nameOwner' = "private"
  /\ Notify
  /\ UNCHANGED << mode, opc, oout, obox, obatch, oquit, processed, iter, syncVars,
                  subscribed, waiting, recvVars, rout >>

\* "countExpected > countReceived" decides whether the loop is run.
JustCountOffByOne ==
  /\ rpc = "expect"
  /\ countExpected < Signals
  /\ mode.waiter = "gdbus" /\ countExpected <= countReceived
  /\ countExpected' = countExpected + 1
  /\ UNCHANGED << mode, ownerVars, opVars, syncVars, subscribed, nameVars, rpc, rbatch,
                  rquit, countReceived, rout, rbox >>

\* The loop is run for every expected signal.
ExpectSignalsAlways ==
  /\ rpc = "expect"
  /\ countExpected < Signals
  /\ rpc' = "looping"
  /\ rquit' = FALSE
  /\ UNCHANGED << mode, ownerVars, opVars, syncVars, subscribed, nameVars, rbatch,
                  countExpected, countReceived, rout, rbox >>

-----------------------------------------------------------------------------
(* The name owner: synchronizeService().                                   *)

\* ListenToSignalService::setup(): the subscription comes before the name.
ServiceSetup ==
  /\ opc = "start"
  /\ opc' = "setup"
  /\ oout' = << "AddMatch", "RequestName" >>
  /\ UNCHANGED << mode, obox, obatch, oquit, processed, opVars, syncVars, subscribed,
                  nameVars, recvVars, rout, rbox >>

\* A message of that connection reaches the bus.
BusServeOwner ==
  /\ oout # << >>
  /\ oout' = Tail(oout)
  /\ \/ /\ Head(oout) = "AddMatch"
        /\ syncMatched' = TRUE
        /\ UNCHANGED << syncOwned, obox >>
     \/ /\ Head(oout) = "RequestName"
        /\ syncOwned' = TRUE
        /\ obox' = obox \cup {"acquired"}
        /\ UNCHANGED syncMatched
     \/ /\ Head(oout) = "RemoveMatch"
        /\ syncMatched' = FALSE
        /\ UNCHANGED << syncOwned, obox >>
     \/ /\ Head(oout) = "ReleaseName"
        /\ syncOwned' = FALSE
        /\ UNCHANGED << syncMatched, obox >>
  /\ UNCHANGED << mode, opc, obatch, oquit, processed, opVars, subscribed, nameVars,
                  recvVars, rout, rbox >>

\* An iteration of the main context, in setup() or in dispatchOnce().
OwnerPoll ==
  /\ \/ opc = "setup" /\ ~oquit
     \/ opc = "dispatch" /\ processed = 0
  /\ obatch = {}
  /\ obox # {}
  /\ obatch' = obox
  /\ obox' = {}
  /\ UNCHANGED << mode, opc, oout, oquit, processed, opVars, syncVars, subscribed,
                  nameVars, recvVars, rout, rbox >>

\* name_acquired_handler
DispatchAcquired ==
  /\ "acquired" \in obatch
  /\ obatch' = obatch \ {"acquired"}
  /\ oquit' = TRUE
  /\ UNCHANGED << mode, opc, oout, obox, processed, opVars, syncVars, subscribed,
                  nameVars, recvVars, rout, rbox >>

\* signal_handler: one signal is expected, so it also ends the subscription.
DispatchSync ==
  /\ "sync" \in obatch
  /\ obatch' = obatch \ {"sync"}
  /\ processed' = processed + 1
  /\ oquit' = TRUE
  /\ oout' = Append(oout, "RemoveMatch")
  /\ UNCHANGED << mode, opc, obox, opVars, syncVars, subscribed, nameVars, recvVars,
                  rout, rbox >>

\* g_main_loop_run() of setup() returns at the end of the iteration.
SetupReturns ==
  /\ opc = "setup"
  /\ obatch = {}
  /\ oquit
  /\ opc' = "listen"
  /\ UNCHANGED << mode, oout, obox, obatch, oquit, processed, opVars, syncVars,
                  subscribed, nameVars, recvVars, rout, rbox >>

\* Dispatcher::dispatchOnce() is entered.
DispatchOnce ==
  /\ opc = "listen"
  /\ opc' = "dispatch"
  /\ processed' = 0
  /\ UNCHANGED << mode, oout, obox, obatch, oquit, opVars, syncVars, subscribed,
                  nameVars, recvVars, rout, rbox >>

\* dispatchOnce() returns and tearDown() releases the synchronization name.
ServiceTearDown ==
  /\ opc = "dispatch"
  /\ obatch = {}
  /\ processed > 0
  /\ opc' = "release"
  /\ oout' = Append(oout, "ReleaseName")
  /\ UNCHANGED << mode, obox, obatch, oquit, processed, opVars, syncVars, subscribed,
                  nameVars, recvVars, rout, rbox >>

\* The blocking call of g_bus_unown_name() has been answered.
Synchronized ==
  /\ opc = "release"
  /\ oout = << >>
  /\ opc' = "ops"
  /\ UNCHANGED << mode, oout, obox, obatch, oquit, processed, opVars, syncVars,
                  subscribed, nameVars, recvVars, rout, rbox >>

-----------------------------------------------------------------------------
(* The name owner: the operations.  Each is a round trip to the bus.       *)

\* RequestNameOperation with ExpectedSuccessNameOperationResult.
RequestName ==
  /\ opc = "ops" /\ iter < Ops
  /\ step = "request"
  /\ step' = IF mode.owner = "composite" THEN "requestAgain" ELSE "release"
  /\ registered' = IF mode.owner = "dbus" THEN registered
                   ELSE registered \cup {"private"}
  /\ \/ /\ nameOwner = "none"
        /\ nameOwner' = "private"
        /\ Notify
        /\ UNCHANGED << opc, waiting >>
     \/ /\ nameOwner # "none"
        /\ waiting' = IF mode.owner = "dbus" THEN waiting ELSE waiting \cup {"private"}
        /\ opc' = "failed"
        /\ UNCHANGED << nameOwner, emitted, missed, rbox >>
  /\ UNCHANGED << mode, oout, obox, obatch, oquit, processed, iter, syncVars, subscribed,
                  recvVars, rout >>

\* RequestNameOperation of the composite operation, on the shared connection,
\* with ExpectedFailureNameOperationResult: GDBus stays in the queue.
RequestNameAgain ==
  /\ opc = "ops"
  /\ step = "requestAgain"
  /\ step' = "releaseAgain"
  /\ registered' = registered \cup {"shared"}
  /\ \/ /\ nameOwner = "none"
        /\ nameOwner' = "shared"
        /\ Notify
        /\ opc' = "failed"
        /\ UNCHANGED waiting
     \/ /\ nameOwner # "none"
        /\ waiting' = waiting \cup {"shared"}
        /\ UNCHANGED << opc, nameOwner, emitted, missed, rbox >>
  /\ UNCHANGED << mode, oout, obox, obatch, oquit, processed, iter, syncVars, subscribed,
                  recvVars, rout >>

\* The bus handles ReleaseName of connection c: the first in the queue, if there
\* is one, is the next owner.
BusRelease(c) ==
  \/ /\ nameOwner = c
     /\ \/ waiting = {} /\ nameOwner' = "none" /\ UNCHANGED waiting
        \/ \E d \in waiting : nameOwner' = d /\ waiting' = waiting \ {d}
     /\ Notify
  \/ /\ nameOwner # c
     /\ waiting' = waiting \ {c}
     /\ UNCHANGED << nameOwner, emitted, missed, rbox >>

\* ReleaseNameOperation<1>: the registration is in the map of the shared bus.
ReleaseNameAgain ==
  /\ opc = "ops"
  /\ step = "releaseAgain"
  /\ step' = "release"
  /\ \/ /\ "shared" \in registered
        /\ registered' = registered \ {"shared"}
        /\ BusRelease("shared")
        /\ UNCHANGED opc
     \/ /\ "shared" \notin registered
        /\ opc' = "failed"
        /\ UNCHANGED << registered, nameOwner, waiting, emitted, missed, rbox >>
  /\ UNCHANGED << mode, oout, obox, obatch, oquit, processed, iter, syncVars, subscribed,
                  recvVars, rout >>

\* ReleaseNameOperation<0>: the last operation of an iteration.
ReleaseName ==
  /\ opc = "ops"
  /\ step = "release"
  /\ step' = "request"
  /\ iter' = iter + 1
  /\ \/ /\ mode.owner = "dbus" \/ "private" \in registered
        /\ registered' = registered \ {"private"}
        /\ BusRelease("private")
        /\ UNCHANGED opc
     \/ /\ mode.owner # "dbus" /\ "private" \notin registered
        /\ opc' = "failed"
        /\ UNCHANGED << registered, nameOwner, waiting, emitted, missed, rbox >>
  /\ UNCHANGED << mode, oout, obox, obatch, oquit, processed, syncVars, subscribed,
                  recvVars, rout >>

\* NameOperation::finish(): the connections are closed.
Finish ==
  /\ opc = "ops"
  /\ step = "request"
  /\ iter = Ops
  /\ opc' = "exited"
  /\ UNCHANGED << mode, oout, obox, obatch, oquit, processed, opVars, syncVars,
                  subscribed, nameVars, recvVars, rout, rbox >>

-----------------------------------------------------------------------------
(* The receiver.                                                           *)

\* Waiter::setup(): libdbus waits until the match is added; GDBus only sends
\* AddMatch, on the shared connection.
WaiterSetup ==
  /\ rpc = "start"
  /\ rpc' = "wait"
  /\ \/ mode.waiter = "dbus" /\ subscribed' = TRUE /\ UNCHANGED rout
     \/ mode.waiter = "gdbus" /\ rout' = << "AddMatch" >> /\ UNCHANGED subscribed
  /\ UNCHANGED << mode, ownerVars, opVars, syncVars, nameVars, rbatch, rquit,
                  countExpected, countReceived, rbox >>

\* synchronizeClient(): SetupWaitForName.  g_bus_watch_name() asks the bus on the
\* same connection, so that the answer comes after the bus has seen AddMatch.
SyncNameAppeared ==
  /\ rpc = "wait"
  /\ rbatch = 0
  /\ rout = << >>
  /\ syncOwned
  /\ rpc' = "signal"
  /\ UNCHANGED << mode, ownerVars, opVars, syncVars, subscribed, nameVars, rbatch, rquit,
                  countExpected, countReceived, rout, rbox >>

\* synchronizeClient(): SignalSendMethod on the shared connection.
SendSync ==
  /\ rpc = "signal"
  /\ rpc' = "expect"
  /\ rout' = Append(rout, "sync")
  /\ UNCHANGED << mode, ownerVars, opVars, syncVars, subscribed, nameVars, rbatch, rquit,
                  countExpected, countReceived, rbox >>

\* A message of the receiver's GDBus connection reaches the bus.
BusServeReceiver ==
  /\ rout # << >>
  /\ rout' = Tail(rout)
  /\ \/ /\ Head(rout) = "AddMatch"
        /\ subscribed' = TRUE
        /\ UNCHANGED obox
     \/ /\ Head(rout) = "sync"
        /\ obox' = IF syncMatched THEN obox \cup {"sync"} ELSE obox
        /\ UNCHANGED subscribed
  /\ UNCHANGED << mode, opc, oout, obatch, oquit, processed, opVars, syncVars, nameVars,
                  recvVars, rbox >>

\* expectSignals(): the loop is run unless enough signals were received before.
ExpectSignals ==
  /\ rpc = "expect"
  /\ countExpected < Signals
  /\ mode.waiter = "gdbus" => countExpected >= countReceived
  /\ rpc' = "looping"
  /\ rquit' = FALSE
  /\ UNCHANGED << mode, ownerVars, opVars, syncVars, subscribed, nameVars, rbatch,
                  countExpected, countReceived, rout, rbox >>

\* expectSignals() of GDBus: "signals already received, just count".
JustCount ==
  /\ rpc = "expect"
  /\ countExpected < Signals
  /\ mode.waiter = "gdbus" /\ countExpected < countReceived
  /\ countExpected' = countExpected + 1
  /\ UNCHANGED << mode, ownerVars, opVars, syncVars, subscribed, nameVars, rpc, rbatch,
                  rquit, countReceived, rout, rbox >>

\* The signals one iteration takes: one for libdbus, all for GLib.  The loop of
\* SetupWaitForName iterates the same context.
WaiterPoll ==
  /\ \/ rpc = "looping" /\ ~rquit
     \/ rpc = "wait" /\ mode.waiter = "gdbus"
  /\ rbatch = 0
  /\ rbox > 0
  /\ \/ mode.waiter = "gdbus" /\ rbatch' = rbox /\ rbox' = 0
     \/ mode.waiter = "dbus" /\ rbatch' = 1 /\ rbox' = rbox - 1
  /\ UNCHANGED << mode, ownerVars, opVars, syncVars, subscribed, nameVars, rpc, rquit,
                  countExpected, countReceived, rout >>

\* signal_handler
SignalHandler ==
  /\ rbatch > 0
  /\ rbatch' = rbatch - 1
  /\ rquit' = TRUE
  /\ countReceived' = countReceived + 1
  /\ UNCHANGED << mode, ownerVars, opVars, syncVars, subscribed, nameVars, rpc,
                  countExpected, rout, rbox >>

\* The loop is left at the end of the iteration and expectSignals() returns.
LoopReturns ==
  /\ rpc = "looping"
  /\ rbatch = 0
  /\ rquit
  /\ rpc' = "expect"
  /\ countExpected' = countExpected + 1
  /\ UNCHANGED << mode, ownerVars, opVars, syncVars, subscribed, nameVars, rbatch, rquit,
                  countReceived, rout, rbox >>

\* Waiter::tearDown()
WaiterTearDown ==
  /\ rpc = "expect"
  /\ countExpected = Signals
  /\ rpc' = "exited"
  /\ UNCHANGED << mode, ownerVars, opVars, syncVars, subscribed, nameVars, rbatch, rquit,
                  countExpected, countReceived, rout, rbox >>

OwnerStep ==
  \/ ServiceSetup \/ OwnerPoll \/ DispatchAcquired \/ DispatchSync \/ SetupReturns
  \/ DispatchOnce \/ ServiceTearDown \/ Synchronized
  \/ RequestName \/ RequestNameAgain \/ ReleaseNameAgain \/ ReleaseName \/ Finish

ReceiverStep ==
  \/ WaiterSetup \/ SyncNameAppeared \/ SendSync
  \/ ExpectSignals \/ JustCount \/ WaiterPoll \/ SignalHandler \/ LoopReturns
  \/ WaiterTearDown

Next == OwnerStep \/ ReceiverStep \/ BusServeOwner \/ BusServeReceiver

Spec == Init /\ [][Next]_vars

\* Both processes are scheduled and the bus moves messages.
FairSpec ==
  /\ Spec
  /\ WF_vars(OwnerStep) /\ WF_vars(ReceiverStep)
  /\ WF_vars(BusServeOwner) /\ WF_vars(BusServeReceiver)

-----------------------------------------------------------------------------
(* Properties.                                                             *)

\* The receiver subscribes to the name before it lets the name owner go on, so
\* that it misses no NameOwnerChanged signal (Receiver::operator()).
NoSignalMissed == missed = 0

\* The signal of the receiver never reaches the bus before the name owner has
\* subscribed to it: the subscription is made before the name is requested.
NoSyncLost == rout # << >> => Head(rout) = "AddMatch" \/ syncMatched

\* No operation is refused in a run that starts with an unowned name: every
\* iteration of execute() leaves the name free and the queue empty.
NoOpFails == opc # "failed"

\* "iterations_signals_ = iterations_ops_ * 2": every iteration makes the bus
\* send two signals, the composite one included, and leaves nothing behind.
TwoSignalsPerOp ==
  opc = "exited" => emitted = Signals /\ nameOwner = "none" /\ waiting = {}

\* The receiver does not end before the name owner has finished its operations:
\* a batch of signals is never counted twice (NameSignalWaiter).
ReceiverNotEarly == rpc = "exited" => emitted = Signals

\* The signal of the receiver was dispatched before dispatchOnce() was called.
SyncDiscarded == opc = "setup" /\ processed > 0

\* Both processes end by themselves, however many signals an iteration takes,
\* unless setup() discarded the signal of the receiver.
BothEndIfSynchronized == <>(opc = "exited" /\ rpc = "exited") \/ <>SyncDiscarded

\* "finishes when Receiver is ready" (synchronizeService()).
SyncFinishes == rpc = "expect" ~> opc \in {"ops", "exited"}
=============================================================================
