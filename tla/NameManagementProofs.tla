------------------------ MODULE NameManagementProofs ------------------------
(* Theorems about NameManagement, for any number of operations and any     *)
(* combinations of name operations and waiters.                            *)
EXTENDS NameManagement, SequenceTheorems, TLAPS

\* The signal of the receiver has not reached the bus yet.
SyncPending == rpc \in {"start", "wait", "signal"} \/ rout # << >>

\* What can be on its way to the bus.
Queues ==
  /\ oout \in { << >>, << "AddMatch", "RequestName" >>, << "RequestName" >>,
                << "RemoveMatch" >>, << "RemoveMatch", "ReleaseName" >>,
                << "ReleaseName" >> }
  /\ rout \in { << >>, << "AddMatch" >>, << "sync" >> }

\* The receiver: it is subscribed before it sends its signal.
ReceiverPhases ==
  /\ rpc \in {"start", "signal"} => rout = << >>
  /\ rout = << "AddMatch" >> => rpc = "wait"
  /\ rout = << "sync" >> => rpc \in {"expect", "looping", "exited"}
  /\ rpc \notin {"start", "wait"} => subscribed
  /\ rpc = "wait" /\ rout = << >> => subscribed
  /\ rpc = "signal" \/ rout = << "sync" >> => syncOwned

\* The name owner: it does not leave the synchronization before the signal of the
\* receiver has reached the bus.
OwnerPhases ==
  /\ SyncPending =>
       /\ opc \in {"start", "setup", "listen", "dispatch"}
       /\ "sync" \notin obox \cup obatch
       /\ processed = 0
       /\ oout \in { << >>, << "AddMatch", "RequestName" >>, << "RequestName" >> }
       /\ syncOwned => syncMatched /\ oout = << >>
  /\ oout = << "RequestName" >> => syncMatched
  /\ opc = "start" => oout = << >> /\ ~syncOwned /\ SyncPending
  /\ ~SyncPending =>
       oout \notin { << "AddMatch", "RequestName" >>, << "RequestName" >> }
  /\ opc \in {"start", "setup", "listen", "dispatch"} =>
       oout \notin { << "RemoveMatch", "ReleaseName" >>, << "ReleaseName" >> }
  /\ opc \in {"ops", "exited"} => oout = << >>
  /\ "sync" \in obox \cup obatch =>
       /\ opc \in {"setup", "listen", "dispatch"}
       /\ oout = << >> /\ processed = 0
       /\ ~("sync" \in obox /\ "sync" \in obatch)
  /\ obatch # {} => opc \in {"setup", "dispatch"}

\* The name operations: where an iteration is tells the state of the name.
OperationPhases ==
  /\ opc # "failed"
  /\ opc \notin {"ops", "exited"} => iter = 0 /\ step = "request"
  /\ step = "request" =>
       nameOwner = "none" /\ registered = {} /\ emitted = 2 * iter
  /\ step # "request" =>
       /\ nameOwner = "private" /\ emitted = 2 * iter + 1 /\ iter < Ops
       /\ mode.owner = "dbus" \/ "private" \in registered
  /\ step = "releaseAgain" => waiting = {"shared"} /\ "shared" \in registered
  /\ step # "releaseAgain" => waiting = {} /\ "shared" \notin registered
  /\ step \in {"requestAgain", "releaseAgain"} => mode.owner = "composite"
  /\ mode.owner = "dbus" => registered = {}
  /\ opc = "exited" => step = "request" /\ iter = Ops

\* No signal is lost, and the waiter expects no signal that it has not received
\* or is waiting for.
Counts ==
  /\ missed = 0
  /\ countReceived + rbatch + rbox = emitted
  /\ rpc \in {"start", "wait", "signal"} => countExpected = 0
  /\ countExpected <= countReceived
  /\ rpc = "looping" => countExpected < Signals
  /\ rpc = "looping" /\ rquit => countExpected < countReceived
  /\ rpc = "exited" => countExpected = Signals

IInv ==
  TypeOK /\ Queues /\ ReceiverPhases /\ OwnerPhases /\ OperationPhases /\ Counts

\* Append makes a pair of a sequence of one message.
LEMMA AppendPair ==
  ASSUME NEW a, NEW b PROVE Append(<< a >>, b) = << a, b >>
<1> DEFINE s == Append(<< a >>, b)
           t == << a, b >>
<1>1. << a >> \in Seq({a, b}) /\ t \in Seq({a, b})  OBVIOUS
<1>2. s \in Seq({a, b}) /\ Len(s) = 2 /\ Len(t) = 2
  BY <1>1
<1>3. s[1] = a /\ s[2] = b /\ t[1] = a /\ t[2] = b
  BY <1>1
<1>4. \A i \in 1..Len(s) : s[i] = t[i]
  BY <1>2, <1>3
<1> HIDE DEF s, t
<1>5. s = t
  BY <1>1, <1>2, <1>4, SeqEqual
<1> QED
  BY <1>5 DEF s, t

\* The operators on the queues that occur, none of which is longer than two.
LEMMA QueueFacts ==
  /\ \A a, b : Tail(<< a, b >>) = << b >> /\ Head(<< a, b >>) = a
  /\ \A a : Tail(<< a >>) = << >> /\ Head(<< a >>) = a
  /\ \A a : Append(<< >>, a) = << a >>
  /\ \A a, b : Append(<< a >>, b) = << a, b >>
<1>1. \A a, b : Tail(<< a, b >>) = << b >> /\ Head(<< a, b >>) = a  OBVIOUS
<1>2. \A a : Tail(<< a >>) = << >> /\ Head(<< a >>) = a  OBVIOUS
<1>3. \A a : Append(<< >>, a) = << a >>  OBVIOUS
<1> QED
  BY <1>1, <1>2, <1>3, AppendPair

\* The queues that occur are sequences of messages.
LEMMA ShortSeq ==
  ASSUME NEW S, NEW a \in S, NEW b \in S
  PROVE  << a, b >> \in Seq(S) /\ << a >> \in Seq(S) /\ << >> \in Seq(S)
  OBVIOUS

LEMMA QueuesTyped ==
  ASSUME NEW o, NEW r,
         o \in { << >>, << "AddMatch", "RequestName" >>, << "RequestName" >>,
                 << "RemoveMatch" >>, << "RemoveMatch", "ReleaseName" >>,
                 << "ReleaseName" >> },
         r \in { << >>, << "AddMatch" >>, << "sync" >> }
  PROVE  /\ o \in Seq({"AddMatch", "RequestName", "RemoveMatch", "ReleaseName"})
         /\ r \in Seq({"AddMatch", "sync"})
<1> DEFINE O == {"AddMatch", "RequestName", "RemoveMatch", "ReleaseName"}
           R == {"AddMatch", "sync"}
<1>1. \A a, b \in O : << a, b >> \in Seq(O) /\ << a >> \in Seq(O) /\ << >> \in Seq(O)
  BY ShortSeq
<1>2. \A a \in R : << a >> \in Seq(R) /\ << >> \in Seq(R)
  BY ShortSeq
<1>3. "AddMatch" \in O /\ "RequestName" \in O /\ "RemoveMatch" \in O /\ "ReleaseName" \in O
  OBVIOUS
<1>4. "AddMatch" \in R /\ "sync" \in R
  OBVIOUS
<1> HIDE DEF O, R
<1>5. o \in Seq(O)
  BY <1>1, <1>3
<1>6. r \in Seq(R)
  BY <1>2, <1>4
<1> QED
  BY <1>5, <1>6 DEF O, R

\* What BusServeOwner does to each queue of the name owner.
LEMMA ServeOwner ==
  ASSUME Queues, BusServeOwner
  PROVE  \/ /\ oout = << "AddMatch", "RequestName" >> /\ oout' = << "RequestName" >>
            /\ syncMatched' = TRUE /\ UNCHANGED << syncOwned, obox >>
         \/ /\ oout = << "RequestName" >> /\ oout' = << >>
            /\ syncOwned' = TRUE /\ obox' = obox \cup {"acquired"} /\ UNCHANGED syncMatched
         \/ /\ oout = << "RemoveMatch" >> /\ oout' = << >>
            /\ syncMatched' = FALSE /\ UNCHANGED << syncOwned, obox >>
         \/ /\ oout = << "RemoveMatch", "ReleaseName" >> /\ oout' = << "ReleaseName" >>
            /\ syncMatched' = FALSE /\ UNCHANGED << syncOwned, obox >>
         \/ /\ oout = << "ReleaseName" >> /\ oout' = << >>
            /\ syncOwned' = FALSE /\ UNCHANGED << syncMatched, obox >>
<1>1. CASE oout = << "AddMatch", "RequestName" >>
  <2>1. Head(oout) = "AddMatch" /\ Tail(oout) = << "RequestName" >>
    BY <1>1, QueueFacts
  <2> QED
    BY <1>1, <2>1 DEF BusServeOwner
<1>2. CASE oout = << "RequestName" >>
  <2>1. Head(oout) = "RequestName" /\ Tail(oout) = << >>
    BY <1>2, QueueFacts
  <2> QED
    BY <1>2, <2>1 DEF BusServeOwner
<1>3. CASE oout = << "RemoveMatch" >>
  <2>1. Head(oout) = "RemoveMatch" /\ Tail(oout) = << >>
    BY <1>3, QueueFacts
  <2> QED
    BY <1>3, <2>1 DEF BusServeOwner
<1>4. CASE oout = << "RemoveMatch", "ReleaseName" >>
  <2>1. Head(oout) = "RemoveMatch" /\ Tail(oout) = << "ReleaseName" >>
    BY <1>4, QueueFacts
  <2> QED
    BY <1>4, <2>1 DEF BusServeOwner
<1>5. CASE oout = << "ReleaseName" >>
  <2>1. Head(oout) = "ReleaseName" /\ Tail(oout) = << >>
    BY <1>5, QueueFacts
  <2> QED
    BY <1>5, <2>1 DEF BusServeOwner
<1> QED
  BY <1>1, <1>2, <1>3, <1>4, <1>5 DEF Queues, BusServeOwner

\* What BusServeReceiver does to each queue of the receiver.
LEMMA ServeReceiver ==
  ASSUME Queues, BusServeReceiver
  PROVE  /\ rout' = << >>
         /\ \/ rout = << "AddMatch" >> /\ subscribed' = TRUE /\ UNCHANGED obox
            \/ /\ rout = << "sync" >> /\ UNCHANGED subscribed
               /\ obox' = IF syncMatched THEN obox \cup {"sync"} ELSE obox
<1>1. CASE rout = << "AddMatch" >>
  <2>1. Head(rout) = "AddMatch" /\ Tail(rout) = << >>
    BY <1>1, QueueFacts
  <2> QED
    BY <1>1, <2>1 DEF BusServeReceiver
<1>2. CASE rout = << "sync" >>
  <2>1. Head(rout) = "sync" /\ Tail(rout) = << >>
    BY <1>2, QueueFacts
  <2> QED
    BY <1>2, <2>1 DEF BusServeReceiver
<1> QED
  BY <1>1, <1>2 DEF Queues, BusServeReceiver

\* What ServiceTearDown does to each queue of the name owner.
LEMMA TearDownQueue ==
  ASSUME Queues, OwnerPhases, ServiceTearDown
  PROVE  \/ oout = << >> /\ oout' = << "ReleaseName" >>
         \/ oout = << "RemoveMatch" >> /\ oout' = << "RemoveMatch", "ReleaseName" >>
<1>1. oout = << >> \/ oout = << "RemoveMatch" >>
  BY DEF ServiceTearDown, OwnerPhases, SyncPending, Queues
<1>2. oout' = Append(oout, "ReleaseName")
  BY DEF ServiceTearDown
<1> QED
  BY <1>1, <1>2, QueueFacts

\* What every step does to the messages on their way to the bus.
LEMMA QueuesStep == IInv /\ Next => Queues'
<1> SUFFICES ASSUME IInv, Next PROVE Queues'  OBVIOUS
<1> USE DEF IInv, TypeOK, Queues, ReceiverPhases, OwnerPhases, SyncPending,
    ownerVars, opVars, syncVars, nameVars, recvVars
<1>1. CASE ServiceSetup
  BY <1>1 DEF ServiceSetup
<1>2. CASE BusServeOwner
  BY <1>2, ServeOwner DEF BusServeOwner
<1>3. CASE OwnerPoll
  BY <1>3 DEF OwnerPoll
<1>4. CASE DispatchAcquired
  BY <1>4 DEF DispatchAcquired
<1>5. CASE DispatchSync
  BY <1>5, QueueFacts DEF DispatchSync
<1>6. CASE SetupReturns
  BY <1>6 DEF SetupReturns
<1>7. CASE DispatchOnce
  BY <1>7 DEF DispatchOnce
<1>8. CASE ServiceTearDown
  BY <1>8, TearDownQueue DEF ServiceTearDown
<1>9. CASE Synchronized
  BY <1>9 DEF Synchronized
<1>10. CASE RequestName
  BY <1>10 DEF RequestName, Notify
<1>11. CASE RequestNameAgain
  BY <1>11 DEF RequestNameAgain, Notify
<1>12. CASE ReleaseNameAgain
  BY <1>12 DEF ReleaseNameAgain, Notify, BusRelease
<1>13. CASE ReleaseName
  BY <1>13 DEF ReleaseName, Notify, BusRelease
<1>14. CASE Finish
  BY <1>14 DEF Finish
<1>15. CASE WaiterSetup
  BY <1>15 DEF WaiterSetup
<1>16. CASE SyncNameAppeared
  BY <1>16 DEF SyncNameAppeared
<1>17. CASE SendSync
  BY <1>17, QueueFacts DEF SendSync
<1>18. CASE BusServeReceiver
  BY <1>18, ServeReceiver DEF BusServeReceiver
<1>19. CASE ExpectSignals
  BY <1>19 DEF ExpectSignals
<1>20. CASE JustCount
  BY <1>20 DEF JustCount
<1>21. CASE WaiterPoll
  BY <1>21 DEF WaiterPoll
<1>22. CASE SignalHandler
  BY <1>22 DEF SignalHandler
<1>23. CASE LoopReturns
  BY <1>23 DEF LoopReturns
<1>24. CASE WaiterTearDown
  BY <1>24 DEF WaiterTearDown
<1> QED
  BY <1>1, <1>2, <1>3, <1>4, <1>5, <1>6, <1>7, <1>8, <1>9, <1>10, <1>11, <1>12, <1>13,
      <1>14, <1>15, <1>16, <1>17, <1>18, <1>19, <1>20, <1>21, <1>22, <1>23, <1>24
  DEF Next, OwnerStep, ReceiverStep

\* Every step keeps the types.
LEMMA TypeStep == IInv /\ Next => TypeOK'
<1> SUFFICES ASSUME IInv, Next PROVE TypeOK'  OBVIOUS
<1>0. /\ oout' \in Seq({"AddMatch", "RequestName", "RemoveMatch", "ReleaseName"})
     /\ rout' \in Seq({"AddMatch", "sync"})
  BY QueuesStep, QueuesTyped DEF Queues
<1> USE NameManagementAssumption, <1>0 DEF IInv, TypeOK, OperationPhases, Counts, Conns, Signals, Queues,
    ownerVars, opVars, syncVars, nameVars, recvVars
<1>1. CASE ServiceSetup
  BY <1>1 DEF ServiceSetup
<1>2. CASE BusServeOwner
  <2>1. syncMatched' \in BOOLEAN /\ syncOwned' \in BOOLEAN
    BY <1>2, ServeOwner
  <2>2. obox' \subseteq {"acquired", "sync"}
    BY <1>2, ServeOwner
  <2> QED
    BY <1>2, <2>1, <2>2 DEF BusServeOwner
<1>3. CASE OwnerPoll
  BY <1>3 DEF OwnerPoll
<1>4. CASE DispatchAcquired
  BY <1>4 DEF DispatchAcquired
<1>5. CASE DispatchSync
  BY <1>5 DEF DispatchSync
<1>6. CASE SetupReturns
  BY <1>6 DEF SetupReturns
<1>7. CASE DispatchOnce
  BY <1>7 DEF DispatchOnce
<1>8. CASE ServiceTearDown
  BY <1>8 DEF ServiceTearDown
<1>9. CASE Synchronized
  BY <1>9 DEF Synchronized
<1>10. CASE RequestName
  <2>1. emitted' \in Nat /\ missed' \in Nat /\ rbox' \in Nat
    BY <1>10 DEF RequestName, Notify
  <2>2. /\ opc' \in {"ops", "failed"} /\ step' \in {"requestAgain", "release"}
        /\ registered' \subseteq Conns /\ waiting' \subseteq Conns
        /\ nameOwner' \in Conns \cup {"none"}
    BY <1>10 DEF RequestName
  <2> QED
    BY <1>10, <2>1, <2>2 DEF RequestName
<1>11. CASE RequestNameAgain
  BY <1>11 DEF RequestNameAgain, Notify
<1>12. CASE ReleaseNameAgain
  BY <1>12 DEF ReleaseNameAgain, Notify, BusRelease
<1>13. CASE ReleaseName
  <2>1. emitted' \in Nat /\ missed' \in Nat /\ rbox' \in Nat
    BY <1>13 DEF ReleaseName, BusRelease, Notify
  <2>2. iter' \in 0..Ops
    BY <1>13 DEF ReleaseName
  <2>3. /\ registered' \subseteq Conns /\ waiting' \subseteq Conns
        /\ nameOwner' \in Conns \cup {"none"}
    BY <1>13 DEF ReleaseName, BusRelease
  <2>4. opc' \in {"ops", "failed"}
    BY <1>13 DEF ReleaseName
  <2> QED
    BY <1>13, <2>1, <2>2, <2>3, <2>4 DEF ReleaseName
<1>14. CASE Finish
  BY <1>14 DEF Finish
<1>15. CASE WaiterSetup
  <2>1. subscribed' \in BOOLEAN /\ rout' \in Seq({"AddMatch", "sync"})
    BY <1>15 DEF WaiterSetup
  <2>2. rpc' = "wait"
    BY <1>15 DEF WaiterSetup
  <2> QED
    BY <1>15, <2>1, <2>2 DEF WaiterSetup
<1>16. CASE SyncNameAppeared
  BY <1>16 DEF SyncNameAppeared
<1>17. CASE SendSync
  BY <1>17 DEF SendSync
<1>18. CASE BusServeReceiver
  <2>1. subscribed' \in BOOLEAN
    BY <1>18, ServeReceiver
  <2>2. obox' \subseteq {"acquired", "sync"}
    BY <1>18, ServeReceiver
  <2> QED
    BY <1>18, <2>1, <2>2 DEF BusServeReceiver
<1>19. CASE ExpectSignals
  BY <1>19 DEF ExpectSignals
<1>20. CASE JustCount
  BY <1>20 DEF JustCount
<1>21. CASE WaiterPoll
  BY <1>21 DEF WaiterPoll
<1>22. CASE SignalHandler
  BY <1>22 DEF SignalHandler
<1>23. CASE LoopReturns
  BY <1>23 DEF LoopReturns
<1>24. CASE WaiterTearDown
  BY <1>24 DEF WaiterTearDown
<1> QED
  BY <1>1, <1>2, <1>3, <1>4, <1>5, <1>6, <1>7, <1>8, <1>9, <1>10, <1>11, <1>12, <1>13,
      <1>14, <1>15, <1>16, <1>17, <1>18, <1>19, <1>20, <1>21, <1>22, <1>23, <1>24
  DEF Next, OwnerStep, ReceiverStep

\* Every step keeps what is known of the receiver.
LEMMA ReceiverStepPhases == IInv /\ Next => ReceiverPhases'
<1> SUFFICES ASSUME IInv, Next PROVE ReceiverPhases'  OBVIOUS
<1> USE DEF IInv, TypeOK, Queues, ReceiverPhases, OwnerPhases, SyncPending,
    ownerVars, opVars, syncVars, nameVars, recvVars
<1>1. CASE ServiceSetup
  BY <1>1 DEF ServiceSetup
<1>2. CASE BusServeOwner
  BY <1>2, ServeOwner DEF BusServeOwner
<1>3. CASE OwnerPoll
  BY <1>3 DEF OwnerPoll
<1>4. CASE DispatchAcquired
  BY <1>4 DEF DispatchAcquired
<1>5. CASE DispatchSync
  BY <1>5, QueueFacts DEF DispatchSync
<1>6. CASE SetupReturns
  BY <1>6 DEF SetupReturns
<1>7. CASE DispatchOnce
  BY <1>7 DEF DispatchOnce
<1>8. CASE ServiceTearDown
  BY <1>8, TearDownQueue DEF ServiceTearDown
<1>9. CASE Synchronized
  BY <1>9 DEF Synchronized
<1>10. CASE RequestName
  BY <1>10 DEF RequestName, Notify
<1>11. CASE RequestNameAgain
  BY <1>11 DEF RequestNameAgain, Notify
<1>12. CASE ReleaseNameAgain
  BY <1>12 DEF ReleaseNameAgain, Notify, BusRelease
<1>13. CASE ReleaseName
  BY <1>13 DEF ReleaseName, Notify, BusRelease
<1>14. CASE Finish
  BY <1>14 DEF Finish
<1>15. CASE WaiterSetup
  BY <1>15 DEF WaiterSetup
<1>16. CASE SyncNameAppeared
  BY <1>16 DEF SyncNameAppeared
<1>17. CASE SendSync
  BY <1>17, QueueFacts DEF SendSync
<1>18. CASE BusServeReceiver
  BY <1>18, ServeReceiver DEF BusServeReceiver
<1>19. CASE ExpectSignals
  BY <1>19 DEF ExpectSignals
<1>20. CASE JustCount
  BY <1>20 DEF JustCount
<1>21. CASE WaiterPoll
  BY <1>21 DEF WaiterPoll
<1>22. CASE SignalHandler
  BY <1>22 DEF SignalHandler
<1>23. CASE LoopReturns
  BY <1>23 DEF LoopReturns
<1>24. CASE WaiterTearDown
  BY <1>24 DEF WaiterTearDown
<1> QED
  BY <1>1, <1>2, <1>3, <1>4, <1>5, <1>6, <1>7, <1>8, <1>9, <1>10, <1>11, <1>12, <1>13,
      <1>14, <1>15, <1>16, <1>17, <1>18, <1>19, <1>20, <1>21, <1>22, <1>23, <1>24
  DEF Next, OwnerStep, ReceiverStep

\* Every step keeps what is known of the name owner.
LEMMA OwnerStepPhases == IInv /\ Next => OwnerPhases'
<1> SUFFICES ASSUME IInv, Next PROVE OwnerPhases'  OBVIOUS
<1> USE DEF IInv, TypeOK, Queues, ReceiverPhases, OwnerPhases, SyncPending,
    ownerVars, opVars, syncVars, nameVars, recvVars
<1>1. CASE ServiceSetup
  <2>1. /\ oout' = << "AddMatch", "RequestName" >> /\ opc' = "setup" /\ SyncPending
        /\ SyncPending' /\ obox' = obox /\ obatch' = obatch /\ syncOwned' = FALSE
        /\ processed' = processed
    BY <1>1 DEF ServiceSetup
  <2> QED
    BY <1>1, <2>1
<1>2. CASE BusServeOwner
  <2>1. /\ SyncPending' = SyncPending /\ opc' = opc /\ obatch' = obatch
        /\ processed' = processed /\ rpc' = rpc /\ rout' = rout
    BY <1>2 DEF BusServeOwner
  <2>2. "sync" \in obox' <=> "sync" \in obox
    BY <1>2, ServeOwner
  <2>3. CASE oout = << "AddMatch", "RequestName" >>
    <3>1. oout' = << "RequestName" >> /\ syncMatched' = TRUE /\ syncOwned' = syncOwned
      BY <1>2, <2>3, ServeOwner
    <3>2. SyncPending /\ ~syncOwned
      BY <2>3
    <3> QED
      BY <2>1, <2>2, <2>3, <3>1, <3>2
  <2>4. CASE oout = << "RequestName" >>
    <3>1. oout' = << >> /\ syncMatched' = syncMatched /\ syncOwned' = TRUE
      BY <1>2, <2>4, ServeOwner
    <3>2. SyncPending /\ syncMatched
      BY <2>4
    <3> QED
      BY <2>1, <2>2, <2>4, <3>1, <3>2
  <2>5. CASE oout = << "RemoveMatch" >>
    <3>1. oout' = << >>
      BY <1>2, <2>5, ServeOwner
    <3>2. ~SyncPending /\ "sync" \notin obox \cup obatch
      BY <2>5
    <3> QED
      BY <2>1, <2>2, <2>5, <3>1, <3>2
  <2>6. CASE oout = << "RemoveMatch", "ReleaseName" >>
    <3>1. oout' = << "ReleaseName" >>
      BY <1>2, <2>6, ServeOwner
    <3>2. ~SyncPending /\ "sync" \notin obox \cup obatch
      BY <2>6
    <3> QED
      BY <2>1, <2>2, <2>6, <3>1, <3>2
  <2>7. CASE oout = << "ReleaseName" >>
    <3>1. oout' = << >>
      BY <1>2, <2>7, ServeOwner
    <3>2. ~SyncPending /\ "sync" \notin obox \cup obatch
      BY <2>7
    <3> QED
      BY <2>1, <2>2, <2>7, <3>1, <3>2
  <2> QED
    BY <1>2, <2>3, <2>4, <2>5, <2>6, <2>7, ServeOwner
<1>3. CASE OwnerPoll
  BY <1>3 DEF OwnerPoll
<1>4. CASE DispatchAcquired
  BY <1>4 DEF DispatchAcquired
<1>5. CASE DispatchSync
  BY <1>5, QueueFacts DEF DispatchSync
<1>6. CASE SetupReturns
  BY <1>6 DEF SetupReturns
<1>7. CASE DispatchOnce
  BY <1>7 DEF DispatchOnce
<1>8. CASE ServiceTearDown
  BY <1>8, TearDownQueue DEF ServiceTearDown
<1>9. CASE Synchronized
  BY <1>9 DEF Synchronized
<1>10. CASE RequestName
  BY <1>10 DEF RequestName, Notify
<1>11. CASE RequestNameAgain
  BY <1>11 DEF RequestNameAgain, Notify
<1>12. CASE ReleaseNameAgain
  BY <1>12 DEF ReleaseNameAgain, Notify, BusRelease
<1>13. CASE ReleaseName
  BY <1>13 DEF ReleaseName, Notify, BusRelease
<1>14. CASE Finish
  BY <1>14 DEF Finish
<1>15. CASE WaiterSetup
  BY <1>15 DEF WaiterSetup
<1>16. CASE SyncNameAppeared
  BY <1>16 DEF SyncNameAppeared
<1>17. CASE SendSync
  BY <1>17, QueueFacts DEF SendSync
<1>18. CASE BusServeReceiver
  BY <1>18, ServeReceiver DEF BusServeReceiver
<1>19. CASE ExpectSignals
  BY <1>19 DEF ExpectSignals
<1>20. CASE JustCount
  BY <1>20 DEF JustCount
<1>21. CASE WaiterPoll
  BY <1>21 DEF WaiterPoll
<1>22. CASE SignalHandler
  BY <1>22 DEF SignalHandler
<1>23. CASE LoopReturns
  BY <1>23 DEF LoopReturns
<1>24. CASE WaiterTearDown
  BY <1>24 DEF WaiterTearDown
<1> QED
  BY <1>1, <1>2, <1>3, <1>4, <1>5, <1>6, <1>7, <1>8, <1>9, <1>10, <1>11, <1>12, <1>13,
      <1>14, <1>15, <1>16, <1>17, <1>18, <1>19, <1>20, <1>21, <1>22, <1>23, <1>24
  DEF Next, OwnerStep, ReceiverStep

\* Every step keeps what is known of the tested name.
LEMMA OperationStepPhases == IInv /\ Next => OperationPhases'
<1> SUFFICES ASSUME IInv, Next PROVE OperationPhases'  OBVIOUS
<1> USE NameManagementAssumption DEF IInv, TypeOK, OperationPhases, Conns, AllModes,
    ownerVars, opVars, syncVars, nameVars, recvVars
<1>1. CASE ServiceSetup
  BY <1>1 DEF ServiceSetup
<1>2. CASE BusServeOwner
  BY <1>2 DEF BusServeOwner
<1>3. CASE OwnerPoll
  BY <1>3 DEF OwnerPoll
<1>4. CASE DispatchAcquired
  BY <1>4 DEF DispatchAcquired
<1>5. CASE DispatchSync
  BY <1>5 DEF DispatchSync
<1>6. CASE SetupReturns
  BY <1>6 DEF SetupReturns
<1>7. CASE DispatchOnce
  BY <1>7 DEF DispatchOnce
<1>8. CASE ServiceTearDown
  BY <1>8 DEF ServiceTearDown
<1>9. CASE Synchronized
  BY <1>9 DEF Synchronized
<1>10. CASE RequestName
  BY <1>10 DEF RequestName, Notify
<1>11. CASE RequestNameAgain
  <2>1. /\ opc' = opc /\ step' = "releaseAgain" /\ nameOwner' = nameOwner
        /\ emitted' = emitted /\ waiting' = {"shared"}
        /\ registered' = registered \cup {"shared"} /\ iter' = iter /\ mode' = mode
    BY <1>11 DEF RequestNameAgain
  <2>2. mode.owner # "dbus" /\ "private" \in registered
    BY <1>11 DEF RequestNameAgain
  <2> QED
    BY <1>11, <2>1, <2>2 DEF RequestNameAgain
<1>12. CASE ReleaseNameAgain
  BY <1>12 DEF ReleaseNameAgain, Notify, BusRelease
<1>13. CASE ReleaseName
  <2>1. /\ opc' = opc /\ nameOwner' = "none" /\ waiting' = {} /\ emitted' = emitted + 1
        /\ registered' = registered \ {"private"}
    BY <1>13 DEF ReleaseName, BusRelease, Notify
  <2>2. registered' = {}
    BY <1>13, <2>1 DEF ReleaseName
  <2>3. step' = "request" /\ iter' = iter + 1 /\ mode' = mode
    BY <1>13 DEF ReleaseName
  <2> QED
    BY <1>13, <2>1, <2>2, <2>3 DEF ReleaseName
<1>14. CASE Finish
  BY <1>14 DEF Finish
<1>15. CASE WaiterSetup
  BY <1>15 DEF WaiterSetup
<1>16. CASE SyncNameAppeared
  BY <1>16 DEF SyncNameAppeared
<1>17. CASE SendSync
  BY <1>17 DEF SendSync
<1>18. CASE BusServeReceiver
  BY <1>18 DEF BusServeReceiver
<1>19. CASE ExpectSignals
  BY <1>19 DEF ExpectSignals
<1>20. CASE JustCount
  BY <1>20 DEF JustCount
<1>21. CASE WaiterPoll
  BY <1>21 DEF WaiterPoll
<1>22. CASE SignalHandler
  BY <1>22 DEF SignalHandler
<1>23. CASE LoopReturns
  BY <1>23 DEF LoopReturns
<1>24. CASE WaiterTearDown
  BY <1>24 DEF WaiterTearDown
<1> QED
  BY <1>1, <1>2, <1>3, <1>4, <1>5, <1>6, <1>7, <1>8, <1>9, <1>10, <1>11, <1>12, <1>13,
      <1>14, <1>15, <1>16, <1>17, <1>18, <1>19, <1>20, <1>21, <1>22, <1>23, <1>24
  DEF Next, OwnerStep, ReceiverStep

\* Every step keeps the number of signals.
LEMMA CountStep == IInv /\ Next => Counts'
<1> SUFFICES ASSUME IInv, Next PROVE Counts'  OBVIOUS
<1> USE DEF IInv, TypeOK, ReceiverPhases, OwnerPhases, OperationPhases, Counts, SyncPending, Signals,
    ownerVars, opVars, syncVars, nameVars, recvVars
<1>1. CASE ServiceSetup
  BY <1>1 DEF ServiceSetup
<1>2. CASE BusServeOwner
  BY <1>2 DEF BusServeOwner
<1>3. CASE OwnerPoll
  BY <1>3 DEF OwnerPoll
<1>4. CASE DispatchAcquired
  BY <1>4 DEF DispatchAcquired
<1>5. CASE DispatchSync
  BY <1>5 DEF DispatchSync
<1>6. CASE SetupReturns
  BY <1>6 DEF SetupReturns
<1>7. CASE DispatchOnce
  BY <1>7 DEF DispatchOnce
<1>8. CASE ServiceTearDown
  BY <1>8 DEF ServiceTearDown
<1>9. CASE Synchronized
  BY <1>9 DEF Synchronized
<1>10. CASE RequestName
  BY <1>10 DEF RequestName, Notify
<1>11. CASE RequestNameAgain
  BY <1>11 DEF RequestNameAgain, Notify
<1>12. CASE ReleaseNameAgain
  BY <1>12 DEF ReleaseNameAgain, Notify, BusRelease
<1>13. CASE ReleaseName
  BY <1>13 DEF ReleaseName, Notify, BusRelease
<1>14. CASE Finish
  BY <1>14 DEF Finish
<1>15. CASE WaiterSetup
  BY <1>15 DEF WaiterSetup
<1>16. CASE SyncNameAppeared
  BY <1>16 DEF SyncNameAppeared
<1>17. CASE SendSync
  BY <1>17 DEF SendSync
<1>18. CASE BusServeReceiver
  BY <1>18 DEF BusServeReceiver
<1>19. CASE ExpectSignals
  BY <1>19 DEF ExpectSignals
<1>20. CASE JustCount
  BY <1>20 DEF JustCount
<1>21. CASE WaiterPoll
  BY <1>21 DEF WaiterPoll
<1>22. CASE SignalHandler
  BY <1>22 DEF SignalHandler
<1>23. CASE LoopReturns
  BY <1>23 DEF LoopReturns
<1>24. CASE WaiterTearDown
  BY <1>24 DEF WaiterTearDown
<1> QED
  BY <1>1, <1>2, <1>3, <1>4, <1>5, <1>6, <1>7, <1>8, <1>9, <1>10, <1>11, <1>12, <1>13,
      <1>14, <1>15, <1>16, <1>17, <1>18, <1>19, <1>20, <1>21, <1>22, <1>23, <1>24
  DEF Next, OwnerStep, ReceiverStep

LEMMA InitHolds == Init => IInv
<1> SUFFICES ASSUME Init PROVE IInv  OBVIOUS
<1> USE NameManagementAssumption DEF Init
<1>1. TypeOK
  <2>1. oout \in Seq({"AddMatch", "RequestName", "RemoveMatch", "ReleaseName"})
        /\ rout \in Seq({"AddMatch", "sync"})
    BY ShortSeq
  <2>2. countExpected \in 0..Signals /\ iter \in 0..Ops
    BY DEF Signals
  <2> QED
    BY <2>1, <2>2 DEF TypeOK, Conns
<1>2. Queues
  BY DEF Queues
<1>3. ReceiverPhases
  BY DEF ReceiverPhases
<1>4. OwnerPhases
  BY DEF OwnerPhases, SyncPending
<1>5. OperationPhases
  BY DEF OperationPhases
<1>6. Counts
  BY DEF Counts
<1> QED
  BY <1>1, <1>2, <1>3, <1>4, <1>5, <1>6 DEF IInv

LEMMA StutterHolds == IInv /\ UNCHANGED vars => IInv'
<1> SUFFICES ASSUME IInv, UNCHANGED vars PROVE IInv'  OBVIOUS
<1> USE DEF IInv, vars,
    ownerVars, opVars, syncVars, nameVars, recvVars
<1>1. TypeOK'
  BY DEF TypeOK
<1>2. Queues'
  BY DEF Queues
<1>3. ReceiverPhases'
  BY DEF ReceiverPhases
<1>4. OwnerPhases'
  BY DEF OwnerPhases, SyncPending
<1>5. OperationPhases'
  BY DEF OperationPhases
<1>6. Counts'
  BY DEF Counts
<1> QED
  BY <1>1, <1>2, <1>3, <1>4, <1>5, <1>6

\* The invariant is inductive.
THEOREM Inductive == Spec => []IInv
<1>1. IInv /\ [Next]_vars => IInv'
  BY TypeStep, QueuesStep, ReceiverStepPhases, OwnerStepPhases, OperationStepPhases,
     CountStep, StutterHolds DEF IInv
<1> QED
  BY <1>1, InitHolds, PTL DEF Spec

\* The variables keep their types: no counter exceeds what TestSpec asks for.
THEOREM TypeCorrect == Spec => []TypeOK
<1>1. IInv => TypeOK
  BY DEF IInv
<1> QED
  BY <1>1, Inductive, PTL

\* The receiver misses no NameOwnerChanged signal of the tested name.
THEOREM SignalSafe == Spec => []NoSignalMissed
<1>1. IInv => NoSignalMissed
  BY DEF IInv, Counts, NoSignalMissed
<1> QED
  BY <1>1, Inductive, PTL

\* The bus has the subscription of the name owner before the receiver's signal.
THEOREM SyncSafe == Spec => []NoSyncLost
<1>1. IInv => NoSyncLost
  BY QueueFacts DEF IInv, Queues, ReceiverPhases, OwnerPhases, SyncPending, NoSyncLost
<1> QED
  BY <1>1, Inductive, PTL

\* No operation on the tested name is refused, however often it is repeated.
THEOREM OperationsSucceed == Spec => []NoOpFails
<1>1. IInv => NoOpFails
  BY DEF IInv, OperationPhases, NoOpFails
<1> QED
  BY <1>1, Inductive, PTL

\* Every iteration, the composite one included, makes the bus send two signals.
THEOREM SignalsCounted == Spec => []TwoSignalsPerOp
<1>1. IInv => TwoSignalsPerOp
  BY NameManagementAssumption DEF IInv, TypeOK, OperationPhases, TwoSignalsPerOp, Signals
<1> QED
  BY <1>1, Inductive, PTL

\* The receiver ends only after the last operation of the name owner.
THEOREM ReceiverLast == Spec => []ReceiverNotEarly
<1>1. IInv => ReceiverNotEarly
  <2> SUFFICES ASSUME IInv, rpc = "exited" PROVE emitted = Signals
    BY DEF ReceiverNotEarly
  <2>1. emitted \in Nat /\ iter \in 0..Ops /\ emitted <= 2 * Ops
    BY NameManagementAssumption DEF IInv, TypeOK, OperationPhases
  <2>2. Signals <= emitted
    BY NameManagementAssumption DEF IInv, TypeOK, Counts, Signals
  <2> QED
    BY <2>1, <2>2, NameManagementAssumption DEF Signals
<1> QED
  BY <1>1, Inductive, PTL
=============================================================================
