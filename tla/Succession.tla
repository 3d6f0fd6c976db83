----------------------------- MODULE Succession -----------------------------
(***************************************************************************)
(* Tests that follow each other on one bus, with the same well-known name  *)
(* (main.cpp: the send/receive concepts, calls to a unique id, and         *)
(* checkErrors()).  A service that the runner kills still owns the name    *)
(* until the bus notices, which may be in the middle of a later test.      *)
(*                                                                         *)
(* A test has one message; what the parties do to send and dispatch it is  *)
(* in SendReceive, and what the runner does with processes is in Runner.   *)
(* The bus is external.                                                    *)
(***************************************************************************)
EXTENDS Naturals, Sequences, SequencesExt

CONSTANTS
  Tests,  \* the tests of a run of the program
  Kinds   \* what tests there are

\* "exchange": a call that the service answers, after which both end.
\* "refused": a call for something the service does not have; it is killed then.
\* "unknown": a call to a destination that does not exist, without a service.
ASSUME SuccessionAssumption ==
  /\ Tests \in Nat \ {0}
  /\ Kinds \subseteq {"exchange", "refused", "unknown"}

Impls == {"dbus", "gdbus"}
Errors == {"UNKNOWN_METHOD", "SERVICE_UNKNOWN", "NAME_HAS_NO_OWNER", "NO_REPLY"}

\* The implementations of the sender and of the service, whether the destination is
\* given as a unique id, and whether the bus may start a service for it.
TestSpecs == {t \in [kind : Kinds, sender : Impls, service : Impls,
                     uid : BOOLEAN, autoStart : BOOLEAN] :
                /\ t.uid => t.kind # "refused"
                /\ ~t.autoStart => t.kind = "unknown"
                /\ t.kind = "unknown" => t.service = t.sender}

Ids == 1..Tests

\* The bus as somebody who answers, and nobody.
TheBus == 0
Nobody == Tests + 1

VARIABLES
  n,        \* the number of the current test, of its service and its connection
  test,     \* the current test
  sender,   \* where its sender is
  service,  \* where its service is
  dest,     \* the connection the sender has the unique id of, or has called
  answer,   \* the answer to the call
  by,       \* who gave it
  deaf,     \* the service goes on without the name
  stale,    \* the name had an owner when the test began
  queue,    \* the connections that own the name or wait for it, the owner first
  closing,  \* connections whose process has ended, which the bus has yet to see
  log       \* what became of the tests

testVars == << n, test, deaf, stale >>
callVars == << dest, answer, by >>
busVars  == << queue, closing >>
vars == << testVars, sender, service, callVars, busVars, log >>

TypeOK ==
  /\ n \in 1..(Tests + 1)
  /\ test \in TestSpecs
  /\ sender \in {"off", "wait", "resolve", "call", "await", "done", "dead"}
  /\ service \in {"off", "start", "lost", "serve", "release", "done", "dead"}
  /\ dest \in 0..Nobody
  /\ answer \in Errors \cup {"none", "ok"}
  /\ by \in 0..Nobody
  /\ deaf \in BOOLEAN /\ stale \in BOOLEAN
  /\ queue \in Seq(Ids)
  /\ closing \subseteq Ids
  /\ log \in Seq([kind : Kinds, verdict : {"PASS", "FAIL", "TIMEOUT"}, by : 0..Nobody,
                  deaf : BOOLEAN, stale : BOOLEAN])

\* No test runs.
Idle == sender = "off"

Init ==
  /\ n = 1
  /\ test \in TestSpecs
  /\ sender = "off"
  /\ service = "off"
  /\ dest = Nobody
  /\ answer = "none"
  /\ by = Nobody
  /\ deaf = FALSE
  /\ stale = FALSE
  /\ queue = << >>
  /\ closing = {}
  /\ log = << >>

-----------------------------------------------------------------------------
(* Broken variants of the definitions below, one for each property.        *)

\* handleReply() accepts any error.
ExpectedAnError == IF test.kind = "exchange" THEN {"ok"} ELSE Errors

\* The name is not released.
ReleaseForgotten ==
  /\ service = "release"
  /\ service' = "done"
  /\ UNCHANGED << testVars, sender, callVars, busVars, log >>

\* The two errors for a destination that does not exist are mixed up.
ExpectedMixedUp ==
  CASE test.kind = "exchange" -> {"ok"}
    [] test.kind = "refused"  -> {"UNKNOWN_METHOD"}
    [] test.kind = "unknown"  -> IF test.autoStart THEN {"NAME_HAS_NO_OWNER"}
                                                   ELSE {"SERVICE_UNKNOWN"}

\* GDBus: losing the name is not looked at.
RequestNameQueued ==
  /\ service = "start"
  /\ service' = "serve"
  /\ \/ queue = << >> /\ queue' = << n >> /\ UNCHANGED deaf
     \/ queue # << >> /\ queue' = queue /\ deaf' = (test.service = "dbus")
  /\ UNCHANGED << n, test, stale, sender, callVars, closing, log >>

\* One test too many is run.
StartTestOneMore ==
  /\ sender = "off"
  /\ n <= Tests + 1
  /\ sender' = IF test.kind = "unknown" THEN "call" ELSE "wait"
  /\ service' = IF test.kind = "unknown" THEN "off" ELSE "start"
  /\ stale' = (queue # << >>)
  /\ UNCHANGED << n, test, deaf, callVars, busVars, log >>

-----------------------------------------------------------------------------
(* The runner.                                                             *)

\* run(): gatherPids() starts the sender, and the service if there is one.
StartTest ==
  /\ Idle
  /\ n <= Tests
  /\ sender' = IF test.kind = "unknown" THEN "call" ELSE "wait"
  /\ service' = IF test.kind = "unknown" THEN "off" ELSE "start"
  /\ stale' = (queue # << >>)
  /\ UNCHANGED << n, test, deaf, callVars, busVars, log >>

\* waitForChildren() has its result: what is still running is killed, everything is
\* collected, and the next test is chosen.
Judge(verdict) ==
  /\ ~Idle
  /\ log' = Append(log, [kind |-> test.kind, verdict |-> verdict, by |-> by,
                         deaf |-> deaf, stale |-> stale])
  /\ closing' = IF service \in {"lost", "serve", "release"} THEN closing \cup {n} ELSE closing
  /\ n' = n + 1
  /\ test' \in TestSpecs
  /\ sender' = "off"
  /\ service' = "off"
  /\ dest' = Nobody
  /\ answer' = "none"
  /\ by' = Nobody
  /\ deaf' = FALSE
  /\ stale' = FALSE
  /\ UNCHANGED queue

\* Every component ended well: the sender, and the service that ends by itself.
Pass ==
  /\ sender = "done"
  /\ test.kind = "exchange" => service = "done"
  /\ Judge("PASS")

\* The death of a service is seen when it is collected before the last component.
Fail ==
  /\ sender = "dead" \/ service = "dead"
  /\ Judge("FAIL")

-----------------------------------------------------------------------------
(* The service.                                                            *)

\* The bus takes a connection out of the queue, wherever it is in it.
Leaves(c) ==
  \/ \E i \in 1..Len(queue) : queue[i] = c /\ queue' = RemoveAt(queue, i)
  \/ c \notin ToSet(queue) /\ UNCHANGED queue

\* libdbus asks for the name without queueing and takes any answer that is no error.
\* GDBus waits in the queue, and learns that it does not have the name.
RequestName ==
  /\ service = "start"
  /\ \/ /\ queue = << >>
        /\ queue' = << n >>
        /\ service' = "serve"
        /\ UNCHANGED deaf
     \/ /\ queue # << >> /\ test.service = "dbus"
        /\ service' = "serve"
        /\ deaf' = TRUE
        /\ UNCHANGED queue
     \/ /\ queue # << >> /\ test.service = "gdbus"
        /\ queue' = Append(queue, n)
        /\ service' = "lost"
        /\ UNCHANGED deaf
  /\ UNCHANGED << n, test, stale, sender, callVars, closing, log >>

\* GDBus: name_lost_handler() fails.
NameLost ==
  /\ service = "lost"
  /\ service' = "dead"
  /\ closing' = closing \cup {n}
  /\ UNCHANGED << testVars, sender, callVars, queue, log >>

\* The object answers what it has a handler for; the library refuses the rest.
Serve ==
  /\ service = "serve"
  /\ dest = n /\ sender = "await" /\ answer = "none"
  /\ by' = n
  /\ \/ /\ test.kind = "exchange"
        /\ answer' = "ok"
        /\ service' = "release"
     \/ /\ test.kind = "refused"
        /\ answer' = "UNKNOWN_METHOD"
        /\ UNCHANGED service
  /\ UNCHANGED << testVars, sender, dest, busVars, log >>

\* tearDown()
Release ==
  /\ service = "release"
  /\ service' = "done"
  /\ Leaves(n)
  /\ UNCHANGED << testVars, sender, callVars, closing, log >>

-----------------------------------------------------------------------------
(* The sender.                                                             *)

\* SetupWaitForName::setup(); the senders of "unknown" use GetConnectionSetup.
NameAppears ==
  /\ sender = "wait"
  /\ queue # << >>
  /\ sender' = IF test.uid \/ test.sender = "gdbus" THEN "resolve" ELSE "call"
  /\ UNCHANGED << testVars, service, callVars, busVars, log >>

\* prepareForSending(): GetNameOwner.  Every GDBusProxy keeps the owner it found; a
\* sender that is to use the unique id fails without one, in both implementations.
Resolve ==
  /\ sender = "resolve"
  /\ \/ queue # << >> /\ dest' = Head(queue) /\ sender' = "call"
     \/ queue = << >> /\ test.uid /\ sender' = "dead" /\ UNCHANGED dest
     \/ queue = << >> /\ ~test.uid /\ sender' = "call" /\ UNCHANGED dest
  /\ UNCHANGED << testVars, service, answer, by, busVars, log >>

\* The bus is asked to start a service unless the message says not to.
NoDestination == IF test.autoStart THEN "SERVICE_UNKNOWN" ELSE "NAME_HAS_NO_OWNER"

\* Where the bus takes a call addressed to a name.
Route ==
  IF test.kind = "unknown" \/ queue = << >>
  THEN answer' = NoDestination /\ by' = TheBus /\ dest' = Nobody
  ELSE dest' = Head(queue) /\ UNCHANGED << answer, by >>

\* A unique id names one connection for ever.
RouteToUniqueId ==
  IF dest \in closing \/ (dest = n /\ service # "dead")
  THEN UNCHANGED callVars
  ELSE answer' = NoDestination /\ by' = TheBus /\ dest' = Nobody

\* The call goes to the unique id the sender has, or else to the name.
Call ==
  /\ sender = "call"
  /\ sender' = "await"
  /\ IF dest = Nobody THEN Route ELSE RouteToUniqueId
  /\ UNCHANGED << testVars, service, busVars, log >>

\* What the sender's ReplyHandlingMethod asserts of the answer.
Expected ==
  CASE test.kind = "exchange" -> {"ok"}
    [] test.kind = "refused"  -> {"UNKNOWN_METHOD"}
    [] test.kind = "unknown"  -> IF test.autoStart THEN {"SERVICE_UNKNOWN"}
                                                   ELSE {"NAME_HAS_NO_OWNER"}

HandleReply ==
  /\ sender = "await"
  /\ answer # "none"
  /\ sender' = IF answer \in Expected THEN "done" ELSE "dead"
  /\ UNCHANGED << testVars, service, callVars, busVars, log >>

-----------------------------------------------------------------------------
\* The bus sees that a connection is closed: its place in the queue is free, and
\* the call it was given and did not answer gets an error.
BusSees(c) ==
  /\ c \in closing
  /\ closing' = closing \ {c}
  /\ Leaves(c)
  /\ IF dest = c /\ sender = "await" /\ answer = "none"
     THEN answer' = "NO_REPLY" /\ by' = TheBus
     ELSE UNCHANGED << answer, by >>
  /\ UNCHANGED << testVars, sender, service, dest, log >>

Step ==
  \/ RequestName \/ NameLost \/ Serve \/ Release
  \/ NameAppears \/ Resolve \/ Call \/ HandleReply
  \/ \E c \in Ids : BusSees(c)

\* No process of the test has anything to do, and the bus has nothing to see: no
\* other step of a test that runs is possible.
Quiet ==
  /\ service \in {"off", "serve", "done"}
  /\ closing = {}
  /\ \/ sender = "wait" /\ queue = << >>
     \/ sender = "await" /\ answer = "none" /\ ~(service = "serve" /\ dest = n)
     \/ sender = "done" /\ test.kind = "exchange" /\ service # "done"

\* The deadline is far away: it passes only when nothing else can happen.
TimeOut == Quiet /\ Judge("TIMEOUT")

Next == StartTest \/ Step \/ Pass \/ Fail \/ TimeOut

Spec == Init /\ [][Next]_vars

-----------------------------------------------------------------------------
(* Properties.                                                             *)

\* A test passes only by what its own service did, or the bus where the test has no
\* service: what is left of another test can make it fail, and never pass.
PassIsOwn ==
  \A i \in 1..Len(log) :
    log[i].verdict = "PASS" =>
      /\ log[i].by = IF log[i].kind = "unknown" THEN TheBus ELSE i
      /\ ~log[i].deaf

\* On a bus where nobody has the name, every test passes.
CleanBusPasses == \A i \in 1..Len(log) : log[i].stale \/ log[i].verdict = "PASS"

\* Only a service that was killed, or died, leaves the name behind: an exchange that
\* passed does not disturb the test that follows.
NameLeftByKilled ==
  Idle => \A i \in Ids :
            i \in ToSet(queue) => \/ log[i].kind = "refused"
                                  \/ log[i].verdict # "PASS"

\* A test can hang until its deadline only because request_name() of libdbus takes
\* the answer that somebody else owns the name for a success.
TimeoutMeansDeaf == \A i \in 1..Len(log) : log[i].verdict = "TIMEOUT" => log[i].deaf
=============================================================================
