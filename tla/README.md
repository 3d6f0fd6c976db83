# A TLA+ model of gtf

gtf is a test suite for D-Bus systems.  One program forks, for every test, the
processes that take part in it (a sender and a receiver, or an owner of a name
and a process that waits for the signals about it), gives them a deadline and
prints a verdict.  What can go wrong in it is hardly ever wrong data: it is the
order in which processes, threads, main loops and the bus do things.  A harness
that waits for the wrong child, a receiver that is counted ready too early, a
signal that was dispatched by the wrong main loop all look like a flaky test.
The modules here model that order.

## Inventory

| part | source | state | operations |
|---|---|---|---|
| test runner | `main.cpp` 35-134, `lib/testlib.h` | process ids, promise, verdict, deadline, the children in the kernel | `run`, `gatherPids`, `frk`, `deathSig`, `waitForChildren` (main and waiter thread) |
| suite | `main.cpp` 136-212, 835-862, 1050-1061 | `cnt`, `cnt_fail`, `testsToRun`, prefix and description, standard output, the list of failures | `runAndPrintSingleTest`, `runCombined`, options, summary |
| test catalogue | `main.cpp` 212-833, 862-1048 | none | which sender meets which receiver, and the parameters |
| send/receive scenario | `ScenarioSendReceive.h` | messages left, threads | `Sender::operator()`, `Receiver::operator()` |
| libdbus client | `ImplDbus.h` | connection, match rule | `SetupWaitForName`, send methods, feeders |
| libdbus service | `ImplDbus.h` | `processed`, counter of the reaction | `SingleMethodService`, `ListenToSignalsService`, `Dispatcher` |
| GDBus client | `ImplGdbus.h` | connection, proxy, loop | `SetupWaitForName`, proxy creators, synchronous and asynchronous send methods |
| GDBus service | `ImplGdbus.h` | main loop, `processed`, subscription | `SingleMethodService`, `ListenToSignalService`, `Dispatcher` |
| name management scenario | `ScenarioNameManagement.h` | iterations | `NameOwner::operator()`, `Receiver::operator()` |
| name operations | `ImplDbus.h`, `ImplGdbus.h`, `ImplCommon.h` | `own_registrations`, the bus's queue for the name | request, release, the composite operation, `NameSignalWaiter` |
| synchronizer | `ImplGdbus.h` | its own service and its own client | `synchronizeService`, `synchronizeClient` |
| feeders, payloads, reactions | `ImplDbus.h`, `ImplGdbus.h` | contents of messages | build, check |
| succession of tests, error tests | `main.cpp` 496-755 | the name and the services a test leaves on the bus | `checkErrors`, unique id concept |
| bus getters, match rules, logging | `ImplDbus.h`, `ImplGdbus.h`, `lib/` | environment, text | - |
| D-Bus daemon, libdbus, GLib | external | name ownership, match rules, queues, main contexts | - |

How they interact: the suite calls the runner once per selected test; the runner
forks the components; the components only meet through the bus.  Inside a
component, the libraries call back into the program from the main loop (GDBus)
or from `dbus_connection_read_write_dispatch()` (libdbus), and the scenario code
looks at counters these callbacks have changed.

Hard behaviours, and what makes each part correct:

* runner - `wait()` reaps any child, components and services alike; the verdict
  races the deadline; the clean-up kills processes that may have been reaped.
  A pass must be earned by every component, a failure must be the failure of a
  child and not of the clean-up, the promise may be set once, no child may be
  left for the next test, and the test must return even if a component hangs.
* send/receive - the receiver's name is seen by the sender before the receiver is
  back in its own code.  No call may be refused, no signal missed, no message
  counted twice or not at all, no reply cut off by the receiver's exit, and both
  processes must end.  The descriptors in flight must stay within 16.
* name management - two handshakes on different connections: the receiver must be
  subscribed before the first operation, the name owner before the receiver's
  signal.  Operations must succeed, also after the composite one, and the two
  signals per operation must be counted exactly.
* a bus that misbehaves - the bus is what gtf is for.  Whatever it loses, repeats
  or damages, a pass must mean that everything arrived, and a process must not
  wait for one that is dead.
* tests that follow each other - all of them use one well-known name, and the
  services of the error tests are killed while they own it.  What is left of a
  test may make the next one fail, but never pass.
* suite - names must mean the same test in a listing and in a run; a result must
  be printed once although a child inherits the buffer of standard output.

The file `PROJECT.json` lists the hazards one by one with the line where each
bites and the properties that look for it.

## Modules

| module | models |
|---|---|
| `TestRun` | what one test promises: the abstract specification of `run()` |
| `Runner` | `run()` and `waitForChildren()` in detail, implements `TestRun` |
| `RunnerProofs` | theorems about `Runner` |
| `Suite` | a listing and a run of the tests: selection, numbering, output |
| `SuiteProofs` | theorems about `Suite` |
| `Exchange` | what a test of the send/receive scenario exchanges: its abstract specification |
| `SendReceive` | the send/receive scenario over both implementations, implements `Exchange` |
| `SendReceiveProofs` | theorems about `SendReceive` |
| `SendReceiveRefinement` | the theorem that `SendReceive` implements `Exchange` |
| `FaultyBus` | the same scenario on a bus that misbehaves, with the failures of both processes |
| `FaultyBusProofs` | theorems about `FaultyBus` |
| `Succession` | several tests on one bus: expected errors, killed services, unique ids |
| `SuccessionProofs` | theorems about `Succession` |
| `NameManagement` | the name management scenario |
| `NameManagementProofs` | theorems about `NameManagement` |
| `MC...` | instances for TLC |

### Runner

The state of the main thread is `pc`, `verdict`, `todo` (the process ids the
current kill loop still has to go through) and `left` (the `wait()` calls of the
last loop).  The waiter thread is the lambda of `waitForChildren()`: `waiter`,
`waits`, `ret` (between `wait()` and the lines that look at its result), `ok` (its
variable `result`) and the `promise`.  A second `set_value()` is the value
"error".  Children go from "unborn" over "born" (forked, before `deathSig()`),
"running" and "zombie" to "reaped".  `Crash` is a failed assertion; a component
may also do nothing for ever.  The rest of the machine may be given the process
id of a reaped child (`Recycle`), which is what the FIXME of line 90 is about.

Each loop iteration that other actors can observe is an action: `WaiterWait` and
`WaiterRecord` split the loop body at the return of `wait()`, `Signal` is one
`kill()`.  A failing `fork()` (`ForkFails`) aborts the harness.

`TestRun` says what is promised, in terms of the fates of the children, the
children collected, and the verdict: the verdict comes first and only once, a
child is only killed after it, and the test is over only when every child has
been collected.  `RefinesTestRun` maps Runner to it: a zombie counts with the way
it ended, "reaped" children are those collected.

### Suite

One session: `gtf -l`, then `gtf` with some of the names it has printed
(`Invoke`).  `group` and `test` are the place in `main()`, an iteration of
`runAndPrintSingleTest()` is `Skip`, `Describe`, or `StartTest` and `FinishTest`;
the variables `cnt`, `cnt_fail`, `testsToRun`, `getNameOnly` and `os` are the
code's.  `run()` is reduced to its verdict and to the processes it forks.

A name is the parts of its prefix and a number, so that one prefix can begin
another.  Standard output is not a terminal: `buf` is the stdio buffer of the
harness, `copy[c]` what child `c` inherited of it and writes when it exits or logs
something (`ChildEnds`).  The log line before `run()` flushes `buf`, because
`std::cerr` is tied to `std::cout`; that is the one reason why no result is
written twice.  `RunAborts` is the failing `fork()` of `Runner`: the text of the error is one more
line of the output, after all results, and nothing stays in `buf`.

### SendReceive

One module covers the combinations of sender, receiver and kind of message of the
concepts in `main.cpp`; a run picks one of `Modes` at the start.  The variables
name the code's: `k`, `processed` and `counter` are those of
`Receiver::operator()`, `ServiceSetupData` and `ImplCommon::Counter`.  A message
has no content: it is a kind, the thread it belongs to and its number in that
thread, and a reply has the number of its call (`Awaited`: a reply, or an error of
the bus, answers the call whose serial it carries, once, and no other).

The important difference between the implementations is what dispatches.  The
libdbus service blocks for the reply to its request for a name and dispatches
nothing; a GDBus service runs a main loop until the name is acquired, and an
iteration of a GLib main context dispatches everything that was ready when it
began.  `Poll` takes such a batch, `Dispatch` handles one element of it, and a
loop that was told to quit returns only at the end of the batch
(`SetupReturns`, `DispatchReturns`).

On the sender's side: libdbus subscribes to the owner's changes, asks, and waits
(`AddWatch`, `CheckOwner`, `DispatchNews`); GDBus watches the name
(`NameAppeared`).  A GDBus proxy asks for the properties of its service first
(`Prepare`, `Prepared`).

`Exchange` says what all of this is for, without processes, connections and main
loops: the messages of a thread are sent in order, a call only after the answer
to the one before, each is given to the Reaction once and in order, only what was
handled is answered, and neither side ends before its part is done.
`RefinesExchange` maps `SendReceive` to it: `sent` gives the messages sent, a call
is answered when its thread has gone on, a side is over when its process has
exited.

### FaultyBus

`FaultyBus` extends `SendReceive`: its steps are those of `SendReceive` as long as
the process that takes them is alive.  Up to `MaxFaults` times the bus loses a
message (`BusLoses`) or a reply, delivers one twice (`BusRepeats`), damages one
(`BusDamages`: a byte of the payload is changed, or a message is left without its
descriptors or with some of several), or closes the receiver's connection
(`BusCutsReceiver`).  What the processes do then is
theirs: the Reaction asserts that a message is what its feeder made of it
(`CheckFails`), `handleReply()` fails on an error (`SenderFails`), a service on a
closed connection fails or does not, according to its library and to where it is
(`ReceiverDisconnected`, `ReleaseFails`; libdbus in `dispatchOnce()` spins, which
is no step at all), and `k`, which is unsigned, wraps (`Wraps`).  When the
receiver is dead, or ends with calls in its queue, the bus answers the calls it was
given with an error (`BusSeesDeath`, `BusSeesExit`).  `Checks` are the concepts of
`main.cpp`: the plain ones check nothing, the payload ones size and contents.
The descriptors of a call are checked by both libraries, but not their number
(`Detects`): the libdbus receiver takes it from the specification of the test
(`ImplDbus.h` 719), the GDBus one compares it with what the message itself says
(`ImplGdbus.h` 708).

A message that the bus repeats is in two places, and the copies need not be alike:
`damaged` and `thinned` (without some of its descriptors) are the messages of which
every copy is changed, `spoilt` those of which an intact copy went before the
changed one, so that the Reaction may meet either (`MayDetect`).  A message counts as `lost` only if no copy
of it has been delivered.

### Succession

The tests are numbered, and so are their services and connections.  A test is an
exchange, a call for an interface, path or member the service does not have
("refused"), or a call to nobody ("unknown"), with the destination as a name or
as a unique id, with or without the request to start a service.  What happens
inside a test is reduced to the steps at which it meets the bus: the name is
requested, seen, resolved, called, released.  A GDBus proxy asks for the owner of its
name when it is made and addresses its calls to that connection; a libdbus sender
does so only in the unique id tests (`Resolve`, `Call`).  The bus keeps a queue for
the name,
and closes the connection of a killed or dead service some time later
(`closing`, `BusSees`), in the middle of any later test.  `Judge` is the end of
`run()`; `TimeOut` is only possible when the test is `Quiet`: every process waits
for something that will not come, and the bus has no closed connection left to
see.  DEF_TIMEOUT is much longer than what the processes do, and much shorter than
the 25 seconds after which a call gives up by itself.

### NameManagement

`opc` goes through `synchronizeService()` (its service is the signal service of
the send/receive scenario, expecting one message) and then through the operations
of `NameOperations::execute()`; the composite operation is the two steps
"requestAgain" and "releaseAgain" on the shared connection.  The bus keeps the
owner of the tested name and the queue for it; `registered` is the map
`own_registrations`.  The receiver subscribes, waits for the synchronization
name, sends its signal and then expects `Signals` signals.  Its two waiters
differ: the GDBus one counts signals that came in earlier iterations, the libdbus
one takes one per call.

## Runs

| run | question | instance |
|---|---|---|
| runner | is every verdict sound and nothing left behind, does a test always end, is the contract kept? | two components, two services |
| runner_innocent | can the clean-up signal a stranger? (yes) | two components, one service |
| runner_orphans | can a child survive the harness? (yes) | two components, one service |
| send_receive | is anything lost, refused, or counted wrongly; do both processes end; is the contract kept? | all combinations; two threads, two messages each, 8 descriptors per call |
| send_receive_early | is every message accounted for? (no) | the same |
| name_management | does the handshake lose a signal, an operation fail, a count go wrong; do both processes end? | all combinations; three operations, as in `main.cpp` |
| name_management_sync | does synchronizeService() finish? (no) | one operation |
| suite | do names mean the same test, is each result written once, is the fail list complete? | three groups, four tests, two processes per test, up to two arguments |
| suite_prefix | does a prefix of a name select it? (no) | the same |
| suite_total | is the number of passed tests printed? (no) | the same |
| faulty_bus | what does a pass mean on a bus that misbehaves, who waits for whom, and does anything go wrong without a fault? | all combinations and checks; one thread, two messages, two faults |
| succession | what can a test do to the next ones? | three tests of all kinds |

Bounds.  Every test of the catalogue that is run has at most two components, and
the tests with services have one; two of each let a service end in the place of a
component, both fail, and one be reaped after the other was killed.  Two threads
with two messages give a batch of several messages, one that straddles the end of
`setup()`, and a thread that is still sending when the other is done; with 8
descriptors the limit of 16 is reached exactly.  Three operations are what
`main.cpp` asks for: the name is requested again after a release, and a batch of
the waiter can hold six signals.  Of the groups of the suite, the prefix of one
begins the prefix of the next, as "method" begins "methoduid", and one has two
tests, so that a number is not the place in its group; the arguments are whole
groups, names of tests and names that no test has, none, one or two at a time;
two processes are what a test of the catalogue forks.

The faults of `FaultyBus` come at any point of the exchange and in any combination.
With two messages the late answer or the copy of one can meet the other, and a
repeated signal be counted for one that is still under way; with two faults one can
meet what the other has left: a copy that is damaged or lost, a connection that is
closed when the call was lost already.  One thread is enough for what the processes
do to each other; what holds at the end of a test is proved for any number of
threads, messages and faults, and the inductive invariant of that proof was found
to hold by TLC with two threads and two faults first.
`UIntRange` stands for 2^32 and only has to be larger than any count, so
that a `k` that wrapped is not mistaken for one that is right.  In `Succession` a
killed service can keep its name over a whole test and be in the way of a
third one.

Deadlock is not checked: in every model the processes end, or may crash and stay
so, and that is no error.  Liveness is stated instead.

Fairness.  Every thread that can go on does (the kernel schedules it), the bus
moves the messages it holds, time passes (`Deadline`), and a SIGKILL sent is
delivered.  Nothing is assumed of the components in `Runner`: that the test ends
although they hang is the point.  In the scenarios weak fairness is per process
(or per thread): a process is never disabled by another one without having
nothing to do.

In `FaultyBus` no fault ever has to happen; a process that can take a step does, as
long as it lives, and the bus does notice that a process has died or ended.  What
it has lost stays lost: `NobodyWaitsForTheDead` excepts a thread whose call, or its
reply, is lost (`WaitsForLost`), which is what the deadline is for, and
`DamageIsNoticed` excepts a damaged message that another fault keeps from the
Reaction.

Two properties hold only "unless" something else happens
(`BothEndIfAccounted`, `BothEndIfSynchronized`).  What they except is exactly what
the runs `send_receive_early` and `name_management_sync` exhibit.
`AccountedUnlessExposed` says where it cannot happen: a libdbus receiver handles
nothing in `setup()`, and a GDBus proxy gets no answer before the receiver is in
`dispatchOnce()`, so that with them both processes always end.

### What the runs with faults show

A pass means that every message was handed to the Reaction, with one exception
that `PassMeansDelivered` and `PassMeansIntact` name (`Miscounted`): the receiver
counts signals and does not tell them apart, so that a signal that comes twice is
counted for one that does not come.  A GDBus receiver that handles the surplus
in one iteration makes `k` wrap and times out, a libdbus receiver passes.

Where the concept checks what messages carry, a message that was damaged in every
copy ends in a failed assertion, as long as it, or the connection, is not lost as
well.  There are two limits, and `PassMeansIntact` states both.  When a call comes
twice and only the second copy is spoilt, the test may end before the Reaction meets
it, and pass.  And a GDBus receiver of file descriptors passes although some of
several are missing from a call, while a libdbus receiver does not; that none is left
both notice.

A killed service can still own the name when the next test begins.  With libdbus
the next service then believes that it has the name, because `request_name()`
(`ImplDbus.h` 862) takes every answer that is not an error for a success, and the
test runs into its deadline; with GDBus it fails at once.  `TimeoutMeansDeaf` says
that this is the only way for a test to hang; `CleanBusPasses`, that nothing else
makes a test fail on a bus that works; `NameLeftByKilled`, that an exchange that
passed is never the cause.

### What the violated runs show

* `NoInnocentKilled` - the waiter reaps a component, the kernel reuses its
  process id, and the loop of line 89 kills the stranger.  The comment asks
  whether this can be: it can.
* `ChildrenDieWithParent` - a `fork()` that fails after earlier ones succeeded
  aborts the harness; a child that has not reached `prctl()` yet asks for the
  signal when its parent is already gone, and runs on.
* `AllAccounted` - a GDBus receiver's name is announced, the sender sends at once,
  and the message is dispatched in the same iteration of the main loop of
  `setup()` as the acquisition of the name.  It is counted in `processed`, which
  `dispatchOnce()` resets before it is read: the receiver waits for a message
  that was already handled.
* `SyncFinishes` - the same with the one signal of the synchronizer.
* `PrefixSelects` - the argument "method" runs the group of that name, but not
  "methoduid", whose names begin with it, too: the code compares whole prefixes,
  the README of the program promises more.
* `PassIsCounted` - `cnt` starts at 1 and is the number of the next test, so
  "Total" is one too many and "Pass" counts the tests that were skipped.

## Proofs

`RunnerProofs`, for all finite disjoint sets of components and services:

* the inductive invariant `IInv` adds to the properties what makes them
  inductive: which phase each thread can be in while the other is in its own
  (`Phases`); that the number of children collected is the number of `wait()`
  calls made, by the waiter and then by the last loop (`Counting` - a cardinality
  argument, the reason why no service can be left over and no `wait()` finds
  nobody); how each child's status relates to how it ended and to the signals
  sent (`Statuses`: nobody is killed before the verdict); and what the promise
  says of the children reaped so far (`Conclusions`);
* from it `TypeCorrect`, `VerdictSound`, `PromiseSafe`, `WaitSafe`,
  `NoneLeft`, `Possibilities`, and `Refinement`: every step of Runner is a step of
  `TestRun` or leaves its state alone.

`SendReceiveProofs`, for every finite set of threads, every number of messages and
every combination of implementations and kinds:

* the inductive invariant `IInv` looks at the way of a message and of the reply
  back as one queue - replies, batch, inbox, wire - in which the messages of a
  thread are in the order of their numbers and none is twice (`Ordered`).  A call
  on it, or its reply, is the one its thread waits for, and later than all of that
  thread that were handled (`Requested`, `Sending`).  `Named` and `Released` say
  when the name has an owner and a match is installed, relative to where both
  processes are: before the first message, and until the last is handled.
  `Looping` says what a main loop can have dispatched (the name first), `Counting`
  relates `k`, `processed` and `counter` to the number of messages handled - a
  cardinality - and `Shielded` is why a GDBus proxy exposes no message to the loop
  of `setup()`: it has sent none before its question is answered;
* from it `TypeCorrect`, `CallsAccepted`, `SignalsSeen`, `CountsDown`,
  `RepliesLeave`, `Accounted` and `FdsBounded` (the messages with descriptors are
  mapped one to one to their threads).  Why is the invariant needed: that no call
  is refused depends on the name being released after the last message, which
  depends on the counters, which depend on no message being handled twice.

`SendReceiveRefinement` proves from the same invariant that every step of
`SendReceive` is one of `Exchange` or leaves its state alone.

`NameManagementProofs`, for every number of operations and every combination:

* `IInv` = `TypeOK`, where the messages of a connection are while its process is
  in a given place (`Queues`), the phases of both processes
  (`ReceiverPhases`, `OwnerPhases`), the state of name, queue and registrations
  between two operations (`OperationPhases`), and the balance of signals emitted,
  under way, taken and counted (`Counts`);
* from it `SignalSafe`, `SyncSafe`, `OperationsSucceed`, `SignalsCounted` and
  `ReceiverLast`.

`SuiteProofs`, for every catalogue, set of child processes and choice of
arguments:

* `IInv` = the types and the place in `main()` (`Shape`), `cnt` as one more than
  the number of tests of the catalogue before this one (`Numbers`, a cardinality
  and no recursion: a test's number depends on its place alone, which is why a
  name means the same in every invocation), the empty buffer children inherit
  (`Buffers`), and what was listed (`Listings`) and run (`Runs`) so far, as sets of
  pairs of name and test;
* from it `ResultsOnce`, `LittleUnwritten` and `NamesStable`; with `Failures`, a
  second invariant (the fail list has every failed result, and `cnt_fail` is its
  length, until `main()` ends), also `FailuresListed` and `TypeCorrect`.

`SuccessionProofs`, for any number of tests of any kinds:

* `IInv` = the types; which connections are in the queue of the name, each once,
  and the one of the running test only between its request and its release
  (`Queued`); how far the running test is (`Running`); that a service without the
  name is not the one a call is addressed to (`Addressed`); whose answer it is
  (`Answered`); and what the tests before have left (`Left`), together with
  `PassIsOwn` itself;
* from it `TypeCorrect`, `PassOwned` and `NameReleased`, none of which depends on
  when a timeout is possible.
* `TimeoutsDeaf` and `CleanPasses` are about the other verdicts, and do depend on
  it.  `TimeOut` has `Quiet` as its guard, the state predicate for "no other step of
  the test is possible" (TLC finds the two equivalent with up to four tests).  A
  second invariant, `JInv`, says that a connection in the queue of the name belongs
  to the running service or is about to be closed (`Closed`), how far the call and
  its service are (`Progress`: a sender that waits for an answer waits for a service
  that will give it or for a connection the bus will close, so that only a deaf
  service lets a test become quiet), and that a test which found nobody with the
  name has its own service found, called and answering what is expected (`Clean`).

`FaultyBusProofs`, for every number of faults, threads and messages, every
combination and every range of the unsigned numbers:

* most of the invariant of `SendReceive` is false here: a message may be in two
  places, `k` may have wrapped, the name may be gone in the middle of the exchange.
  `FaultyIInv` keeps what no fault can take away: on the way of the messages of a
  thread a later one never overtakes an earlier, and only one that the bus has
  repeated comes twice or after it was handled (`Queues`, `Carrying`); a call that
  its thread is done with was handled (`Sides`), because the answer the thread took
  was the reply to that call (`Replying`); as long as no signal was repeated the
  receiver counts no more than it has handled, so that it does not end before it has
  handled all (`CountsOnce`); and a Reaction that checks has handled nothing damaged
  (`Intact`);
* from it `FaultyTypeCorrect`, `PassesDelivered` and `PassesIntact`.  For a call the
  pass of the sender is the reason why all were handled, whatever the receiver
  counted; for a signal it is the count, and that is why signals need the exception
  `Miscounted` and calls do not;
* `FaultFree`: before the first fault every step of `FaultyBus` is one of
  `SendReceive` and no process dies.  The invariant of `SendReceive` holds until
  then, and each failure the module adds is refuted by a part of it: no call is
  refused (`SenderFails`), nothing is counted twice (`Wraps`), the receiver's queue
  has no call left when it ends (`BusSeesExit`).

The assumptions are those of the modules: `RunnerAssumption`,
`SendReceiveAssumption`, `NameManagementAssumption`, `SuiteAssumption`,
`SuccessionAssumption` and `FaultyBusAssumption`.

Every safety invariant and action property that a passing run checks is proved.
Only model-checked are the liveness properties - `TestEnds`, `BothEndIfAccounted`,
`BothEndIfSynchronized`, `DamageIsNoticed` and `NobodyWaitsForTheDead` - because
TLAPS does not prove statements about fairness and ENABLED.

## Not modelled

The bytes and sizes of payloads, long names, environment variables and bus
addresses, match rule texts, logging: data that goes through the program
unchanged or is checked by the bus.  (The estimate of the header in `main.cpp` 968
leaves out the 16 standard bytes that its comment lists.)  How long anything takes:
a deadline can pass at any time in `Runner`, and only when nothing else can happen
in `Succession`.  In `FaultyBus`, a reply is never sent twice, since the libraries drop a reply
without a call that waits for it (a repeated call is answered twice, and the second
answer dropped); a call that is never answered runs into the deadline of the test,
long before its own.  The
senders that call a unique id are run with one thread only, so that the race for
the member `bus` of `MethodCallForUniqueIdCreator` (`ImplDbus.h` 297) exists in no
test; the `setenv()` of `SetPoolSize` (`ImplGdbus.h` 386) is a data race whose
outcome no model tells apart.  A failing `fork()` writes the text of its error to
standard output (`testlib.h` 53); `Suite` has that as a line of the output, which
follows the results (`EachResultOnce`); what becomes of the children that were
forked before is the question of `runner_orphans`.  `lib/pos_ind.h` is hardly used:
of its macros only the row of one (`D_POSITION_INDEPENDENT_DEFAULTS8`) does not
follow the pattern of the others, and no code instantiates it.

## Plan

1. done - `TestRun`, `Runner`, their runs and proofs.
2. done - `SendReceive` with its runs, and `Exchange`, which it implements.
3. done - `NameManagement` with its runs and proofs.
4. done - `Suite` with its runs and proofs.
5. done - `FaultyBus`: the scenario with lost, repeated and damaged messages, a
   closed connection, and processes that die of a failed assertion.
6. done - `Succession`: the error and unique id tests, killed services, and the
   name they leave to the next test.
7. done - proofs about `SendReceive` and that it implements `Exchange`, and of the
   fail list of `Suite`.
8. done - proofs about `Succession` for any number of tests.
9. done - the verdicts of `Succession` on a clean bus, and the safety of `FaultyBus`,
   with an invariant weaker than that of `SendReceive`: a message may be in two
   places, and none may be in the wrong order.
10. next - an abstract specification of what a name management test promises (each
   change of ownership signalled once, in order), that `NameManagement` implements.
