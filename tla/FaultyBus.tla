----------------------------- MODULE FaultyBus -----------------------------
(***************************************************************************)
(* The send/receive scenario on a bus that misbehaves.  The bus is what    *)
(* the tests are for: it may lose a message or a reply, deliver a message  *)
(* twice, damage what a message carries, or close the receiver's           *)
(* connection.  Either process may then die of a failed assertion, and a   *)
(* test passes only when both processes end by themselves in time.         *)
(*                                                                         *)
(* The steps of SendReceive are those of the processes that are alive.     *)
(* The bus and the libraries' treatment of a closed connection are         *)
(* external, modelled from how the code uses them.                         *)
(***************************************************************************)
EXTENDS SendReceive, Integers

CONSTANTS
  MaxFaults,  \* faults of the bus in one test (a bound)
  Checks,     \* what the concept's Reaction checks
  UIntRange   \* 2^32 in the code: the unsigned numbers are 0..UIntRange-1

ASSUME FaultyBusAssumption ==
  /\ MaxFaults \in Nat
  /\ Checks \subseteq {"plain", "payload", "fds"}
  /\ UIntRange \in Nat /\ UIntRange > Total

VARIABLES
  check,     \* what this concept's Reaction checks
  faults,    \* faults so far
  lost,      \* messages, and calls whose reply, the bus has lost
  repeated,  \* messages the bus has delivered twice
  damaged,   \* messages whose contents the bus has changed, in every copy
  thinned,   \* messages that it has left some of their descriptors, in every copy
  spoilt,    \* messages of which it has damaged a copy that follows an intact one
  crashed,   \* processes that died of a failed assertion, or of a signal
  cut        \* the receiver's connection is closed

faultVars == << check, faults, lost, repeated, damaged, thinned, spoilt, crashed, cut >>
allVars   == << vars, faultVars >>

Alive(process) == process \notin crashed

FaultyTypeOK ==
  /\ StateOK
  /\ k \in 0..(UIntRange - 1)
  /\ processed \in Nat
  /\ check \in Checks
  /\ faults \in 0..MaxFaults
  /\ lost \subseteq Threads \X (0..Msgs)
  /\ repeated \subseteq All
  /\ damaged \subseteq All
  /\ thinned \subseteq All
  /\ spoilt \subseteq All
  /\ crashed \subseteq {"sender", "receiver"}
  /\ cut \in BOOLEAN

\* Only calls carry file descriptors.
FaultyInit ==
  /\ Init
  /\ check \in Checks
  /\ check = "fds" => mode.kind = "call"
  /\ faults = 0
  /\ lost = {}
  /\ repeated = {}
  /\ damaged = {}
  /\ thinned = {}
  /\ spoilt = {}
  /\ crashed = {}
  /\ cut = FALSE

\* The concept has a Reaction that looks at what messages carry.
Checked == check # "plain"

-----------------------------------------------------------------------------
(* Broken variants of the definitions below, one for each property.        *)

\* A check fails whatever the message carries.
DetectsAlways(m) == Checked /\ m.kind = mode.kind

\* The payload of signals is not checked.
DetectsCallsOnly(m) ==
  /\ m.kind = "call"
  /\ \/ << m.thread, m.n >> \in damaged /\ Checked
     \/ << m.thread, m.n >> \in thinned /\ mode.receiver = "dbus"

\* libdbus compares the number of descriptors with what the message itself says.
DetectsByOwnCount(m) == << m.thread, m.n >> \in damaged /\ Checked

\* libdbus: the error of a call is looked at only when there was a reply.
SenderFailsGdbus(t) ==
  /\ Alive("sender")
  /\ mode.sender = "gdbus"
  /\ thr[t] = "await"
  /\ answer[t] = "error"
  /\ crashed' = crashed \cup {"sender"}
  /\ UNCHANGED << vars, check, faults, lost, repeated, damaged, thinned, spoilt, cut >>

-----------------------------------------------------------------------------
(* Faults of the bus.                                                      *)

Fault == faults < MaxFaults /\ faults' = faults + 1

Id(m) == << m.thread, m.n >>

\* A message is lost on its way to the receiver, or what is left of it when a copy
\* has been delivered.
BusLoses(t) ==
  /\ Fault
  /\ wire[t] # << >>
  /\ wire' = [wire EXCEPT ![t] = Tail(@)]
  /\ lost' = lost \cup ({Id(Head(wire[t]))} \ repeated)
  /\ UNCHANGED << mode, senderVars, answer, busVars, receiverVars,
                  check, repeated, damaged, thinned, spoilt, crashed, cut >>

BusLosesReply ==
  /\ Fault
  /\ rout # << >> /\ Head(rout).kind = "return"
  /\ rout' = Tail(rout)
  /\ lost' = lost \cup {Id(Head(rout))}
  /\ UNCHANGED << mode, senderVars, answer, wire, busVars, rpc, rbox, batch, quit, k,
                  processed, counter, handled,
                  check, repeated, damaged, thinned, spoilt, crashed, cut >>

\* A message is delivered, and is still to be delivered.
BusRepeats(t) ==
  /\ Fault
  /\ wire[t] # << >>
  /\ LET m == Head(wire[t])
     IN  /\ m.kind = mode.kind
         /\ m.kind = "signal" => matched
         /\ m.kind = "call" => owner
         /\ rbox' = Append(rbox, m)
         /\ repeated' = repeated \cup {Id(m)}
  /\ UNCHANGED << mode, senderVars, answer, wire, busVars, rpc, rout, batch, quit, k,
                  processed, counter, handled,
                  check, lost, damaged, thinned, spoilt, crashed, cut >>

\* A byte of the payload is changed, or a message is left without its descriptors, or
\* with some of several: in all that will be delivered of it, or after an intact copy.
BusDamages(t) ==
  /\ Fault
  /\ wire[t] # << >> /\ Head(wire[t]).kind = mode.kind
  /\ LET m == Id(Head(wire[t]))
     IN  \/ /\ m \notin repeated
            /\ damaged' = damaged \cup {m}
            /\ UNCHANGED << thinned, spoilt >>
         \/ /\ m \notin repeated /\ check = "fds" /\ Fds > 1
            /\ thinned' = thinned \cup {m}
            /\ UNCHANGED << damaged, spoilt >>
         \/ /\ m \in repeated
            /\ spoilt' = spoilt \cup {m}
            /\ UNCHANGED << damaged, thinned >>
  /\ UNCHANGED << vars, check, lost, repeated, crashed, cut >>

\* The receiver's connection is gone: so are its name, its match and what it has
\* not sent, and every call that was passed on to it is answered with an error.
ReceiverVanishes ==
  /\ ~cut
  /\ cut' = TRUE
  /\ owner' = FALSE
  /\ matched' = FALSE
  /\ news' = IF owner /\ watching THEN news + 1 ELSE news
  /\ rout' = << >>
  /\ answer' = [t \in Threads |->
                  IF /\ thr[t] \in {"getall", "await"} /\ answer[t] = "none"
                     /\ wire[t] = << >> /\ << t, sent[t] >> \notin lost
                  THEN "error" ELSE answer[t]]
  /\ UNCHANGED << mode, spc, watching, thr, sent, wire, dropped, rpc, rbox, batch, quit,
                  k, processed, counter, handled,
                  check, lost, repeated, damaged, thinned, spoilt, crashed >>

BusCutsReceiver == rpc \notin {"start", "exited"} /\ Fault /\ ReceiverVanishes

\* The bus learns that the receiver died.  libdbus has flushed its replies before.
BusSeesDeath ==
  /\ ~Alive("receiver")
  /\ mode.receiver = "dbus" => rout = << >>
  /\ ReceiverVanishes
  /\ UNCHANGED faults

\* The bus learns that the receiver has ended: a call that it was given and did not
\* dispatch is answered with an error.
BusSeesExit(t) ==
  /\ rpc = "exited"
  /\ \E i \in 1..Len(rbox) : rbox[i].thread = t /\ Awaited(rbox[i])
  /\ answer' = [answer EXCEPT ![t] = "error"]
  /\ UNCHANGED << mode, senderVars, wire, busVars, receiverVars, faultVars >>

-----------------------------------------------------------------------------
(* The processes' own failures.                                            *)

Crash(process) ==
  /\ Alive(process)
  /\ crashed' = crashed \cup {process}
  /\ UNCHANGED << vars, check, faults, lost, repeated, damaged, thinned, spoilt, cut >>

\* The Reaction asserts that what a message carries is what the feeder put in it.  How
\* many descriptors there must be libdbus takes from the specification of the test;
\* GDBus asks for any, and compares their number with what the message itself says.
Detects(m) ==
  \/ Id(m) \in damaged /\ Checked
  \/ Id(m) \in thinned /\ mode.receiver = "dbus"

\* A copy of a message of which an intact copy was handled may be a damaged one.
MayDetect(m) ==
  /\ Id(m) \in spoilt \cap handled
  /\ Checked

\* An assertion of the Reaction fails.
CheckFails ==
  /\ batch # << >>
  /\ Detects(Head(batch)) \/ MayDetect(Head(batch))
  /\ Crash("receiver")

\* handleReply(): a call ended with an error.
SenderFails(t) ==
  /\ thr[t] = "await"
  /\ answer[t] = "error"
  /\ Crash("sender")

InBox(kind) == \E i \in 1..Len(rbox) : rbox[i].kind = kind

\* The connection is closed.  libdbus: requesting and releasing the name fail.
\* GDBus: while a main loop runs, the name is lost and exit-on-close takes effect.
ReceiverDisconnected ==
  /\ cut
  /\ \/ /\ mode.receiver = "dbus"
        /\ \/ rpc = "setup" /\ ~InBox("acquired")
           \/ rpc = "release" /\ ~InBox("released")
     \/ /\ mode.receiver = "gdbus"
        /\ rpc \in {"setup", "dispatch"}
  /\ Crash("receiver")

\* GDBus: releasing the name of a closed connection is no error.
ReleaseFails ==
  /\ cut /\ Alive("receiver")
  /\ mode.receiver = "gdbus"
  /\ rpc = "release"
  /\ rpc' = "exited"
  /\ UNCHANGED << mode, senderVars, answer, wire, busVars, rout, rbox, batch, quit, k,
                  processed, counter, handled, faultVars >>

\* k -= dispatchOnce() of more than is left wraps around.
Wraps ==
  /\ Alive("receiver")
  /\ rpc = "dispatch" /\ batch = << >> /\ processed > k
  /\ k' = (k - processed) % UIntRange
  /\ rpc' = "loop"
  /\ UNCHANGED << mode, senderVars, answer, wire, busVars, rout, rbox, batch, quit,
                  processed, counter, handled, faultVars >>

-----------------------------------------------------------------------------
SenderLives(t) == Alive("sender") /\ SenderThread(t) /\ UNCHANGED faultVars
MainLives == Alive("sender") /\ SenderMain /\ UNCHANGED faultVars

ReceiverLives ==
  /\ Alive("receiver")
  /\ ~(batch # << >> /\ Detects(Head(batch)))
  /\ ~(rpc = "dispatch" /\ batch = << >> /\ processed > k)
  /\ ReceiverStep
  /\ UNCHANGED faultVars

\* The bus passes on what a connection still holds after its process died.
BusWorks(t) == BusForward(t) /\ UNCHANGED faultVars
BusServes == ~cut /\ BusServe /\ UNCHANGED faultVars

FaultyNext ==
  \/ MainLives \/ ReceiverLives \/ BusServes
  \/ \E t \in Threads : SenderLives(t) \/ BusWorks(t) \/ SenderFails(t) \/ BusSeesExit(t)
  \/ \E t \in Threads : BusLoses(t) \/ BusRepeats(t) \/ BusDamages(t)
  \/ BusLosesReply \/ BusCutsReceiver \/ BusSeesDeath
  \/ CheckFails \/ ReceiverDisconnected \/ ReleaseFails \/ Wraps

FaultySpec == FaultyInit /\ [][FaultyNext]_allVars

\* What a process or the bus can do it does at last; no fault ever has to happen.
FairFaultySpec ==
  /\ FaultySpec
  /\ WF_allVars(MainLives) /\ WF_allVars(ReceiverLives) /\ WF_allVars(BusServes)
  /\ \A t \in Threads : /\ WF_allVars(SenderLives(t))
                        /\ WF_allVars(BusWorks(t))
                        /\ WF_allVars(SenderFails(t))
                        /\ WF_allVars(BusSeesExit(t))
  /\ WF_allVars(BusSeesDeath) /\ WF_allVars(CheckFails)
  /\ WF_allVars(ReceiverDisconnected \/ ReleaseFails \/ Wraps)

-----------------------------------------------------------------------------
(* Properties.                                                             *)

\* Both processes exit by themselves: what the runner reports as PASS.
Passed == spc = "exited" /\ rpc = "exited"

\* The receiver counts signals and does not tell them apart.
Miscounted == mode.kind = "signal" /\ repeated # {}

\* A test that passes has delivered every message to the Reaction, whatever the bus
\* did, unless a signal that came twice was counted for one that did not come.
PassMeansDelivered == Passed /\ ~Miscounted => handled = All

\* A test whose concept checks what messages carry passes only when no message was
\* changed in every copy: a surplus copy of a repeated call may be spoilt.  A GDBus
\* receiver does not notice, though, that some of several descriptors are missing.
PassMeansIntact ==
  Passed /\ Checked /\ ~Miscounted =>
    damaged = {} /\ (thinned # {} => mode.receiver = "gdbus")

\* As long as the bus makes no mistake neither process dies, and what happens is what
\* SendReceive says: nothing in FaultyBus but a fault takes a test off its way.
HarmlessWithoutFaults == [][faults' = 0 => [Next]_vars /\ crashed' = {}]_allVars

\* Damage to every copy of a message ends in a process that dies of it, at last, if the
\* concept checks for it, unless another fault keeps the message from the Reaction.
DamageIsNoticed ==
  (Checked /\ (damaged # {} \/ (thinned # {} /\ mode.receiver = "dbus"))) ~>
    (crashed # {} \/ lost # {} \/ cut \/ Miscounted)

\* The bus has lost the call that a thread waits for, or its reply.
WaitsForLost ==
  \E t \in Threads : thr[t] \in {"getall", "await"} /\ << t, sent[t] >> \in lost

\* When the receiver is dead, has ended, or its connection is closed, no sender that
\* has started waits for it until the deadline, but for the bus that has lost its call.
NobodyWaitsForTheDead ==
  (spc = "run" /\ (cut \/ ~Alive("receiver") \/ rpc = "exited")) ~>
    (spc = "exited" \/ ~Alive("sender") \/ WaitsForLost)
=============================================================================
