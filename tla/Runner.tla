------------------------------- MODULE Runner -------------------------------
(***************************************************************************)
(* One test of the harness: run() and waitForChildren() of main.cpp.       *)
(*                                                                         *)
(* The main thread forks one process per component of the test (test.t)    *)
(* and one per persistent service (test.t_to_kill), starts a waiter thread *)
(* that calls wait() once per component and reports through a promise,     *)
(* waits for the promise until the test's deadline, and cleans up: it      *)
(* kills the components, joins the waiter, kills the services and reaps    *)
(* whatever is left.                                                       *)
(*                                                                         *)
(* Actors: the main thread (pc), the waiter thread (waiter), the children  *)
(* (life), the clock (expired) and the rest of the machine, which may be   *)
(* given the process id of a reaped child (recycled).                      *)
(***************************************************************************)
EXTENDS Naturals, FiniteSets

CONSTANTS
  Comps,    \* the component processes, test.t
  Kills     \* the service processes, test.t_to_kill: they never finish by themselves

ASSUME RunnerAssumption ==
  /\ IsFiniteSet(Comps)
  /\ IsFiniteSet(Kills)
  /\ Comps \cap Kills = {}

Procs == Comps \cup Kills

VARIABLES
  pc,         \* where the main thread is
  life,       \* life[p]: what the kernel knows of child p
  how,        \* how[p]: how child p ended, its wait status
  signalled,  \* the children that have a SIGKILL pending or delivered
  waiter,     \* where the waiter thread is
  waits,      \* number of iterations the waiter has completed
  ret,        \* the status the waiter has in hand, "none" between iterations
  ok,         \* the waiter's local variable result
  promise,    \* the shared state of the promise
  expired,    \* the deadline of the test has passed
  verdict,    \* result.result of waitForChildren
  todo,       \* the pids the current kill loop still has to go through
  left,       \* the wait() calls the main thread still has to make
  recycled,   \* reaped children whose process id now belongs to a stranger
  innocents   \* recycled process ids that were sent a SIGKILL

vars == << pc, life, how, signalled, waiter, waits, ret, ok, promise, expired,
           verdict, todo, left, recycled, innocents >>

mainVars   == << pc, verdict, todo, left, innocents >>
waiterVars == << waiter, waits, ret, ok, promise >>
childVars  == << life, how, signalled >>

\* A broken variant of components: the waiter waits for every child.
ComponentsOfAll == Cardinality(Procs)

components == Cardinality(Comps)

Alive(p)  == life[p] \in {"born", "running"}
Reaped    == {p \in Procs : life[p] = "reaped"}
Unborn(S) == {p \in S : life[p] = "unborn"}

TypeOK ==
  /\ pc \in {"fork", "timed", "killComps", "killRest", "done", "aborted"}
  /\ life \in [Procs -> {"unborn", "born", "running", "zombie", "reaped"}]
  /\ how \in [Procs -> {"none", "ok", "crash", "kill"}]
  /\ signalled \subseteq Procs
  /\ waiter \in {"off", "waiting", "exited"}
  /\ waits \in 0..components
  /\ ret \in {"none", "ok", "crash", "kill"}
  /\ ok \in BOOLEAN
  /\ promise \in {"unset", "true", "false", "error"}
  /\ expired \in BOOLEAN
  /\ verdict \in {"none", "PASS", "FAIL", "TIMEOUT"}
  /\ todo \subseteq Procs
  /\ left \in Nat
  /\ recycled \subseteq Procs
  /\ innocents \subseteq Procs

Init ==
  /\ pc = "fork"
  /\ life = [p \in Procs |-> "unborn"]
  /\ how = [p \in Procs |-> "none"]
  /\ signalled = {}
  /\ waiter = "off"
  /\ waits = 0
  /\ ret = "none"
  /\ ok = TRUE
  /\ promise = "unset"
  /\ expired = FALSE
  /\ verdict = "none"
  /\ todo = {}
  /\ left = 0
  /\ recycled = {}
  /\ innocents = {}

-----------------------------------------------------------------------------
\* promise.set_value(): a second call throws future_error out of the thread.
SetValue(v) == promise' = IF promise = "unset" THEN v ELSE "error"

(* Broken variants of the actions below, one for each property: the change *)
(* a slip in the code would make.  No specification uses them.             *)

\* The waiter's loop makes one iteration too many.
WaitOnceMore(p) ==
  /\ waiter = "waiting"
  /\ ret = "none"
  /\ waits <= components
  /\ life[p] = "zombie"
  /\ life' = [life EXCEPT ![p] = "reaped"]
  /\ ret' = how[p]
  /\ UNCHANGED << mainVars, waiter, waits, ok, promise, how, signalled, expired,
                  recycled >>

\* The waiter does not look at the status it gets from wait().
RecordForgets ==
  /\ ret # "none"
  /\ ret' = "none"
  /\ waits' = waits + 1
  /\ UNCHANGED << mainVars, waiter, ok, promise, childVars, expired, recycled >>

\* The waiter reports every failure, not only the first one.
RecordRepeats ==
  /\ ret # "none"
  /\ ret' = "none"
  /\ waits' = waits + 1
  /\ \/ /\ ret # "ok"
        /\ SetValue("false")
        /\ ok' = FALSE
     \/ /\ ret = "ok"
        /\ UNCHANGED << ok, promise >>
  /\ UNCHANGED << mainVars, waiter, childVars, expired, recycled >>

\* The components that are still running are not killed.
TimeOutWithoutKill ==
  /\ pc = "timed"
  /\ promise = "unset"
  /\ expired
  /\ verdict' = "TIMEOUT"
  /\ pc' = "killComps"
  /\ todo' = {}
  /\ UNCHANGED << left, innocents, waiterVars, childVars, expired, recycled >>

\* The services are killed before the waiter is joined.
JoinLate ==
  /\ pc = "killComps"
  /\ todo = {}
  /\ pc' = "killRest"
  /\ todo' = Kills
  /\ left' = Cardinality(Kills)
  /\ UNCHANGED << verdict, innocents, waiterVars, childVars, expired, recycled >>

\* The last loop of waitForChildren() is missing.
ReturnWithoutWait ==
  /\ pc = "killRest"
  /\ todo = {}
  /\ pc' = "done"
  /\ UNCHANGED << verdict, todo, left, innocents, waiterVars, childVars, expired,
                  recycled >>

-----------------------------------------------------------------------------
(* The main thread: gatherPids().                                          *)

\* frk(): the components are forked before the services.
Fork(p) ==
  /\ pc = "fork"
  /\ life[p] = "unborn"
  /\ p \in Kills => Unborn(Comps) = {}
  /\ life' = [life EXCEPT ![p] = "born"]
  /\ UNCHANGED << mainVars, waiterVars, how, signalled, expired, recycled >>

\* frk() when fork() fails: tfail() aborts the harness.  The kernel kills the
\* children that have already asked for it in deathSig(); the others go on.
ForkFails ==
  /\ pc = "fork"
  /\ Unborn(Procs) # {}
  /\ pc' = "aborted"
  /\ life' = [p \in Procs |-> IF life[p] = "running" THEN "zombie" ELSE life[p]]
  /\ how' = [p \in Procs |-> IF life[p] = "running" THEN "kill" ELSE how[p]]
  /\ UNCHANGED << verdict, todo, left, innocents, waiterVars, signalled, expired,
                  recycled >>

\* waitForChildren() up to the wait for the future: the waiter thread starts.
StartWaiter ==
  /\ pc = "fork"
  /\ Unborn(Procs) = {}
  /\ pc' = "timed"
  /\ waiter' = "waiting"
  /\ UNCHANGED << verdict, todo, left, innocents, waits, ret, ok, promise,
                  childVars, expired, recycled >>

-----------------------------------------------------------------------------
(* The children.                                                           *)

\* deathSig(): from now on the child dies with its parent.  The call does not
\* look whether the parent is still there.
DeathSig(p) ==
  /\ life[p] = "born"
  /\ life' = [life EXCEPT ![p] = "running"]
  /\ UNCHANGED << mainVars, waiterVars, how, signalled, expired, recycled >>

\* f(args...) returned and the child called exit(0).
Succeed(p) ==
  /\ p \in Comps
  /\ life[p] = "running"
  /\ life' = [life EXCEPT ![p] = "zombie"]
  /\ how' = [how EXCEPT ![p] = "ok"]
  /\ UNCHANGED << mainVars, waiterVars, signalled, expired, recycled >>

\* A failed tassert() or tfail() in the child: abort().
Crash(p) ==
  /\ life[p] = "running"
  /\ life' = [life EXCEPT ![p] = "zombie"]
  /\ how' = [how EXCEPT ![p] = "crash"]
  /\ UNCHANGED << mainVars, waiterVars, signalled, expired, recycled >>

\* The kernel delivers a pending SIGKILL.
DieOfSignal(p) ==
  /\ Alive(p)
  /\ p \in signalled
  /\ life' = [life EXCEPT ![p] = "zombie"]
  /\ how' = [how EXCEPT ![p] = "kill"]
  /\ UNCHANGED << mainVars, waiterVars, signalled, expired, recycled >>

-----------------------------------------------------------------------------
(* The waiter thread: the lambda of waitForChildren().                     *)

\* wait() reaps any child that has ended, a component or a service.
WaiterWait(p) ==
  /\ waiter = "waiting"
  /\ ret = "none"
  /\ waits < components
  /\ life[p] = "zombie"
  /\ life' = [life EXCEPT ![p] = "reaped"]
  /\ ret' = how[p]
  /\ UNCHANGED << mainVars, waiter, waits, ok, promise, how, signalled, expired,
                  recycled >>

\* The rest of the loop body: the first failure is reported at once.
WaiterRecord ==
  /\ ret # "none"
  /\ ret' = "none"
  /\ waits' = waits + 1
  /\ \/ /\ ok /\ ret # "ok"
        /\ SetValue("false")
        /\ ok' = FALSE
     \/ /\ ~ok \/ ret = "ok"
        /\ UNCHANGED << ok, promise >>
  /\ UNCHANGED << mainVars, waiter, childVars, expired, recycled >>

\* After the loop.
WaiterFinish ==
  /\ waiter = "waiting"
  /\ ret = "none"
  /\ waits = components
  /\ waiter' = "exited"
  /\ \/ ok /\ SetValue("true")
     \/ ~ok /\ UNCHANGED promise
  /\ UNCHANGED << mainVars, waits, ret, ok, childVars, expired, recycled >>

-----------------------------------------------------------------------------
(* The main thread: waitForChildren() from the wait for the future on.     *)

\* The future is ready: get() gives PASS or leaves FAIL.
Judge ==
  /\ pc = "timed"
  /\ promise # "unset"
  /\ verdict' = IF promise = "true" THEN "PASS" ELSE "FAIL"
  /\ pc' = "killComps"
  /\ todo' = Comps
  /\ UNCHANGED << left, innocents, waiterVars, childVars, expired, recycled >>

\* wait_until() returned without a value.
TimeOut ==
  /\ pc = "timed"
  /\ promise = "unset"
  /\ expired
  /\ verdict' = "TIMEOUT"
  /\ pc' = "killComps"
  /\ todo' = Comps
  /\ UNCHANGED << left, innocents, waiterVars, childVars, expired, recycled >>

\* kill(pid, SIGKILL) in one of the two kill loops.  The process id of a
\* reaped child names nobody, or a stranger.
Signal(p) ==
  /\ pc \in {"killComps", "killRest"}
  /\ p \in todo
  /\ todo' = todo \ {p}
  /\ signalled' = IF life[p] = "reaped" THEN signalled ELSE signalled \cup {p}
  /\ innocents' = IF p \in recycled THEN innocents \cup {p} ELSE innocents
  /\ UNCHANGED << pc, verdict, left, waiterVars, life, how, expired, recycled >>

\* task_th.join()
Join ==
  /\ pc = "killComps"
  /\ todo = {}
  /\ waiter = "exited"
  /\ pc' = "killRest"
  /\ todo' = Kills
  /\ left' = Cardinality(Kills)
  /\ UNCHANGED << verdict, innocents, waiterVars, childVars, expired, recycled >>

\* One wait() of the final loop; its status is only logged.
WaitRest(p) ==
  /\ pc = "killRest"
  /\ todo = {}
  /\ left > 0
  /\ life[p] = "zombie"
  /\ life' = [life EXCEPT ![p] = "reaped"]
  /\ left' = left - 1
  /\ UNCHANGED << pc, verdict, todo, innocents, waiterVars, how, signalled, expired,
                  recycled >>

\* return result
Return ==
  /\ pc = "killRest"
  /\ todo = {}
  /\ left = 0
  /\ pc' = "done"
  /\ UNCHANGED << verdict, todo, left, innocents, waiterVars, childVars, expired,
                  recycled >>

-----------------------------------------------------------------------------
(* The environment.                                                        *)

\* timepoint is reached; the clock has been running since before the forks.
Deadline ==
  /\ ~expired
  /\ expired' = TRUE
  /\ UNCHANGED << mainVars, waiterVars, childVars, recycled >>

\* The kernel gives the process id of a reaped child to an unrelated process.
Recycle(p) ==
  /\ life[p] = "reaped"
  /\ p \notin recycled
  /\ recycled' = recycled \cup {p}
  /\ UNCHANGED << mainVars, waiterVars, childVars, expired >>

MainStep ==
  \/ StartWaiter \/ Judge \/ TimeOut \/ Join \/ Return
  \/ \E p \in Procs : Fork(p) \/ Signal(p) \/ WaitRest(p)

WaiterStep == WaiterRecord \/ WaiterFinish \/ \E p \in Procs : WaiterWait(p)

ChildStep(p) == DeathSig(p) \/ Succeed(p) \/ Crash(p) \/ DieOfSignal(p)

Next ==
  \/ MainStep
  \/ ForkFails
  \/ WaiterStep
  \/ \E p \in Procs : ChildStep(p)
  \/ Deadline
  \/ \E p \in Procs : Recycle(p)

Spec == Init /\ [][Next]_vars

\* Both threads are scheduled, time passes and the kernel delivers signals.
\* Nothing is assumed of the children: a component may hang for ever.
FairSpec ==
  /\ Spec
  /\ WF_vars(MainStep)
  /\ WF_vars(WaiterStep)
  /\ WF_vars(Deadline)
  /\ \A p \in Procs : WF_vars(DieOfSignal(p))

-----------------------------------------------------------------------------
(* The contract of a test run, and the state of it that Runner implements. *)

TestFate == [p \in Procs |-> IF life[p] = "unborn" THEN "absent"
                            ELSE IF Alive(p) THEN "alive" ELSE how[p]]

TestOver == CASE pc = "done"    -> "returned"
              [] pc = "aborted" -> "aborted"
              [] OTHER          -> "no"

Contract == INSTANCE TestRun WITH fate <- TestFate, gone <- Reaped, over <- TestOver

\* Every step of the threads, the children and the kernel is a step of the
\* contract or none at all: in particular children are only killed once the
\* verdict is given, and the verdict is given once.
RefinesTestRun == Contract!Spec

-----------------------------------------------------------------------------
(* Properties.                                                             *)

\* A test passes only if every one of its components returned from its operator()
\* and exited with status 0: a service that ended early is never counted in place of
\* a component that has not (lines 70-80 reap any child).  It fails, other than by
\* timeout, only because some child failed by itself: the harness's own SIGKILLs are
\* never reported as a failure.
PassIsEarned == verdict = "PASS" => \A c \in Comps : how[c] = "ok"
FailIsEarned == verdict = "FAIL" => \E p \in Procs : how[p] = "crash"
VerdictIsEarned == PassIsEarned /\ FailIsEarned

\* The promise is given a value at most once, whatever the order in which
\* children end: a second set_value() would end the harness by an exception.
PromiseSetOnce == promise # "error"

\* wait() is never called without a child to wait for: it would return ECHILD
\* and testlib's wait() would abort the harness.
WaitHasChild ==
  /\ waiter = "waiting" /\ ret = "none" /\ waits < components => Reaped # Procs
  /\ pc = "killRest" /\ left > 0 => Reaped # Procs

\* When waitForChildren() returns, every child of the test has been reaped, so
\* that no process outlives its test and none is reaped by the next test.
NothingLeftBehind == pc = "done" => Reaped = Procs

\* "at this point there are two possibilities": once the waiter is joined, either
\* every component has been reaped and only services are left, or one of the
\* services ended prematurely with an error.
TwoPossibilities ==
  pc \in {"killRest", "done"} =>
    Comps \subseteq Reaped \/ \E k \in Kills : how[k] = "crash"

\* waitForChildren() returns whatever the children do, be it to hang for ever.
TestEnds == <>(pc \in {"done", "aborted"})

\* "FIXME - pids may be re-used already, do we kill an innocent process then?"
NoInnocentKilled == innocents = {}

\* "This causes children to die when parent dies."
ChildrenDieWithParent ==
  pc = "aborted" => \A p \in Procs : life[p] # "running"
=============================================================================
