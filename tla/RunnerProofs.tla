---------------------------- MODULE RunnerProofs ----------------------------
(* Theorems about Runner, for any finite sets of components and services.  *)
EXTENDS Runner, FiniteSetTheorems, TLAPS

\* The processes that the waiter has taken out of the kernel, the one it has in
\* hand included.
Taken == waits + (IF ret = "none" THEN 0 ELSE 1)

\* Where the main thread is tells which children exist and what the waiter does.
Phases ==
  /\ pc \in {"fork", "aborted"} =>
       /\ waiter = "off" /\ waits = 0 /\ ret = "none" /\ ok
       /\ promise = "unset" /\ verdict = "none" /\ Reaped = {}
  /\ pc \notin {"fork", "aborted"} => waiter # "off" /\ Unborn(Procs) = {}
  /\ pc \in {"fork", "timed"} =>
       verdict = "none" /\ \A p \in Procs : how[p] # "kill"
  /\ pc \in {"fork", "timed", "aborted"} => signalled = {}
  /\ pc \in {"killComps", "killRest", "done"} => verdict # "none"
  /\ pc = "killComps" => todo \subseteq Comps /\ signalled \subseteq Comps
  /\ pc \in {"killRest", "done"} => waiter = "exited"
  /\ waiter = "exited" => waits = components /\ ret = "none"

\* Every wait() takes exactly one child.
Counting ==
  /\ pc \in {"timed", "killComps"} =>
       Cardinality(Reaped) = Taken /\ Taken <= components
  /\ pc \in {"killRest", "done"} =>
       Cardinality(Reaped) + left = components + Cardinality(Kills)
  /\ pc = "done" => left = 0

\* How a child ended, and when the kernel knows it.
Statuses ==
  /\ \A p \in Procs :
       /\ how[p] = "none" <=> life[p] \in {"unborn", "born", "running"}
       /\ how[p] = "ok" => p \in Comps
       /\ how[p] = "kill" /\ pc # "aborted" => p \in signalled
  /\ ret # "none" => \E p \in Procs : how[p] = ret

\* What the waiter has concluded from the children it took.
Conclusions ==
  /\ pc \in {"timed", "killComps"} /\ ok /\ ret \in {"none", "ok"} =>
       \A p \in Reaped : how[p] = "ok"
  /\ promise = "false" <=> ~ok
  /\ promise = "true" => waiter = "exited"
  /\ waiter = "exited" => promise \in {"true", "false"}
  /\ promise # "error"
  /\ pc = "timed" /\ promise = "false" => \E p \in Procs : how[p] = "crash"

IInv ==
  /\ TypeOK
  /\ Phases
  /\ Counting
  /\ Statuses
  /\ Conclusions
  /\ PassIsEarned
  /\ FailIsEarned
  /\ TwoPossibilities

\* The set the waiter counts is finite, and so are the sets of processes.
LEMMA Finite ==
  /\ IsFiniteSet(Procs) /\ IsFiniteSet(Comps) /\ IsFiniteSet(Kills)
  /\ components \in Nat /\ Cardinality(Kills) \in Nat
  /\ Cardinality(Procs) = components + Cardinality(Kills)
<1>1. IsFiniteSet(Comps) /\ IsFiniteSet(Kills) /\ Comps \cap Kills = {}
  BY RunnerAssumption
<1>2. components \in Nat /\ Cardinality(Kills) \in Nat
  BY <1>1, FS_CardinalityType DEF components
<1>3. IsFiniteSet(Procs)
  BY <1>1, FS_Union DEF Procs
<1>4. Cardinality(Procs) = components + Cardinality(Kills) - Cardinality({})
  BY <1>1, FS_Union DEF Procs, components
<1> QED
  BY <1>1, <1>2, <1>3, <1>4, FS_EmptySet

\* The set of reaped children is finite and, once it is as large as a finite
\* set that contains it, equal to that set.
LEMMA ReapedFinite ==
  /\ IsFiniteSet(Reaped) /\ Cardinality(Reaped) \in Nat
  /\ Reaped \subseteq Comps /\ Cardinality(Reaped) = components => Reaped = Comps
  /\ Cardinality(Reaped) = Cardinality(Procs) => Reaped = Procs
<1>1. Reaped \subseteq Procs
  BY DEF Reaped
<1>2. IsFiniteSet(Reaped)
  BY <1>1, Finite, FS_Subset
<1> QED
  BY <1>1, <1>2, Finite, FS_Subset, FS_CardinalityType DEF components

\* Reaping one child more adds one to their number.
LEMMA ReapOne ==
  ASSUME NEW p \in Procs, life[p] = "zombie", TypeOK,
         life' = [life EXCEPT ![p] = "reaped"]
  PROVE  Reaped' = Reaped \cup {p} /\ Cardinality(Reaped') = Cardinality(Reaped) + 1
<1>1. Reaped' = Reaped \cup {p} /\ p \notin Reaped
  BY DEF Reaped, TypeOK
<1> QED
  BY <1>1, ReapedFinite, FS_AddElement

\* Every step keeps the types.
LEMMA TypeStep == IInv /\ Next => TypeOK'
<1> SUFFICES ASSUME IInv, Next PROVE TypeOK'  OBVIOUS
<1> USE DEF IInv, TypeOK, mainVars, waiterVars, childVars
<1>1. ASSUME NEW p \in Procs, Fork(p) PROVE TypeOK'
  BY <1>1 DEF Fork
<1>2. CASE ForkFails
  BY <1>2 DEF ForkFails
<1>3. CASE StartWaiter
  BY <1>3 DEF StartWaiter
<1>4. ASSUME NEW p \in Procs, DeathSig(p) PROVE TypeOK'
  BY <1>4 DEF DeathSig
<1>5. ASSUME NEW p \in Procs, Succeed(p) PROVE TypeOK'
  BY <1>5 DEF Succeed
<1>6. ASSUME NEW p \in Procs, Crash(p) PROVE TypeOK'
  BY <1>6 DEF Crash
<1>7. ASSUME NEW p \in Procs, DieOfSignal(p) PROVE TypeOK'
  BY <1>7 DEF DieOfSignal
<1>8. ASSUME NEW p \in Procs, WaiterWait(p) PROVE TypeOK'
  BY <1>8 DEF WaiterWait
<1>9. CASE WaiterRecord
  <2>1. promise' \in {"unset", "true", "false", "error"}
    BY <1>9 DEF WaiterRecord, SetValue
  <2>2. ok' \in BOOLEAN
    BY <1>9, Zenon DEF WaiterRecord
  <2>3. Taken <= components /\ Taken = waits + 1
    BY <1>9 DEF WaiterRecord, Taken, Counting, Phases
  <2>4. waits' \in 0..components
    BY <1>9, <2>3, Finite DEF WaiterRecord
  <2> QED
    BY <1>9, <2>1, <2>2, <2>4 DEF WaiterRecord
<1>10. CASE WaiterFinish
  BY <1>10 DEF WaiterFinish, SetValue
<1>11. CASE Judge
  BY <1>11 DEF Judge, Procs
<1>12. CASE TimeOut
  BY <1>12 DEF TimeOut, Procs
<1>13. ASSUME NEW p \in Procs, Signal(p) PROVE TypeOK'
  BY <1>13 DEF Signal
<1>14. CASE Join
  BY <1>14, Finite DEF Join, Procs
<1>15. ASSUME NEW p \in Procs, WaitRest(p) PROVE TypeOK'
  BY <1>15 DEF WaitRest
<1>16. CASE Return
  BY <1>16 DEF Return
<1>17. CASE Deadline
  BY <1>17 DEF Deadline
<1>18. ASSUME NEW p \in Procs, Recycle(p) PROVE TypeOK'
  BY <1>18 DEF Recycle
<1> QED
  BY <1>1, <1>2, <1>3, <1>4, <1>5, <1>6, <1>7, <1>8, <1>9, <1>10, <1>11, <1>12, <1>13, <1>14, <1>15, <1>16, <1>17, <1>18
  DEF Next, MainStep, WaiterStep, ChildStep

\* Every step keeps Phases.
LEMMA PhasesStep == IInv /\ Next => Phases'
<1> SUFFICES ASSUME IInv, Next PROVE Phases'  OBVIOUS
<1> USE DEF IInv, TypeOK, mainVars, waiterVars, childVars, Phases, Reaped, Unborn
<1>1. ASSUME NEW p \in Procs, Fork(p) PROVE Phases'
  BY <1>1 DEF Fork
<1>2. CASE ForkFails
  BY <1>2 DEF ForkFails
<1>3. CASE StartWaiter
  BY <1>3 DEF StartWaiter
<1>4. ASSUME NEW p \in Procs, DeathSig(p) PROVE Phases'
  BY <1>4 DEF DeathSig
<1>5. ASSUME NEW p \in Procs, Succeed(p) PROVE Phases'
  BY <1>5 DEF Succeed, Statuses
<1>6. ASSUME NEW p \in Procs, Crash(p) PROVE Phases'
  BY <1>6 DEF Crash
<1>7. ASSUME NEW p \in Procs, DieOfSignal(p) PROVE Phases'
  BY <1>7 DEF DieOfSignal, Alive, Procs
<1>8. ASSUME NEW p \in Procs, WaiterWait(p) PROVE Phases'
  BY <1>8 DEF WaiterWait
<1>9. CASE WaiterRecord
  BY <1>9 DEF WaiterRecord
<1>10. CASE WaiterFinish
  BY <1>10 DEF WaiterFinish
<1>11. CASE Judge
  BY <1>11 DEF Judge
<1>12. CASE TimeOut
  BY <1>12 DEF TimeOut
<1>13. ASSUME NEW p \in Procs, Signal(p) PROVE Phases'
  BY <1>13 DEF Signal
<1>14. CASE Join
  BY <1>14 DEF Join
<1>15. ASSUME NEW p \in Procs, WaitRest(p) PROVE Phases'
  BY <1>15 DEF WaitRest
<1>16. CASE Return
  BY <1>16 DEF Return
<1>17. CASE Deadline
  BY <1>17 DEF Deadline
<1>18. ASSUME NEW p \in Procs, Recycle(p) PROVE Phases'
  BY <1>18 DEF Recycle
<1> QED
  BY <1>1, <1>2, <1>3, <1>4, <1>5, <1>6, <1>7, <1>8, <1>9, <1>10, <1>11, <1>12, <1>13, <1>14, <1>15, <1>16, <1>17, <1>18
  DEF Next, MainStep, WaiterStep, ChildStep

\* Every step keeps Statuses.
LEMMA StatusesStep == IInv /\ Next => Statuses'
<1> SUFFICES ASSUME IInv, Next PROVE Statuses'  OBVIOUS
<1> USE DEF IInv, TypeOK, mainVars, waiterVars, childVars, Statuses
<1>1. ASSUME NEW p \in Procs, Fork(p) PROVE Statuses'
  BY <1>1 DEF Fork
<1>2. CASE ForkFails
  BY <1>2 DEF ForkFails, Phases
<1>3. CASE StartWaiter
  BY <1>3 DEF StartWaiter
<1>4. ASSUME NEW p \in Procs, DeathSig(p) PROVE Statuses'
  BY <1>4 DEF DeathSig
<1>5. ASSUME NEW p \in Procs, Succeed(p) PROVE Statuses'
  BY <1>5 DEF Succeed
<1>6. ASSUME NEW p \in Procs, Crash(p) PROVE Statuses'
  BY <1>6 DEF Crash
<1>7. ASSUME NEW p \in Procs, DieOfSignal(p) PROVE Statuses'
  BY <1>7 DEF DieOfSignal, Alive
<1>8. ASSUME NEW p \in Procs, WaiterWait(p) PROVE Statuses'
  BY <1>8 DEF WaiterWait
<1>9. CASE WaiterRecord
  BY <1>9 DEF WaiterRecord
<1>10. CASE WaiterFinish
  BY <1>10 DEF WaiterFinish
<1>11. CASE Judge
  BY <1>11 DEF Judge
<1>12. CASE TimeOut
  BY <1>12 DEF TimeOut
<1>13. ASSUME NEW p \in Procs, Signal(p) PROVE Statuses'
  BY <1>13 DEF Signal
<1>14. CASE Join
  BY <1>14 DEF Join
<1>15. ASSUME NEW p \in Procs, WaitRest(p) PROVE Statuses'
  BY <1>15 DEF WaitRest
<1>16. CASE Return
  BY <1>16 DEF Return
<1>17. CASE Deadline
  BY <1>17 DEF Deadline
<1>18. ASSUME NEW p \in Procs, Recycle(p) PROVE Statuses'
  BY <1>18 DEF Recycle
<1> QED
  BY <1>1, <1>2, <1>3, <1>4, <1>5, <1>6, <1>7, <1>8, <1>9, <1>10, <1>11, <1>12, <1>13, <1>14, <1>15, <1>16, <1>17, <1>18
  DEF Next, MainStep, WaiterStep, ChildStep

\* Every step keeps Conclusions.
LEMMA ConclusionsStep == IInv /\ Next => Conclusions'
<1> SUFFICES ASSUME IInv, Next PROVE Conclusions'  OBVIOUS
<1> USE DEF IInv, TypeOK, mainVars, waiterVars, childVars, Conclusions, Phases
<1>1. ASSUME NEW p \in Procs, Fork(p) PROVE Conclusions'
  <2>1. Reaped' = Reaped
    BY <1>1 DEF Fork, Reaped
  <2> QED
    BY <1>1, <2>1 DEF Fork
<1>2. CASE ForkFails
  <2>1. Reaped' = Reaped
    BY <1>2 DEF ForkFails, Reaped
  <2> QED
    BY <1>2, <2>1 DEF ForkFails
<1>3. CASE StartWaiter
  <2>1. Reaped' = Reaped
    BY <1>3 DEF StartWaiter, Reaped
  <2> QED
    BY <1>3, <2>1 DEF StartWaiter
<1>4. ASSUME NEW p \in Procs, DeathSig(p) PROVE Conclusions'
  <2>1. Reaped' = Reaped
    BY <1>4 DEF DeathSig, Reaped
  <2> QED
    BY <1>4, <2>1 DEF DeathSig
<1>5. ASSUME NEW p \in Procs, Succeed(p) PROVE Conclusions'
  <2>1. Reaped' = Reaped
    BY <1>5 DEF Succeed, Reaped
  <2> QED
    BY <1>5, <2>1 DEF Succeed, Statuses, Reaped
<1>6. ASSUME NEW p \in Procs, Crash(p) PROVE Conclusions'
  <2>1. Reaped' = Reaped
    BY <1>6 DEF Crash, Reaped
  <2> QED
    BY <1>6, <2>1 DEF Crash, Statuses, Reaped
<1>7. ASSUME NEW p \in Procs, DieOfSignal(p) PROVE Conclusions'
  <2>1. Reaped' = Reaped
    BY <1>7 DEF DieOfSignal, Reaped, Alive
  <2> QED
    BY <1>7, <2>1 DEF DieOfSignal, Alive, Statuses, Reaped
<1>8. ASSUME NEW p \in Procs, WaiterWait(p) PROVE Conclusions'
  <2>1. Reaped' = Reaped \cup {p}
    BY <1>8, ReapOne DEF WaiterWait
  <2> QED
    BY <1>8, <2>1 DEF WaiterWait, Statuses
<1>9. CASE WaiterRecord
  <2>1. Reaped' = Reaped
    BY <1>9 DEF WaiterRecord, Reaped
  <2> QED
    BY <1>9, <2>1 DEF WaiterRecord, SetValue, Statuses
<1>10. CASE WaiterFinish
  <2>1. Reaped' = Reaped
    BY <1>10 DEF WaiterFinish, Reaped
  <2> QED
    BY <1>10, <2>1 DEF WaiterFinish, SetValue
<1>11. CASE Judge
  <2>1. Reaped' = Reaped
    BY <1>11 DEF Judge, Reaped
  <2> QED
    BY <1>11, <2>1 DEF Judge
<1>12. CASE TimeOut
  <2>1. Reaped' = Reaped
    BY <1>12 DEF TimeOut, Reaped
  <2> QED
    BY <1>12, <2>1 DEF TimeOut
<1>13. ASSUME NEW p \in Procs, Signal(p) PROVE Conclusions'
  <2>1. Reaped' = Reaped
    BY <1>13 DEF Signal, Reaped
  <2> QED
    BY <1>13, <2>1 DEF Signal
<1>14. CASE Join
  <2>1. Reaped' = Reaped
    BY <1>14 DEF Join, Reaped
  <2> QED
    BY <1>14, <2>1 DEF Join
<1>15. ASSUME NEW p \in Procs, WaitRest(p) PROVE Conclusions'
  BY <1>15 DEF WaitRest
<1>16. CASE Return
  <2>1. Reaped' = Reaped
    BY <1>16 DEF Return, Reaped
  <2> QED
    BY <1>16, <2>1 DEF Return
<1>17. CASE Deadline
  <2>1. Reaped' = Reaped
    BY <1>17 DEF Deadline, Reaped
  <2> QED
    BY <1>17, <2>1 DEF Deadline
<1>18. ASSUME NEW p \in Procs, Recycle(p) PROVE Conclusions'
  <2>1. Reaped' = Reaped
    BY <1>18 DEF Recycle, Reaped
  <2> QED
    BY <1>18, <2>1 DEF Recycle
<1> QED
  BY <1>1, <1>2, <1>3, <1>4, <1>5, <1>6, <1>7, <1>8, <1>9, <1>10, <1>11, <1>12, <1>13, <1>14, <1>15, <1>16, <1>17, <1>18
  DEF Next, MainStep, WaiterStep, ChildStep

\* Every step keeps the count: only wait() changes the set of reaped children.
LEMMA CountingStep == IInv /\ Next => Counting'
<1> SUFFICES ASSUME IInv, Next PROVE Counting'  OBVIOUS
<1> USE DEF IInv, TypeOK, mainVars, waiterVars, childVars, Counting, Taken
<1>1. ASSUME NEW p \in Procs, Fork(p) PROVE Counting'
  <2>1. Reaped' = Reaped
    BY <1>1 DEF Fork, Reaped
  <2> QED
    BY <1>1, <2>1 DEF Fork
<1>2. CASE ForkFails
  <2>1. Reaped' = Reaped
    BY <1>2 DEF ForkFails, Reaped
  <2> QED
    BY <1>2, <2>1 DEF ForkFails
<1>3. CASE StartWaiter
  <2>1. Reaped' = {}
    BY <1>3 DEF StartWaiter, Phases, Reaped
  <2> QED
    BY <1>3, <2>1, Finite, FS_EmptySet DEF StartWaiter, Phases
<1>4. ASSUME NEW p \in Procs, DeathSig(p) PROVE Counting'
  <2>1. Reaped' = Reaped
    BY <1>4 DEF DeathSig, Reaped
  <2> QED
    BY <1>4, <2>1 DEF DeathSig
<1>5. ASSUME NEW p \in Procs, Succeed(p) PROVE Counting'
  <2>1. Reaped' = Reaped
    BY <1>5 DEF Succeed, Reaped
  <2> QED
    BY <1>5, <2>1 DEF Succeed
<1>6. ASSUME NEW p \in Procs, Crash(p) PROVE Counting'
  <2>1. Reaped' = Reaped
    BY <1>6 DEF Crash, Reaped
  <2> QED
    BY <1>6, <2>1 DEF Crash
<1>7. ASSUME NEW p \in Procs, DieOfSignal(p) PROVE Counting'
  <2>1. Reaped' = Reaped
    BY <1>7 DEF DieOfSignal, Reaped, Alive
  <2> QED
    BY <1>7, <2>1 DEF DieOfSignal
<1>8. ASSUME NEW p \in Procs, WaiterWait(p) PROVE Counting'
  <2>1. Cardinality(Reaped') = Cardinality(Reaped) + 1
    BY <1>8, ReapOne DEF WaiterWait
  <2>2. pc \in {"timed", "killComps"}
    BY <1>8 DEF WaiterWait, Phases
  <2> QED
    BY <1>8, <2>1, <2>2, Finite, ReapedFinite DEF WaiterWait, Statuses
<1>9. CASE WaiterRecord
  <2>1. Reaped' = Reaped
    BY <1>9 DEF WaiterRecord, Reaped
  <2> QED
    BY <1>9, <2>1, Finite DEF WaiterRecord
<1>10. CASE WaiterFinish
  <2>1. Reaped' = Reaped
    BY <1>10 DEF WaiterFinish, Reaped
  <2> QED
    BY <1>10, <2>1 DEF WaiterFinish
<1>11. CASE Judge
  <2>1. Reaped' = Reaped
    BY <1>11 DEF Judge, Reaped
  <2> QED
    BY <1>11, <2>1 DEF Judge
<1>12. CASE TimeOut
  <2>1. Reaped' = Reaped
    BY <1>12 DEF TimeOut, Reaped
  <2> QED
    BY <1>12, <2>1 DEF TimeOut
<1>13. ASSUME NEW p \in Procs, Signal(p) PROVE Counting'
  <2>1. Reaped' = Reaped
    BY <1>13 DEF Signal, Reaped
  <2> QED
    BY <1>13, <2>1 DEF Signal
<1>14. CASE Join
  <2>1. Reaped' = Reaped
    BY <1>14 DEF Join, Reaped
  <2> QED
    BY <1>14, <2>1, Finite, ReapedFinite DEF Join, Phases
<1>15. ASSUME NEW p \in Procs, WaitRest(p) PROVE Counting'
  <2>1. Cardinality(Reaped') = Cardinality(Reaped) + 1
    BY <1>15, ReapOne DEF WaitRest
  <2> QED
    BY <1>15, <2>1, Finite, ReapedFinite DEF WaitRest
<1>16. CASE Return
  <2>1. Reaped' = Reaped
    BY <1>16 DEF Return, Reaped
  <2> QED
    BY <1>16, <2>1 DEF Return
<1>17. CASE Deadline
  <2>1. Reaped' = Reaped
    BY <1>17 DEF Deadline, Reaped
  <2> QED
    BY <1>17, <2>1 DEF Deadline
<1>18. ASSUME NEW p \in Procs, Recycle(p) PROVE Counting'
  <2>1. Reaped' = Reaped
    BY <1>18 DEF Recycle, Reaped
  <2> QED
    BY <1>18, <2>1 DEF Recycle
<1> QED
  BY <1>1, <1>2, <1>3, <1>4, <1>5, <1>6, <1>7, <1>8, <1>9, <1>10, <1>11, <1>12, <1>13, <1>14, <1>15, <1>16, <1>17, <1>18
  DEF Next, MainStep, WaiterStep, ChildStep

\* Every step keeps the verdict true: a child that has ended stays ended.
LEMMA VerdictStep == IInv /\ Next => (PassIsEarned /\ FailIsEarned)'
<1> SUFFICES ASSUME IInv, Next PROVE (PassIsEarned /\ FailIsEarned)'  OBVIOUS
<1> USE DEF IInv, TypeOK, mainVars, waiterVars, childVars, PassIsEarned, FailIsEarned
<1>1. ASSUME NEW p \in Procs, Fork(p) PROVE (PassIsEarned /\ FailIsEarned)'
  BY <1>1 DEF Fork
<1>2. CASE ForkFails
  BY <1>2 DEF ForkFails, Phases
<1>3. CASE StartWaiter
  BY <1>3 DEF StartWaiter
<1>4. ASSUME NEW p \in Procs, DeathSig(p) PROVE (PassIsEarned /\ FailIsEarned)'
  BY <1>4 DEF DeathSig
<1>5. ASSUME NEW p \in Procs, Succeed(p) PROVE (PassIsEarned /\ FailIsEarned)'
  BY <1>5 DEF Succeed, Statuses, Procs
<1>6. ASSUME NEW p \in Procs, Crash(p) PROVE (PassIsEarned /\ FailIsEarned)'
  BY <1>6 DEF Crash, Statuses, Procs
<1>7. ASSUME NEW p \in Procs, DieOfSignal(p) PROVE (PassIsEarned /\ FailIsEarned)'
  BY <1>7 DEF DieOfSignal, Alive, Statuses, Procs
<1>8. ASSUME NEW p \in Procs, WaiterWait(p) PROVE (PassIsEarned /\ FailIsEarned)'
  BY <1>8 DEF WaiterWait
<1>9. CASE WaiterRecord
  BY <1>9 DEF WaiterRecord
<1>10. CASE WaiterFinish
  BY <1>10 DEF WaiterFinish
<1>11. CASE Judge
  <2>1. CASE promise = "true"
    <3>1. waiter = "exited" /\ ok /\ ret = "none" /\ waits = components
      BY <2>1 DEF Conclusions, Phases
    <3>2. \A q \in Reaped : how[q] = "ok"
      BY <1>11, <3>1 DEF Judge, Conclusions
    <3>3. Reaped \subseteq Comps
      BY <3>2 DEF Statuses, Reaped
    <3>4. Cardinality(Reaped) = components
      BY <1>11, <3>1, Finite DEF Judge, Counting, Taken
    <3>5. Reaped = Comps
      BY <3>3, <3>4, ReapedFinite
    <3> QED
      BY <1>11, <2>1, <3>2, <3>5 DEF Judge
  <2>2. CASE promise # "true"
    BY <1>11, <2>2 DEF Judge, Conclusions
  <2> QED
    BY <2>1, <2>2
<1>12. CASE TimeOut
  BY <1>12 DEF TimeOut
<1>13. ASSUME NEW p \in Procs, Signal(p) PROVE (PassIsEarned /\ FailIsEarned)'
  BY <1>13 DEF Signal
<1>14. CASE Join
  BY <1>14 DEF Join
<1>15. ASSUME NEW p \in Procs, WaitRest(p) PROVE (PassIsEarned /\ FailIsEarned)'
  BY <1>15 DEF WaitRest
<1>16. CASE Return
  BY <1>16 DEF Return
<1>17. CASE Deadline
  BY <1>17 DEF Deadline
<1>18. ASSUME NEW p \in Procs, Recycle(p) PROVE (PassIsEarned /\ FailIsEarned)'
  BY <1>18 DEF Recycle
<1> QED
  BY <1>1, <1>2, <1>3, <1>4, <1>5, <1>6, <1>7, <1>8, <1>9, <1>10, <1>11, <1>12, <1>13, <1>14, <1>15, <1>16, <1>17, <1>18
  DEF Next, MainStep, WaiterStep, ChildStep

\* Every step keeps TwoPossibilities, which the join establishes.
LEMMA PossibilitiesStep == IInv /\ Next => TwoPossibilities'
<1> SUFFICES ASSUME IInv, Next PROVE TwoPossibilities'  OBVIOUS
<1> USE DEF IInv, TypeOK, mainVars, waiterVars, childVars, TwoPossibilities
<1>1. ASSUME NEW p \in Procs, Fork(p) PROVE TwoPossibilities'
  BY <1>1 DEF Fork
<1>2. CASE ForkFails
  BY <1>2 DEF ForkFails
<1>3. CASE StartWaiter
  BY <1>3 DEF StartWaiter
<1>4. ASSUME NEW p \in Procs, DeathSig(p) PROVE TwoPossibilities'
  BY <1>4 DEF DeathSig, Reaped
<1>5. ASSUME NEW p \in Procs, Succeed(p) PROVE TwoPossibilities'
  BY <1>5 DEF Succeed, Reaped, Statuses, Procs
<1>6. ASSUME NEW p \in Procs, Crash(p) PROVE TwoPossibilities'
  BY <1>6 DEF Crash, Reaped, Statuses, Procs
<1>7. ASSUME NEW p \in Procs, DieOfSignal(p) PROVE TwoPossibilities'
  BY <1>7 DEF DieOfSignal, Reaped, Alive, Statuses, Procs
<1>8. ASSUME NEW p \in Procs, WaiterWait(p) PROVE TwoPossibilities'
  BY <1>8 DEF WaiterWait, Phases
<1>9. CASE WaiterRecord
  BY <1>9 DEF WaiterRecord, Reaped
<1>10. CASE WaiterFinish
  BY <1>10 DEF WaiterFinish, Reaped
<1>11. CASE Judge
  BY <1>11 DEF Judge
<1>12. CASE TimeOut
  BY <1>12 DEF TimeOut
<1>13. ASSUME NEW p \in Procs, Signal(p) PROVE TwoPossibilities'
  BY <1>13 DEF Signal, Reaped
<1>14. CASE Join
  <2>1. ASSUME \A k \in Kills : how[k] # "crash"
        PROVE  Comps \subseteq Reaped
    <3>1. \A k \in Kills : k \notin Reaped
      BY <1>14, <2>1, RunnerAssumption DEF Join, Statuses, Reaped, Phases, Procs
    <3>2. Reaped \subseteq Comps
      BY <3>1 DEF Reaped, Procs
    <3>3. Cardinality(Reaped) = components
      BY <1>14, Finite DEF Join, Counting, Taken, Phases
    <3> QED
      BY <3>2, <3>3, ReapedFinite
  <2>2. Reaped' = Reaped
    BY <1>14 DEF Join, Reaped
  <2> QED
    BY <1>14, <2>1, <2>2 DEF Join
<1>15. ASSUME NEW p \in Procs, WaitRest(p) PROVE TwoPossibilities'
  BY <1>15, ReapOne DEF WaitRest
<1>16. CASE Return
  BY <1>16 DEF Return, Reaped
<1>17. CASE Deadline
  BY <1>17 DEF Deadline, Reaped
<1>18. ASSUME NEW p \in Procs, Recycle(p) PROVE TwoPossibilities'
  BY <1>18 DEF Recycle, Reaped
<1> QED
  BY <1>1, <1>2, <1>3, <1>4, <1>5, <1>6, <1>7, <1>8, <1>9, <1>10, <1>11, <1>12, <1>13, <1>14, <1>15, <1>16, <1>17, <1>18
  DEF Next, MainStep, WaiterStep, ChildStep

\* The inductive invariant holds of every behaviour of the runner.
THEOREM Inductive == Spec => []IInv
<1>1. Init => IInv
  <2> SUFFICES ASSUME Init PROVE IInv  OBVIOUS
  <2>1. TypeOK
    <3>1. waits \in 0..components
      BY Finite DEF Init
    <3> QED
      BY <3>1 DEF Init, TypeOK
  <2>2. Phases /\ Counting /\ Statuses /\ Conclusions
    BY DEF Init, Phases, Counting, Statuses, Conclusions, Reaped, Unborn
  <2>3. PassIsEarned /\ FailIsEarned /\ TwoPossibilities
    BY DEF Init, PassIsEarned, FailIsEarned, TwoPossibilities
  <2> QED
    BY <2>1, <2>2, <2>3 DEF IInv
<1>2. IInv /\ Next => IInv'
  BY TypeStep, PhasesStep, CountingStep, StatusesStep, ConclusionsStep, VerdictStep,
     PossibilitiesStep DEF IInv
<1>3. IInv /\ UNCHANGED vars => IInv'
  <2> SUFFICES ASSUME IInv, UNCHANGED vars PROVE IInv'  OBVIOUS
  <2>1. Reaped' = Reaped /\ Unborn(Procs)' = Unborn(Procs)
    BY DEF vars, Reaped, Unborn
  <2> QED
    BY <2>1 DEF IInv, vars, TypeOK, Phases, Counting, Taken, Statuses, Conclusions,
                PassIsEarned, FailIsEarned, TwoPossibilities
<1> QED
  BY <1>1, <1>2, <1>3, PTL DEF Spec

\* Type correctness.
THEOREM TypeCorrect == Spec => []TypeOK
<1>1. IInv => TypeOK
  BY DEF IInv
<1> QED
  BY <1>1, Inductive, PTL

\* No verdict PASS unless every component exited with status 0, however many
\* services ended early, and no verdict FAIL without a child that failed.
THEOREM VerdictSound == Spec => []VerdictIsEarned
<1>1. IInv => VerdictIsEarned
  BY DEF IInv, VerdictIsEarned
<1> QED
  BY <1>1, Inductive, PTL

\* The promise is never set twice.
THEOREM PromiseSafe == Spec => []PromiseSetOnce
<1>1. IInv => PromiseSetOnce
  BY DEF IInv, Conclusions, PromiseSetOnce
<1> QED
  BY <1>1, Inductive, PTL

\* Every wait(), of the waiter and of the last loop, has a child to wait for.
THEOREM WaitSafe == Spec => []WaitHasChild
<1>1. IInv => WaitHasChild
  <2> SUFFICES ASSUME IInv PROVE WaitHasChild  OBVIOUS
  <2>1. ASSUME waiter = "waiting", ret = "none", waits < components
        PROVE  Reaped # Procs
    <3>1. pc \in {"timed", "killComps"}
      BY <2>1 DEF IInv, TypeOK, Phases
    <3>2. Cardinality(Reaped) < Cardinality(Procs)
      BY <2>1, <3>1, Finite DEF IInv, TypeOK, Counting, Taken
    <3> QED
      BY <3>2, Finite
  <2>2. ASSUME pc = "killRest", left > 0
        PROVE  Reaped # Procs
    <3>1. Cardinality(Reaped) < Cardinality(Procs)
      BY <2>2, Finite, ReapedFinite DEF IInv, TypeOK, Counting
    <3> QED
      BY <3>1, Finite
  <2> QED
    BY <2>1, <2>2 DEF WaitHasChild
<1> QED
  BY <1>1, Inductive, PTL

\* No process of a test is left behind when its verdict is returned.
THEOREM NoneLeft == Spec => []NothingLeftBehind
<1>1. IInv => NothingLeftBehind
  BY Finite, ReapedFinite DEF IInv, TypeOK, Counting, NothingLeftBehind
<1> QED
  BY <1>1, Inductive, PTL

\* The comment at the end of waitForChildren() names all the possibilities.
THEOREM Possibilities == Spec => []TwoPossibilities
<1>1. IInv => TwoPossibilities
  BY DEF IInv
<1> QED
  BY <1>1, Inductive, PTL

-----------------------------------------------------------------------------
(* Runner implements the contract of a test run.                           *)

\* Every step of the runner is a step of the contract or leaves it unchanged.
LEMMA ContractStep ==
  IInv /\ IInv' /\ Next => Contract!Next \/ UNCHANGED Contract!vars
<1> SUFFICES ASSUME IInv, IInv', Next
             PROVE  Contract!Next \/ UNCHANGED Contract!vars
  OBVIOUS
<1> DEFINE Kept == TestFate' = TestFate /\ Reaped' = Reaped /\ verdict' = verdict /\ TestOver' = TestOver
<1> USE DEF IInv, TypeOK, mainVars, waiterVars, childVars
<1>1. ASSUME NEW p \in Procs, Fork(p) PROVE Contract!Next \/ UNCHANGED Contract!vars
  <2>1. TestFate' = [TestFate EXCEPT ![p] = "alive"]
    BY <1>1 DEF Fork, TestFate, Alive
  <2>2. Reaped' = Reaped
    BY <1>1 DEF Fork, Reaped
  <2>3. TestFate[p] = "absent" /\ TestOver = "no" /\ verdict = "none"
    BY <1>1 DEF Fork, TestFate, TestOver, Phases
  <2>4. TestOver' = TestOver
    BY <1>1 DEF Fork, TestOver
  <2>5. Contract!Start(p)
    BY <1>1, <2>1, <2>2, <2>3, <2>4 DEF Fork, Contract!Start
  <2> QED
    BY <2>5 DEF Contract!Next
<1>2. CASE ForkFails
  <2>1. Reaped' = Reaped
    BY <1>2 DEF ForkFails, Reaped
  <2> DEFINE S == {p \in Procs : life[p] = "running"}
  <2>2. TestFate' = [p \in Procs |-> IF p \in S THEN "kill" ELSE TestFate[p]]
    BY <1>2 DEF ForkFails, TestFate, Alive
  <2>3. S \in SUBSET {p \in Procs : TestFate[p] = "alive"}
    BY DEF TestFate, Alive
  <2>4. \E p \in Procs : TestFate[p] = "absent"
    BY <1>2 DEF ForkFails, TestFate, Unborn
  <2>5. verdict = "none" /\ verdict' = verdict /\ TestOver = "no" /\ TestOver' = "aborted"
    BY <1>2 DEF ForkFails, TestOver, Phases
  <2>6. \E T \in SUBSET {p \in Procs : TestFate[p] = "alive"} :
          TestFate' = [p \in Procs |-> IF p \in T THEN "kill" ELSE TestFate[p]]
    BY <2>2, <2>3
  <2>7. Contract!Abort
    BY <2>1, <2>4, <2>5, <2>6 DEF Contract!Abort
  <2> QED
    BY <2>7 DEF Contract!Next
<1>3. CASE StartWaiter
  <2>1. Kept
    BY <1>3 DEF StartWaiter, TestFate, Alive, Reaped, TestOver, Statuses
  <2> QED
    BY <2>1 DEF Contract!vars
<1>4. ASSUME NEW p \in Procs, DeathSig(p) PROVE Contract!Next \/ UNCHANGED Contract!vars
  <2>1. Kept
    BY <1>4 DEF DeathSig, TestFate, Alive, Reaped, TestOver, Statuses
  <2> QED
    BY <2>1 DEF Contract!vars
<1>5. ASSUME NEW p \in Procs, Succeed(p) PROVE Contract!Next \/ UNCHANGED Contract!vars
  <2>1. Contract!End(p)
    BY <1>5 DEF Succeed, Contract!End, TestFate, Alive, Reaped, TestOver
  <2> QED
    BY <2>1 DEF Contract!Next
<1>6. ASSUME NEW p \in Procs, Crash(p) PROVE Contract!Next \/ UNCHANGED Contract!vars
  <2>1. Contract!End(p)
    BY <1>6 DEF Crash, Contract!End, TestFate, Alive, Reaped, TestOver
  <2> QED
    BY <2>1 DEF Contract!Next
<1>7. ASSUME NEW p \in Procs, DieOfSignal(p) PROVE Contract!Next \/ UNCHANGED Contract!vars
  <2>1. TestFate[p] = "alive" /\ verdict # "none"
    BY <1>7 DEF DieOfSignal, TestFate, Alive, Phases
  <2>2. TestFate' = [TestFate EXCEPT ![p] = "kill"]
    BY <1>7 DEF DieOfSignal, TestFate, Alive
  <2>3. Reaped' = Reaped /\ TestOver' = TestOver /\ verdict' = verdict
    BY <1>7 DEF DieOfSignal, Alive, Reaped, TestOver
  <2>4. Contract!Kill(p)
    BY <2>1, <2>2, <2>3 DEF Contract!Kill
  <2> QED
    BY <2>4 DEF Contract!Next
<1>8. ASSUME NEW p \in Procs, WaiterWait(p) PROVE Contract!Next \/ UNCHANGED Contract!vars
  <2>1. Reaped' = Reaped \cup {p}
    BY <1>8, ReapOne DEF WaiterWait
  <2>2. Contract!Collect(p)
    BY <1>8, <2>1 DEF WaiterWait, Contract!Collect, Contract!Ended, TestFate, Alive, TestOver, Statuses
  <2> QED
    BY <2>2 DEF Contract!Next
<1>9. CASE WaiterRecord
  <2>1. Kept
    BY <1>9 DEF WaiterRecord, TestFate, Alive, Reaped, TestOver, Statuses
  <2> QED
    BY <2>1 DEF Contract!vars
<1>10. CASE WaiterFinish
  <2>1. Kept
    BY <1>10 DEF WaiterFinish, TestFate, Alive, Reaped, TestOver, Statuses
  <2> QED
    BY <2>1 DEF Contract!vars
<1>11. CASE Judge
  <2>1. \A p \in Procs : TestFate[p] # "absent"
    BY <1>11 DEF Judge, TestFate, Alive, Phases, Unborn
  <2>2. TestFate' = TestFate /\ Reaped' = Reaped /\ TestOver = "no" /\ TestOver' = "no"
    BY <1>11 DEF Judge, TestFate, Alive, Reaped, TestOver
  <2>3. \A p \in Procs : how[p] # "none" => TestFate[p] = how[p]
    BY DEF TestFate, Alive, Statuses
  <2>4. Contract!Judge
    BY <1>11, <2>1, <2>2, <2>3 DEF Judge, Contract!Judge, Phases, Procs, PassIsEarned, FailIsEarned
  <2> QED
    BY <2>4 DEF Contract!Next
<1>12. CASE TimeOut
  <2>1. \A p \in Procs : TestFate[p] # "absent"
    BY <1>12 DEF TimeOut, TestFate, Alive, Phases, Unborn
  <2>2. TestFate' = TestFate /\ Reaped' = Reaped /\ TestOver = "no" /\ TestOver' = "no"
    BY <1>12 DEF TimeOut, TestFate, Alive, Reaped, TestOver
  <2>3. \A p \in Procs : how[p] # "none" => TestFate[p] = how[p]
    BY DEF TestFate, Alive, Statuses
  <2>4. Contract!Judge
    BY <1>12, <2>1, <2>2, <2>3 DEF TimeOut, Contract!Judge, Phases, Procs, PassIsEarned, FailIsEarned
  <2> QED
    BY <2>4 DEF Contract!Next
<1>13. ASSUME NEW p \in Procs, Signal(p) PROVE Contract!Next \/ UNCHANGED Contract!vars
  <2>1. Kept
    BY <1>13 DEF Signal, TestFate, Alive, Reaped, TestOver, Statuses
  <2> QED
    BY <2>1 DEF Contract!vars
<1>14. CASE Join
  <2>1. Kept
    BY <1>14 DEF Join, TestFate, Alive, Reaped, TestOver, Statuses
  <2> QED
    BY <2>1 DEF Contract!vars
<1>15. ASSUME NEW p \in Procs, WaitRest(p) PROVE Contract!Next \/ UNCHANGED Contract!vars
  <2>1. Reaped' = Reaped \cup {p}
    BY <1>15, ReapOne DEF WaitRest
  <2>2. Contract!Collect(p)
    BY <1>15, <2>1 DEF WaitRest, Contract!Collect, Contract!Ended, TestFate, Alive, TestOver, Statuses
  <2> QED
    BY <2>2 DEF Contract!Next
<1>16. CASE Return
  <2>1. Reaped = Procs
    BY <1>16, ReapedFinite, Finite DEF Return, Counting
  <2>2. TestFate' = TestFate /\ Reaped' = Reaped
    BY <1>16 DEF Return, TestFate, Alive, Reaped
  <2>3. Contract!Return
    BY <1>16, <2>1, <2>2 DEF Return, Contract!Return, TestOver, Phases
  <2> QED
    BY <2>3 DEF Contract!Next
<1>17. CASE Deadline
  <2>1. Kept
    BY <1>17 DEF Deadline, TestFate, Alive, Reaped, TestOver, Statuses
  <2> QED
    BY <2>1 DEF Contract!vars
<1>18. ASSUME NEW p \in Procs, Recycle(p) PROVE Contract!Next \/ UNCHANGED Contract!vars
  <2>1. Kept
    BY <1>18 DEF Recycle, TestFate, Alive, Reaped, TestOver, Statuses
  <2> QED
    BY <2>1 DEF Contract!vars
<1> QED
  BY <1>1, <1>2, <1>3, <1>4, <1>5, <1>6, <1>7, <1>8, <1>9, <1>10, <1>11, <1>12, <1>13, <1>14, <1>15, <1>16, <1>17, <1>18
  DEF Next, MainStep, WaiterStep, ChildStep

\* run() keeps the contract of a test run, whatever the children do and however
\* the threads interleave.
THEOREM Refinement == Spec => RefinesTestRun
<1>1. Init => Contract!Init
  BY DEF Init, Contract!Init, TestFate, TestOver, Reaped
<1>2. IInv /\ IInv' /\ [Next]_vars => [Contract!Next]_Contract!vars
  <2>1. CASE UNCHANGED vars
    <3>1. TestFate' = TestFate /\ Reaped' = Reaped /\ verdict' = verdict /\ TestOver' = TestOver
      BY <2>1 DEF vars, TestFate, Alive, Reaped, TestOver
    <3> QED
      BY <3>1 DEF Contract!vars
  <2>2. CASE Next
    BY <2>2, ContractStep
  <2> QED
    BY <2>1, <2>2
<1> QED
  BY <1>1, <1>2, Inductive, PTL DEF Spec, Contract!Spec, RefinesTestRun

=============================================================================
