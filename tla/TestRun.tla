------------------------------ MODULE TestRun -------------------------------
(***************************************************************************)
(* What one run of a test promises to the rest of the harness, without the *)
(* threads, the promise and the loops of waitForChildren(): the contract   *)
(* that Runner implements.                                                 *)
(***************************************************************************)
CONSTANTS
  Comps,    \* the components, which must succeed for the test to pass
  Procs     \* every process of the test

VARIABLES
  fate,     \* fate[p]: "absent", "alive", or how p ended
  gone,     \* the processes that have been collected
  verdict,
  over      \* "no", "returned" or "aborted"

vars == << fate, gone, verdict, over >>

Ended(p) == fate[p] \in {"ok", "crash", "kill"}

Init ==
  /\ fate = [p \in Procs |-> "absent"]
  /\ gone = {}
  /\ verdict = "none"
  /\ over = "no"

\* Processes start only before the verdict.
Start(p) ==
  /\ over = "no" /\ verdict = "none"
  /\ fate[p] = "absent"
  /\ fate' = [fate EXCEPT ![p] = "alive"]
  /\ UNCHANGED << gone, verdict, over >>

\* A process ends by itself at any time.
End(p) ==
  /\ fate[p] = "alive"
  /\ \E f \in {"ok", "crash"} : fate' = [fate EXCEPT ![p] = f]
  /\ UNCHANGED << gone, verdict, over >>

\* The harness kills a process only when the verdict is given.
Kill(p) ==
  /\ fate[p] = "alive"
  /\ verdict # "none"
  /\ fate' = [fate EXCEPT ![p] = "kill"]
  /\ UNCHANGED << gone, verdict, over >>

Collect(p) ==
  /\ Ended(p)
  /\ gone' = gone \cup {p}
  /\ UNCHANGED << fate, verdict, over >>

\* The verdict is given once, to a test all of whose processes were started.
Judge ==
  /\ verdict = "none" /\ over = "no"
  /\ \A p \in Procs : fate[p] # "absent"
  /\ \/ verdict' = "PASS" /\ \A c \in Comps : fate[c] = "ok"
     \/ verdict' = "FAIL" /\ \E p \in Procs : fate[p] = "crash"
     \/ verdict' = "TIMEOUT"
  /\ UNCHANGED << fate, gone, over >>

Return ==
  /\ verdict # "none" /\ over = "no"
  /\ gone = Procs
  /\ over' = "returned"
  /\ UNCHANGED << fate, gone, verdict >>

\* A process could not be started: the harness dies, and takes some with it.
Abort ==
  /\ verdict = "none" /\ over = "no"
  /\ \E p \in Procs : fate[p] = "absent"
  /\ \E S \in SUBSET {p \in Procs : fate[p] = "alive"} :
       fate' = [p \in Procs |-> IF p \in S THEN "kill" ELSE fate[p]]
  /\ over' = "aborted"
  /\ UNCHANGED << gone, verdict >>

Next ==
  \/ \E p \in Procs : Start(p) \/ End(p) \/ Kill(p) \/ Collect(p)
  \/ Judge \/ Return \/ Abort

Spec == Init /\ [][Next]_vars
=============================================================================
