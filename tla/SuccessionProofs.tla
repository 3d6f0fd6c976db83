-------------------------- MODULE SuccessionProofs --------------------------
(* Theorems about Succession, for any number of tests of any kinds.        *)
EXTENDS Succession, SequenceTheorems, TLAPS

-----------------------------------------------------------------------------
(* The inductive invariant.                                                *)

Distinct(s) == \A i, j \in 1..Len(s) : s[i] = s[j] => i = j

\* What is on the bus belongs to this test only while its service has asked for the
\* name and not released it.
Queued ==
  /\ Distinct(queue)
  /\ \A c \in ToSet(queue) :
       /\ c <= n
       /\ c = n => service \in {"lost", "serve", "release", "dead"}

\* The test that runs, and how far it is.
Running ==
  /\ Len(log) = n - 1
  /\ Idle => service = "off"
  /\ n > Tests => Idle
  /\ test.kind = "unknown" => service = "off"
  /\ deaf => service = "serve"

\* No call reaches a service without the name.
Addressed ==
  (n <= Tests /\ (service \in {"off", "start"} \/ deaf)) => n \notin ToSet(queue) /\ dest # n

\* Whose answer it is.
Answered ==
  /\ answer \in {"ok", "UNKNOWN_METHOD"} =>
       by = n /\ ~deaf /\ service \notin {"off", "start"}
  /\ answer \in {"SERVICE_UNKNOWN", "NAME_HAS_NO_OWNER", "NO_REPLY"} => by = TheBus
  /\ sender = "done" => answer \in Expected

\* What is left of the tests before this one.
Left ==
  \A c \in ToSet(queue) :
    c < n => log[c].kind = "refused" \/ log[c].verdict # "PASS"

IInv == TypeOK /\ Queued /\ Running /\ Addressed /\ Answered /\ Left /\ PassIsOwn

-----------------------------------------------------------------------------
(* The queue.                                                              *)

\* Arithmetic of positions.
LEMMA Offsets ==
  ASSUME NEW l \in Nat, NEW k \in Nat, k <= l
  PROVE  /\ l - (k + 1) + 1 = l - k /\ (k + 1 <= l \/ l - k = 0)
         /\ \A j \in 1..(l - k) : (k + 1) + j - 1 = k + j
OBVIOUS

\* What a sequence of length l is without its first k elements.
LEMMA RestFacts ==
  ASSUME NEW S, NEW s, NEW l \in Nat, NEW k \in Nat, k <= l, \A j \in 1..l : s[j] \in S
  PROVE  LET b == SubSeq(s, k + 1, l)
         IN  b \in Seq(S) /\ Len(b) = l - k /\ \A j \in 1..(l - k) : b[j] = s[k + j]
<1> DEFINE b == SubSeq(s, k + 1, l)
<1>1. k + 1 \in Int /\ l \in Int /\ \A j \in (k + 1)..l : s[j] \in S OBVIOUS
<1>2. /\ b \in Seq(S) /\ Len(b) = IF k + 1 <= l THEN l - (k + 1) + 1 ELSE 0
      /\ \A j \in 1..(l - (k + 1) + 1) : b[j] = s[(k + 1) + j - 1]
  BY ONLY <1>1, SubSeqProperties
<1> HIDE DEF b
<1>3. l - (k + 1) + 1 = l - k /\ (k + 1 <= l \/ l - k = 0) BY Offsets
<1>4. ASSUME NEW j \in 1..(l - k) PROVE b[j] = s[k + j]
  <2>1. (k + 1) + j - 1 = k + j BY Offsets
  <2>2. b[j] = s[(k + 1) + j - 1] BY <1>2, <1>3
  <2>3. QED BY ONLY <2>1, <2>2
<1>5. QED BY <1>2, <1>3, <1>4 DEF b

\* What a sequence is without its element i.
LEMMA RemoveFacts ==
  ASSUME NEW S, NEW s \in Seq(S), NEW i \in 1..Len(s)
  PROVE  /\ RemoveAt(s, i) \in Seq(S)
         /\ ToSet(RemoveAt(s, i)) \subseteq ToSet(s)
         /\ ToSet(s) \subseteq ToSet(RemoveAt(s, i)) \cup {s[i]}
         /\ Distinct(s) => Distinct(RemoveAt(s, i)) /\ s[i] \notin ToSet(RemoveAt(s, i))
<1> DEFINE r == RemoveAt(s, i)
           a == SubSeq(s, 1, i - 1)
           b == SubSeq(s, i + 1, Len(s))
<1>1. Len(s) \in Nat /\ i \in Nat /\ 1 <= i /\ i <= Len(s) /\ DOMAIN s = 1..Len(s)
      /\ \A j \in 1..Len(s) : s[j] \in S
  BY LenProperties
<1>2. /\ a \in Seq(S) /\ Len(a) = i - 1
      /\ \A j \in 1..(i - 1) : a[j] = s[j]
  <2>1. 1 \in Int /\ i - 1 \in Int /\ \A j \in 1..(i - 1) : s[j] \in S BY <1>1
  <2>2. /\ a \in Seq(S) /\ Len(a) = IF 1 <= i - 1 THEN (i - 1) - 1 + 1 ELSE 0
        /\ \A j \in 1..((i - 1) - 1 + 1) : a[j] = s[1 + j - 1]
    BY ONLY <2>1, SubSeqProperties
  <2>3. QED BY <1>1, <2>2
<1>3. /\ b \in Seq(S) /\ Len(b) = Len(s) - i
      /\ \A j \in 1..(Len(s) - i) : b[j] = s[i + j]
  <2>1. PICK l \in Nat : l = Len(s) BY <1>1
  <2>2. i \in Nat /\ i <= l /\ \A j \in 1..l : s[j] \in S BY <1>1, <2>1
  <2> HIDE DEF b
  <2>3. b = SubSeq(s, i + 1, l) BY <2>1 DEF b
  <2>4. b \in Seq(S) /\ Len(b) = l - i /\ \A j \in 1..(l - i) : b[j] = s[i + j]
    BY ONLY <2>2, <2>3, RestFacts
  <2>5. QED BY ONLY <2>1, <2>4, Zenon
<1>4. /\ r \in Seq(S) /\ Len(r) = Len(s) - 1
      /\ \A j \in 1..(Len(s) - 1) : r[j] = IF j < i THEN s[j] ELSE s[j + 1]
  <2> HIDE DEF a, b
  <2>1. r = a \o b BY DEF RemoveAt, a, b
  <2> HIDE DEF r
  <2>2. /\ r \in Seq(S) /\ Len(r) = Len(a) + Len(b)
        /\ \A j \in 1..(Len(a) + Len(b)) :
             r[j] = IF j <= Len(a) THEN a[j] ELSE b[j - Len(a)]
    BY <1>2, <1>3, <2>1, ConcatProperties
  <2>3. Len(a) + Len(b) = Len(s) - 1 BY <1>1, <1>2, <1>3
  <2>4. ASSUME NEW j \in 1..(Len(s) - 1) PROVE r[j] = IF j < i THEN s[j] ELSE s[j + 1]
    <3>1. CASE j < i BY <1>1, <1>2, <2>2, <2>3, <3>1
    <3>2. CASE j >= i
      <4>1. j - Len(a) \in 1..(Len(s) - i) /\ i + (j - Len(a)) = j + 1 /\ ~(j <= Len(a))
        BY <1>1, <1>2, <3>2
      <4>2. r[j] = b[j - Len(a)] BY <2>2, <2>3, <4>1
      <4>3. b[j - Len(a)] = s[j + 1] BY <1>3, <4>1
      <4>4. QED BY <1>1, <3>2, <4>2, <4>3
    <3>3. QED BY <1>1, <3>1, <3>2
  <2>5. QED BY <2>2, <2>3, <2>4
<1> HIDE DEF r, a, b
<1>5. DOMAIN r = 1..(Len(s) - 1) BY <1>4, LenProperties
<1>6. ToSet(r) \subseteq ToSet(s)
  BY <1>1, <1>4, <1>5 DEF ToSet
<1>7. ASSUME Distinct(s) PROVE Distinct(r) /\ s[i] \notin ToSet(r)
  BY <1>1, <1>4, <1>5, <1>7 DEF ToSet, Distinct
<1>8. ToSet(s) \subseteq ToSet(r) \cup {s[i]}
  <2> SUFFICES ASSUME NEW j \in 1..Len(s), j # i PROVE s[j] \in ToSet(r)
    BY <1>1 DEF ToSet
  <2>1. CASE j < i
    <3>1. j \in 1..(Len(s) - 1) /\ r[j] = s[j] BY <1>1, <1>4, <2>1
    <3>2. QED BY <1>5, <3>1 DEF ToSet
  <2>2. CASE j > i
    <3>1. j - 1 \in 1..(Len(s) - 1) /\ ~(j - 1 < i) /\ (j - 1) + 1 = j BY <1>1, <2>2
    <3>2. r[j - 1] = s[j] BY <1>4, <3>1
    <3>3. QED BY <1>5, <3>1, <3>2 DEF ToSet
  <2>3. QED BY <1>1, <2>1, <2>2
<1>9. QED BY <1>4, <1>6, <1>7, <1>8 DEF r

\* A connection that leaves the queue is not in it any more, and nobody else joins.
LEMMA LeavesFacts ==
  ASSUME TypeOK, Distinct(queue), NEW c, Leaves(c)
  PROVE  /\ queue' \in Seq(Ids) /\ Distinct(queue')
         /\ ToSet(queue') \subseteq ToSet(queue) /\ c \notin ToSet(queue')
         /\ ToSet(queue) \subseteq ToSet(queue') \cup {c}
<1>1. queue \in Seq(Ids) BY DEF TypeOK
<1>2. CASE \E i \in 1..Len(queue) : queue[i] = c /\ queue' = RemoveAt(queue, i)
  BY <1>1, <1>2, RemoveFacts
<1>3. CASE c \notin ToSet(queue) /\ UNCHANGED queue BY <1>1, <1>3
<1>4. QED BY <1>2, <1>3 DEF Leaves

\* A connection that joins the queue for the first time is the last of it.
LEMMA AppendFacts ==
  ASSUME NEW S, NEW s \in Seq(S), NEW c \in S, Distinct(s), c \notin ToSet(s)
  PROVE  /\ Append(s, c) \in Seq(S) /\ Distinct(Append(s, c))
         /\ ToSet(Append(s, c)) = ToSet(s) \cup {c}
<1> DEFINE r == Append(s, c)
<1>1. Len(s) \in Nat /\ DOMAIN s = 1..Len(s) BY LenProperties
<1>2. /\ r \in Seq(S) /\ Len(r) = Len(s) + 1
      /\ \A i \in 1..Len(s) : r[i] = s[i]
      /\ r[Len(s) + 1] = c
  BY AppendProperties
<1>3. DOMAIN r = 1..(Len(s) + 1) BY <1>2, LenProperties
<1> HIDE DEF r
<1>4. 1..(Len(s) + 1) = 1..Len(s) \cup {Len(s) + 1} BY <1>1
<1>5. ToSet(r) = ToSet(s) \cup {c} BY <1>1, <1>2, <1>3, <1>4 DEF ToSet
<1>6. Distinct(r) BY <1>1, <1>2, <1>4 DEF ToSet, Distinct
<1>7. QED BY <1>2, <1>5, <1>6 DEF r

\* The owner of the name is in the queue.
LEMMA HeadFacts ==
  ASSUME TypeOK, queue # << >>
  PROVE  Head(queue) \in Ids /\ Head(queue) \in ToSet(queue)
<1>1. queue \in Seq(Ids) BY DEF TypeOK
<1>2. Len(queue) \in Nat /\ Len(queue) > 0 /\ DOMAIN queue = 1..Len(queue)
  BY <1>1, LenProperties, EmptySeq
<1>3. Head(queue) = queue[1] /\ 1 \in DOMAIN queue BY <1>1, <1>2
<1>4. QED BY <1>1, <1>3, HeadTailProperties DEF ToSet

\* An empty queue, and one with a single connection.
LEMMA ShortFacts ==
  /\ ToSet(<< >>) = {} /\ Distinct(<< >>)
  /\ \A c : ToSet(<< c >>) = {c} /\ Distinct(<< c >>)
BY DEF ToSet, Distinct

-----------------------------------------------------------------------------
(* The steps.                                                              *)

\* The connection of a test is one of those the bus can see.
LEMMA Present ==
  ASSUME IInv, ~Idle
  PROVE  n \in Ids /\ n <= Tests /\ n \in Nat /\ Nobody # n /\ TheBus # n
BY SuccessionAssumption DEF IInv, TypeOK, Running, Ids, Nobody, TheBus

\* run() leaves the bus alone.
LEMMA StartTestKeeps == IInv /\ StartTest => IInv'
<1> SUFFICES ASSUME IInv, StartTest PROVE IInv' OBVIOUS
<1> USE DEF StartTest, testVars, callVars, busVars
<1>1. TypeOK' BY DEF IInv, TypeOK
<1>2. Queued' BY DEF IInv, Queued, Running
<1>3. Running'
  <2>1. service = "off" /\ ~deaf /\ n <= Tests /\ n \in Nat
    BY DEF IInv, Running, Idle, TypeOK
  <2>2. (test.kind = "unknown" => service' = "off") /\ ~deaf' /\ ~Idle' /\ ~(n > Tests)
    BY <2>1, SuccessionAssumption DEF Idle
  <2>3. QED BY <2>2 DEF IInv, Running
<1>4. Addressed' BY DEF IInv, Addressed, Running, Idle
<1>5. Answered' BY DEF IInv, Answered, Expected, Running, Idle
<1>6. Left' BY DEF IInv, Left
<1>7. PassIsOwn' BY DEF IInv, PassIsOwn
<1>8. QED BY <1>1, <1>2, <1>3, <1>4, <1>5, <1>6, <1>7 DEF IInv

\* A verdict PASS is right when it is given, and then the service has left the queue
\* or is killed.
LEMMA JudgeKeeps ==
  ASSUME IInv, NEW verdict \in {"PASS", "FAIL", "TIMEOUT"}, Judge(verdict),
         verdict = "PASS" => /\ sender = "done"
                             /\ test.kind = "exchange" => service = "done"
  PROVE  IInv'
<1> DEFINE entry == [kind |-> test.kind, verdict |-> verdict, by |-> by,
                     deaf |-> deaf, stale |-> stale]
           Entries == [kind : Kinds, verdict : {"PASS", "FAIL", "TIMEOUT"}, by : 0..Nobody,
                       deaf : BOOLEAN, stale : BOOLEAN]
<1> USE DEF Judge
<1>1. n \in Ids /\ n <= Tests /\ n \in Nat /\ Nobody # n /\ TheBus # n BY Present
<1>2. /\ log' \in Seq(Entries) /\ Len(log') = Len(log) + 1
      /\ \A i \in 1..Len(log) : log'[i] = log[i]
      /\ log'[Len(log) + 1] = entry
  <2>1. log \in Seq(Entries) BY DEF IInv, TypeOK
  <2>2. entry \in Entries BY DEF IInv, TypeOK, TestSpecs
  <2> HIDE DEF entry, Entries
  <2>3. log' = Append(log, entry) BY DEF entry
  <2>4. QED BY <2>1, <2>2, <2>3, AppendProperties
<1>3. Len(log) = n - 1 /\ log' [n] = entry /\ Len(log') = n
      /\ \A i \in 1..(n - 1) : log'[i] = log[i]
  BY <1>1, <1>2 DEF IInv, Running
<1>4. TypeOK'
  <2>1. n' \in 1..(Tests + 1) /\ Nobody \in 0..Nobody
    BY <1>1, SuccessionAssumption DEF Nobody
  <2>2. closing' \subseteq Ids BY <1>1 DEF IInv, TypeOK
  <2>3. QED BY <1>2, <2>1, <2>2 DEF IInv, TypeOK
<1>5. \A c \in ToSet(queue) : c \in Nat /\ 1 <= c /\ c <= n
  <2>1. queue \in Seq(Ids) BY DEF IInv, TypeOK
  <2>2. \A i \in DOMAIN queue : queue[i] \in Ids BY <2>1, LenProperties
  <2>3. QED BY <2>2 DEF IInv, Queued, Ids, ToSet
<1>6. Queued' BY <1>1, <1>5 DEF IInv, Queued
<1>7. Running' BY <1>1, <1>3 DEF Running, Idle, Ids
<1>8. Addressed'
  BY <1>1, <1>5, SuccessionAssumption DEF Addressed, Nobody
<1>9. Answered' BY DEF Answered
<1>10. Left'
  <2> SUFFICES ASSUME NEW c \in ToSet(queue), c < n + 1
               PROVE  log'[c].kind = "refused" \/ log'[c].verdict # "PASS"
    BY DEF Left
  <2>1. CASE c < n BY <1>3, <1>5, <2>1 DEF IInv, Left
  <2>2. CASE c = n
    <3>1. service \in {"lost", "serve", "release", "dead"} BY <2>2 DEF IInv, Queued
    <3>2. test.kind \in {"exchange", "refused", "unknown"}
      BY SuccessionAssumption DEF IInv, TypeOK, TestSpecs
    <3>3. QED BY <1>3, <2>2, <3>1, <3>2 DEF IInv, Running
  <2>3. c < n \/ c = n BY <1>1, <1>5
  <2>4. QED BY <2>1, <2>2, <2>3
<1>11. PassIsOwn'
  <2> SUFFICES ASSUME NEW i \in 1..n, log'[i].verdict = "PASS"
               PROVE  /\ log'[i].by = IF log'[i].kind = "unknown" THEN TheBus ELSE i
                      /\ ~log'[i].deaf
    BY <1>3 DEF PassIsOwn
  <2>1. CASE i < n BY <1>1, <1>3, <2>1 DEF IInv, PassIsOwn
  <2>2. CASE i = n
    <3>1. answer \in Expected BY <1>3, <2>2 DEF IInv, Answered
    <3>2. test.kind \in {"exchange", "refused", "unknown"}
      BY SuccessionAssumption DEF IInv, TypeOK, TestSpecs
    <3>3. CASE test.kind = "unknown"
      BY <1>3, <2>2, <3>1, <3>3 DEF IInv, Answered, Running, Expected
    <3>4. CASE test.kind # "unknown"
      BY <1>3, <2>2, <3>1, <3>2, <3>4 DEF IInv, Answered, Expected
    <3>5. QED BY <3>3, <3>4
  <2>3. i < n \/ i = n BY <1>1
  <2>4. QED BY <2>1, <2>2, <2>3
<1>12. QED BY <1>4, <1>6, <1>7, <1>8, <1>9, <1>10, <1>11 DEF IInv

\* Three ends of a test.
LEMMA EndsKeep == IInv /\ (Pass \/ Fail \/ TimeOut) => IInv'
<1>1. IInv /\ Pass => IInv' BY JudgeKeeps DEF Pass
<1>2. IInv /\ Fail => IInv' BY JudgeKeeps DEF Fail
<1>3. IInv /\ TimeOut => IInv' BY JudgeKeeps DEF TimeOut
<1>4. QED BY <1>1, <1>2, <1>3

\* What the tests before have left, and their verdicts, are read from the log.
LEMMA LogFrame ==
  ASSUME IInv, UNCHANGED << n, log >>, \A c \in ToSet(queue') : c \in ToSet(queue) \/ c = n,
         n \in Nat
  PROVE  Left' /\ PassIsOwn'
BY DEF IInv, Left, PassIsOwn

\* A service joins the queue, or is deaf.
LEMMA RequestNameKeeps == IInv /\ RequestName => IInv'
<1> SUFFICES ASSUME IInv, RequestName PROVE IInv' OBVIOUS
<1> USE DEF RequestName, callVars
<1>1. ~Idle BY DEF IInv, Running
<1>2. n \in Ids /\ n <= Tests /\ n \in Nat /\ Nobody # n /\ TheBus # n BY <1>1, Present
<1>3. n \notin ToSet(queue) /\ dest # n BY <1>2 DEF IInv, Addressed
<1>4. /\ queue' \in Seq(Ids) /\ Distinct(queue')
      /\ ToSet(queue') \subseteq ToSet(queue) \cup {n}
      /\ deaf' => n \notin ToSet(queue')
  <2>1. queue \in Seq(Ids) /\ Distinct(queue) /\ deaf = FALSE BY DEF IInv, TypeOK, Queued, Running
  <2>2. CASE queue' = << n >> /\ UNCHANGED deaf BY <1>2, <2>1, <2>2, ShortFacts
  <2>3. CASE UNCHANGED queue BY <1>3, <2>1, <2>3
  <2>4. CASE queue' = Append(queue, n) /\ UNCHANGED deaf
    BY <1>2, <1>3, <2>1, <2>4, AppendFacts
  <2>5. QED BY <2>2, <2>3, <2>4
<1>5. TypeOK' BY <1>4 DEF IInv, TypeOK
<1>6. Queued' BY <1>2, <1>4 DEF IInv, Queued
<1>7. Running' BY <1>1 DEF IInv, Running, Idle
<1>8. Addressed' BY <1>3, <1>4 DEF IInv, Addressed
<1>9. Answered' BY DEF IInv, Answered, Expected
<1>10. QED BY <1>2, <1>4, <1>5, <1>6, <1>7, <1>8, <1>9, LogFrame DEF IInv

\* A service that dies stays in the queue until the bus sees it.
LEMMA NameLostKeeps == IInv /\ NameLost => IInv'
<1> SUFFICES ASSUME IInv, NameLost PROVE IInv' OBVIOUS
<1> USE DEF NameLost, callVars, testVars
<1>1. ~Idle BY DEF IInv, Running
<1>2. n \in Ids /\ n <= Tests /\ n \in Nat BY <1>1, Present
<1>3. TypeOK' BY <1>2 DEF IInv, TypeOK
<1>4. Queued' /\ Running' BY <1>1 DEF IInv, Queued, Running, Idle
<1>5. Addressed' /\ Answered' BY DEF IInv, Addressed, Answered, Running, Expected
<1>6. QED BY <1>2, <1>3, <1>4, <1>5, LogFrame DEF IInv

\* A call is answered by the service that has the name.
LEMMA ServeKeeps == IInv /\ Serve => IInv'
<1> SUFFICES ASSUME IInv, Serve PROVE IInv' OBVIOUS
<1> USE DEF Serve, busVars, testVars
<1>1. ~Idle BY DEF Idle
<1>2. n \in Ids /\ n <= Tests /\ n \in Nat BY <1>1, Present
<1>3. ~deaf BY <1>2 DEF IInv, Addressed
<1>4. TypeOK' BY <1>2, SuccessionAssumption DEF IInv, TypeOK, Errors, Nobody
<1>5. Queued' /\ Running' BY <1>1, <1>3 DEF IInv, Queued, Running, Idle
<1>6. Addressed' BY <1>3 DEF IInv, Addressed
<1>7. Answered' BY <1>3 DEF IInv, Answered
<1>8. QED BY <1>2, <1>4, <1>5, <1>6, <1>7, LogFrame DEF IInv

\* tearDown() takes the service out of the queue.
LEMMA ReleaseKeeps == IInv /\ Release => IInv'
<1> SUFFICES ASSUME IInv, Release PROVE IInv' OBVIOUS
<1> USE DEF Release, callVars, testVars
<1>1. ~Idle BY DEF IInv, Running
<1>2. n \in Ids /\ n <= Tests /\ n \in Nat BY <1>1, Present
<1>3. /\ queue' \in Seq(Ids) /\ Distinct(queue')
      /\ ToSet(queue') \subseteq ToSet(queue) /\ n \notin ToSet(queue')
  BY LeavesFacts DEF IInv, Queued
<1>4. TypeOK' BY <1>3 DEF IInv, TypeOK
<1>5. Queued' BY <1>3 DEF IInv, Queued
<1>6. Running' BY <1>1 DEF IInv, Running, Idle
<1>7. Addressed' /\ Answered' BY DEF IInv, Addressed, Answered, Running, Expected
<1>8. QED BY <1>2, <1>3, <1>4, <1>5, <1>6, <1>7, LogFrame DEF IInv

\* The sender sees the name, whoever has it.
LEMMA NameAppearsKeeps == IInv /\ NameAppears => IInv'
<1> SUFFICES ASSUME IInv, NameAppears PROVE IInv' OBVIOUS
<1> USE DEF NameAppears, callVars, testVars, busVars
<1>1. ~Idle BY DEF Idle
<1>2. n \in Nat BY <1>1, Present
<1>3. TypeOK' BY DEF IInv, TypeOK
<1>4. Queued' /\ Running' BY <1>1 DEF IInv, Queued, Running, Idle
<1>5. Addressed' /\ Answered' BY DEF IInv, Addressed, Answered
<1>6. QED BY <1>2, <1>3, <1>4, <1>5, LogFrame DEF IInv

\* The look-up finds the owner of the name, whoever that is.
LEMMA ResolveKeeps == IInv /\ Resolve => IInv'
<1> SUFFICES ASSUME IInv, Resolve PROVE IInv' OBVIOUS
<1> USE DEF Resolve, testVars, busVars
<1>1. ~Idle BY DEF Idle
<1>2. n \in Nat BY <1>1, Present
<1>3. dest' = dest \/ (dest' \in Ids /\ dest' \in ToSet(queue))
  BY HeadFacts DEF IInv
<1>4. TypeOK' BY <1>3, SuccessionAssumption DEF IInv, TypeOK, Ids, Nobody
<1>5. Queued' /\ Running' BY <1>1 DEF IInv, Queued, Running, Idle
<1>6. Addressed' BY <1>3 DEF IInv, Addressed
<1>7. Answered' BY DEF IInv, Answered
<1>8. QED BY <1>2, <1>4, <1>5, <1>6, <1>7, LogFrame DEF IInv

\* A call goes to the owner of the name, to a connection, or is refused by the bus.
LEMMA CallKeeps == IInv /\ Call => IInv'
<1> SUFFICES ASSUME IInv, Call PROVE IInv' OBVIOUS
<1> USE DEF Call, testVars, busVars
<1>1. ~Idle BY DEF Idle
<1>2. n \in Nat /\ n <= Tests /\ Nobody # n BY <1>1, Present
<1>3. \/ UNCHANGED callVars
      \/ answer' = NoDestination /\ by' = TheBus /\ dest' = Nobody
      \/ dest' \in Ids /\ dest' \in ToSet(queue) /\ UNCHANGED << answer, by >>
  BY HeadFacts DEF IInv, Route, RouteToUniqueId
<1>4. NoDestination \in {"SERVICE_UNKNOWN", "NAME_HAS_NO_OWNER"} BY DEF NoDestination
<1>5. TypeOK'
  BY <1>3, <1>4, SuccessionAssumption DEF IInv, TypeOK, Ids, Nobody, TheBus, Errors, callVars
<1>6. Queued' /\ Running' BY <1>1 DEF IInv, Queued, Running, Idle
<1>7. Addressed' BY <1>2, <1>3 DEF IInv, Addressed, callVars
<1>8. Answered' BY <1>3, <1>4 DEF IInv, Answered, callVars
<1>9. QED BY <1>2, <1>5, <1>6, <1>7, <1>8, LogFrame DEF IInv

\* The sender ends well only with an answer it expects.
LEMMA HandleReplyKeeps == IInv /\ HandleReply => IInv'
<1> SUFFICES ASSUME IInv, HandleReply PROVE IInv' OBVIOUS
<1> USE DEF HandleReply, callVars, testVars, busVars
<1>1. ~Idle BY DEF Idle
<1>2. n \in Nat BY <1>1, Present
<1>3. TypeOK' BY DEF IInv, TypeOK
<1>4. Queued' /\ Running' BY <1>1 DEF IInv, Queued, Running, Idle
<1>5. Addressed' /\ Answered' BY DEF IInv, Addressed, Answered, Expected
<1>6. QED BY <1>2, <1>3, <1>4, <1>5, LogFrame DEF IInv

\* The bus may see the end of a connection at any time.
LEMMA BusSeesKeeps == \A c \in Ids : IInv /\ BusSees(c) => IInv'
<1> SUFFICES ASSUME NEW c \in Ids, IInv, BusSees(c) PROVE IInv' OBVIOUS
<1> USE DEF BusSees, testVars
<1>1. n \in Nat BY SuccessionAssumption DEF IInv, TypeOK
<1>2. /\ queue' \in Seq(Ids) /\ Distinct(queue')
      /\ ToSet(queue') \subseteq ToSet(queue)
  BY LeavesFacts DEF IInv, Queued
<1>3. \/ sender # "done" /\ answer' = "NO_REPLY" /\ by' = TheBus
      \/ UNCHANGED << answer, by >>
  OBVIOUS
<1>4. TypeOK'
  BY <1>2, <1>3, SuccessionAssumption DEF IInv, TypeOK, Errors, TheBus, Nobody
<1>5. Queued' BY <1>2 DEF IInv, Queued
<1>6. Running' BY DEF IInv, Running, Idle
<1>7. Addressed' BY <1>2 DEF IInv, Addressed
<1>8. Answered' BY <1>3 DEF IInv, Answered, Expected
<1>9. QED BY <1>1, <1>2, <1>4, <1>5, <1>6, <1>7, <1>8, LogFrame DEF IInv

-----------------------------------------------------------------------------
(* The theorems.                                                           *)

\* The invariant holds before the first test.
LEMMA Initially == Init => IInv
<1> SUFFICES ASSUME Init PROVE IInv OBVIOUS
<1> USE DEF Init
<1>1. TypeOK
  <2>1. n \in 1..(Tests + 1) /\ Nobody \in 0..Nobody BY SuccessionAssumption DEF Nobody
  <2>2. \A S : << >> \in Seq(S) OBVIOUS
  <2>3. queue \in Seq(Ids) /\ closing \subseteq Ids BY <2>2
  <2>4. log \in Seq([kind : Kinds, verdict : {"PASS", "FAIL", "TIMEOUT"}, by : 0..Nobody,
                     deaf : BOOLEAN, stale : BOOLEAN])
    BY <2>2
  <2>5. QED BY <2>1, <2>3, <2>4 DEF TypeOK
<1>2. Queued BY ShortFacts DEF Queued
<1>3. Running BY SuccessionAssumption DEF Running, Idle
<1>4. Addressed BY SuccessionAssumption, ShortFacts DEF Addressed, Nobody
<1>5. Answered BY DEF Answered
<1>6. Left /\ PassIsOwn BY ShortFacts DEF Left, PassIsOwn
<1>7. QED BY <1>1, <1>2, <1>3, <1>4, <1>5, <1>6 DEF IInv

\* Every step keeps the invariant.
LEMMA Inductive == IInv /\ [Next]_vars => IInv'
<1> SUFFICES ASSUME IInv, [Next]_vars PROVE IInv' OBVIOUS
<1>1. CASE StartTest BY <1>1, StartTestKeeps
<1>2. CASE Pass \/ Fail \/ TimeOut BY <1>2, EndsKeep
<1>3. CASE Step
  BY <1>3, RequestNameKeeps, NameLostKeeps, ServeKeeps, ReleaseKeeps, NameAppearsKeeps,
     ResolveKeeps, CallKeeps, HandleReplyKeeps, BusSeesKeeps DEF Step
<1>4. CASE UNCHANGED vars
  <2> USE <1>4 DEF vars, testVars, callVars, busVars
  <2>1. TypeOK' BY DEF IInv, TypeOK
  <2>2. Queued' /\ Running' BY DEF IInv, Queued, Running, Idle
  <2>3. Addressed' /\ Answered' BY DEF IInv, Addressed, Answered, Expected
  <2>4. Left' /\ PassIsOwn' BY DEF IInv, Left, PassIsOwn
  <2>5. QED BY <2>1, <2>2, <2>3, <2>4 DEF IInv
<1>5. QED BY <1>1, <1>2, <1>3, <1>4 DEF Next

\* The invariant holds in every state of every succession of tests.
THEOREM Invariant == Spec => []IInv
BY Initially, Inductive, PTL DEF Spec

\* The variables keep their types.
THEOREM TypeCorrect == Spec => []TypeOK
<1>1. IInv => TypeOK BY DEF IInv
<1>2. QED BY <1>1, Invariant, PTL

\* However many tests have left their services on the bus, a test that passes got
\* its answer from its own service, or from the bus when it has none.
THEOREM PassOwned == Spec => []PassIsOwn
<1>1. IInv => PassIsOwn BY DEF IInv
<1>2. QED BY <1>1, Invariant, PTL

\* Between two tests, the name is only held by services that were killed in an error
\* test or belong to a test that did not pass.
THEOREM NameReleased == Spec => []NameLeftByKilled
<1>1. ASSUME IInv PROVE NameLeftByKilled
  <2> SUFFICES ASSUME Idle, NEW c \in Ids, c \in ToSet(queue)
               PROVE  log[c].kind = "refused" \/ log[c].verdict # "PASS"
    BY DEF NameLeftByKilled
  <2>1. c <= n /\ c # n BY <1>1 DEF IInv, Queued, Running
  <2>2. c < n BY <1>1, <2>1 DEF IInv, TypeOK, Ids
  <2>3. QED BY <1>1, <2>2 DEF IInv, Left
<1>2. QED BY <1>1, Invariant, PTL

-----------------------------------------------------------------------------
(* What makes a test hang or fail.  It needs more than IInv, about the     *)
(* connections the bus has yet to see and the progress of the call.        *)

\* A connection in the queue is closed, or its service runs.
Closed ==
  /\ \A c \in ToSet(queue) :
       c \in closing \/ (c = n /\ service \in {"lost", "serve", "release"})
  /\ \A c \in closing : c < n \/ (c = n /\ service = "dead")

\* How far the call is, and what the service has done for it.
Progress ==
  /\ Idle => answer = "none" /\ dest = Nobody
  /\ test.kind = "unknown" => dest = Nobody /\ sender \notin {"wait", "resolve"}
  /\ ~Idle /\ test.kind # "unknown" => service # "off"
  /\ service = "serve" /\ ~deaf => n \in ToSet(queue)
  /\ sender \in {"wait", "resolve", "call"} => answer = "none"
  /\ sender \in {"wait", "resolve"} => dest = Nobody
  /\ service \in {"release", "done"} => answer # "none"
  /\ answer = "ok" => service \in {"release", "done"}
  /\ sender = "await" /\ answer = "none" =>
       dest \in closing \/ (dest = n /\ service # "dead")

\* A test that begins when nobody has the name.
Clean ==
  ~Idle /\ ~stale =>
    /\ ToSet(queue) \subseteq {n}
    /\ ~deaf
    /\ service \notin {"lost", "dead"}
    /\ sender # "dead"
    /\ sender \in {"resolve", "call"} /\ test.kind # "unknown" => n \in ToSet(queue)
    /\ sender = "call" /\ test.kind # "unknown" => dest \in {n, Nobody}
    /\ sender = "await" /\ answer = "none" => dest = n
    /\ answer \in Expected \cup {"none"}

JInv == Closed /\ Progress /\ Clean /\ TimeoutMeansDeaf /\ CleanBusPasses

\* TimeoutMeansDeaf and CleanBusPasses read the log.
LEMMA VerdictsFrame ==
  ASSUME JInv, UNCHANGED log
  PROVE  TimeoutMeansDeaf' /\ CleanBusPasses'
BY DEF JInv, TimeoutMeansDeaf, CleanBusPasses

\* When nothing can happen, the service goes on without the name.
LEMMA QuietDeaf ==
  ASSUME IInv, JInv, Quiet, ~Idle
  PROVE  deaf
<1>1. n <= Tests BY Present
<1>2. CASE sender = "wait" /\ queue = << >>
  BY <1>2, ShortFacts DEF JInv, Progress, Quiet
<1>3. CASE sender = "await" /\ answer = "none" /\ ~(service = "serve" /\ dest = n)
  BY <1>1, <1>3 DEF IInv, Addressed, JInv, Progress, Quiet
<1>4. CASE sender = "done" /\ test.kind = "exchange" /\ service # "done"
  BY <1>4 DEF IInv, Answered, Expected, JInv, Progress, Quiet
<1>5. QED BY <1>2, <1>3, <1>4 DEF Quiet

\* run() begins a test with what is on the bus.
LEMMA StartTestFurther == IInv /\ JInv /\ StartTest => JInv'
<1> SUFFICES ASSUME IInv, JInv, StartTest PROVE JInv' OBVIOUS
<1> USE DEF StartTest, testVars, callVars, busVars
<1>1. /\ service = "off" /\ ~deaf /\ answer = "none" /\ n \in Nat
  BY DEF IInv, Running, Idle, TypeOK, JInv, Progress
<1>2. Closed' BY <1>1 DEF JInv, Closed
<1>3. Progress' BY <1>1 DEF JInv, Progress, Idle
<1>4. Clean' BY <1>1, ShortFacts DEF JInv, Clean, Idle
<1>5. QED BY <1>2, <1>3, <1>4, VerdictsFrame DEF JInv

\* A test that ends leaves its service to the bus.  If it began on a clean bus it has
\* passed, and if it ended by the deadline its service was deaf.
LEMMA JudgeFurther ==
  ASSUME IInv, JInv, NEW verdict \in {"PASS", "FAIL", "TIMEOUT"}, Judge(verdict),
         verdict = "FAIL" => sender = "dead" \/ service = "dead",
         verdict = "TIMEOUT" => Quiet
  PROVE  JInv'
<1> DEFINE entry == [kind |-> test.kind, verdict |-> verdict, by |-> by,
                     deaf |-> deaf, stale |-> stale]
           Entries == [kind : Kinds, verdict : {"PASS", "FAIL", "TIMEOUT"}, by : 0..Nobody,
                       deaf : BOOLEAN, stale : BOOLEAN]
<1> USE DEF Judge
<1>1. n \in Ids /\ n <= Tests /\ n \in Nat /\ ~Idle BY Present
<1>2. /\ Len(log) \in Nat /\ Len(log') = Len(log) + 1
      /\ \A i \in 1..Len(log) : log'[i] = log[i]
      /\ log'[Len(log) + 1] = entry
  <2>1. log \in Seq(Entries) BY DEF IInv, TypeOK
  <2>2. entry \in Entries BY DEF IInv, TypeOK, TestSpecs
  <2> HIDE DEF entry, Entries
  <2>3. log' = Append(log, entry) BY DEF entry
  <2>4. QED BY <2>1, <2>2, <2>3, AppendProperties, LenProperties
<1>3. \A i \in 1..Len(log') : i \in 1..Len(log) \/ i = Len(log) + 1 BY <1>2
<1>4. closing \subseteq Ids /\ ToSet(queue) \subseteq Nat
  <2>1. queue \in Seq(Ids) /\ closing \subseteq Ids BY DEF IInv, TypeOK
  <2>2. \A i \in DOMAIN queue : queue[i] \in Ids BY <2>1, LenProperties
  <2>3. QED BY <2>1, <2>2 DEF ToSet, Ids
<1>5. Closed'
  <2>1. \A c \in ToSet(queue) : c \in closing' BY DEF JInv, Closed
  <2>2. \A c \in closing' : c < n + 1 BY <1>1, <1>4 DEF JInv, Closed, Ids
  <2>3. QED BY <2>1, <2>2 DEF Closed
<1>6. Progress' BY DEF Progress, Idle
<1>7. Clean' BY DEF Clean, Idle
<1>8. TimeoutMeansDeaf'
  <2>1. verdict = "TIMEOUT" => deaf BY <1>1, QuietDeaf
  <2>2. QED BY <1>2, <1>3, <2>1 DEF JInv, TimeoutMeansDeaf
<1>9. CleanBusPasses'
  <2>1. ~stale => verdict = "PASS" BY <1>1, QuietDeaf DEF JInv, Clean
  <2>2. QED BY <1>2, <1>3, <2>1 DEF JInv, CleanBusPasses
<1>10. QED BY <1>5, <1>6, <1>7, <1>8, <1>9 DEF JInv

\* A service asks for the name: on a clean bus it gets it.
LEMMA RequestNameFurther == IInv /\ JInv /\ RequestName => JInv'
<1> SUFFICES ASSUME IInv, JInv, RequestName PROVE JInv' OBVIOUS
<1> USE DEF RequestName, callVars
<1>1. ~Idle BY DEF IInv, Running
<1>2. n \in Ids /\ n <= Tests /\ n \in Nat BY <1>1, Present
<1>3. n \notin ToSet(queue) /\ dest # n BY <1>2 DEF IInv, Addressed
<1>4. queue \in Seq(Ids) /\ Distinct(queue) BY DEF IInv, TypeOK, Queued
<1>5. \A c \in ToSet(queue) : c \in closing BY <1>3 DEF JInv, Closed
<1>6. ASSUME queue = << >>, queue' = << n >>, service' = "serve", UNCHANGED deaf
      PROVE  Closed' /\ Progress' /\ Clean'
  <2>1. ToSet(queue) = {} /\ ToSet(queue') = {n} BY <1>6, ShortFacts
  <2>2. Closed' BY <1>6, <2>1 DEF JInv, Closed
  <2>3. Progress' BY <1>1, <1>6, <2>1 DEF JInv, Progress, Idle
  <2>4. Clean' BY <1>1, <1>6, <2>1 DEF JInv, Clean, Idle, Expected
  <2>5. QED BY <2>2, <2>3, <2>4
<1>7. ASSUME queue # << >>, service' = "serve", deaf' = TRUE, UNCHANGED queue
      PROVE  Closed' /\ Progress' /\ Clean'
  <2>1. ToSet(queue) # {} BY <1>7, HeadFacts DEF IInv
  <2>2. Closed' BY <1>5, <1>7 DEF JInv, Closed
  <2>3. Progress' BY <1>1, <1>7 DEF JInv, Progress, Idle
  <2>4. Clean' BY <1>1, <1>3, <1>7, <2>1 DEF JInv, Clean
  <2>5. QED BY <2>2, <2>3, <2>4
<1>8. ASSUME queue # << >>, queue' = Append(queue, n), service' = "lost", UNCHANGED deaf
      PROVE  Closed' /\ Progress' /\ Clean'
  <2>1. ToSet(queue) # {} BY <1>8, HeadFacts DEF IInv
  <2>2. ToSet(queue') = ToSet(queue) \cup {n} BY <1>2, <1>3, <1>4, <1>8, AppendFacts
  <2>3. Closed' BY <1>5, <1>8, <2>2 DEF JInv, Closed
  <2>4. Progress' BY <1>1, <1>8 DEF JInv, Progress, Idle
  <2>5. Clean' BY <1>1, <1>3, <1>8, <2>1 DEF JInv, Clean
  <2>6. QED BY <2>3, <2>4, <2>5
<1>9. QED BY <1>6, <1>7, <1>8, VerdictsFrame DEF JInv

\* A service that dies is seen by the bus.
LEMMA NameLostFurther == IInv /\ JInv /\ NameLost => JInv'
<1> SUFFICES ASSUME IInv, JInv, NameLost PROVE JInv' OBVIOUS
<1> USE DEF NameLost, callVars, testVars
<1>1. ~Idle BY DEF IInv, Running
<1>2. Closed' BY DEF JInv, Closed
<1>3. Progress' BY DEF JInv, Progress, Idle
<1>4. Clean' BY <1>1 DEF JInv, Clean, Idle
<1>5. QED BY <1>2, <1>3, <1>4, VerdictsFrame DEF JInv

\* The service's answer is the one that is expected.
LEMMA ServeFurther == IInv /\ JInv /\ Serve => JInv'
<1> SUFFICES ASSUME IInv, JInv, Serve PROVE JInv' OBVIOUS
<1> USE DEF Serve, busVars, testVars
<1>1. ~Idle BY DEF Idle
<1>2. Closed' BY DEF JInv, Closed
<1>3. Progress' BY <1>1 DEF JInv, Progress, Idle
<1>4. Clean' BY <1>1 DEF JInv, Clean, Idle, Expected
<1>5. QED BY <1>2, <1>3, <1>4, VerdictsFrame DEF JInv

\* tearDown() comes after the answer.
LEMMA ReleaseFurther == IInv /\ JInv /\ Release => JInv'
<1> SUFFICES ASSUME IInv, JInv, Release PROVE JInv' OBVIOUS
<1> USE DEF Release, callVars, testVars
<1>1. ~Idle BY DEF IInv, Running
<1>2. ToSet(queue') \subseteq ToSet(queue) /\ n \notin ToSet(queue')
  BY LeavesFacts DEF IInv, Queued
<1>3. sender \notin {"wait", "resolve", "call"} BY DEF JInv, Progress
<1>4. Closed' BY <1>2 DEF JInv, Closed
<1>5. Progress' BY <1>1 DEF JInv, Progress, Idle
<1>6. Clean' BY <1>1, <1>2, <1>3 DEF JInv, Clean, Idle, Expected
<1>7. QED BY <1>4, <1>5, <1>6, VerdictsFrame DEF JInv

\* The name that the sender of a clean bus sees is that of its own service.
LEMMA NameAppearsFurther == IInv /\ JInv /\ NameAppears => JInv'
<1> SUFFICES ASSUME IInv, JInv, NameAppears PROVE JInv' OBVIOUS
<1> USE DEF NameAppears, callVars, testVars, busVars
<1>1. ~Idle BY DEF Idle
<1>2. ToSet(queue) # {} BY HeadFacts DEF IInv
<1>3. Closed' BY DEF JInv, Closed
<1>4. Progress' BY <1>1 DEF JInv, Progress, Idle
<1>5. Clean' BY <1>1, <1>2 DEF JInv, Progress, Clean, Idle, Expected
<1>6. QED BY <1>3, <1>4, <1>5, VerdictsFrame DEF JInv

\* The look-up of a clean bus finds the test's own service.
LEMMA ResolveFurther == IInv /\ JInv /\ Resolve => JInv'
<1> SUFFICES ASSUME IInv, JInv, Resolve PROVE JInv' OBVIOUS
<1> USE DEF Resolve, testVars, busVars
<1>1. ~Idle BY DEF Idle
<1>2. queue # << >> => Head(queue) \in ToSet(queue) BY HeadFacts DEF IInv
<1>3. Closed' BY DEF JInv, Closed
<1>4. Progress' BY <1>1 DEF JInv, Progress, Idle
<1>5. Clean'
  <2>1. ASSUME ~stale PROVE queue # << >> /\ Head(queue) = n
    BY <1>1, <1>2, <2>1, ShortFacts DEF JInv, Progress, Clean
  <2>2. QED BY <1>1, <2>1 DEF JInv, Progress, Clean, Idle, Expected
<1>6. QED BY <1>3, <1>4, <1>5, VerdictsFrame DEF JInv

\* A call goes to a connection that will answer or is closed, or is refused at once.
LEMMA CallFurther == IInv /\ JInv /\ Call => JInv'
<1> SUFFICES ASSUME IInv, JInv, Call PROVE JInv' OBVIOUS
<1> USE DEF Call, testVars, busVars
<1>1. ~Idle BY DEF Idle
<1>2. n \in Ids /\ Nobody # n /\ Nobody \notin Ids
  BY <1>1, Present, SuccessionAssumption DEF Ids, Nobody
<1>3. queue # << >> => Head(queue) \in ToSet(queue) BY HeadFacts DEF IInv
<1>4. closing \subseteq Ids BY DEF IInv, TypeOK
<1>5. answer = "none" /\ service \notin {"release", "done"} BY DEF JInv, Progress
<1>6. NoDestination \in {"SERVICE_UNKNOWN", "NAME_HAS_NO_OWNER"}
      /\ (test.kind = "unknown" => NoDestination \in Expected)
  BY DEF NoDestination, Expected
<1>7. Closed' BY DEF JInv, Closed
<1>8. CASE dest # Nobody
  <2> USE <1>8 DEF RouteToUniqueId, callVars
  <2>1. Progress' BY <1>1, <1>2, <1>4, <1>5, <1>6 DEF JInv, Progress, Idle
  <2>2. Clean'
    <3>1. ASSUME ~stale, test.kind # "unknown" PROVE UNCHANGED callVars
      BY <1>1, <3>1 DEF JInv, Clean
    <3>2. CASE test.kind # "unknown" BY <1>1, <3>1, <3>2 DEF JInv, Clean, Idle, Expected
    <3>3. CASE test.kind = "unknown"
      <4>1. answer' = NoDestination BY <1>2, <1>4, <3>3 DEF JInv, Progress
      <4>2. NoDestination # "none" BY <1>6
      <4>3. answer' \in Expected' BY <1>6, <3>3, <4>1 DEF Expected
      <4>4. QED BY <1>1, <3>3, <4>1, <4>2, <4>3 DEF JInv, Clean, Idle
    <3>4. QED BY <3>2, <3>3
  <2>3. QED BY <1>7, <2>1, <2>2, VerdictsFrame DEF JInv
<1>9. CASE dest = Nobody
  <2> USE <1>9 DEF Route
  <2>1. Progress'
    <3>1. ASSUME queue # << >> PROVE Head(queue) \in closing \/ (Head(queue) = n /\ service # "dead")
      BY <1>3, <3>1 DEF JInv, Closed
    <3>2. QED BY <1>1, <1>2, <1>5, <1>6, <3>1 DEF JInv, Progress, Idle
  <2>2. Clean'
    <3>1. ASSUME ~stale, test.kind # "unknown" PROVE UNCHANGED << answer, by >>
      BY <1>1, <3>1, ShortFacts DEF JInv, Clean
    <3>2. CASE test.kind # "unknown"
      <4>1. ASSUME ~stale PROVE queue # << >> /\ Head(queue) = n
        BY <1>1, <1>3, <3>2, <4>1, ShortFacts DEF JInv, Clean
      <4>2. QED BY <1>1, <3>1, <3>2, <4>1 DEF JInv, Clean, Idle, Expected
    <3>3. CASE test.kind = "unknown"
      BY <1>1, <1>6, <3>3 DEF JInv, Clean, Idle, Expected
    <3>4. QED BY <3>2, <3>3
  <2>3. QED BY <1>7, <2>1, <2>2, VerdictsFrame DEF JInv
<1>10. QED BY <1>8, <1>9

\* On a clean bus, the answer is the one that is expected.
LEMMA HandleReplyFurther == IInv /\ JInv /\ HandleReply => JInv'
<1> SUFFICES ASSUME IInv, JInv, HandleReply PROVE JInv' OBVIOUS
<1> USE DEF HandleReply, callVars, testVars, busVars
<1>1. ~Idle BY DEF Idle
<1>2. Closed' BY DEF JInv, Closed
<1>3. Progress' BY <1>1 DEF JInv, Progress, Idle
<1>4. Clean' BY <1>1 DEF JInv, Clean, Idle, Expected
<1>5. QED BY <1>2, <1>3, <1>4, VerdictsFrame DEF JInv

\* The bus answers the calls of a connection it sees closed; on a clean bus that is
\* not the service's.
LEMMA BusSeesFurther == \A c \in Ids : IInv /\ JInv /\ BusSees(c) => JInv'
<1> SUFFICES ASSUME NEW c \in Ids, IInv, JInv, BusSees(c) PROVE JInv' OBVIOUS
<1> USE DEF BusSees, testVars
<1>1. /\ ToSet(queue') \subseteq ToSet(queue) /\ c \notin ToSet(queue')
      /\ ToSet(queue) \subseteq ToSet(queue') \cup {c}
  BY LeavesFacts DEF IInv, Queued
<1>2. c < n \/ (c = n /\ service = "dead") BY DEF JInv, Closed
<1>3. n \in Nat /\ c \in Nat BY SuccessionAssumption DEF IInv, TypeOK, Ids
<1>4. Closed' BY <1>1 DEF JInv, Closed
<1>5. Progress'
  <2>1. service = "serve" => c # n BY <1>2, <1>3
  <2>2. answer' = answer \/ (answer = "none" /\ answer' = "NO_REPLY" /\ sender = "await")
    OBVIOUS
  <2>3. sender = "await" /\ answer' = "none" =>
          dest \in closing' \/ (dest = n /\ service # "dead")
    BY DEF JInv, Progress
  <2>4. QED BY <1>1, <2>1, <2>2, <2>3 DEF JInv, Progress, Idle
<1>6. Clean'
  <2> SUFFICES ASSUME ~Idle, ~stale PROVE Clean' BY DEF Clean, Idle
  <2>1. c # n BY <1>2, <1>3 DEF JInv, Clean
  <2>2. UNCHANGED << answer, by >>
    <3> SUFFICES ASSUME dest = c, sender = "await", answer = "none" PROVE FALSE OBVIOUS
    <3>1. QED BY <2>1 DEF JInv, Clean
  <2>3. QED BY <1>1, <2>1, <2>2 DEF JInv, Clean, Idle, Expected
<1>7. QED BY <1>4, <1>5, <1>6, VerdictsFrame DEF JInv

\* The second invariant holds before the first test.
LEMMA InitiallyFurther == Init => JInv
<1> SUFFICES ASSUME Init PROVE JInv OBVIOUS
<1> USE DEF Init
<1>1. Closed BY ShortFacts DEF Closed
<1>2. Progress BY DEF Progress, Idle
<1>3. Clean BY DEF Clean, Idle
<1>4. TimeoutMeansDeaf /\ CleanBusPasses BY DEF TimeoutMeansDeaf, CleanBusPasses
<1>5. QED BY <1>1, <1>2, <1>3, <1>4 DEF JInv

\* Every step keeps the second invariant.
LEMMA InductiveFurther == IInv /\ JInv /\ [Next]_vars => JInv'
<1> SUFFICES ASSUME IInv, JInv, [Next]_vars PROVE JInv' OBVIOUS
<1>1. CASE StartTest BY <1>1, StartTestFurther
<1>2. CASE Pass BY <1>2, JudgeFurther DEF Pass
<1>3. CASE Fail BY <1>3, JudgeFurther DEF Fail
<1>4. CASE TimeOut BY <1>4, JudgeFurther DEF TimeOut
<1>5. CASE Step
  BY <1>5, RequestNameFurther, NameLostFurther, ServeFurther, ReleaseFurther,
     NameAppearsFurther, ResolveFurther, CallFurther, HandleReplyFurther, BusSeesFurther
     DEF Step
<1>6. CASE UNCHANGED vars
  <2> USE <1>6 DEF vars, testVars, callVars, busVars
  <2>1. Closed' BY DEF JInv, Closed
  <2>2. Progress' BY DEF JInv, Progress, Idle
  <2>3. Clean' BY DEF JInv, Clean, Idle, Expected
  <2>4. QED BY <2>1, <2>2, <2>3, VerdictsFrame DEF JInv
<1>7. QED BY <1>1, <1>2, <1>3, <1>4, <1>5, <1>6 DEF Next

\* The second invariant holds in every state of every succession of tests.
LEMMA Further == Spec => []JInv
BY Invariant, InitiallyFurther, InductiveFurther, PTL DEF Spec

\* However many tests are run, in whatever order: one that hangs until its deadline
\* has a libdbus service that took the answer EXISTS for a success.
THEOREM TimeoutsDeaf == Spec => []TimeoutMeansDeaf
<1>1. JInv => TimeoutMeansDeaf BY DEF JInv
<1>2. QED BY <1>1, Further, PTL

\* A test that finds nobody with the name passes: services of earlier tests that are
\* closed but own nothing do not disturb it.
THEOREM CleanPasses == Spec => []CleanBusPasses
<1>1. JInv => CleanBusPasses BY DEF JInv
<1>2. QED BY <1>1, Further, PTL
=============================================================================
