----------------------------- MODULE SuiteProofs -----------------------------
(* Theorems about Suite, for any catalogue, any processes per test and any *)
(* arguments.                                                              *)
EXTENDS Suite, FiniteSetTheorems, SequenceTheorems, TLAPS

\* The tests that come before the i-th test of group g.
Before(g, i) == {t \in Tests : t[1] < g \/ (t[1] = g /\ t[2] < i)}

\* The number a test has because of its place in the catalogue.
Number(g, i) == Cardinality(Before(g, i)) + 1
NameAt(t)    == NameOf(Catalogue[t[1]].prefix, Number(t[1], t[2]))

\* The test that is next in its group.
At == IF pc \in {"announce", "done"} THEN 1 ELSE test

Lines == [name : [group : {Catalogue[g].prefix : g \in Groups} \cup {<< >>}, number : Nat],
          test : Nat \X Nat,
          what : Verdicts \cup {"listed", "strerror"}]

ListedLine(t) == [name |-> NameAt(t), test |-> t, what |-> "listed"]

Shape ==
  /\ getNameOnly \in BOOLEAN
  /\ pc \in {"announce", "test", "running", "done", "aborted"}
  /\ group \in 1..(Len(Catalogue) + 1) /\ test \in Nat /\ cnt \in Nat
  /\ pc \in {"test", "running"} =>
       group \in Groups /\ test \in 1..(Catalogue[group].tests + 1)
  /\ pc = "running" => test <= Catalogue[group].tests /\ Wanted(Name) /\ ~getNameOnly
  /\ pc = "done" => group = Len(Catalogue) + 1
  /\ pc = "aborted" => ~getNameOnly
  /\ buf \in Seq(Lines) /\ out \in Seq(Lines)
  /\ listed \in Seq(Lines) /\ results \in Seq(Lines)
  /\ copy \in [Children -> Seq(Lines)]
  /\ alive \subseteq Children

\* cnt is the number of the test that is next.
Numbers ==
  pc # "aborted" => IsFiniteSet(Before(group, At)) /\ cnt = Number(group, At)

\* The processes of a test inherit an empty buffer.
Buffers ==
  /\ getNameOnly => results = << >> /\ alive = {}
  /\ pc = "running" => buf = << >>
  /\ ~getNameOnly => Len(buf) <= 1
  /\ \A c \in alive : copy[c] = << >>

\* The listing describes the tests that were passed, each under its own number.
Listings ==
  /\ getNameOnly => testsToRun = {}
  /\ getNameOnly => ToSet(out \o buf) = {ListedLine(t) : t \in Before(group, At)}
  /\ getNameOnly /\ pc = "done" => buf = << >>
  /\ ~getNameOnly => ToSet(listed) = {ListedLine(t) : t \in Tests}

\* The results are those of the tests that were passed and asked for.
Runs ==
  ~getNameOnly /\ pc # "aborted" =>
    {<< r.name, r.test >> : r \in ToSet(results)}
      = {<< NameAt(t), t >> : t \in {u \in Before(group, At) : Wanted(NameAt(u))}}

IInv ==
  /\ Shape /\ Numbers /\ Buffers /\ Listings /\ Runs
  /\ EachResultOnce /\ AtMostOneUnwritten

-----------------------------------------------------------------------------
(* The order of the tests.                                                 *)

\* No test comes before the first group.
LEMMA BeforeFirst == Before(1, 1) = {}
  BY SuiteAssumption DEF Before, Tests, Groups

\* One test more.
LEMMA BeforeNext ==
  ASSUME NEW g \in Groups, NEW i \in 1..Catalogue[g].tests
  PROVE  /\ << g, i >> \in Tests
         /\ << g, i >> \notin Before(g, i)
         /\ Before(g, i + 1) = Before(g, i) \cup {<< g, i >>}
<1>1. i \in Nat /\ g \in Nat /\ Catalogue[g].tests \in Nat
  BY SuiteAssumption DEF Groups
<1>2. << g, i >> \in Tests
  BY <1>1 DEF Tests
<1>3. << g, i >> \notin Before(g, i)
  BY <1>1 DEF Before
<1>4. ASSUME NEW t \in Tests
      PROVE  t \in Before(g, i + 1) <=> t \in Before(g, i) \/ t = << g, i >>
  <2>1. t[1] \in Nat /\ t[2] \in Nat /\ t = << t[1], t[2] >>
    BY SuiteAssumption DEF Tests, Groups
  <2>. QED
    BY <1>1, <2>1 DEF Before
<1>. QED
  BY <1>2, <1>3, <1>4 DEF Before

\* The last test of a group comes before the next group.
LEMMA BeforeGroup ==
  ASSUME NEW g \in Groups
  PROVE  Before(g + 1, 1) = Before(g, Catalogue[g].tests + 1)
<1>1. g \in Nat /\ Catalogue[g].tests \in Nat
  BY SuiteAssumption DEF Groups
<1>2. ASSUME NEW t \in Tests
      PROVE  t \in Before(g + 1, 1) <=> t \in Before(g, Catalogue[g].tests + 1)
  <2>1. t[1] \in Nat /\ t[2] \in 1..Catalogue[t[1]].tests
    BY SuiteAssumption DEF Tests, Groups
  <2>2. CASE t[1] = g
    BY <1>1, <2>1, <2>2 DEF Before
  <2>3. CASE t[1] # g
    BY <1>1, <2>1, <2>3 DEF Before
  <2>. QED BY <2>2, <2>3
<1>. QED
  BY <1>2 DEF Before

\* Every test comes before the end.
LEMMA BeforeEnd == Before(Len(Catalogue) + 1, 1) = Tests
  BY SuiteAssumption DEF Before, Tests, Groups

\* A number more for one test more.
LEMMA NumberNext ==
  ASSUME NEW g \in Groups, NEW i \in 1..Catalogue[g].tests, IsFiniteSet(Before(g, i))
  PROVE  IsFiniteSet(Before(g, i + 1)) /\ Number(g, i + 1) = Number(g, i) + 1
<1>1. /\ << g, i >> \notin Before(g, i)
      /\ Before(g, i + 1) = Before(g, i) \cup {<< g, i >>}
  BY BeforeNext
<1>2. Cardinality(Before(g, i)) \in Nat
  BY FS_CardinalityType
<1>3. /\ IsFiniteSet(Before(g, i + 1))
      /\ Cardinality(Before(g, i + 1)) = Cardinality(Before(g, i)) + 1
  BY <1>1, FS_AddElement
<1>. QED
  BY <1>2, <1>3 DEF Number

\* What Append adds.
LEMMA ToSetAppend ==
  ASSUME NEW S, NEW s \in Seq(S), NEW e \in S
  PROVE  ToSet(Append(s, e)) = ToSet(s) \cup {e}
<1>1. Len(s) \in Nat /\ DOMAIN s = 1..Len(s)
  BY LenProperties
<1>2. /\ Append(s, e) \in Seq(S)
      /\ Len(Append(s, e)) = Len(s) + 1
      /\ \A i \in 1..Len(s) : Append(s, e)[i] = s[i]
      /\ Append(s, e)[Len(s) + 1] = e
  BY AppendProperties
<1>3. DOMAIN Append(s, e) = 1..Len(s) + 1
  BY <1>2, LenProperties
<1>. QED
  BY <1>1, <1>2, <1>3 DEF ToSet

\* Output that goes on grows at its end.
LEMMA AppendConcat ==
  ASSUME NEW S, NEW s \in Seq(S), NEW t \in Seq(S), NEW e \in S
  PROVE  s \o Append(t, e) = Append(s \o t, e)
<1>1. Append(t, e) = t \o << e >> /\ << e >> \in Seq(S)
  BY AppendIsConcat
<1>2. s \o t \in Seq(S)
  BY ConcatProperties
<1>3. Append(s \o t, e) = (s \o t) \o << e >>
  BY <1>2, AppendIsConcat
<1>. QED
  BY <1>1, <1>3, ConcatAssociative

-----------------------------------------------------------------------------
(* The names.                                                              *)

\* The type of a line about the test that is next.
LEMMA LineType ==
  ASSUME group \in Groups, test \in Nat, cnt \in Nat,
         NEW what \in Verdicts \cup {"listed"}
  PROVE  Line(what) \in Lines
  BY SuiteAssumption DEF Line, Lines, Name, NameOf, Groups

\* The name printed is the one that goes with the place of the test.
LEMMA NamePlace ==
  ASSUME Shape, Numbers, pc \in {"test", "running"}
  PROVE  Name = NameAt(<< group, test >>)
  BY DEF Numbers, At, Name, NameAt

\* One test is passed: Skip, Describe or FinishTest.
LEMMA StepTest ==
  ASSUME Shape, Numbers, pc \in {"test", "running"}, pc' = "test",
         test <= Catalogue[group].tests,
         group' = group, test' = test + 1, cnt' = cnt + 1
  PROVE  /\ Before(group, At)' = Before(group, At) \cup {<< group, test >>}
         /\ Numbers'
         /\ test' \in 1..(Catalogue[group'].tests + 1) /\ test' \in Nat /\ cnt' \in Nat
<1>1. /\ group \in Groups /\ test \in 1..Catalogue[group].tests /\ test \in Nat
      /\ At = test /\ At' = test + 1 /\ cnt \in Nat
      /\ Catalogue[group].tests \in Nat
  BY SuiteAssumption DEF Shape, At, Groups
<1>2. IsFiniteSet(Before(group, test)) /\ cnt = Number(group, test)
  BY <1>1 DEF Numbers
<1>3. IsFiniteSet(Before(group, test + 1)) /\ Number(group, test + 1) = cnt + 1
  BY <1>1, <1>2, NumberNext
<1>4. Before(group, At)' = Before(group, test + 1)
  BY <1>1 DEF Before
<1>5. Number(group, At)' = Number(group, test + 1)
  BY <1>4 DEF Number
<1>6. Before(group, At) = Before(group, test)
  BY <1>1
<1>7. Numbers'
  BY <1>3, <1>4, <1>5 DEF Numbers
<1>8. Before(group, test + 1) = Before(group, test) \cup {<< group, test >>}
  BY <1>1, BeforeNext
<1>9. Before(group, At)' = Before(group, At) \cup {<< group, test >>}
  BY <1>4, <1>6, <1>8
<1>10. test' \in 1..(Catalogue[group'].tests + 1) /\ test' \in Nat /\ cnt' \in Nat
  BY <1>1
<1>. QED
  BY <1>7, <1>9, <1>10

\* The place does not change: Announce, StartTest, NextGroup and PrintSummary.
LEMMA SamePlace ==
  ASSUME Numbers, pc # "aborted", cnt' = cnt,
         Before(group, At)' = Before(group, At)
  PROVE  Numbers'
  BY DEF Numbers, Number

-----------------------------------------------------------------------------
(* The invariant.                                                          *)

\* The first state.
LEMMA InitHolds == Init => IInv
<1>. SUFFICES ASSUME Init PROVE IInv
  OBVIOUS
<1>1. Before(group, At) = {} /\ << >> \o << >> = << >> /\ ToSet(<< >>) = {}
  BY BeforeFirst DEF Init, At, ToSet
<1>2. Shape
  BY SuiteAssumption DEF Init, Shape
<1>3. Numbers
  BY <1>1, FS_EmptySet DEF Init, Numbers, Number
<1>4. Listings
  BY <1>1 DEF Init, Listings
<1>. QED
  BY <1>1, <1>2, <1>3, <1>4
  DEF Init, IInv, Buffers, Runs, EachResultOnce, AtMostOneUnwritten

\* Flushing moves the buffer to the output.
LEMMA FlushFacts ==
  ASSUME Shape, Flush
  PROVE  /\ out' \in Seq(Lines) /\ buf' \in Seq(Lines) /\ buf' = << >>
         /\ out' \o buf' = out \o buf
         /\ Len(out) \in Nat /\ Len(out') \in Nat /\ Len(out) <= Len(out')
         /\ Len(buf') = 0
<1>1. buf \in Seq(Lines) /\ out \in Seq(Lines) /\ out' = out \o buf /\ buf' = << >>
  BY DEF Shape, Flush
<1>2. out' \in Seq(Lines) /\ Len(out') = Len(out) + Len(buf)
  BY <1>1, ConcatProperties
<1>3. out' \o << >> = out'
  BY <1>2, ConcatEmptySeq
<1>4. Len(out) \in Nat /\ Len(buf) \in Nat
  BY <1>1, LenProperties
<1>5. buf' \in Seq(Lines) /\ Len(buf') = 0
  BY <1>1
<1>. QED
  BY <1>1, <1>2, <1>3, <1>4, <1>5

\* ANNOUNCE keeps the place, and whatever it flushes stays in the output.
LEMMA AnnounceKeeps == IInv /\ Announce => IInv'
<1>. SUFFICES ASSUME IInv, Announce PROVE IInv'
  OBVIOUS
<1>. USE DEF IInv, Announce, testVars, childVars, historyVars
<1>1. /\ out' \in Seq(Lines) /\ buf' \in Seq(Lines)
      /\ out' \o buf' = out \o buf
      /\ Len(out) \in Nat /\ Len(out') \in Nat /\ Len(out) <= Len(out')
      /\ buf' = buf \/ buf' = << >>
  <2>1. CASE Flush
    BY <2>1, FlushFacts
  <2>2. CASE UNCHANGED << buf, out >>
    BY <2>2, LenProperties DEF Shape
  <2>. QED BY <2>1, <2>2
<1>2. Shape'
  BY <1>1, SuiteAssumption DEF Shape, Groups
<1>3. Before(group, At)' = Before(group, At)
  BY DEF At, Before
<1>4. Numbers'
  BY <1>3, SamePlace
<1>5. Buffers'
  BY <1>1 DEF Buffers
<1>6. Listings'
  BY <1>1, <1>3 DEF Listings, ListedLine, NameAt, Number
<1>7. Runs'
  BY <1>3 DEF Runs, NameAt, Number, Wanted
<1>8. EachResultOnce'
  BY <1>1 DEF EachResultOnce
<1>9. AtMostOneUnwritten'
  <2>1. Len(results) \in Nat
    BY LenProperties DEF Shape
  <2>. QED
    BY <2>1, <1>1 DEF AtMostOneUnwritten
<1>. QED
  BY <1>2, <1>4, <1>5, <1>6, <1>7, <1>8, <1>9

\* A test that is not asked for has no result.
LEMMA SkipKeeps == IInv /\ Skip => IInv'
<1>. SUFFICES ASSUME IInv, Skip PROVE IInv'
  OBVIOUS
<1>. USE DEF IInv, Skip, testVars, childVars, historyVars
<1>1. ~getNameOnly
  BY DEF Listings, Wanted
<1>2. /\ Before(group, At)' = Before(group, At) \cup {<< group, test >>}
      /\ Numbers'
      /\ test' \in 1..(Catalogue[group'].tests + 1) /\ test' \in Nat /\ cnt' \in Nat
  BY StepTest
<1>3. Name = NameAt(<< group, test >>)
  BY NamePlace
<1>4. Shape'
  BY <1>1, <1>2 DEF Shape
<1>5. Buffers'
  BY DEF Buffers
<1>6. Listings'
  BY <1>1 DEF Listings, ListedLine, NameAt, Number
<1>7. Runs'
  <2>1. {u \in Before(group, At)' : Wanted(NameAt(u))}
          = {u \in Before(group, At) : Wanted(NameAt(u))}
    BY <1>2, <1>3
  <2>2. \A n : Wanted(n)' <=> Wanted(n)
    BY DEF Wanted
  <2>. QED
    BY <1>1, <2>1, <2>2 DEF Runs
<1>8. EachResultOnce' /\ AtMostOneUnwritten'
  BY DEF EachResultOnce, AtMostOneUnwritten
<1>. QED
  BY <1>2, <1>4, <1>5, <1>6, <1>7, <1>8

\* A listing describes the test that is next.
LEMMA DescribeKeeps == IInv /\ Describe => IInv'
<1>. SUFFICES ASSUME IInv, Describe PROVE IInv'
  OBVIOUS
<1>. USE DEF IInv, Describe, testVars, childVars, historyVars
<1>1. /\ Before(group, At)' = Before(group, At) \cup {<< group, test >>}
      /\ Numbers'
      /\ test' \in 1..(Catalogue[group'].tests + 1) /\ test' \in Nat /\ cnt' \in Nat
  BY StepTest
<1>2. Line("listed") = ListedLine(<< group, test >>)
  BY NamePlace DEF Line, ListedLine
<1>3. Line("listed") \in Lines /\ buf \in Seq(Lines) /\ out \in Seq(Lines)
  BY LineType DEF Shape
<1>4. /\ buf' \in Seq(Lines)
      /\ out \o buf \in Seq(Lines)
      /\ out' \o buf' = Append(out \o buf, Line("listed"))
  BY <1>3, AppendProperties, ConcatProperties, AppendConcat
<1>5. Shape'
  BY <1>1, <1>4 DEF Shape
<1>6. Buffers'
  BY DEF Buffers
<1>7. Listings'
  <2>1. ASSUME NEW s \in Seq(Lines), NEW e \in Lines
        PROVE  ToSet(Append(s, e)) = ToSet(s) \cup {e}
    BY ToSetAppend
  <2>2. ToSet(out' \o buf') = ToSet(out \o buf) \cup {Line("listed")}
    <3>. HIDE DEF IInv, Describe, testVars, childVars, historyVars
    <3>. QED
      BY <1>3, <1>4, <2>1
  <2>3. ToSet(out \o buf) = {ListedLine(t) : t \in Before(group, At)}
    BY DEF Listings
  <2>4. {ListedLine(t) : t \in Before(group, At)'}
          = {ListedLine(t) : t \in Before(group, At)} \cup {Line("listed")}
    <3>. HIDE DEF IInv, Describe, testVars, childVars, historyVars
    <3>. QED
      BY <1>1, <1>2
  <2>5. ToSet(out' \o buf') = {ListedLine(t) : t \in Before(group, At)'}
    BY <2>2, <2>3, <2>4
  <2>. QED
    BY <2>5 DEF Listings, ListedLine, NameAt, Number
<1>8. Runs' /\ EachResultOnce' /\ AtMostOneUnwritten'
  BY DEF Runs, EachResultOnce, AtMostOneUnwritten
<1>. QED
  BY <1>1, <1>5, <1>6, <1>7, <1>8

\* The buffer is flushed before it is inherited.
LEMMA StartTestKeeps == IInv /\ StartTest => IInv'
<1>. SUFFICES ASSUME IInv, StartTest PROVE IInv'
  OBVIOUS
<1>. USE DEF IInv, StartTest, testVars, historyVars
<1>1. /\ out' \in Seq(Lines) /\ buf' \in Seq(Lines) /\ buf' = << >>
      /\ out' \o buf' = out \o buf
      /\ Len(out) \in Nat /\ Len(out') \in Nat /\ Len(out) <= Len(out')
      /\ Len(buf') = 0
  BY FlushFacts
<1>2. Before(group, At)' = Before(group, At)
  BY DEF At, Before
<1>3. Numbers'
  BY <1>2, SamePlace
<1>4. Shape'
  BY <1>1, SuiteAssumption DEF Shape, Groups, Wanted, Name, NameOf
<1>5. Buffers'
  BY <1>1 DEF Buffers
<1>6. Listings'
  BY DEF Listings, ListedLine, NameAt, Number
<1>7. Runs'
  BY <1>2 DEF Runs, Wanted
<1>8. EachResultOnce'
  BY <1>1 DEF EachResultOnce
<1>9. AtMostOneUnwritten'
  <2>1. Len(results) \in Nat
    BY LenProperties DEF Shape
  <2>. QED
    BY <2>1, <1>1 DEF AtMostOneUnwritten
<1>. QED
  BY <1>3, <1>4, <1>5, <1>6, <1>7, <1>8, <1>9

\* A child writes nothing of the harness's output.
LEMMA ChildEndsKeeps ==
  ASSUME NEW c \in Children, IInv, ChildEnds(c)
  PROVE  IInv'
<1>. USE DEF IInv, ChildEnds, testVars, historyVars
<1>1. copy[c] = << >> /\ out \in Seq(Lines)
  BY DEF Buffers, Shape
<1>2. UNCHANGED out
  BY <1>1, ConcatEmptySeq
<1>3. Before(group, At)' = Before(group, At)
  BY DEF At, Before
<1>4. Shape'
  BY <1>2 DEF Shape, Wanted, Name, NameOf
<1>5. Numbers'
  BY <1>3 DEF Numbers, Number
<1>6. Buffers'
  BY DEF Buffers
<1>7. Listings'
  BY <1>2 DEF Listings, ListedLine, NameAt, Number, Buffers
<1>8. Runs'
  BY <1>3 DEF Runs, Wanted
<1>9. EachResultOnce' /\ AtMostOneUnwritten'
  BY <1>2 DEF EachResultOnce, AtMostOneUnwritten
<1>. QED
  BY <1>4, <1>5, <1>6, <1>7, <1>8, <1>9

\* The result of the test that has been run.
LEMMA FinishTestKeeps ==
  ASSUME NEW verdict \in Verdicts, IInv, FinishTest(verdict)
  PROVE  IInv'
<1>. DEFINE line == Line(verdict)
<1>. USE DEF IInv, FinishTest, testVars, childVars, historyVars
<1>1. /\ Before(group, At)' = Before(group, At) \cup {<< group, test >>}
      /\ Numbers'
      /\ test' \in 1..(Catalogue[group'].tests + 1) /\ test' \in Nat /\ cnt' \in Nat
  BY StepTest DEF Shape
<1>2. Name = NameAt(<< group, test >>)
  BY NamePlace
<1>3. /\ ~getNameOnly /\ Wanted(Name) /\ group \in Groups
      /\ line \in Lines /\ buf \in Seq(Lines) /\ out \in Seq(Lines)
      /\ results \in Seq(Lines) /\ buf = << >>
  BY LineType DEF Shape, Buffers
<1>4. out \o buf = results /\ out = results
  BY <1>3, ConcatEmptySeq DEF EachResultOnce
<1>5. /\ buf' \in Seq(Lines) /\ results' \in Seq(Lines)
      /\ Len(buf') = 1 /\ Len(results') = Len(out) + 1
      /\ out \o buf' = results'
  BY <1>3, <1>4, AppendProperties, AppendConcat, EmptySeq
<1>6. Shape'
  BY <1>1, <1>3, <1>5 DEF Shape
<1>7. Buffers'
  BY <1>3, <1>5 DEF Buffers
<1>8. Listings'
  BY <1>3 DEF Listings, ListedLine, NameAt, Number
<1>9. Runs'
  <2>. DEFINE pair(t) == << NameAt(t), t >>
  <2>1. ToSet(results') = ToSet(results) \cup {line}
    BY <1>3, ToSetAppend
  <2>2. << line.name, line.test >> = pair(<< group, test >>)
    BY <1>2 DEF Line
  <2>3. {u \in Before(group, At)' : Wanted(NameAt(u))}
          = {u \in Before(group, At) : Wanted(NameAt(u))} \cup {<< group, test >>}
    BY <1>1, <1>2, <1>3
  <2>4. {<< r.name, r.test >> : r \in ToSet(results)}
          = {pair(t) : t \in {u \in Before(group, At) : Wanted(NameAt(u))}}
    BY <1>3 DEF Runs
  <2>5. {<< r.name, r.test >> : r \in ToSet(results')}
          = {pair(t) : t \in {u \in Before(group, At)' : Wanted(NameAt(u))}}
    <3>. HIDE DEF pair, line, IInv, FinishTest, testVars, childVars, historyVars
    <3>1. {<< r.name, r.test >> : r \in ToSet(results')}
            = {<< r.name, r.test >> : r \in ToSet(results)} \cup {<< line.name, line.test >>}
      BY <2>1
    <3>2. {pair(t) : t \in {u \in Before(group, At)' : Wanted(NameAt(u))}}
            = {pair(t) : t \in {u \in Before(group, At) : Wanted(NameAt(u))}}
                \cup {pair(<< group, test >>)}
      BY <2>3
    <3>. QED
      BY <3>1, <3>2, <2>2, <2>4
  <2>6. \A n : Wanted(n)' <=> Wanted(n)
    BY DEF Wanted
  <2>. QED
    BY <2>5, <2>6 DEF Runs
<1>10. EachResultOnce' /\ AtMostOneUnwritten'
  <2>1. Len(out) \in Nat
    BY <1>3, LenProperties
  <2>. QED
    BY <1>5, <2>1 DEF EachResultOnce, AtMostOneUnwritten
<1>. QED
  BY <1>1, <1>6, <1>7, <1>8, <1>9, <1>10

\* Nothing is left in the buffer of a harness that aborts.
LEMMA RunAbortsKeeps == IInv /\ RunAborts => IInv'
<1>. SUFFICES ASSUME IInv, RunAborts PROVE IInv'
  OBVIOUS
<1>. USE DEF IInv, RunAborts, testVars, childVars, historyVars
<1>1. Strerror \in Lines
  BY DEF Strerror, Lines, NameOf
<1>2. /\ ~getNameOnly /\ buf = << >>
      /\ buf \in Seq(Lines) /\ out \in Seq(Lines) /\ results \in Seq(Lines)
  BY DEF Shape, Buffers
<1>3. out \o buf = out /\ out = results
  BY <1>2, ConcatEmptySeq DEF EachResultOnce
<1>4. out' \in Seq(Lines) /\ Len(out') = Len(out) + 1 /\ Len(out) \in Nat
  BY <1>1, <1>2, <1>3, AppendProperties, LenProperties
<1>5. Shape'
  BY <1>2, <1>4 DEF Shape
<1>6. Numbers' /\ Runs'
  BY DEF Numbers, Runs
<1>7. Buffers'
  BY <1>2 DEF Buffers
<1>8. Listings'
  BY <1>2 DEF Listings, ListedLine, NameAt, Number
<1>9. EachResultOnce' /\ AtMostOneUnwritten'
  <2>1. out' \o buf' = out' /\ out' = Append(results, Strerror)
    BY <1>3, <1>4, ConcatEmptySeq
  <2>. QED
    BY <1>3, <1>4, <2>1 DEF EachResultOnce, AtMostOneUnwritten
<1>. QED
  BY <1>5, <1>6, <1>7, <1>8, <1>9

\* The end of a group is the beginning of the next.
LEMMA NextGroupKeeps == IInv /\ NextGroup => IInv'
<1>. SUFFICES ASSUME IInv, NextGroup PROVE IInv'
  OBVIOUS
<1>. USE DEF IInv, NextGroup, testVars, childVars, historyVars
<1>1. /\ group \in Groups /\ test = Catalogue[group].tests + 1 /\ At = test
      /\ Len(Catalogue) \in Nat
  BY SuiteAssumption DEF Shape, At, Groups
<1>2. Before(group, At)' = Before(group + 1, 1)
  BY DEF At, Before
<1>3. Before(group, At)' = Before(group, At)
  BY <1>1, <1>2, BeforeGroup
<1>4. Numbers'
  BY <1>3, SamePlace
<1>5. Shape'
  BY <1>1 DEF Shape, Groups
<1>6. Buffers'
  BY DEF Buffers
<1>7. Listings'
  BY <1>3 DEF Listings, ListedLine, NameAt, Number
<1>8. Runs'
  BY <1>3 DEF Runs, Wanted
<1>9. EachResultOnce' /\ AtMostOneUnwritten'
  BY DEF EachResultOnce, AtMostOneUnwritten
<1>. QED
  BY <1>4, <1>5, <1>6, <1>7, <1>8, <1>9

\* The summary flushes what is left.
LEMMA PrintSummaryKeeps == IInv /\ PrintSummary => IInv'
<1>. SUFFICES ASSUME IInv, PrintSummary PROVE IInv'
  OBVIOUS
<1>. USE DEF IInv, PrintSummary, testVars, childVars, historyVars
<1>1. /\ out' \in Seq(Lines) /\ buf' \in Seq(Lines) /\ buf' = << >>
      /\ out' \o buf' = out \o buf
      /\ Len(out) \in Nat /\ Len(out') \in Nat /\ Len(out) <= Len(out')
      /\ Len(buf') = 0
  BY FlushFacts
<1>2. Before(group, At)' = Before(group, At)
  BY DEF At, Before
<1>3. Numbers'
  BY <1>2, SamePlace
<1>4. Shape'
  BY <1>1, SuiteAssumption DEF Shape, Groups
<1>5. Buffers'
  BY <1>1 DEF Buffers
<1>6. Listings'
  BY <1>1, <1>2 DEF Listings, ListedLine, NameAt, Number
<1>7. Runs'
  BY <1>2 DEF Runs, Wanted
<1>8. EachResultOnce'
  BY <1>1 DEF EachResultOnce
<1>9. AtMostOneUnwritten'
  <2>1. Len(results) \in Nat
    BY LenProperties DEF Shape
  <2>. QED
    BY <2>1, <1>1 DEF AtMostOneUnwritten
<1>. QED
  BY <1>3, <1>4, <1>5, <1>6, <1>7, <1>8, <1>9

\* The run begins with what the listing wrote.
LEMMA InvokeKeeps ==
  ASSUME NEW request \in Requests, IInv, Invoke(request)
  PROVE  IInv'
<1>. USE DEF IInv, Invoke, childVars
<1>1. /\ group = Len(Catalogue) + 1 /\ At = 1 /\ buf = << >> /\ results = << >>
      /\ alive = {}
  BY DEF Shape, At, Listings, Buffers
<1>2. out \o buf = out
  BY <1>1, ConcatEmptySeq DEF Shape
<1>3. Before(group, At) = Tests
  BY <1>1, BeforeEnd
<1>4. Before(group, At)' = {}
  BY BeforeFirst DEF At, Before
<1>5. Numbers'
  <2>1. IsFiniteSet({}) /\ Cardinality({}) = 0
    BY FS_EmptySet
  <2>2. IsFiniteSet(Before(group, At)') /\ Cardinality(Before(group, At)') = 0
    BY <1>4, <2>1, Zenon
  <2>3. Number(group, At)' = Cardinality(Before(group, At)') + 1
    BY DEF Number
  <2>4. cnt' = 1
    OBVIOUS
  <2>. QED
    BY <2>2, <2>3, <2>4 DEF Numbers
<1>6. Shape'
  <2>1. << >> \in Seq(Lines)
    BY EmptySeq
  <2>2. Len(Catalogue) + 1 \in Nat /\ 1 \in 1..(Len(Catalogue) + 1)
    BY SuiteAssumption
  <2>. QED
    BY <1>1, <2>1, <2>2 DEF Shape
<1>7. Buffers'
  BY <1>1 DEF Buffers
<1>8. Listings'
  BY <1>2, <1>3 DEF Listings, ListedLine, NameAt, Number
<1>9. Runs'
  BY <1>1, <1>4 DEF Runs, ToSet
<1>10. EachResultOnce' /\ AtMostOneUnwritten'
  BY <1>1 DEF EachResultOnce, AtMostOneUnwritten
<1>. QED
  BY <1>5, <1>6, <1>7, <1>8, <1>9, <1>10

\* Nothing happens.
LEMMA StutterKeeps == IInv /\ UNCHANGED vars => IInv'
<1>. SUFFICES ASSUME IInv, UNCHANGED vars PROVE IInv'
  OBVIOUS
<1>. USE DEF IInv, vars, testVars, childVars, historyVars
<1>1. Before(group, At)' = Before(group, At)
  BY DEF At, Before
<1>2. Shape'
  BY DEF Shape, Wanted, Name, NameOf
<1>3. Numbers'
  BY <1>1 DEF Numbers, Number
<1>4. Buffers'
  BY DEF Buffers
<1>5. Listings'
  BY <1>1 DEF Listings, ListedLine, NameAt, Number
<1>6. Runs'
  BY <1>1 DEF Runs, Wanted
<1>7. EachResultOnce' /\ AtMostOneUnwritten'
  BY DEF EachResultOnce, AtMostOneUnwritten
<1>. QED
  BY <1>2, <1>3, <1>4, <1>5, <1>6, <1>7

-----------------------------------------------------------------------------
(* The theorems.                                                           *)

\* The inductive invariant holds in every state of a session.
THEOREM Inductive == Spec => []IInv
<1>1. IInv /\ [Next]_vars => IInv'
  <2>. SUFFICES ASSUME IInv, [Next]_vars PROVE IInv'
    OBVIOUS
  <2>1. CASE Announce
    BY <2>1, AnnounceKeeps
  <2>2. CASE Skip
    BY <2>2, SkipKeeps
  <2>3. CASE Describe
    BY <2>3, DescribeKeeps
  <2>4. CASE StartTest
    BY <2>4, StartTestKeeps
  <2>5. CASE RunAborts
    BY <2>5, RunAbortsKeeps
  <2>6. CASE NextGroup
    BY <2>6, NextGroupKeeps
  <2>7. CASE PrintSummary
    BY <2>7, PrintSummaryKeeps
  <2>8. ASSUME NEW c \in Children, ChildEnds(c) PROVE IInv'
    BY <2>8, ChildEndsKeeps
  <2>9. ASSUME NEW verdict \in Verdicts, FinishTest(verdict) PROVE IInv'
    BY <2>9, FinishTestKeeps
  <2>10. ASSUME NEW request \in Requests, Invoke(request) PROVE IInv'
    BY <2>10, InvokeKeeps
  <2>11. CASE UNCHANGED vars
    BY <2>11, StutterKeeps
  <2>. QED
    BY <2>1, <2>2, <2>3, <2>4, <2>5, <2>6, <2>7, <2>8, <2>9, <2>10, <2>11 DEF Next
<1>. QED
  BY <1>1, InitHolds, PTL DEF Spec

\* Every result is written exactly once, whatever the processes of a test do with
\* the buffer they inherit, and also when fork() fails.
THEOREM ResultsOnce == Spec => []EachResultOnce
<1>1. IInv => EachResultOnce
  BY DEF IInv
<1>. QED
  BY <1>1, Inductive, PTL

\* At any time, at most one result has not been written; after an abort, none.
THEOREM LittleUnwritten == Spec => []AtMostOneUnwritten
<1>1. IInv => AtMostOneUnwritten
  BY DEF IInv
<1>. QED
  BY <1>1, Inductive, PTL

\* A name taken from a listing stands for the same test in a run, for any
\* catalogue and any arguments.
THEOREM NamesStable == Spec => []NamesMeanTheSame
<1>1. IInv => NamesMeanTheSame
  <2>. SUFFICES ASSUME IInv, pc = "done", ~getNameOnly
                PROVE {<< r.name, r.test >> : r \in ToSet(results)}
                        = {<< l.name, l.test >> :
                             l \in {line \in ToSet(listed) : Wanted(line.name)}}
    BY DEF NamesMeanTheSame
  <2>. DEFINE wanted == {t \in Tests : Wanted(NameAt(t))}
  <2>1. Before(group, At) = Tests
    BY BeforeEnd DEF IInv, Shape, At
  <2>2. {<< r.name, r.test >> : r \in ToSet(results)} = {<< NameAt(t), t >> : t \in wanted}
    BY <2>1 DEF IInv, Runs
  <2>3. ToSet(listed) = {ListedLine(t) : t \in Tests}
    BY DEF IInv, Listings
  <2>4. \A t : ListedLine(t).name = NameAt(t) /\ ListedLine(t).test = t
    BY DEF ListedLine
  <2>5. {line \in ToSet(listed) : Wanted(line.name)} = {ListedLine(t) : t \in wanted}
    BY <2>3, <2>4
  <2>6. {<< l.name, l.test >> : l \in {ListedLine(t) : t \in wanted}}
          = {<< NameAt(t), t >> : t \in wanted}
    BY <2>4
  <2>. QED
    BY <2>2, <2>5, <2>6
<1>. QED
  BY <1>1, Inductive, PTL

-----------------------------------------------------------------------------
(* The fail list.  What it needs beyond IInv is kept apart.                *)

\* A line about a test of the catalogue, or the text of an error.
Kept == {line \in Lines : line = Strerror \/ line.test \in Tests}

\* The fail list has every failure, and cnt_fail is its length.
Failures ==
  /\ testsToRun \in Requests \cup {{}}
  /\ os \in Seq(Kept) /\ buf \in Seq(Kept) /\ out \in Seq(Kept)
  /\ listed \in Seq(Kept) /\ results \in Seq(Kept)
  /\ cnt_fail = Len(os) /\ cnt_fail <= cnt
  /\ \A r \in ToSet(results) : Passed(r) \/ r \in ToSet(os)
  /\ summary \in [total : Nat, pass : Nat, fail : Nat]
  /\ pc = "done" => summary.fail = Len(os)

\* A line about the test that is next.
LEMMA KeptLine ==
  ASSUME Shape, pc \in {"test", "running"}, test <= Catalogue[group].tests,
         NEW what \in Verdicts \cup {"listed"}
  PROVE  Line(what) \in Kept /\ Line(what).what = what
<1>1. group \in Groups /\ test \in 1..Catalogue[group].tests /\ test \in Nat /\ cnt \in Nat
  BY SuiteAssumption DEF Shape, Groups
<1>2. << group, test >> \in Tests
  BY <1>1, BeforeNext
<1>3. Line(what) \in Lines
  BY <1>1, LineType
<1>. QED
  BY <1>2, <1>3 DEF Kept, Line

\* The result of a test goes to the fail list unless it is "PASS".
LEMMA FinishTestFails ==
  ASSUME NEW verdict \in Verdicts, IInv, Failures, FinishTest(verdict)
  PROVE  Failures'
<1>. DEFINE line == Line(verdict)
<1>1. line \in Kept /\ line.what = verdict
  BY KeptLine DEF IInv, Shape, FinishTest
<1>2. /\ buf' = Append(buf, line) /\ results' = Append(results, line)
      /\ cnt' = cnt + 1 /\ pc' = "test"
      /\ UNCHANGED << testsToRun, out, summary, listed >>
  BY DEF FinishTest
<1>3. /\ os \in Seq(Kept) /\ buf \in Seq(Kept) /\ results \in Seq(Kept)
      /\ Len(os) \in Nat /\ cnt \in Nat
  BY LenProperties DEF Failures, IInv, Shape
<1>. HIDE DEF line
<1>4. /\ buf' \in Seq(Kept) /\ results' \in Seq(Kept)
      /\ ToSet(results') = ToSet(results) \cup {line}
  BY <1>1, <1>2, <1>3, AppendProperties, ToSetAppend
<1>5. CASE verdict # "PASS"
  <2>1. os' = Append(os, line) /\ cnt_fail' = cnt_fail + 1
    BY <1>5 DEF FinishTest, line
  <2>2. os' \in Seq(Kept) /\ Len(os') = Len(os) + 1 /\ ToSet(os') = ToSet(os) \cup {line}
    BY <1>1, <1>3, <2>1, AppendProperties, ToSetAppend
  <2>3. \A r \in ToSet(results') : Passed(r) \/ r \in ToSet(os')
    BY <1>4, <2>2 DEF Failures
  <2>4. cnt_fail' = Len(os') /\ cnt_fail' <= cnt'
    BY <1>2, <1>3, <2>1, <2>2 DEF Failures
  <2>. QED
    BY <1>2, <1>4, <2>2, <2>3, <2>4 DEF Failures
<1>6. CASE verdict = "PASS"
  <2>1. os' = os /\ cnt_fail' = cnt_fail
    BY <1>6 DEF FinishTest
  <2>2. \A r \in ToSet(results') : Passed(r) \/ r \in ToSet(os')
    BY <1>1, <1>4, <1>6, <2>1 DEF Failures, Passed
  <2>3. cnt_fail' = Len(os') /\ cnt_fail' <= cnt'
    BY <1>2, <1>3, <2>1 DEF Failures
  <2>. QED
    BY <1>2, <1>4, <2>1, <2>2, <2>3 DEF Failures
<1>. QED
  BY <1>5, <1>6

\* Every step keeps the fail list.
LEMMA FailuresKept == IInv /\ Failures /\ [Next]_vars => Failures'
<1>. SUFFICES ASSUME IInv, Failures, [Next]_vars PROVE Failures'
  OBVIOUS
<1>. USE DEF testVars, childVars, historyVars
<1>1. ASSUME Flush PROVE out' \in Seq(Kept) /\ buf' \in Seq(Kept)
  BY <1>1, ConcatProperties DEF Flush, Failures
<1>2. cnt \in Nat /\ Len(os) \in Nat
  BY LenProperties DEF Failures, IInv, Shape
<1>3. CASE Announce
  BY <1>1, <1>3 DEF Announce, Failures
<1>4. CASE Skip
  BY <1>2, <1>4 DEF Skip, Failures
<1>5. CASE Describe
  <2>1. Line("listed") \in Kept
    BY <1>5, KeptLine DEF Describe, IInv
  <2>2. buf' \in Seq(Kept)
    BY <1>5, <2>1, AppendProperties DEF Describe, Failures
  <2>. QED
    BY <1>2, <1>5, <2>2 DEF Describe, Failures
<1>6. CASE StartTest
  BY <1>1, <1>6 DEF StartTest, Failures
<1>7. CASE RunAborts
  <2>1. Strerror \in Kept
    BY DEF Strerror, Kept, Lines, NameOf
  <2>2. out \o buf \in Seq(Kept)
    BY ConcatProperties DEF Failures
  <2>3. out' \in Seq(Kept) /\ buf' \in Seq(Kept)
    BY <1>7, <2>1, <2>2, AppendProperties DEF RunAborts
  <2>. QED
    BY <1>7, <2>3 DEF RunAborts, Failures
<1>8. CASE NextGroup
  BY <1>8 DEF NextGroup, Failures
<1>9. CASE PrintSummary
  <2>1. cnt_fail \in Nat /\ cnt - cnt_fail \in Nat
    BY <1>2 DEF Failures
  <2>2. summary' \in [total : Nat, pass : Nat, fail : Nat] /\ summary'.fail = Len(os)
    BY <1>2, <1>9, <2>1 DEF PrintSummary, Failures
  <2>. QED
    BY <1>1, <1>9, <2>2 DEF PrintSummary, Failures
<1>10. ASSUME NEW c \in Children, ChildEnds(c) PROVE Failures'
  <2>1. copy[c] = << >>
    BY <1>10 DEF ChildEnds, IInv, Buffers
  <2>2. out' = out
    BY <1>10, <2>1, ConcatEmptySeq DEF ChildEnds, Failures
  <2>. QED
    BY <1>10, <2>2 DEF ChildEnds, Failures
<1>11. ASSUME NEW verdict \in Verdicts, FinishTest(verdict) PROVE Failures'
  BY <1>11, FinishTestFails
<1>12. ASSUME NEW request \in Requests, Invoke(request) PROVE Failures'
  <2>1. results = << >> /\ ToSet(<< >>) = {}
    BY <1>12 DEF Invoke, IInv, Buffers, ToSet
  <2>2. << >> \in Seq(Kept) /\ Len(<< >>) = 0
    BY EmptySeq
  <2>. QED
    BY <1>12, <2>1, <2>2 DEF Invoke, Failures
<1>13. CASE UNCHANGED vars
  BY <1>13 DEF vars, Failures
<1>. QED
  BY <1>3, <1>4, <1>5, <1>6, <1>7, <1>8, <1>9, <1>10, <1>11, <1>12, <1>13 DEF Next

\* Failures holds in every state.
LEMMA FailuresHold == Spec => []Failures
<1>1. Init => Failures
  <2>. SUFFICES ASSUME Init PROVE Failures
    OBVIOUS
  <2>1. << >> \in Seq(Kept) /\ Len(<< >>) = 0 /\ ToSet(<< >>) = {}
    BY EmptySeq DEF ToSet
  <2>. QED
    BY <2>1 DEF Init, Failures
<1>. QED
  BY <1>1, FailuresKept, Inductive, PTL DEF Spec

\* The summary counts the failures of the list, and the list has them all.
THEOREM FailuresListed == Spec => []FailListComplete
<1>1. Failures => FailListComplete
  BY DEF Failures, FailListComplete
<1>. QED
  BY <1>1, FailuresHold, PTL

\* Every line that is kept or written is about a test of the catalogue, whatever the
\* arguments are, and no more failures are counted than tests.
THEOREM TypeCorrect == Spec => []TypeOK
<1>1. IInv /\ Failures => TypeOK
  <2>. SUFFICES ASSUME IInv, Failures PROVE TypeOK
    OBVIOUS
  <2>1. \A s \in {os, buf, out, listed, results} : \A i \in 1..Len(s) :
          s[i] = Strerror \/ s[i].test \in Tests
    <3>1. ASSUME NEW s \in Seq(Kept), NEW i \in 1..Len(s)
          PROVE  s[i] = Strerror \/ s[i].test \in Tests
      BY <3>1, ElementOfSeq DEF Kept
    <3>. QED
      BY <3>1 DEF Failures
  <2>2. cnt_fail \in 0..cnt
    <3>1. Len(os) \in Nat /\ cnt \in Nat
      BY LenProperties DEF Failures, IInv, Shape
    <3>. QED
      BY <3>1 DEF Failures
  <2>. QED
    BY <2>1, <2>2 DEF IInv, Shape, Failures, TypeOK
<1>. QED
  BY <1>1, FailuresHold, Inductive, PTL
=============================================================================
