-------------------------------- MODULE Suite --------------------------------
(***************************************************************************)
(* One session with gtf: a listing (gtf -l), then a run of the tests whose *)
(* names or prefixes the user takes from it.  runAndPrintSingleTest(), the *)
(* options and the summary of main(), and the way of the results to        *)
(* standard output.                                                        *)
(*                                                                         *)
(* Standard output is a file or a pipe: what std::cout is given stays in   *)
(* the buffer of stdio.  fork() copies that buffer, and a child that calls *)
(* exit() writes its copy.  A write to std::cerr, to which std::cout is    *)
(* tied, flushes the buffer of its process.                                *)
(*                                                                         *)
(* run() is modelled in module Runner; here only its verdict and the       *)
(* buffers of the processes it forks matter.                               *)
(***************************************************************************)
EXTENDS Naturals, SequencesExt

CONSTANTS
  Catalogue,  \* the groups of tests: their prefix and the tests in them
  Children,   \* the processes of a test
  Requests    \* the sets of arguments a run may be given

\* A name is the prefix of its group, as a sequence of parts, and a number; the
\* name of a whole group, an argument only, has the number 0.
NameOf(prefix, n) == [group |-> prefix, number |-> n]

ASSUME SuiteAssumption ==
  /\ Len(Catalogue) \in Nat
  /\ \A g \in 1..Len(Catalogue) : Catalogue[g].tests \in Nat

Groups   == 1..Len(Catalogue)
Verdicts == {"PASS", "FAIL", "TIMEOUT"}
Tests    == {t \in Groups \X Nat : t[2] \in 1..Catalogue[t[1]].tests}

VARIABLES
  getNameOnly,  \* this invocation is the listing
  testsToRun,   \* its arguments
  pc,           \* where main() is
  group, test,  \* the test that is next, by its place in the catalogue
  cnt,          \* its number
  cnt_fail,
  os,           \* the lines kept for the fail list
  buf,          \* the buffer of standard output
  copy,         \* copy[c]: the buffer that child c has inherited
  alive,        \* the children that have not ended
  out,          \* what was written to standard output
  summary,      \* the numbers printed at the end
  listed,       \* what the listing wrote
  results       \* the results so far, in order

testVars    == << group, test, cnt, cnt_fail, os >>
childVars   == << copy, alive >>
historyVars == << listed, results >>
vars == << getNameOnly, testsToRun, pc, testVars, buf, childVars, out, summary,
           historyVars >>

Name == NameOf(Catalogue[group].prefix, cnt)

\* "check if we should touch this test"
Wanted(name) ==
  testsToRun = {} \/ name \in testsToRun \/ NameOf(name.group, 0) \in testsToRun

\* One line of the output: a name, and the test or the verdict that goes with it.
Line(what) == [name |-> Name, test |-> << group, test >>, what |-> what]

\* The text that operator<< for ERRNOMSG writes to std::cout.
Strerror == [name |-> NameOf(<< >>, 0), test |-> << 0, 0 >>, what |-> "strerror"]

Flush == out' = out \o buf /\ buf' = << >>

Init ==
  /\ getNameOnly = TRUE
  /\ testsToRun = {}
  /\ pc = "announce"
  /\ group = 1 /\ test = 1 /\ cnt = 1 /\ cnt_fail = 0 /\ os = << >>
  /\ buf = << >> /\ out = << >>
  /\ copy = [c \in Children |-> << >>] /\ alive = {}
  /\ summary = [total |-> 0, pass |-> 0, fail |-> 0]
  /\ listed = << >> /\ results = << >>

-----------------------------------------------------------------------------
(* Broken variants of the actions below: no specification uses them.       *)

\* Only selected tests get a number.
SkipUncounted ==
  /\ pc = "test" /\ test <= Catalogue[group].tests
  /\ ~Wanted(Name)
  /\ test' = test + 1
  /\ UNCHANGED << getNameOnly, testsToRun, pc, group, cnt, cnt_fail, os, buf, childVars,
                  out, summary, historyVars >>

\* Nothing is logged before the processes are forked.
StartTestUnlogged ==
  /\ pc = "test" /\ test <= Catalogue[group].tests
  /\ Wanted(Name) /\ ~getNameOnly
  /\ copy' = [c \in Children |-> buf]
  /\ alive' = Children
  /\ pc' = "running"
  /\ UNCHANGED << getNameOnly, testsToRun, testVars, buf, out, summary, historyVars >>

\* A test that timed out is not taken for a failure.
FinishTestTimedOut(verdict) ==
  /\ pc = "running" /\ alive = {}
  /\ buf' = Append(buf, Line(verdict))
  /\ results' = Append(results, Line(verdict))
  /\ \/ /\ verdict = "FAIL"
        /\ os' = Append(os, Line(verdict))
        /\ cnt_fail' = cnt_fail + 1
     \/ /\ verdict # "FAIL"
        /\ UNCHANGED << os, cnt_fail >>
  /\ cnt' = cnt + 1 /\ test' = test + 1
  /\ pc' = "test"
  /\ UNCHANGED << getNameOnly, testsToRun, group, childVars, out, summary, listed >>

\* The loop over a group makes one iteration too many.
DescribeOneMore ==
  /\ pc = "test" /\ test <= Catalogue[group].tests + 1
  /\ Wanted(Name) /\ getNameOnly
  /\ buf' = Append(buf, Line("listed"))
  /\ cnt' = cnt + 1 /\ test' = test + 1
  /\ UNCHANGED << getNameOnly, testsToRun, pc, group, cnt_fail, os, childVars, out,
                  summary, historyVars >>

-----------------------------------------------------------------------------
\* ANNOUNCE: the log line flushes standard output; a listing logs nothing.
Announce ==
  /\ pc = "announce" /\ group \in Groups
  /\ pc' = "test" /\ test' = 1
  /\ \/ ~getNameOnly /\ Flush
     \/ getNameOnly /\ UNCHANGED << buf, out >>
  /\ UNCHANGED << getNameOnly, testsToRun, group, cnt, cnt_fail, os, childVars, summary,
                  historyVars >>

\* runAndPrintSingleTest(): a test that was not asked for.
Skip ==
  /\ pc = "test" /\ test <= Catalogue[group].tests
  /\ ~Wanted(Name)
  /\ cnt' = cnt + 1 /\ test' = test + 1
  /\ UNCHANGED << getNameOnly, testsToRun, pc, group, cnt_fail, os, buf, childVars, out,
                  summary, historyVars >>

\* runAndPrintSingleTest(): get the name.
Describe ==
  /\ pc = "test" /\ test <= Catalogue[group].tests
  /\ Wanted(Name) /\ getNameOnly
  /\ buf' = Append(buf, Line("listed"))
  /\ cnt' = cnt + 1 /\ test' = test + 1
  /\ UNCHANGED << getNameOnly, testsToRun, pc, group, cnt_fail, os, childVars, out,
                  summary, historyVars >>

\* runAndPrintSingleTest(): the log line, then run() forks the children.
StartTest ==
  /\ pc = "test" /\ test <= Catalogue[group].tests
  /\ Wanted(Name) /\ ~getNameOnly
  /\ Flush
  /\ copy' = [c \in Children |-> buf']
  /\ alive' = Children
  /\ pc' = "running"
  /\ UNCHANGED << getNameOnly, testsToRun, testVars, summary, historyVars >>

\* A child ends: exit(0), or any log line of its, writes the inherited buffer; a
\* child that is killed before it logged anything writes nothing.
ChildEnds(c) ==
  /\ c \in alive
  /\ alive' = alive \ {c}
  /\ \/ out' = out \o copy[c]
     \/ UNCHANGED out
  /\ UNCHANGED << getNameOnly, testsToRun, pc, testVars, buf, copy, summary, historyVars >>

\* runAndPrintSingleTest(): run() has returned, all its children are gone.
FinishTest(verdict) ==
  /\ pc = "running" /\ alive = {}
  /\ buf' = Append(buf, Line(verdict))
  /\ results' = Append(results, Line(verdict))
  /\ \/ /\ verdict # "PASS"
        /\ os' = Append(os, Line(verdict))
        /\ cnt_fail' = cnt_fail + 1
     \/ /\ verdict = "PASS"
        /\ UNCHANGED << os, cnt_fail >>
  /\ cnt' = cnt + 1 /\ test' = test + 1
  /\ pc' = "test"
  /\ UNCHANGED << getNameOnly, testsToRun, group, childVars, out, summary, listed >>

\* tfail() in frk(): the log lines flush, the text of the error goes to std::cout.
RunAborts ==
  /\ pc = "running"
  /\ out' = Append(out \o buf, Strerror)
  /\ buf' = << >>
  /\ pc' = "aborted"
  /\ UNCHANGED << getNameOnly, testsToRun, testVars, childVars, summary, historyVars >>

\* The tests of a group are done.
NextGroup ==
  /\ pc = "test" /\ test > Catalogue[group].tests
  /\ group' = group + 1
  /\ pc' = "announce"
  /\ UNCHANGED << getNameOnly, testsToRun, test, cnt, cnt_fail, os, buf, childVars, out,
                  summary, historyVars >>

\* "print result", with the fail list; std::endl flushes.
PrintSummary ==
  /\ pc = "announce" /\ group \notin Groups
  /\ Flush
  /\ summary' = [total |-> cnt, pass |-> cnt - cnt_fail, fail |-> cnt_fail]
  /\ pc' = "done"
  /\ UNCHANGED << getNameOnly, testsToRun, testVars, childVars, historyVars >>

\* The user has read the listing and starts gtf with some of the names.
Invoke(request) ==
  /\ pc = "done" /\ getNameOnly
  /\ getNameOnly' = FALSE
  /\ testsToRun' = request
  /\ pc' = "announce"
  /\ group' = 1 /\ test' = 1 /\ cnt' = 1 /\ cnt_fail' = 0 /\ os' = << >>
  /\ buf' = << >> /\ out' = << >>
  /\ listed' = out
  /\ UNCHANGED << childVars, summary, results >>

Next ==
  \/ Announce \/ Skip \/ Describe \/ StartTest \/ RunAborts \/ NextGroup \/ PrintSummary
  \/ \E c \in Children : ChildEnds(c)
  \/ \E verdict \in Verdicts : FinishTest(verdict)
  \/ \E request \in Requests : Invoke(request)

Spec == Init /\ [][Next]_vars

-----------------------------------------------------------------------------
(* Properties.                                                             *)

Passed(line) == line.what = "PASS"

TypeOK ==
  /\ getNameOnly \in BOOLEAN
  /\ testsToRun \in Requests \cup {{}}
  /\ pc \in {"announce", "test", "running", "done", "aborted"}
  /\ group \in 1..Len(Catalogue) + 1
  /\ test \in Nat /\ cnt \in Nat /\ cnt_fail \in 0..cnt
  /\ \A s \in {os, buf, out, listed, results} : \A i \in 1..Len(s) :
       s[i] = Strerror \/ s[i].test \in Tests
  /\ DOMAIN copy = Children
  /\ alive \subseteq Children
  /\ summary \in [total : Nat, pass : Nat, fail : Nat]

\* The names of a listing can be given to a later run: what runs under a name is
\* the test that was listed under it, and exactly the tests asked for are run
\* (cnt counts the tests that are skipped, too).
NamesMeanTheSame ==
  pc = "done" /\ ~getNameOnly =>
    {<< r.name, r.test >> : r \in ToSet(results)}
      = {<< l.name, l.test >> : l \in {line \in ToSet(listed) : Wanted(line.name)}}

\* Every result is written once and in order, although each test forks processes
\* that inherit the buffer of standard output and flush it; when fork() fails, the
\* text of the error follows them all.
EachResultOnce ==
  ~getNameOnly =>
    out \o buf = IF pc = "aborted" THEN Append(results, Strerror) ELSE results

\* Whenever the harness is interrupted, at most the result of the last test is
\* still in its buffer; when it aborts, none is (the error is one line of out).
AtMostOneUnwritten ==
  ~getNameOnly =>
    Len(results) <= IF pc = "aborted" THEN Len(out) - 1 ELSE Len(out) + 1

\* The failures of the summary are those among the results, and "Fail List" has
\* them all.
FailListComplete ==
  pc = "done" /\ ~getNameOnly =>
    summary.fail = Len(os) /\ \A r \in ToSet(results) : Passed(r) \/ r \in ToSet(os)

\* "Run the program with prefix of a name to run tests that match the prefix.":
\* every listed test whose name begins with an argument is run.
PrefixSelects ==
  pc = "done" /\ ~getNameOnly =>
    \A request \in testsToRun : \A line \in ToSet(listed) :
      request.number = 0 /\ IsPrefix(request.group, line.name.group)
        => \E r \in ToSet(results) : r.name = line.name

\* "Pass  : " is followed by the number of tests that passed.
PassIsCounted ==
  pc = "done" /\ ~getNameOnly => summary.pass = Len(SelectSeq(results, Passed))
=============================================================================
