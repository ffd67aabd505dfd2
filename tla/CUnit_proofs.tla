---------------------------- MODULE CUnit_proofs ----------------------------
(***************************************************************************)
(* Proofs about CUnit: that a run of the tests adds up (RunsAddUp), for    *)
(* any arrays of suites and tests, wherever the functions of the user are  *)
(* left by a failed check or a skip.                                       *)
(***************************************************************************)
EXTENDS CUnit, FiniteSetTheorems, SequenceTheorems, TLAPS

---------------------------------------------------------------------------
(* The inductive invariant.  What is true wherever a run is: the types,    *)
(* that a test is one of a single suite, and that every failure is on      *)
(* record.                                                                 *)
Results == {"success", "suite_inactive", "init_failed", "test_inactive", "cleanup_failed",
            "not_in_suite"}
Places == {"idle", "suite", "init", "run_test", "tests", "setup", "test", "teardown", "jumped",
           "tests_done", "cleanup"}
Kinds == {"assert", "suite_inactive", "init_failed", "test_inactive", "cleanup_failed"}

ASuite == [fixture : SUBSET {"init", "cleanup", "setup", "teardown"}, tests : Seq(Tests),
           active : BOOLEAN, skipped : BOOLEAN, set_up_error : BOOLEAN,
           cleanup_error : BOOLEAN, in_test_clean : BOOLEAN]
ATest == [active : BOOLEAN, skipped : BOOLEAN, failed_runs : Nat]
ARun == [of : {"none", "all", "suite", "test"}, pos : Nat, suite : Suites \cup {None}, k : Nat,
         test : Tests \cup {None}, start : Nat, jump : BOOLEAN, result : Results,
         first : Results]
ASummary == [suites_run : Nat, suites_failed : Nat, suites_inactive : Nat, tests_run : Nat,
             tests_failed : Nat, tests_inactive : Nat, asserts_failed : Nat,
             suites_skipped : Nat, tests_skipped : Nat]
AFailure == [type : Kinds, suite : Suites \cup {None}, test : Tests \cup {None}]
ACalled == [inactive_fails : BOOLEAN, ignores : BOOLEAN, entered : SUBSET Suites,
            cleaned : SUBSET Suites, began : SUBSET Tests, torn : SUBSET Tests]

(* The tests of some suites as a registry has them, and the tests of which *)
(* a list of failures has a check: FailedTests is of the list at hand.     *)
InTests(registry, some) == UNION {ToSet(registry[s].tests) : s \in some}
FailedIn(list) ==
    {list[i].test : i \in {j \in 1 .. Len(list) : list[j].type = "assert"}} \ {None}

TestsOf(s) == ToSet(suite[s].tests)
TestsIn(some) == InTests(suite, some)

Typed ==
    /\ suites \in Seq(Suites) /\ suite \in [Suites -> ASuite] /\ test \in [Tests -> ATest]
    /\ fail_on_inactive \in BOOLEAN /\ ignore \in BOOLEAN
    /\ at \in Places /\ run \in ARun /\ summary \in ASummary /\ failures \in Seq(AFailure)
    /\ called \in ACalled

Registered ==
    /\ \A i, j \in 1 .. Len(suites) : suites[i] = suites[j] => i = j
    /\ \A s \in ToSet(suites) : \A m, n \in 1 .. Len(suite[s].tests) :
           suite[s].tests[m] = suite[s].tests[n] => m = n
    /\ \A s, u \in ToSet(suites) : s # u => TestsOf(s) \cap TestsOf(u) = {}
    /\ called.entered \subseteq ToSet(suites)
    /\ suites = <<>> => called.began = {}

(* What is true while run r is under way, between the functions it calls,  *)
(* and in them.                                                            *)
Running(r) ==
    /\ r.suite \in ToSet(suites)
    /\ called.inactive_fails = fail_on_inactive /\ called.ignores = ignore
    /\ r.of \in {"all", "suite", "test"}
    /\ r.of = "all" =>
         /\ r.pos \in 1 .. Len(suites) /\ suites[r.pos] = r.suite
         /\ \A s \in called.entered : \E i \in 1 .. r.pos : suites[i] = s
    /\ r.of # "all" => called.entered \subseteq {r.suite}
    /\ r.of = "test" => r.test \in TestsOf(r.suite)
    /\ r.of # "test" => ignore \/ r.first = "success"

(* All suites but the open ones are cleaned up; all tests but the current  *)
(* ones are torn down, of a suite that is busy even if its flag is set.    *)
Cleaned(open) ==
    called.cleaned = {s \in called.entered \ open : "cleanup" \in suite[s].fixture}

Torn(busy, current) ==
    \A s \in ToSet(suites) :
        "teardown" \in suite[s].fixture /\ (~ suite[s].in_test_clean \/ s \in busy) =>
            called.began \cap TestsOf(s) \subseteq called.torn \cup current

(* The failed tests are counted but the current one, the suites that are   *)
(* over and their tests, and n tests of the one that is open.              *)
Failed(of, current) ==
    /\ IsFiniteSet(FailedIn(failures))
    /\ summary.tests_failed =
           Cardinality(FailedIn(failures) \ current)
           + IF of = "test" /\ called.inactive_fails THEN summary.tests_inactive ELSE 0

Accounted(over, n) ==
    /\ summary.suites_run = Cardinality(over)
    /\ summary.tests_run + summary.tests_inactive = Cardinality(TestsIn(over)) + n

FirstOf(list, n) == {list[m] : m \in 1 .. n}

(* Between two runs. *)
Over ==
    /\ run.result = "success"
    /\ Cleaned({}) /\ Torn({}, {}) /\ Failed(run.of, {})
    /\ run.of # "test" /\ (called.ignores \/ run.first = "success") =>
           Accounted(called.entered, 0)

(* A suite is next. *)
Ahead(r) ==
    /\ Running(r) /\ r.suite \notin called.entered /\ r.result = "success"
    /\ Cleaned({}) /\ Torn({}, {}) /\ Failed(r.of, {})
    /\ FailedIn(failures) \subseteq TestsIn(called.entered)
    /\ r.of # "test" => Accounted(called.entered, 0)

(* The one test of CU_run_test is next. *)
AtRunTest(r) ==
    /\ Running(r) /\ r.of = "test" /\ r.suite \in called.entered
    /\ Cleaned({r.suite}) /\ Torn({}, {}) /\ Failed(r.of, {})
    /\ FailedIn(failures) = {}

(* A test of the suite is next. *)
AtTests(r) ==
    /\ Running(r) /\ r.of # "test" /\ r.suite \in called.entered
    /\ r.k \in 1 .. Len(suite[r.suite].tests) + 1
    /\ Cleaned({r.suite}) /\ Torn({}, {}) /\ Failed(r.of, {})
    /\ FailedIn(failures) \subseteq
           TestsIn(called.entered \ {r.suite}) \cup FirstOf(suite[r.suite].tests, r.k - 1)
    /\ Accounted(called.entered \ {r.suite}, r.k - 1)

(* A test is run, but for its tear-down. *)
InATest(r) ==
    /\ Running(r) /\ r.suite \in called.entered /\ r.test \in TestsOf(r.suite)
    /\ Cleaned({r.suite}) /\ Failed(r.of, {r.test})
    /\ r.start <= Len(failures)
    /\ r.start < Len(failures) <=> r.test \in FailedIn(failures)
    /\ r.of # "test" =>
         /\ r.k \in 1 .. Len(suite[r.suite].tests) /\ r.test = suite[r.suite].tests[r.k]
         /\ FailedIn(failures) \subseteq
                TestsIn(called.entered \ {r.suite}) \cup FirstOf(suite[r.suite].tests, r.k)
         /\ Accounted(called.entered \ {r.suite}, r.k - 1)

(* The suite is over, or its tests are, with `result`. *)
TestsOver(r, open, result) ==
    /\ Running(r)
    /\ Cleaned(open) /\ Torn({}, {}) /\ Failed(r.of, {})
    /\ r.of # "test" =>
         /\ FailedIn(failures) \subseteq TestsIn(called.entered)
         /\ ignore \/ (r.first = "success" /\ result = "success") =>
                Accounted(called.entered, 0)

IInv ==
    /\ Typed /\ Registered /\ FailuresRecorded
    /\ at = "idle" => Over
    /\ at = "suite" => Ahead(run) /\ run.of # "test"
    /\ at = "init" => Ahead(run)
    /\ at = "run_test" => AtRunTest(run)
    /\ at = "tests" => AtTests(run)
    /\ at \in {"setup", "test", "jumped"} => InATest(run) /\ Torn({}, {run.test})
    /\ at = "teardown" =>
         InATest(run) /\ Torn({run.suite}, {}) /\ suite[run.suite].in_test_clean
    /\ at \in {"tests_done", "cleanup"} => run.suite \in called.entered
    /\ at = "tests_done" => TestsOver(run, {run.suite}, run.result)
    /\ at = "cleanup" => TestsOver(run, {}, run.result)

---------------------------------------------------------------------------
(* Types.                                                                  *)

LEMMA ToSetIs ==
  ASSUME NEW X, NEW s \in Seq(X)
  PROVE  /\ ToSet(s) = {s[i] : i \in 1 .. Len(s)} /\ ToSet(s) \subseteq X
         /\ Len(s) \in Nat /\ \A i \in 1 .. Len(s) : s[i] \in X
  BY DEF ToSet

(* Where a run has got to is in the registry. *)
LEMMA Somewhere ==
  ASSUME IInv, at # "idle"
  PROVE  /\ Running(run) /\ run.suite \in Suites /\ run.suite \in ToSet(suites)
         /\ at \in {"run_test", "setup", "test", "teardown", "jumped"} =>
              run.test \in Tests /\ run.test \in TestsOf(run.suite)
         /\ suite[run.suite] \in ASuite /\ suite[run.suite].tests \in Seq(Tests)
<1>1. Typed
  BY DEF IInv
<1>2. Running(run)
  BY <1>1 DEF IInv, Typed, Places, Ahead, AtRunTest, AtTests, InATest, TestsOver
<1>3. run.suite \in ToSet(suites) /\ ToSet(suites) \subseteq Suites
  BY <1>1, <1>2, ToSetIs DEF Running, Typed
<1>4. suite[run.suite] \in ASuite /\ suite[run.suite].tests \in Seq(Tests)
  BY <1>1, <1>3 DEF Typed, ASuite
<1>5. at \in {"run_test", "setup", "test", "teardown", "jumped"} =>
        run.test \in TestsOf(run.suite)
  BY <1>2 DEF IInv, AtRunTest, InATest, Running
<1>. QED
  BY <1>2, <1>3, <1>4, <1>5, ToSetIs DEF TestsOf

(* The updates of the records of a run keep their types.                   *)
LEMMA SuiteUpdates ==
  ASSUME suite \in [Suites -> ASuite], NEW s \in Suites, NEW b \in BOOLEAN, NEW c \in BOOLEAN
  PROVE  /\ suite[s].active \in BOOLEAN /\ suite[s].set_up_error \in BOOLEAN
         /\ suite[s].cleanup_error \in BOOLEAN
         /\ [suite EXCEPT ![s].active = b] \in [Suites -> ASuite]
         /\ [suite EXCEPT ![s].in_test_clean = b] \in [Suites -> ASuite]
         /\ [suite EXCEPT ![s].set_up_error = b] \in [Suites -> ASuite]
         /\ [suite EXCEPT ![s].cleanup_error = b] \in [Suites -> ASuite]
         /\ [suite EXCEPT ![s].set_up_error = b, ![s].cleanup_error = c] \in [Suites -> ASuite]
         /\ [suite EXCEPT ![s].skipped = b, ![s].active = c] \in [Suites -> ASuite]
<1>1. suite[s] \in ASuite
  OBVIOUS
<1>2. /\ [suite[s] EXCEPT !.active = b] \in ASuite
      /\ [suite[s] EXCEPT !.in_test_clean = b] \in ASuite
      /\ [suite[s] EXCEPT !.set_up_error = b] \in ASuite
      /\ [suite[s] EXCEPT !.cleanup_error = b] \in ASuite
  BY <1>1 DEF ASuite
<1>3. /\ [suite EXCEPT ![s].active = b] \in [Suites -> ASuite]
      /\ [suite EXCEPT ![s].in_test_clean = b] \in [Suites -> ASuite]
      /\ [suite EXCEPT ![s].set_up_error = b] \in [Suites -> ASuite]
      /\ [suite EXCEPT ![s].cleanup_error = b] \in [Suites -> ASuite]
  BY <1>2
<1>4. [suite EXCEPT ![s].set_up_error = b, ![s].cleanup_error = c] \in [Suites -> ASuite]
  <2> DEFINE before == [suite EXCEPT ![s].set_up_error = b]
  <2>1. before \in [Suites -> ASuite] /\ before[s] \in ASuite
    BY <1>3
  <2> HIDE DEF before
  <2>2. [before[s] EXCEPT !.cleanup_error = c] \in ASuite
    BY <2>1 DEF ASuite
  <2>3. [before EXCEPT ![s].cleanup_error = c] \in [Suites -> ASuite]
    BY <2>1, <2>2
  <2>. QED
    BY <2>3 DEF before
<1>5. [suite EXCEPT ![s].skipped = b, ![s].active = c] \in [Suites -> ASuite]
  <2> DEFINE before == [suite EXCEPT ![s].skipped = b]
  <2>1. [suite[s] EXCEPT !.skipped = b] \in ASuite
    BY <1>1 DEF ASuite
  <2>2. before \in [Suites -> ASuite] /\ before[s] \in ASuite
    BY <2>1
  <2> HIDE DEF before
  <2>3. [before[s] EXCEPT !.active = c] \in ASuite
    BY <2>2 DEF ASuite
  <2>4. [before EXCEPT ![s].active = c] \in [Suites -> ASuite]
    BY <2>2, <2>3
  <2>. QED
    BY <2>4 DEF before
<1>6. /\ suite[s].active \in BOOLEAN /\ suite[s].set_up_error \in BOOLEAN
      /\ suite[s].cleanup_error \in BOOLEAN
  BY <1>1 DEF ASuite
<1>. QED
  BY <1>3, <1>4, <1>5, <1>6

LEMMA TestUpdates ==
  ASSUME test \in [Tests -> ATest], NEW t \in Tests, NEW b \in BOOLEAN, NEW c \in BOOLEAN,
         NEW n \in Nat
  PROVE  /\ test[t].active \in BOOLEAN /\ test[t].failed_runs + n \in Nat
         /\ [test EXCEPT ![t].active = b] \in [Tests -> ATest]
         /\ [test EXCEPT ![t].skipped = b, ![t].active = c] \in [Tests -> ATest]
         /\ [test EXCEPT ![t].failed_runs = @ + n] \in [Tests -> ATest]
<1>1. test[t] \in ATest /\ test[t].failed_runs + n \in Nat
  BY DEF ATest
<1>2. /\ [test[t] EXCEPT !.active = b] \in ATest
      /\ [test[t] EXCEPT !.skipped = b] \in ATest
      /\ [test[t] EXCEPT !.failed_runs = test[t].failed_runs + n] \in ATest
  BY <1>1 DEF ATest
<1>3. [test EXCEPT ![t].skipped = b, ![t].active = c] \in [Tests -> ATest]
  <2> DEFINE before == [test EXCEPT ![t].skipped = b]
  <2>1. before \in [Tests -> ATest] /\ before[t] \in ATest
    BY <1>2
  <2> HIDE DEF before
  <2>2. [before[t] EXCEPT !.active = c] \in ATest
    BY <2>1 DEF ATest
  <2>3. [before EXCEPT ![t].active = c] \in [Tests -> ATest]
    BY <2>1, <2>2
  <2>. QED
    BY <2>3 DEF before
<1>4. test[t].active \in BOOLEAN
  BY <1>1 DEF ATest
<1>5. [test EXCEPT ![t].active = b] \in [Tests -> ATest]
  BY <1>2
<1>6. [test EXCEPT ![t].failed_runs = @ + n] \in [Tests -> ATest]
  BY <1>2
<1>. QED
  BY <1>1, <1>3, <1>4, <1>5, <1>6

LEMMA SummaryUpdates ==
  ASSUME summary \in ASummary, NEW n \in Nat
  PROVE  /\ [summary EXCEPT !.suites_run = @ + n] \in ASummary
         /\ [summary EXCEPT !.suites_failed = @ + n] \in ASummary
         /\ [summary EXCEPT !.suites_inactive = @ + n] \in ASummary
         /\ [summary EXCEPT !.tests_inactive = @ + n] \in ASummary
         /\ [summary EXCEPT !.asserts_failed = @ + n] \in ASummary
         /\ [summary EXCEPT !.tests_run = @ + 1, !.tests_failed = @ + n] \in ASummary
         /\ [summary EXCEPT !.tests_inactive = @ + 1, !.tests_failed = @ + n] \in ASummary
         /\ \A m \in Nat :
              [summary EXCEPT !.suites_skipped = @ + m, !.tests_skipped = @ + n] \in ASummary
<1>1. /\ summary.suites_run + n \in Nat /\ summary.suites_failed + n \in Nat
      /\ summary.suites_inactive + n \in Nat /\ summary.tests_inactive + n \in Nat
      /\ summary.asserts_failed + n \in Nat /\ summary.tests_run + 1 \in Nat
      /\ summary.tests_failed + n \in Nat /\ summary.tests_inactive + 1 \in Nat
      /\ summary.tests_skipped + n \in Nat
      /\ \A m \in Nat : summary.suites_skipped + m \in Nat
  BY DEF ASummary
<1>2. /\ [summary EXCEPT !.suites_run = @ + n] \in ASummary
      /\ [summary EXCEPT !.suites_failed = @ + n] \in ASummary
      /\ [summary EXCEPT !.suites_inactive = @ + n] \in ASummary
      /\ [summary EXCEPT !.tests_inactive = @ + n] \in ASummary
      /\ [summary EXCEPT !.asserts_failed = @ + n] \in ASummary
  BY <1>1 DEF ASummary
<1>3. [summary EXCEPT !.tests_run = @ + 1, !.tests_failed = @ + n] \in ASummary
  BY <1>1 DEF ASummary
<1>4. [summary EXCEPT !.tests_inactive = @ + 1, !.tests_failed = @ + n] \in ASummary
  BY <1>1 DEF ASummary
<1>5. \A m \in Nat :
        [summary EXCEPT !.suites_skipped = @ + m, !.tests_skipped = @ + n] \in ASummary
  BY <1>1 DEF ASummary
<1>. QED
  BY <1>2, <1>3, <1>4, <1>5

LEMMA SuiteOverTyped ==
  ASSUME Typed, NEW result \in Results, run.suite \in Suites, SuiteOver(result)
  PROVE  at' \in Places /\ run' \in ARun
<1> DEFINE first == IF run.first = "success" THEN result ELSE run.first
           next == IF run.of = "all" /\ run.pos < Len(suites) /\ (first = "success" \/ ignore)
                   THEN run.pos + 1 ELSE 0
<1>1. /\ at' = IF next = 0 THEN "idle" ELSE "suite"
      /\ run' = [run EXCEPT !.first = first, !.result = "success", !.pos = next,
                            !.suite = IF next = 0 THEN run.suite ELSE suites[next]]
  BY DEF SuiteOver, S
<1>2. run \in ARun /\ suites \in Seq(Suites)
  BY DEF Typed
<1>3. first \in Results /\ next \in Nat /\ (next # 0 => next \in 1 .. Len(suites))
  BY <1>2 DEF ARun
<1>4. (IF next = 0 THEN run.suite ELSE suites[next]) \in Suites
  BY <1>2, <1>3
<1> HIDE DEF first, next
<1>. QED
  BY <1>1, <1>2, <1>3, <1>4 DEF ARun, Results, Places

(* A test that is finished is counted, and failed if it left a record.     *)
LEMMA FinishIs ==
  ASSUME Typed, NEW r \in ARun, r.test \in Tests, Finish(r)
  PROVE  \E n \in {0, 1} :
           /\ n = IF Len(failures) > r.start THEN 1 ELSE 0
           /\ summary' = [summary EXCEPT !.tests_run = @ + 1, !.tests_failed = @ + n]
           /\ test' = [test EXCEPT ![r.test].failed_runs = @ + n]
<1>1. summary.tests_failed + 0 = summary.tests_failed
      /\ test[r.test].failed_runs + 0 = test[r.test].failed_runs
  BY DEF Typed, ASummary, ATest
<1>2. CASE Len(failures) > r.start
  BY <1>2, Zenon DEF Finish
<1>3. CASE ~ (Len(failures) > r.start)
  BY <1>1, <1>3, Zenon DEF Finish
<1>. QED
  BY <1>2, <1>3

LEMMA ToTestsTyped ==
  ASSUME Typed, run.suite \in Suites, ToTests
  PROVE  at' \in Places /\ run' \in ARun /\ called' \in ACalled
<1>1. run' \in ARun
  BY DEF ToTests, ARun, Typed
<1>2. called' \in ACalled
  BY DEF ToTests, ACalled, Typed, S
<1>. QED
  BY <1>1, <1>2 DEF ToTests, Places

LEMMA AfterTestTyped ==
  ASSUME Typed, NEW result \in Results, AfterTest(result)
  PROVE  at' \in Places /\ run' \in ARun
<1>1. run \in ARun
  BY DEF Typed
<1>2. CASE run.of = "test"
  BY <1>1, <1>2 DEF AfterTest, ARun, Places
<1>3. CASE run.of # "test"
  <2>1. run.k + 1 \in Nat /\ (IF run.result = "success" THEN result ELSE run.result) \in Results
    BY <1>1 DEF ARun
  <2>. QED
    BY <1>1, <1>3, <2>1 DEF AfterTest, ARun, Places
<1>. QED
  BY <1>2, <1>3

(* An inactive test that CU_run_test is to run is counted, and failed if   *)
(* it left a record.                                                       *)
LEMMA InactiveIs ==
  ASSUME Typed, RunTestStarts, run.test \in Tests, ~ test[run.test].active
  PROVE  \E n \in {0, 1} :
           /\ n = IF fail_on_inactive THEN 1 ELSE 0
           /\ summary' = [summary EXCEPT !.tests_inactive = @ + 1, !.tests_failed = @ + n]
           /\ test' = [test EXCEPT ![run.test].failed_runs = @ + n]
<1>1. summary.tests_failed + 0 = summary.tests_failed
  BY DEF Typed, ASummary
<1>2. test[run.test].failed_runs + 0 = test[run.test].failed_runs
  BY DEF Typed, ATest
<1>3. CASE fail_on_inactive
  BY <1>3, Zenon DEF RunTestStarts
<1>4. CASE ~ fail_on_inactive
  BY <1>1, <1>2, <1>4, Zenon DEF RunTestStarts
<1>. QED
  BY <1>3, <1>4

LEMMA SkipCounts ==
  ASSUME summary \in ASummary, Skip
  PROVE  \E m \in {0, 1}, n \in {0, 1} :
           summary' = [summary EXCEPT !.suites_skipped = @ + m, !.tests_skipped = @ + n]
<1>1. summary.suites_skipped + 0 = summary.suites_skipped
      /\ summary.tests_skipped + 0 = summary.tests_skipped
  BY DEF ASummary
<1> DEFINE m == IF at = "init" /\ run.of # "test" THEN 1 ELSE 0
           n == IF InTest THEN 1 ELSE 0
<1>2. /\ m \in {0, 1} /\ n \in {0, 1}
      /\ summary.suites_skipped + m =
           IF at = "init" /\ run.of # "test" THEN summary.suites_skipped + 1
           ELSE summary.suites_skipped
      /\ summary.tests_skipped + n =
           IF InTest THEN summary.tests_skipped + 1 ELSE summary.tests_skipped
  BY <1>1
<1>3. summary' = [summary EXCEPT !.suites_skipped = @ + m, !.tests_skipped = @ + n]
  BY <1>2, Zenon DEF Skip
<1>. QED
  BY <1>2, <1>3, Zenon

LEMMA FinishTyped ==
  ASSUME Typed, NEW r \in ARun, r.test \in Tests, Finish(r)
  PROVE  summary' \in ASummary /\ test' \in [Tests -> ATest] /\ at' \in Places /\ run' \in ARun
<1>1. summary \in ASummary /\ test \in [Tests -> ATest] /\ run \in ARun
  BY DEF Typed
<1>2. at' \in Places /\ run' \in ARun
  <2>1. AfterTest("success") /\ "success" \in Results
    BY DEF Finish, Results
  <2>. QED
    BY <2>1, AfterTestTyped
<1>3. PICK n \in {0, 1} :
        /\ summary' = [summary EXCEPT !.tests_run = @ + 1, !.tests_failed = @ + n]
        /\ test' = [test EXCEPT ![r.test].failed_runs = @ + n]
  BY FinishIs
<1>4. summary' \in ASummary /\ test' \in [Tests -> ATest]
  BY <1>1, <1>3, SummaryUpdates, TestUpdates
<1>. QED
  BY <1>2, <1>4

LEMMA TearDownTyped ==
  ASSUME Typed, NEW r \in ARun, r.test \in Tests, run.suite \in Suites, TearDown(r)
  PROVE  /\ summary' \in ASummary /\ test' \in [Tests -> ATest] /\ at' \in Places /\ run' \in ARun
         /\ suite' \in [Suites -> ASuite] /\ called' \in ACalled
<1>1. /\ suite \in [Suites -> ASuite] /\ called \in ACalled
      /\ summary \in ASummary /\ test \in [Tests -> ATest]
  BY DEF Typed
<1>2. CASE Has("teardown") /\ ~ suite[S].in_test_clean
  <2>1. suite' \in [Suites -> ASuite]
    <3>1. suite' = [suite EXCEPT ![run.suite].in_test_clean = TRUE]
      BY <1>2, Zenon DEF TearDown, S
    <3>. QED
      BY <1>1, <3>1, SuiteUpdates
  <2>2. called' \in ACalled
    BY <1>1, <1>2 DEF TearDown, ACalled
  <2>. QED
    BY <1>1, <1>2, <2>1, <2>2 DEF TearDown, Places
<1>3. CASE ~ (Has("teardown") /\ ~ suite[S].in_test_clean)
  BY <1>1, <1>3, FinishTyped DEF TearDown
<1>. QED
  BY <1>2, <1>3

LEMMA BodyTyped ==
  ASSUME Typed, NEW r \in ARun, r.test \in Tests, Body(r)
  PROVE  /\ summary' \in ASummary /\ test' \in [Tests -> ATest] /\ at' \in Places /\ run' \in ARun
         /\ suite' \in [Suites -> ASuite] /\ called' \in ACalled
<1>1. /\ suite \in [Suites -> ASuite] /\ called \in ACalled
      /\ summary \in ASummary /\ test \in [Tests -> ATest]
  BY DEF Typed
<1>2. run' \in ARun
  BY DEF Body, ARun
<1>3. called' \in ACalled
  BY <1>1 DEF Body, ACalled
<1>. QED
  BY <1>1, <1>2, <1>3 DEF Body, Places

LEMMA TestStartsTyped ==
  ASSUME Typed, NEW t \in Tests, run.suite \in Suites, TestStarts(t)
  PROVE  /\ summary' \in ASummary /\ test' \in [Tests -> ATest] /\ at' \in Places /\ run' \in ARun
         /\ suite' \in [Suites -> ASuite] /\ called' \in ACalled
<1> DEFINE r == [run EXCEPT !.test = t, !.start = Len(failures)]
<1>1. /\ suite \in [Suites -> ASuite] /\ called \in ACalled /\ run \in ARun
      /\ summary \in ASummary /\ test \in [Tests -> ATest] /\ Len(failures) \in Nat
  BY DEF Typed
<1>2. r \in ARun /\ r.test = t
  BY <1>1 DEF ARun
<1> HIDE DEF r
<1>3. \/ Finish(r) /\ UNCHANGED <<suite, called>>
      \/ /\ at' = "setup" /\ run' = r /\ called' = [called EXCEPT !.began = @ \cup {t}]
         /\ UNCHANGED <<suite, test, summary>>
      \/ TearDown(r)
      \/ Body(r)
  BY DEF TestStarts, r
<1>4. CASE Finish(r) /\ UNCHANGED <<suite, called>>
  BY <1>1, <1>2, <1>4, FinishTyped
<1>5. CASE /\ at' = "setup" /\ run' = r /\ called' = [called EXCEPT !.began = @ \cup {t}]
           /\ UNCHANGED <<suite, test, summary>>
  <2>1. called' \in ACalled
    BY <1>1, <1>5 DEF ACalled
  <2>. QED
    BY <1>1, <1>2, <1>5, <2>1 DEF Places
<1>6. CASE TearDown(r)
  BY <1>2, <1>6, TearDownTyped
<1>7. CASE Body(r)
  BY <1>2, <1>7, BodyTyped
<1>. QED
  BY <1>3, <1>4, <1>5, <1>6, <1>7

LEMMA RegisterIs ==
  ASSUME Typed, NEW infos \in Infos, Register(infos)
  PROVE  /\ suites' \in Seq(Suites) /\ suite' \in [Suites -> ASuite]
         /\ Len(suites') = Len(infos) /\ Len(infos) \in Nat
         /\ \A i \in 1 .. Len(infos) :
              /\ suites'[i] = infos[i].suite /\ infos[i].suite \in Suites
              /\ suite'[suites'[i]].tests = infos[i].tests
<1>1. /\ infos \in Seq(SuiteInfo) /\ Len(infos) \in Nat /\ DOMAIN infos = 1 .. Len(infos)
      /\ \A i \in 1 .. Len(infos) : infos[i] \in SuiteInfo
      /\ \A i, j \in 1 .. Len(infos) : infos[i].suite = infos[j].suite => i = j
  BY CUnitAssumption
<1>2. \A i \in 1 .. Len(infos) :
        /\ infos[i].suite \in Suites /\ infos[i].tests \in Seq(Tests)
        /\ infos[i].fixture \in SUBSET {"init", "cleanup", "setup", "teardown"}
  BY <1>1 DEF SuiteInfo
<1>3. suites' = [i \in 1 .. Len(infos) |-> infos[i].suite]
  BY <1>1 DEF Register
<1>4. /\ suites' \in Seq(Suites) /\ Len(suites') = Len(infos)
      /\ \A i \in 1 .. Len(infos) : suites'[i] = infos[i].suite
  BY <1>1, <1>2, <1>3
<1>5. ToSet(suites') = {infos[i].suite : i \in 1 .. Len(infos)}
  BY <1>4, ToSetIs
<1> DEFINE info(s) == CHOOSE i \in ToSet(infos) : i.suite = s
<1>6. suite' = [s \in Suites |-> IF s \in ToSet(suites')
                                 THEN NewSuite(info(s).fixture, info(s).tests) ELSE suite[s]]
  BY DEF Register
<1>7. \A i \in 1 .. Len(infos) : info(infos[i].suite) = infos[i]
  <2>1. TAKE i \in 1 .. Len(infos)
  <2>2. ToSet(infos) = {infos[j] : j \in 1 .. Len(infos)}
    BY <1>1, ToSetIs
  <2>3. \A j \in ToSet(infos) : j.suite = infos[i].suite => j = infos[i]
    BY <1>1, <2>2
  <2>4. infos[i] \in ToSet(infos)
    BY <2>2
  <2>. QED
    BY <2>3, <2>4
<1> HIDE DEF info
<1>8. \A i \in 1 .. Len(infos) :
        suite'[infos[i].suite] = NewSuite(infos[i].fixture, infos[i].tests)
  BY <1>2, <1>5, <1>6, <1>7
<1>9. \A i \in 1 .. Len(infos) : NewSuite(infos[i].fixture, infos[i].tests) \in ASuite
  BY <1>2 DEF NewSuite, ASuite
<1>10. suite' \in [Suites -> ASuite]
  <2>1. ASSUME NEW s \in Suites
        PROVE  suite'[s] \in ASuite
    <3>1. CASE s \in ToSet(suites')
      BY <1>5, <1>8, <1>9, <3>1
    <3>2. CASE s \notin ToSet(suites')
      BY <1>6, <3>2 DEF Typed
    <3>. QED
      BY <3>1, <3>2
  <2>. QED
    BY <1>6, <2>1
<1>11. \A i \in 1 .. Len(infos) : suite'[suites'[i]].tests = infos[i].tests
  <2>1. TAKE i \in 1 .. Len(infos)
  <2>2. suite'[suites'[i]] = NewSuite(infos[i].fixture, infos[i].tests)
    BY <1>4, <1>8, Zenon
  <2>. QED
    BY <2>2 DEF NewSuite
<1>12. \A i \in 1 .. Len(infos) :
         /\ suites'[i] = infos[i].suite /\ infos[i].suite \in Suites
         /\ suite'[suites'[i]].tests = infos[i].tests
  BY <1>2, <1>4, <1>11, Zenon
<1>. QED
  BY <1>1, <1>4, <1>10, <1>12, Zenon

LEMMA TypedInit == Init => Typed
<1> SUFFICES ASSUME Init
             PROVE  Typed
  OBVIOUS
<1>1. NewTest \in ATest /\ NewSuite({}, <<>>) \in ASuite /\ NoRun \in ARun
  BY DEF NewTest, ATest, NewSuite, ASuite, NoRun, ARun, Results
<1>2. NoResults \in ASummary /\ NothingCalled \in ACalled /\ "idle" \in Places
  BY DEF NoResults, ASummary, NothingCalled, ACalled, Places
<1>3. suite \in [Suites -> ASuite] /\ test \in [Tests -> ATest]
  BY <1>1 DEF Init
<1>4. suites \in Seq(Suites) /\ failures \in Seq(AFailure)
  BY DEF Init
<1>. QED
  BY <1>1, <1>2, <1>3, <1>4, Zenon DEF Init, Typed

(* The records that a step leaves behind, and what is counted.             *)
LEMMA RecordTyped ==
  ASSUME Typed, NEW kind \in Kinds, NEW t \in Tests \cup {None}, run.suite \in Suites
  PROVE  Append(failures, Record(kind, t)) \in Seq(AFailure)
<1>1. Record(kind, t) \in AFailure
  BY DEF Record, AFailure, S
<1>. QED
  BY <1>1 DEF Typed

LEMMA RunBeginsTyped ==
  ASSUME Typed, NEW of \in {"all", "suite"}, NEW s \in Suites \cup {None},
         NEW place \in {"idle", "suite"}, RunBegins(of, s, place)
  PROVE  Typed'
<1>1. run' \in ARun
  BY DEF RunBegins, NoRun, ARun, Results
<1>2. summary' \in ASummary
  BY DEF RunBegins, Cleared, NoResults, ASummary, Typed
<1>3. called' \in ACalled
  BY DEF RunBegins, NothingCalled, ACalled, Typed
<1>4. at' \in Places /\ failures' \in Seq(AFailure) /\ UNCHANGED registryVars
  BY DEF RunBegins, Places
<1>. QED
  BY <1>1, <1>2, <1>3, <1>4 DEF registryVars, Typed

LEMMA RunTestTyped ==
  ASSUME Typed, NEW s \in Suites, NEW t \in Tests, RunTest(s, t)
  PROVE  Typed'
<1>1. run' \in ARun
  BY DEF RunTest, NoRun, ARun, Results
<1>2. summary' \in ASummary
  BY DEF RunTest, Cleared, NoResults, ASummary, Typed
<1>3. at' \in Places /\ failures' \in Seq(AFailure) /\ UNCHANGED registryVars
  BY DEF RunTest, Places
<1>4. (IF at' = "init" THEN {} ELSE {s}) \in SUBSET Suites
  OBVIOUS
<1>5. called' \in ACalled
  BY <1>4 DEF RunTest, NothingCalled, ACalled, Typed
<1>. QED
  BY <1>1, <1>2, <1>3, <1>5 DEF registryVars, Typed

LEMMA RunTestRefusedTyped ==
  ASSUME Typed, NEW s \in Suites, NEW t \in Tests, RunTestRefused(s, t)
  PROVE  Typed'
<1>1. run' \in ARun
  <2>1. (IF suite[s].active THEN "not_in_suite" ELSE "suite_inactive") \in Results
    BY DEF Results
  <2>2. PICK first \in Results :
          run' = [NoRun EXCEPT !.of = "test", !.suite = s, !.test = t, !.first = first]
    BY <2>1, Zenon DEF RunTestRefused
  <2>. QED
    BY <2>2 DEF NoRun, ARun, Results
<1>2. summary' \in ASummary
  <2>1. Cleared \in ASummary
    BY DEF Cleared, NoResults, ASummary, Typed
  <2>2. (IF suite[s].active THEN 0 ELSE 1) \in Nat
    OBVIOUS
  <2>. QED
    BY <2>1, <2>2 DEF RunTestRefused, ASummary
<1>3. called' \in ACalled
  BY DEF RunTestRefused, NothingCalled, ACalled, Typed
<1>4. failures' \in Seq(AFailure)
  <2>1. [type |-> "suite_inactive", suite |-> s, test |-> None] \in AFailure
    BY DEF AFailure, Kinds
  <2>. QED
    BY <2>1 DEF RunTestRefused
<1>5. at' \in Places /\ UNCHANGED registryVars
  BY DEF RunTestRefused, Typed, registryVars
<1>. QED
  BY <1>1, <1>2, <1>3, <1>4, <1>5 DEF registryVars, Typed

LEMMA TypedStep ==
  ASSUME IInv, [Next]_vars
  PROVE  Typed'
<1>1. Typed
  BY DEF IInv
<1>2. /\ suites \in Seq(Suites) /\ ToSet(suites) \subseteq Suites
      /\ suite \in [Suites -> ASuite] /\ test \in [Tests -> ATest]
      /\ run \in ARun /\ summary \in ASummary /\ failures \in Seq(AFailure)
      /\ called \in ACalled /\ at \in Places
  BY <1>1, ToSetIs DEF Typed
<1>3. CASE \E infos \in Infos : Register(infos)
  BY <1>1, <1>3, RegisterIs DEF Register, Typed
<1>4. CASE Change
  <2>1. ASSUME NEW s \in Suites
        PROVE  [suite EXCEPT ![s].active = ~ @] \in [Suites -> ASuite]
    BY <1>2, SuiteUpdates
  <2>2. ASSUME NEW t \in Tests
        PROVE  [test EXCEPT ![t].active = ~ @] \in [Tests -> ATest]
    BY <1>2, TestUpdates
  <2>3. suite' \in [Suites -> ASuite] /\ test' \in [Tests -> ATest]
    <3>1. CASE \E s \in ToSet(suites) : suite' = [suite EXCEPT ![s].active = ~ @] /\ test' = test
      BY <1>2, <2>1, <3>1, Zenon
    <3>2. CASE \E t \in Tests : test' = [test EXCEPT ![t].active = ~ @] /\ suite' = suite
      BY <1>2, <2>2, <3>2, Zenon
    <3>3. CASE suite' = suite /\ test' = test
      BY <1>2, <3>3, Zenon
    <3>. QED
      BY <1>4, <3>1, <3>2, <3>3, Zenon DEF Change
  <2>4. fail_on_inactive' \in BOOLEAN /\ ignore' \in BOOLEAN
    BY <1>1, <1>4, Zenon DEF Change, Typed
  <2>. QED
    BY <1>1, <1>4, <2>3, <2>4 DEF Change, Typed
<1>5. CASE RunAll \/ \E s \in ToSet(suites) : RunSuite(s)
  <2>1. suites # <<>> => suites[1] \in Suites
    BY <1>2
  <2>. QED
    BY <1>1, <1>2, <1>5, <2>1, RunBeginsTyped DEF RunAll, RunSuite
<1>6. CASE \E s \in ToSet(suites), t \in Tests : RunTest(s, t) \/ RunTestRefused(s, t)
  BY <1>1, <1>2, <1>6, RunTestTyped, RunTestRefusedTyped
<1> SUFFICES ASSUME at # "idle", UNCHANGED <<suites, fail_on_inactive, ignore>>,
                    \/ SuiteStarts \/ NextTest \/ RunTestStarts \/ SetUpReturns \/ TestReturns
                    \/ TearDownReturns \/ CleanupStarts \/ Jumped
                    \/ \E ok \in BOOLEAN : InitReturns(ok) \/ CleanupReturns(ok)
                    \/ \E fatal \in BOOLEAN : CheckFails(fatal)
                    \/ Skip
             PROVE  Typed'
  <2>1. CASE UNCHANGED vars
    BY <1>1, <2>1 DEF vars, Typed
  <2>2. CASE Next
    BY <1>3, <1>4, <1>5, <1>6, <2>2
       DEF Next, SuiteStarts, NextTest, RunTestStarts, SetUpReturns, TestReturns,
           TearDownReturns, CleanupStarts, Jumped, InitReturns, CleanupReturns, CheckFails,
           Skip, InUserCode, InTest, registryVars
  <2>. QED
    BY <2>1, <2>2
<1>7. /\ run.suite \in Suites /\ suite[run.suite] \in ASuite
      /\ suite[run.suite].tests \in Seq(Tests)
      /\ at \in {"run_test", "setup", "test", "teardown", "jumped"} => run.test \in Tests
  BY Somewhere
<1>8. SUFFICES /\ suite' \in [Suites -> ASuite] /\ test' \in [Tests -> ATest]
               /\ at' \in Places /\ run' \in ARun /\ summary' \in ASummary
               /\ failures' \in Seq(AFailure) /\ called' \in ACalled
  BY <1>1 DEF Typed
<1>9. CASE SuiteStarts
  <2>1. CASE ~ suite[S].active
    <3>1. (IF fail_on_inactive THEN "suite_inactive" ELSE "success") \in Results
      BY DEF Results
    <3>2. at' \in Places /\ run' \in ARun
      BY <1>1, <1>7, <1>9, <2>1, <3>1, SuiteOverTyped DEF SuiteStarts
    <3>3. summary' \in ASummary
      BY <1>2, <1>9, <2>1, SummaryUpdates DEF SuiteStarts
    <3>4. failures' \in Seq(AFailure)
      BY <1>1, <1>2, <1>7, <1>9, <2>1, RecordTyped DEF SuiteStarts, Kinds
    <3>. QED
      BY <1>2, <1>9, <2>1, <3>2, <3>3, <3>4 DEF SuiteStarts, registryVars
  <2>2. CASE suite[S].active
    <3>1. CASE Has("init")
      BY <1>2, <1>9, <2>2, <3>1 DEF SuiteStarts, registryVars, Places
    <3>2. CASE ~ Has("init")
      <4>1. ToTests /\ UNCHANGED <<suite, test, summary, failures>>
        BY <1>9, <2>2, <3>2, Zenon DEF SuiteStarts, registryVars
      <4>. QED
        BY <1>1, <1>2, <1>7, <4>1, ToTestsTyped
    <3>. QED
      BY <3>1, <3>2
  <2>. QED
    BY <2>1, <2>2
<1>10. CASE NextTest
  <2> DEFINE t == suite[S].tests[run.k]
             more == run.k <= Len(suite[S].tests) /\ (run.result = "success" \/ ignore)
  <2>1. CASE ~ more
    <3>1. /\ at' = "tests_done" /\ summary' = [summary EXCEPT !.suites_run = @ + 1]
          /\ UNCHANGED <<suite, test, run, failures, called>>
      BY <1>10, <2>1, Zenon DEF NextTest
    <3>. QED
      BY <1>2, <3>1, SummaryUpdates DEF Places
  <2>2. CASE more /\ TestStarts(t) /\ UNCHANGED failures
    <3>1. t \in Tests
      BY <1>2, <1>7, <1>10, <2>2 DEF S, AtTests, IInv, NextTest
    <3>. QED
      BY <1>1, <1>2, <1>7, <2>2, <3>1, TestStartsTyped
  <2>3. CASE more /\ ~ test[t].active
    <3>1. /\ summary' = [summary EXCEPT !.tests_inactive = @ + 1]
          /\ failures' = IF fail_on_inactive
                         THEN Append(failures, Record("test_inactive", t)) ELSE failures
          /\ run' = [run EXCEPT !.k = @ + 1,
                                !.result = IF fail_on_inactive THEN "test_inactive" ELSE @]
          /\ UNCHANGED <<at, suite, test, called>>
      BY <1>10, <2>3, Zenon DEF NextTest
    <3>2. summary' \in ASummary
      BY <1>2, <3>1, SummaryUpdates
    <3>3. t \in Tests
      BY <1>2, <1>7, <1>10, <2>3 DEF S, AtTests, IInv, NextTest
    <3>4. failures' \in Seq(AFailure)
      BY <1>1, <1>2, <1>7, <3>1, <3>3, RecordTyped DEF Kinds
    <3>5. run' \in ARun
      <4>1. run.k + 1 \in Nat
            /\ (IF fail_on_inactive THEN "test_inactive" ELSE run.result) \in Results
        BY <1>2 DEF ARun, Results
      <4>. QED
        BY <1>2, <3>1, <4>1 DEF ARun
    <3>. QED
      BY <1>2, <3>1, <3>2, <3>4, <3>5
  <2>4. \/ ~ more
        \/ more /\ TestStarts(t) /\ UNCHANGED failures
        \/ more /\ ~ test[t].active
    BY <1>10, Zenon DEF NextTest
  <2>. QED
    BY <2>1, <2>2, <2>3, <2>4
<1>11. CASE RunTestStarts
  <2>1. CASE test[run.test].active
    BY <1>1, <1>2, <1>7, <1>11, <2>1, TestStartsTyped DEF RunTestStarts
  <2>2. CASE ~ test[run.test].active
    <3>1. at' \in Places /\ run' \in ARun
      BY <1>1, <1>11, <2>2, AfterTestTyped DEF RunTestStarts, Results
    <3>2. PICK n \in {0, 1} :
            /\ summary' = [summary EXCEPT !.tests_inactive = @ + 1, !.tests_failed = @ + n]
            /\ test' = [test EXCEPT ![run.test].failed_runs = @ + n]
      BY <1>1, <1>7, <1>11, <2>2, InactiveIs DEF RunTestStarts
    <3>3. summary' \in ASummary
      BY <1>2, <3>2, SummaryUpdates
    <3>4. test' \in [Tests -> ATest]
      BY <1>2, <1>7, <1>11, <3>2, TestUpdates DEF RunTestStarts
    <3>5. failures' \in Seq(AFailure)
      BY <1>1, <1>2, <1>7, <1>11, <2>2, RecordTyped DEF RunTestStarts, Kinds
    <3>. QED
      BY <1>2, <1>11, <2>2, <3>1, <3>3, <3>4, <3>5 DEF RunTestStarts
  <2>. QED
    BY <2>1, <2>2
<1>12. CASE SetUpReturns
  BY <1>1, <1>2, <1>7, <1>12, TearDownTyped, BodyTyped DEF SetUpReturns
<1>13. CASE TestReturns
  BY <1>1, <1>2, <1>7, <1>13, TearDownTyped DEF TestReturns
<1>14. CASE Jumped
  BY <1>1, <1>2, <1>7, <1>14, TearDownTyped DEF Jumped
<1>15. CASE TearDownReturns
  <2>2. suite' \in [Suites -> ASuite]
    BY <1>2, <1>7, <1>15, SuiteUpdates DEF TearDownReturns, S
  <2>. QED
    BY <1>1, <1>2, <1>7, <1>15, <2>2, FinishTyped DEF TearDownReturns
<1>16. CASE CleanupStarts
  <2>1. called' \in ACalled
    BY <1>2, <1>7, <1>16 DEF CleanupStarts, ACalled, S
  <2>2. run.result \in Results
    BY <1>2 DEF ARun
  <2>. QED
    BY <1>1, <1>2, <1>7, <1>16, <2>1, <2>2, SuiteOverTyped
       DEF CleanupStarts, registryVars, Places
<1>17. CASE \E ok \in BOOLEAN : InitReturns(ok)
  <2>1. PICK ok \in BOOLEAN : InitReturns(ok)
    BY <1>17
  <2>2. suite' \in [Suites -> ASuite]
    <3>1. suite' = [suite EXCEPT ![S].set_up_error =
                        @ \/ (run.of # "test" /\ (~ ok \/ (run.of # "test" /\ @)))]
      BY <2>1, Zenon DEF InitReturns
    <3>2. PICK b \in BOOLEAN : suite' = [suite EXCEPT ![run.suite].set_up_error = b]
      BY <3>1 DEF S
    <3>. QED
      BY <1>2, <1>7, <3>2, SuiteUpdates
  <2>3. CASE SuiteOver("success") /\ UNCHANGED <<summary, failures, called>>
    BY <1>1, <1>2, <1>7, <2>1, <2>2, <2>3, SuiteOverTyped DEF InitReturns, Results
  <2>4. CASE /\ summary' = [summary EXCEPT !.suites_failed = @ + 1]
             /\ failures' = Append(failures, Record("init_failed", None))
             /\ SuiteOver("init_failed") /\ UNCHANGED called
    <3>1. summary' \in ASummary
      BY <1>2, <2>4, SummaryUpdates
    <3>2. failures' \in Seq(AFailure)
      BY <1>1, <1>7, <2>4, RecordTyped DEF Kinds
    <3>. QED
      BY <1>1, <1>2, <1>7, <2>1, <2>2, <2>4, <3>1, <3>2, SuiteOverTyped DEF InitReturns, Results
  <2>5. CASE ToTests /\ UNCHANGED <<summary, failures>>
    BY <1>1, <1>2, <1>7, <2>1, <2>2, <2>5, ToTestsTyped DEF InitReturns
  <2>6. CASE /\ at' = "run_test" /\ UNCHANGED run
             /\ called' = [called EXCEPT !.entered = {S}]
             /\ UNCHANGED <<summary, failures>>
    <3>1. called' \in ACalled
      BY <1>2, <1>7, <2>6 DEF ACalled, S
    <3>. QED
      BY <1>2, <2>1, <2>2, <2>6, <3>1 DEF InitReturns, Places
  <2>. QED
    BY <2>1, <2>3, <2>4, <2>5, <2>6 DEF InitReturns
<1>18. CASE \E ok \in BOOLEAN : CleanupReturns(ok)
  <2>1. PICK ok \in BOOLEAN : CleanupReturns(ok)
    BY <1>18
  <2>2. suite' \in [Suites -> ASuite]
    <3>1. PICK b \in BOOLEAN : suite' = [suite EXCEPT ![run.suite].cleanup_error = b]
      BY <2>1 DEF CleanupReturns, S
    <3>. QED
      BY <1>2, <1>7, <3>1, SuiteUpdates
  <2>3. PICK result \in Results : SuiteOver(result)
    <3>1. "cleanup_failed" \in Results /\ run.result \in Results
      BY <1>2 DEF Results, ARun
    <3>. QED
      BY <2>1, <3>1, Zenon DEF CleanupReturns
  <2>4. summary' \in ASummary
    <3>1. \/ summary' = [summary EXCEPT !.suites_failed = @ + 1]
          \/ summary' = summary
      BY <2>1, Zenon DEF CleanupReturns
    <3>. QED
      BY <1>2, <3>1, SummaryUpdates
  <2>5. failures' \in Seq(AFailure)
    BY <1>1, <1>2, <1>7, <2>1, RecordTyped DEF CleanupReturns, Kinds
  <2>. QED
    BY <1>1, <1>2, <1>7, <2>1, <2>2, <2>3, <2>4, <2>5, SuiteOverTyped DEF CleanupReturns
<1>19. CASE \E fatal \in BOOLEAN : CheckFails(fatal)
  <2>1. PICK fatal \in BOOLEAN : CheckFails(fatal)
    BY <1>19
  <2>2. suite' \in [Suites -> ASuite]
    <3>1. PICK b \in BOOLEAN, c \in BOOLEAN :
            suite' = [suite EXCEPT ![run.suite].set_up_error = b,
                                   ![run.suite].cleanup_error = c]
      BY <2>1 DEF CheckFails, S
    <3>. QED
      BY <1>2, <1>7, <3>1, SuiteUpdates
  <2>3. summary' \in ASummary
    BY <1>2, <2>1, SummaryUpdates DEF CheckFails
  <2>4. failures' \in Seq(AFailure)
    <3>1. (IF InTest THEN run.test ELSE None) \in Tests \cup {None}
      BY <1>7 DEF InTest
    <3>. QED
      BY <1>1, <1>7, <2>1, <3>1, RecordTyped DEF CheckFails, Kinds
  <2>. QED
    BY <1>2, <2>1, <2>2, <2>3, <2>4 DEF CheckFails, Places
<1>20. CASE Skip
  <2>1. suite' \in [Suites -> ASuite]
    <3>1. [suite EXCEPT ![run.suite].skipped = TRUE, ![run.suite].active = FALSE]
            \in [Suites -> ASuite]
      BY <1>2, <1>7, SuiteUpdates
    <3>. QED
      BY <1>2, <1>20, <3>1, Zenon DEF Skip, S
  <2>2. test' \in [Tests -> ATest]
    BY <1>2, <1>7, <1>20, TestUpdates DEF Skip, InTest
  <2>3. summary' \in ASummary
    <3>1. PICK m \in {0, 1}, n \in {0, 1} :
            summary' = [summary EXCEPT !.suites_skipped = @ + m, !.tests_skipped = @ + n]
      BY <1>2, <1>20, SkipCounts
    <3>. QED
      BY <1>2, <3>1, SummaryUpdates
  <2>. QED
    BY <1>2, <1>20, <2>1, <2>2, <2>3 DEF Skip, Places
<1>. QED
  BY <1>9, <1>10, <1>11, <1>12, <1>13, <1>14, <1>15, <1>16, <1>17, <1>18, <1>19, <1>20

---------------------------------------------------------------------------
(* Counting.  A list without repetitions has as many elements as places;   *)
(* a suite adds its tests, which are its own, to those of other suites;    *)
(* the record of a failed check adds the test it is in.                    *)

LEMMA OnceCounted ==
  ASSUME NEW X, NEW s \in Seq(X), \A i, j \in 1 .. Len(s) : s[i] = s[j] => i = j
  PROVE  IsFiniteSet(ToSet(s)) /\ Cardinality(ToSet(s)) = Len(s)
<1>1. ToSet(s) = {s[i] : i \in 1 .. Len(s)} /\ Len(s) \in Nat
  BY ToSetIs
<1> DEFINE f == [i \in 1 .. Len(s) |-> s[i]]
<1>2. f \in Bijection(1 .. Len(s), ToSet(s))
  <2>1. f \in [1 .. Len(s) -> ToSet(s)]
    BY <1>1
  <2>2. \A i, j \in 1 .. Len(s) : f[i] = f[j] => i = j
    OBVIOUS
  <2>3. \A t \in ToSet(s) : \E i \in 1 .. Len(s) : f[i] = t
    BY <1>1
  <2> HIDE DEF f
  <2>. QED
    BY <2>1, <2>2, <2>3 DEF Bijection, Injection, IsInjective, Surjection
<1>3. ExistsBijection(1 .. Len(s), ToSet(s))
  BY <1>2 DEF ExistsBijection
<1>4. IsFiniteSet(1 .. Len(s)) /\ Cardinality(1 .. Len(s)) = Len(s)
  <2>1. 1 \in Int /\ Len(s) \in Int /\ (1 > Len(s) => Len(s) = 0) /\ (Len(s) - 1) + 1 = Len(s)
    BY <1>1
  <2>. QED
    BY <2>1, FS_Interval
<1>. QED
  BY <1>3, <1>4, FS_Bijection

LEMMA TestsFinite ==
  ASSUME NEW st \in [Suites -> ASuite], NEW some \in SUBSET Suites, IsFiniteSet(some)
  PROVE  IsFiniteSet(InTests(st, some))
<1> DEFINE f == [s \in some |-> ToSet(st[s].tests)]
           sets == {ToSet(st[s].tests) : s \in some}
<1>1. f \in Surjection(some, sets)
  BY DEF Surjection
<1>2. IsFiniteSet(sets)
  BY <1>1, FS_Surjection
<1>3. ASSUME NEW s \in some
      PROVE  IsFiniteSet(ToSet(st[s].tests))
  <2>1. st[s].tests \in Seq(Tests)
    BY DEF ASuite
  <2>2. /\ Len(st[s].tests) \in Nat
        /\ ToSet(st[s].tests) = {st[s].tests[i] : i \in 1 .. Len(st[s].tests)}
    BY <2>1, ToSetIs
  <2>3. IsFiniteSet(1 .. Len(st[s].tests))
    BY <2>2, FS_Interval
  <2> DEFINE g == [i \in 1 .. Len(st[s].tests) |-> st[s].tests[i]]
  <2>4. g \in Surjection(1 .. Len(st[s].tests), ToSet(st[s].tests))
    BY <2>2 DEF Surjection
  <2>. QED
    BY <2>3, <2>4, FS_Surjection
<1>4. \A T \in sets : IsFiniteSet(T)
  BY <1>3
<1>. QED
  BY <1>2, <1>4, FS_UNION DEF InTests

LEMMA SuiteAdds ==
  ASSUME NEW st \in [Suites -> ASuite], NEW some \in SUBSET Suites, IsFiniteSet(some),
         NEW s \in some,
         \A i, j \in 1 .. Len(st[s].tests) : st[s].tests[i] = st[s].tests[j] => i = j,
         \A u \in some : u # s => ToSet(st[u].tests) \cap ToSet(st[s].tests) = {}
  PROVE  /\ Cardinality(some) = Cardinality(some \ {s}) + 1
         /\ InTests(st, some) = InTests(st, some \ {s}) \cup ToSet(st[s].tests)
         /\ Cardinality(InTests(st, some)) =
              Cardinality(InTests(st, some \ {s})) + Len(st[s].tests)
<1>1. /\ IsFiniteSet(some \ {s}) /\ Cardinality(some \ {s}) = Cardinality(some) - 1
      /\ Cardinality(some) \in Nat
  BY FS_RemoveElement, FS_CardinalityType
<1>2. IsFiniteSet(InTests(st, some \ {s}))
  BY <1>1, TestsFinite
<1>3. InTests(st, some) = InTests(st, some \ {s}) \cup ToSet(st[s].tests)
  BY DEF InTests
<1>4. InTests(st, some \ {s}) \cap ToSet(st[s].tests) = {}
  BY DEF InTests
<1>5. IsFiniteSet(ToSet(st[s].tests)) /\ Cardinality(ToSet(st[s].tests)) = Len(st[s].tests)
  <2>1. st[s].tests \in Seq(Tests)
    BY DEF ASuite
  <2>. QED
    BY <2>1, OnceCounted
<1>6. /\ Cardinality(InTests(st, some)) =
           Cardinality(InTests(st, some \ {s})) + Cardinality(ToSet(st[s].tests)) - Cardinality({})
      /\ Cardinality({}) = 0 /\ Cardinality(InTests(st, some \ {s})) \in Nat
      /\ Cardinality(ToSet(st[s].tests)) \in Nat
  BY <1>2, <1>3, <1>4, <1>5, FS_Union, FS_EmptySet, FS_CardinalityType
<1>. QED
  BY <1>1, <1>3, <1>5, <1>6

LEMMA SameTests ==
  ASSUME NEW st, NEW st2, NEW some, \A s \in some : st2[s].tests = st[s].tests
  PROVE  InTests(st2, some) = InTests(st, some)
BY DEF InTests

LEMMA RecordAdds ==
  ASSUME NEW list \in Seq(AFailure), NEW r \in AFailure
  PROVE  /\ Len(Append(list, r)) = Len(list) + 1 /\ Len(list) \in Nat
         /\ r.type # "assert" => FailedIn(Append(list, r)) = FailedIn(list)
         /\ r.type = "assert" => FailedIn(Append(list, r)) = FailedIn(list) \cup ({r.test} \ {None})
<1>1. /\ Len(list) \in Nat /\ Len(Append(list, r)) = Len(list) + 1
      /\ \A i \in 1 .. Len(list) : Append(list, r)[i] = list[i]
      /\ Append(list, r)[Len(list) + 1] = r
  OBVIOUS
<1> DEFINE asserts(l) == {j \in 1 .. Len(l) : l[j].type = "assert"}
<1>2. asserts(Append(list, r)) =
        asserts(list) \cup (IF r.type = "assert" THEN {Len(list) + 1} ELSE {})
  BY <1>1
<1>3. \A i \in asserts(list) : Append(list, r)[i] = list[i]
  BY <1>1
<1>4. FailedIn(list) = {list[i].test : i \in asserts(list)} \ {None}
      /\ FailedIn(Append(list, r)) =
           {Append(list, r)[i].test : i \in asserts(Append(list, r))} \ {None}
  BY DEF FailedIn
<1> HIDE DEF asserts
<1>5. CASE r.type # "assert"
  <2>1. {Append(list, r)[i].test : i \in asserts(list)} = {list[i].test : i \in asserts(list)}
    BY <1>3
  <2>. QED
    BY <1>1, <1>2, <1>4, <1>5, <2>1
<1>6. CASE r.type = "assert"
  <2>1. {Append(list, r)[i].test : i \in asserts(list) \cup {Len(list) + 1}} =
          {list[i].test : i \in asserts(list)} \cup {r.test}
    BY <1>1, <1>3
  <2>. QED
    BY <1>1, <1>2, <1>4, <1>6, <2>1
<1>. QED
  BY <1>5, <1>6

LEMMA FailedOfNone == FailedIn(<<>>) = {}
BY DEF FailedIn

---------------------------------------------------------------------------
(* Steps that leave the tests and the functions of the suites as they are: *)
(* all but Register.                                                       *)
Kept ==
    /\ suites' = suites
    /\ \A s \in Suites : suite'[s].tests = suite[s].tests /\ suite'[s].fixture = suite[s].fixture

LEMMA KeptIs ==
  ASSUME Typed, Registered, Kept
  PROVE  /\ ToSet(suites) \subseteq Suites /\ ToSet(suites') = ToSet(suites)
         /\ called.entered \in SUBSET Suites /\ IsFiniteSet(called.entered)
         /\ \A s \in Suites : /\ suite[s].tests \in Seq(Tests)
                              /\ suite'[s].tests = suite[s].tests
                              /\ suite'[s].fixture = suite[s].fixture
         /\ \A some \in SUBSET Suites : InTests(suite', some) = InTests(suite, some)
<1>1. ToSet(suites) \subseteq Suites /\ IsFiniteSet(ToSet(suites))
  BY OnceCounted, ToSetIs DEF Typed, Registered
<1>2. called.entered \in SUBSET Suites /\ IsFiniteSet(called.entered)
  BY <1>1, FS_Subset DEF Registered
<1>3. ASSUME NEW s \in Suites
      PROVE  suite[s].tests \in Seq(Tests)
  BY DEF Typed, ASuite
<1>4. \A some \in SUBSET Suites : InTests(suite', some) = InTests(suite, some)
  BY SameTests DEF Kept
<1>. QED
  BY <1>1, <1>2, <1>3, <1>4 DEF Kept

LEMMA RegisteredKept ==
  ASSUME Typed, Registered, Kept, called'.entered \subseteq ToSet(suites),
         suites = <<>> => called'.began = {}
  PROVE  Registered'
<1>1. ToSet(suites) \subseteq Suites
  BY KeptIs
<1>2. /\ \A s \in ToSet(suites) : suite'[s].tests = suite[s].tests
      /\ suites' = suites
  BY <1>1 DEF Kept
<1>. QED
  BY <1>2, Zenon DEF Registered, TestsOf

LEMMA RunningKept ==
  ASSUME Typed, Registered, Kept, NEW r \in ARun, Running(r), NEW q \in ARun,
         q.of = r.of, q.suite = r.suite, q.pos = r.pos, q.first = r.first,
         q.of = "test" => q.test = r.test,
         UNCHANGED <<fail_on_inactive, ignore>>,
         called'.inactive_fails = called.inactive_fails, called'.ignores = called.ignores,
         called'.entered \subseteq called.entered \cup {r.suite}
  PROVE  Running(q)'
<1>1. ToSet(suites') = ToSet(suites) /\ suites' = suites
      /\ suite'[r.suite].tests = suite[r.suite].tests
  BY KeptIs DEF Running, Kept
<1>2. q.of = "test" => q.test \in TestsOf(q.suite)'
  BY <1>1 DEF Running, TestsOf
<1>3. ASSUME q.of = "all"
      PROVE  /\ q.pos \in 1 .. Len(suites') /\ suites'[q.pos] = q.suite
             /\ \A s \in called'.entered : \E i \in 1 .. q.pos : suites'[i] = s
  <2>1. r.pos \in 1 .. Len(suites) /\ r.pos \in 1 .. r.pos /\ suites[r.pos] = r.suite
    BY <1>3 DEF Running, ARun
  <2>2. \A s \in called.entered : \E i \in 1 .. r.pos : suites[i] = s
    BY <1>3 DEF Running
  <2>. QED
    BY <1>1, <2>1, <2>2
<1>4. q.of # "all" => called'.entered \subseteq {q.suite}
  BY DEF Running
<1>. QED
  BY <1>1, <1>2, <1>3, <1>4 DEF Running

(* A suite is over: the next one is ahead, or the run is over.             *)
LEMMA SuiteOverKeeps ==
  ASSUME Typed, Typed', Registered, NEW r \in ARun, r = run, NEW result \in Results,
         SuiteOver(result), TestsOver(r, {}, result)', UNCHANGED <<suites, ignore>>
  PROVE  /\ at' \in {"idle", "suite"}
         /\ at' = "idle" => Over'
         /\ at' = "suite" => Ahead(run)' /\ run'.of # "test"
<1> DEFINE first == IF r.first = "success" THEN result ELSE r.first
           next == IF r.of = "all" /\ r.pos < Len(suites) /\ (first = "success" \/ ignore)
                   THEN r.pos + 1 ELSE 0
<1>1. PICK q : q = run'
  OBVIOUS
<1>2. /\ at' = IF next = 0 THEN "idle" ELSE "suite"
      /\ q = [r EXCEPT !.first = first, !.result = "success", !.pos = next,
                       !.suite = IF next = 0 THEN r.suite ELSE suites[next]]
  BY <1>1 DEF SuiteOver, S
<1>3. /\ q \in ARun /\ q.of = r.of /\ q.first = first /\ q.result = "success" /\ q.pos = next
      /\ q.suite = (IF next = 0 THEN r.suite ELSE suites[next])
  BY <1>1, <1>2 DEF ARun, Typed
<1>4. /\ next # 0 => /\ r.of = "all" /\ (first = "success" \/ ignore) /\ next \in 1 .. Len(suites)
                     /\ next = r.pos + 1
      /\ first = "success" => r.first = "success" /\ result = "success"
      /\ r.pos \in Nat /\ Len(suites) \in Nat
  BY DEF Typed, ARun
<1> HIDE DEF first, next
<1>5. /\ Cleaned({})' /\ Torn({}, {})' /\ Failed(q.of, {})' /\ Running(r)'
      /\ r.of # "test" =>
           /\ FailedIn(failures') \subseteq TestsIn(called.entered)'
           /\ ignore' \/ (r.first = "success" /\ result = "success") =>
                  Accounted(called.entered, 0)'
  BY <1>3 DEF TestsOver
<1>6. Over'
  <2>1. called'.ignores = ignore'
    BY <1>5 DEF Running
  <2>2. q.of # "test" /\ (called'.ignores \/ q.first = "success") => Accounted(called.entered, 0)'
    BY <1>3, <1>4, <1>5, <2>1
  <2>. QED
    BY <1>1, <1>3, <1>5, <2>2 DEF Over
<1>7. ASSUME next # 0
      PROVE  Ahead(q)'
  <2>1. /\ r.of = "all" /\ next \in 1 .. Len(suites) /\ next = r.pos + 1 /\ r.pos \in Nat
        /\ q.suite = suites[next] /\ (q.first = "success" \/ ignore) /\ suites' = suites
    BY <1>3, <1>4, <1>7
  <2>2. \A s \in called'.entered : \E i \in 1 .. r.pos : suites[i] = s
    BY <1>5, <2>1 DEF Running
  <2>3. q.suite \notin called'.entered
    <3>1. \A i \in 1 .. r.pos : i \in 1 .. Len(suites) /\ i # next
      BY <2>1, <1>4
    <3>. QED
      BY <2>1, <2>2, <3>1 DEF Registered
  <2>4. \A s \in called'.entered : \E i \in 1 .. next : suites'[i] = s
    <3>1. \A i \in 1 .. r.pos : i \in 1 .. next
      BY <2>1
    <3>. QED
      BY <2>1, <2>2, <3>1
  <2>5. q.suite \in ToSet(suites')
    BY <2>1, ToSetIs DEF Typed
  <2>6. Running(q)'
    BY <1>3, <1>5, <2>1, <2>4, <2>5 DEF Running
  <2>7. Accounted(called.entered, 0)'
    BY <1>3, <1>4, <1>5, <2>1
  <2>. QED
    BY <1>3, <1>5, <2>1, <2>3, <2>6, <2>7 DEF Ahead
<1>. QED
  BY <1>1, <1>2, <1>3, <1>4, <1>6, <1>7

LEMMA RecordedKept ==
  ASSUME Typed, FailuresRecorded, failures' = failures,
         called'.inactive_fails = called.inactive_fails,
         summary'.asserts_failed = summary.asserts_failed,
         summary'.suites_failed = summary.suites_failed,
         summary'.suites_inactive = summary.suites_inactive,
         summary'.tests_inactive = summary.tests_inactive
  PROVE  FailuresRecorded'
BY DEF FailuresRecorded

(* Where a test has been run.                                              *)
AfterATest ==
    /\ at' \in {"tests", "tests_done"}
    /\ at' = "tests" => AtTests(run)'
    /\ at' = "tests_done" =>
         (run.suite \in called.entered /\ TestsOver(run, {run.suite}, run.result))'

(* r is of the same run as the record at hand, in the same suite.          *)
SameRun(r) ==
    /\ r.of = run.of /\ r.suite = run.suite /\ r.pos = run.pos /\ r.first = run.first
    /\ r.k = run.k /\ (r.of = "test" => r.test = run.test)

LEMMA AfterTestIs ==
  ASSUME Typed, NEW result \in Results, AfterTest(result)
  PROVE  /\ run' \in ARun /\ run'.of = run.of /\ run'.suite = run.suite /\ run'.pos = run.pos
         /\ run'.first = run.first
         /\ run.of = "test" => at' = "tests_done" /\ run'.test = run.test
         /\ run.of # "test" => at' = "tests" /\ run'.k = run.k + 1
<1>1. run' \in ARun
  BY AfterTestTyped
<1>. QED
  BY <1>1 DEF AfterTest, Typed, ARun

LEMMA FinishKeeps ==
  ASSUME Typed, Typed', Registered, FailuresRecorded, Kept,
         UNCHANGED <<failures, called, fail_on_inactive, ignore>>,
         NEW r \in ARun, SameRun(r), InATest(r), Torn({}, {})', Finish(r)
  PROVE  AfterATest /\ FailuresRecorded'
<1>1. PICK q : q = run'
  OBVIOUS
<1>2. r.suite \in Suites /\ r.test \in Tests /\ r.suite \in called.entered
  <2>1. r.suite \in called.entered /\ r.suite \in Suites /\ suite[r.suite].tests \in Seq(Tests)
    BY KeptIs DEF InATest
  <2>2. ToSet(suite[r.suite].tests) \subseteq Tests
    BY <2>1, ToSetIs
  <2>. QED
    BY <2>1, <2>2 DEF InATest, TestsOf
<1>3. /\ q \in ARun /\ q.of = r.of /\ q.suite = r.suite /\ q.pos = r.pos /\ q.first = r.first
      /\ r.of = "test" => at' = "tests_done" /\ q.test = r.test
      /\ r.of # "test" => at' = "tests" /\ q.k = r.k + 1
  <2>1. AfterTest("success") /\ "success" \in Results
    BY Zenon DEF Finish, Results
  <2>. QED
    BY <1>1, <2>1, AfterTestIs DEF SameRun
<1>4. PICK n \in {0, 1} :
        /\ n = IF Len(failures) > r.start THEN 1 ELSE 0
        /\ summary' = [summary EXCEPT !.tests_run = @ + 1, !.tests_failed = @ + n]
  BY <1>2, FinishIs
<1>5. /\ summary'.tests_run = summary.tests_run + 1
      /\ summary'.tests_failed = summary.tests_failed + n
      /\ summary'.suites_run = summary.suites_run
      /\ summary'.tests_inactive = summary.tests_inactive
      /\ summary'.asserts_failed = summary.asserts_failed
      /\ summary'.suites_failed = summary.suites_failed
      /\ summary'.suites_inactive = summary.suites_inactive
      /\ summary.tests_run \in Nat /\ summary.tests_failed \in Nat
      /\ summary.tests_inactive \in Nat
  BY <1>4 DEF Typed, ASummary
<1>6. FailuresRecorded'
  BY <1>5, RecordedKept
<1>7. Running(q)'
  BY <1>2, <1>3, RunningKept DEF InATest
<1>8. Cleaned({q.suite})'
  <2>1. called'.cleaned = {s \in called'.entered \ {q.suite} : "cleanup" \in suite[s].fixture}
    BY <1>3 DEF InATest, Cleaned
  <2>2. \A s \in called'.entered \ {q.suite} : suite'[s].fixture = suite[s].fixture
    BY KeptIs
  <2>. QED
    BY <2>1, <2>2 DEF Cleaned
<1>9. Failed(q.of, {})'
  <2> DEFINE F == FailedIn(failures)
  <2>1. IsFiniteSet(F) /\ (n = 1 <=> r.test \in F)
    BY <1>4 DEF InATest, Failed, Typed, ARun
  <2>2. Cardinality(F) = Cardinality(F \ {r.test}) + n /\ Cardinality(F \ {r.test}) \in Nat
    <3>1. Cardinality(F) \in Nat /\ Cardinality(F \ {r.test}) \in Nat
      BY <2>1, FS_RemoveElement, FS_CardinalityType
    <3>2. Cardinality(F \ {r.test}) = IF r.test \in F THEN Cardinality(F) - 1 ELSE Cardinality(F)
      BY <2>1, FS_RemoveElement
    <3> HIDE DEF F
    <3>. QED
      BY <1>4, <2>1, <3>1, <3>2
  <2>3. summary.tests_failed =
          Cardinality(F \ {r.test})
          + IF r.of = "test" /\ called.inactive_fails THEN summary.tests_inactive ELSE 0
    BY DEF InATest, Failed
  <2>4. FailedIn(failures') = F /\ F \ {} = F
    OBVIOUS
  <2> HIDE DEF F
  <2>5. summary'.tests_failed =
          Cardinality(F)
          + IF r.of = "test" /\ called.inactive_fails THEN summary.tests_inactive ELSE 0
    BY <1>5, <2>2, <2>3
  <2>. QED
    BY <1>3, <1>5, <2>1, <2>4, <2>5 DEF Failed
<1>10. CASE r.of # "test"
  <2>1. /\ r.k \in 1 .. Len(suite[r.suite].tests)
        /\ FailedIn(failures) \subseteq
             TestsIn(called.entered \ {r.suite}) \cup FirstOf(suite[r.suite].tests, r.k)
        /\ Accounted(called.entered \ {r.suite}, r.k - 1)
    BY <1>10 DEF InATest
  <2>2. /\ suite'[q.suite].tests = suite[r.suite].tests /\ Len(suite[r.suite].tests) \in Nat
        /\ InTests(suite', called.entered \ {r.suite}) = InTests(suite, called.entered \ {r.suite})
    BY <1>2, <1>3, KeptIs
  <2>3. q.k \in 1 .. Len(suite'[q.suite].tests) + 1 /\ q.k - 1 = r.k
    BY <1>3, <1>10, <2>1, <2>2
  <2>4. FailedIn(failures') \subseteq
          TestsIn(called.entered \ {q.suite})' \cup FirstOf(suite'[q.suite].tests, q.k - 1)
    BY <1>3, <2>1, <2>2, <2>3 DEF TestsIn
  <2>5. Accounted(called.entered \ {q.suite}, q.k - 1)'
    <3>1. /\ summary.suites_run = Cardinality(called.entered \ {r.suite})
          /\ summary.tests_run + summary.tests_inactive =
               Cardinality(InTests(suite, called.entered \ {r.suite})) + (r.k - 1)
          /\ r.k \in Nat
      BY <2>1 DEF Accounted, TestsIn, ARun
    <3>2. IsFiniteSet(called.entered \ {r.suite}) /\ called.entered \ {r.suite} \in SUBSET Suites
      BY KeptIs, FS_Subset
    <3>3. Cardinality(InTests(suite, called.entered \ {r.suite})) \in Nat
      BY <3>2, TestsFinite, FS_CardinalityType DEF Typed
    <3>4. summary'.tests_run + summary'.tests_inactive =
            Cardinality(InTests(suite, called.entered \ {r.suite})) + (q.k - 1)
      <4>1. PICK c \in Nat : c = Cardinality(InTests(suite, called.entered \ {r.suite}))
        BY <3>3
      <4>2. /\ summary.tests_run + summary.tests_inactive = c + (r.k - 1) /\ r.k \in Nat
            /\ q.k = r.k + 1
        BY <1>3, <1>10, <3>1, <4>1
      <4>3. summary'.tests_run + summary'.tests_inactive =
              (summary.tests_run + summary.tests_inactive) + 1
        BY <1>5
      <4>4. summary'.tests_run + summary'.tests_inactive = c + (q.k - 1)
        BY <4>2, <4>3
      <4>. QED
        BY <4>1, <4>4
    <3>. QED
      BY <1>3, <1>5, <2>2, <3>1, <3>4 DEF Accounted, TestsIn
  <2>6. AtTests(q)'
    BY <1>2, <1>3, <1>7, <1>8, <1>9, <1>10, <2>3, <2>4, <2>5 DEF AtTests
  <2>. QED
    BY <1>1, <1>3, <1>6, <1>10, <2>6 DEF AfterATest
<1>11. CASE r.of = "test"
  <2>1. TestsOver(q, {q.suite}, q.result)'
    BY <1>3, <1>7, <1>8, <1>9, <1>11 DEF TestsOver
  <2>. QED
    BY <1>1, <1>2, <1>3, <1>6, <1>11, <2>1 DEF AfterATest
<1>. QED
  BY <1>10, <1>11

(* A test stays in progress: a check of its own may have been added.       *)
LEMMA InATestKept ==
  ASSUME Typed, Registered, Kept, UNCHANGED <<fail_on_inactive, ignore>>,
         called'.inactive_fails = called.inactive_fails, called'.ignores = called.ignores,
         called'.entered = called.entered, called'.cleaned = called.cleaned,
         summary'.suites_run = summary.suites_run, summary'.tests_run = summary.tests_run,
         summary'.tests_inactive = summary.tests_inactive,
         summary'.tests_failed = summary.tests_failed,
         NEW r \in ARun, InATest(r), NEW q \in ARun,
         q.of = r.of, q.suite = r.suite, q.pos = r.pos, q.first = r.first, q.k = r.k,
         q.test = r.test, q.start = r.start,
         \/ failures' = failures
         \/ /\ FailedIn(failures') = FailedIn(failures) \cup {r.test}
            /\ Len(failures') = Len(failures) + 1
  PROVE  InATest(q)'
<1>1. r.suite \in called.entered /\ r.suite \in Suites
  BY KeptIs DEF InATest
<1>2. Running(q)'
  BY RunningKept DEF InATest
<1>3. Cleaned({q.suite})'
  <2>1. called'.cleaned = {s \in called'.entered \ {q.suite} : "cleanup" \in suite[s].fixture}
    BY DEF InATest, Cleaned
  <2>2. \A s \in called'.entered \ {q.suite} : suite'[s].fixture = suite[s].fixture
    BY KeptIs
  <2>. QED
    BY <2>1, <2>2 DEF Cleaned
<1>4. /\ FailedIn(failures') \ {q.test} = FailedIn(failures) \ {r.test}
      /\ FailedIn(failures') \subseteq FailedIn(failures) \cup {r.test}
      /\ IsFiniteSet(FailedIn(failures'))
      /\ q.start <= Len(failures')
      /\ q.start < Len(failures') <=> q.test \in FailedIn(failures')
  <2>1. /\ IsFiniteSet(FailedIn(failures)) /\ r.start <= Len(failures)
        /\ r.start < Len(failures) <=> r.test \in FailedIn(failures)
        /\ Len(failures) \in Nat /\ r.start \in Nat
    BY DEF InATest, Failed, Typed, ARun
  <2>2. CASE failures' = failures
    BY <2>1, <2>2
  <2>3. CASE /\ FailedIn(failures') = FailedIn(failures) \cup {r.test}
             /\ Len(failures') = Len(failures) + 1
    <3>1. IsFiniteSet(FailedIn(failures'))
      BY <2>1, <2>3, FS_AddElement
    <3>2. /\ r.test \in FailedIn(failures')
          /\ FailedIn(failures') \ {r.test} = FailedIn(failures) \ {r.test}
      BY <2>3
    <3>3. r.start < Len(failures') /\ r.start <= Len(failures')
      BY <2>1, <2>3
    <3>. QED
      BY <2>3, <3>1, <3>2, <3>3, Zenon
  <2>. QED
    BY <2>2, <2>3
<1>5. Failed(q.of, {q.test})'
  BY <1>4 DEF InATest, Failed
<1>6. q.test \in TestsOf(q.suite)'
  BY <1>1, KeptIs DEF InATest, TestsOf
<1>7. ASSUME q.of # "test"
      PROVE  /\ q.k \in 1 .. Len(suite'[q.suite].tests) /\ q.test = suite'[q.suite].tests[q.k]
             /\ FailedIn(failures') \subseteq TestsIn(called.entered \ {q.suite})'
                                              \cup FirstOf(suite'[q.suite].tests, q.k)
             /\ Accounted(called.entered \ {q.suite}, q.k - 1)'
  <2>1. /\ r.k \in 1 .. Len(suite[r.suite].tests) /\ r.test = suite[r.suite].tests[r.k]
        /\ FailedIn(failures) \subseteq
             TestsIn(called.entered \ {r.suite}) \cup FirstOf(suite[r.suite].tests, r.k)
        /\ Accounted(called.entered \ {r.suite}, r.k - 1)
    BY <1>7 DEF InATest
  <2>2. /\ suite'[q.suite].tests = suite[r.suite].tests
        /\ InTests(suite', called.entered \ {r.suite}) = InTests(suite, called.entered \ {r.suite})
    BY <1>1, KeptIs
  <2>3. r.test \in FirstOf(suite[r.suite].tests, r.k)
    <3>1. r.k \in 1 .. r.k
      BY <2>1 DEF ARun
    <3>. QED
      BY <2>1, <3>1 DEF FirstOf
  <2>4. FailedIn(failures') \subseteq TestsIn(called.entered \ {q.suite})'
                                      \cup FirstOf(suite'[q.suite].tests, q.k)
    BY <1>4, <2>1, <2>2, <2>3 DEF TestsIn
  <2>5. Accounted(called.entered \ {q.suite}, q.k - 1)'
    BY <2>1, <2>2 DEF Accounted, TestsIn
  <2>. QED
    BY <2>1, <2>2, <2>4, <2>5
<1>. QED
  BY <1>1, <1>2, <1>3, <1>4, <1>5, <1>6, <1>7 DEF InATest

(* Where a run is after it went on in a test.                              *)
Onward ==
    /\ at' \in {"setup", "test", "teardown", "tests", "tests_done"}
    /\ at' \in {"setup", "test"} => InATest(run)' /\ Torn({}, {run.test})'
    /\ at' = "teardown" =>
         (InATest(run) /\ Torn({run.suite}, {}) /\ suite[run.suite].in_test_clean)'
    /\ at' \in {"tests", "tests_done"} => AfterATest

LEMMA TearDownKeeps ==
  ASSUME Typed, Typed', Registered, FailuresRecorded, Kept,
         UNCHANGED <<failures, fail_on_inactive, ignore>>,
         NEW r \in ARun, SameRun(r), InATest(r), Torn({}, {r.test}), TearDown(r)
  PROVE  Onward /\ FailuresRecorded'
<1>1. /\ r.suite \in Suites /\ r.suite \in ToSet(suites) /\ r.suite = S
      /\ ToSet(suites) \subseteq Suites
      /\ suites' = suites
  BY KeptIs DEF InATest, Running, SameRun, S, Kept
<1>2. CASE Has("teardown") /\ ~ suite[S].in_test_clean
  <2>1. /\ at' = "teardown" /\ run' = r /\ summary' = summary
        /\ suite' = [suite EXCEPT ![r.suite].in_test_clean = TRUE]
        /\ called' = [called EXCEPT !.torn = @ \cup {r.test}]
    BY <1>1, <1>2, Zenon DEF TearDown
  <2>2. /\ called'.inactive_fails = called.inactive_fails /\ called'.ignores = called.ignores
        /\ called'.entered = called.entered /\ called'.cleaned = called.cleaned
        /\ called'.began = called.began /\ called'.torn = called.torn \cup {r.test}
    BY <2>1 DEF Typed, ACalled
  <2>3. InATest(r)'
    BY <2>1, <2>2, InATestKept
  <2>4. /\ suite'[r.suite].in_test_clean
        /\ \A s \in Suites : s # r.suite => suite'[s] = suite[s]
    <3>1. suite \in [Suites -> ASuite] /\ suite[r.suite] \in ASuite
      BY <1>1 DEF Typed
    <3>2. suite'[r.suite] = [suite[r.suite] EXCEPT !.in_test_clean = TRUE]
      BY <1>1, <2>1, <3>1
    <3>3. suite'[r.suite].in_test_clean
      BY <3>1, <3>2 DEF ASuite
    <3>4. \A s \in Suites : s # r.suite => suite'[s] = suite[s]
      BY <2>1, <3>1
    <3>. QED
      BY <3>3, <3>4
  <2>5. Torn({r.suite}, {})'
    <3>1. ASSUME NEW s \in ToSet(suites), "teardown" \in suite'[s].fixture,
                 ~ suite'[s].in_test_clean \/ s \in {r.suite}
          PROVE  called'.began \cap ToSet(suite'[s].tests) \subseteq called'.torn \cup {}
      <4>1. s \in Suites /\ suite'[s].fixture = suite[s].fixture /\ suite'[s].tests = suite[s].tests
        BY <1>1, KeptIs
      <4>2. ~ suite[s].in_test_clean
        BY <1>1, <1>2, <2>4, <3>1, <4>1
      <4>3. called.began \cap ToSet(suite[s].tests) \subseteq called.torn \cup {r.test}
        BY <3>1, <4>1, <4>2 DEF Torn, TestsOf
      <4>. QED
        BY <2>2, <4>1, <4>3
    <3>. QED
      BY <1>1, <3>1 DEF Torn, TestsOf
  <2>6. FailuresRecorded'
    BY <2>1, <2>2, RecordedKept
  <2>. QED
    BY <2>1, <2>3, <2>4, <2>5, <2>6 DEF Onward
<1>3. CASE ~ (Has("teardown") /\ ~ suite[S].in_test_clean)
  <2>1. Finish(r) /\ UNCHANGED <<suite, called>>
    BY <1>3, Zenon DEF TearDown
  <2>2. Torn({}, {})'
    <3>1. ASSUME NEW s \in ToSet(suites), "teardown" \in suite[s].fixture,
                 ~ suite[s].in_test_clean
          PROVE  called.began \cap ToSet(suite[s].tests) \subseteq called.torn \cup {}
      <4>1. s # r.suite
        BY <1>1, <1>3, <3>1 DEF Has
      <4>2. r.test \notin ToSet(suite[s].tests)
        BY <1>1, <4>1 DEF InATest, TestsOf, Registered
      <4>3. called.began \cap ToSet(suite[s].tests) \subseteq called.torn \cup {r.test}
        BY <3>1 DEF Torn, TestsOf
      <4>. QED
        BY <4>2, <4>3
    <3>. QED
      BY <1>1, <2>1, <3>1 DEF Torn, TestsOf
  <2>. QED
    BY <2>1, <2>2, FinishKeeps DEF Onward, AfterATest
<1>. QED
  BY <1>2, <1>3

LEMMA BodyKeeps ==
  ASSUME Typed, Typed', Registered, FailuresRecorded, Kept,
         UNCHANGED <<failures, fail_on_inactive, ignore>>,
         NEW r \in ARun, InATest(r), Torn({}, {r.test}), Body(r)
  PROVE  Onward /\ FailuresRecorded'
<1>1. PICK q : q = run'
  OBVIOUS
<1>2. /\ q = [r EXCEPT !.jump = TRUE] /\ at' = "test" /\ suite' = suite /\ summary' = summary
      /\ called' = [called EXCEPT !.began = @ \cup {r.test}]
  BY <1>1 DEF Body
<1>3. /\ q \in ARun /\ q.of = r.of /\ q.suite = r.suite /\ q.pos = r.pos /\ q.first = r.first
      /\ q.k = r.k /\ q.test = r.test /\ q.start = r.start
  BY <1>2 DEF ARun
<1>4. /\ called'.inactive_fails = called.inactive_fails /\ called'.ignores = called.ignores
      /\ called'.entered = called.entered /\ called'.cleaned = called.cleaned
      /\ called'.began = called.began \cup {r.test} /\ called'.torn = called.torn
  BY <1>2 DEF Typed, ACalled
<1>5. InATest(q)'
  BY <1>2, <1>3, <1>4, InATestKept
<1>6. Torn({}, {q.test})'
  <2>1. suites' = suites
    BY DEF Kept
  <2>. QED
    BY <1>2, <1>3, <1>4, <2>1 DEF Torn, TestsOf
<1>7. FailuresRecorded'
  BY <1>2, <1>4, RecordedKept
<1>. QED
  BY <1>1, <1>2, <1>5, <1>6, <1>7 DEF Onward

(* A test begins: it has no failed check yet.                              *)
LEMMA BeginsInATest ==
  ASSUME Typed, Registered, NEW r \in ARun, NEW t \in Tests,
         r.of = run.of, r.suite = run.suite, r.pos = run.pos, r.first = run.first,
         r.k = run.k, r.test = t, r.start = Len(failures),
         \/ /\ AtTests(run) /\ run.k <= Len(suite[run.suite].tests)
            /\ t = suite[run.suite].tests[run.k]
         \/ AtRunTest(run) /\ t = run.test
  PROVE  InATest(r) /\ Torn({}, {}) /\ SameRun(r) /\ r.test = t /\ r.suite = run.suite
<1>1. /\ r.of = run.of /\ r.suite = run.suite /\ r.pos = run.pos /\ r.first = run.first
      /\ r.k = run.k /\ r.test = t /\ r.start = Len(failures) /\ Len(failures) \in Nat
  BY DEF Typed, ARun
<1>2. /\ Running(run) /\ run.suite \in called.entered /\ Cleaned({run.suite}) /\ Torn({}, {})
      /\ Failed(run.of, {}) /\ IsFiniteSet(FailedIn(failures))
  BY DEF AtTests, AtRunTest, Failed
<1>3. /\ run.suite \in Suites /\ run.suite \in ToSet(suites)
      /\ suite[run.suite].tests \in Seq(Tests)
      /\ ToSet(suites) \subseteq Suites /\ called.entered \subseteq ToSet(suites)
  BY <1>2, ToSetIs DEF Running, Typed, ASuite, Registered
<1>4. CASE AtTests(run) /\ run.k <= Len(suite[run.suite].tests) /\ t = suite[run.suite].tests[run.k]
  <2> DEFINE tests == suite[run.suite].tests
             earlier == called.entered \ {run.suite}
  <2>1. /\ run.of # "test" /\ run.k \in 1 .. Len(tests) /\ t = tests[run.k] /\ Len(tests) \in Nat
        /\ FailedIn(failures) \subseteq InTests(suite, earlier) \cup FirstOf(tests, run.k - 1)
        /\ Accounted(earlier, run.k - 1)
    <3>1. /\ run.of # "test" /\ run.k \in 1 .. Len(tests) + 1
          /\ FailedIn(failures) \subseteq TestsIn(earlier) \cup FirstOf(tests, run.k - 1)
          /\ Accounted(earlier, run.k - 1)
      BY <1>4 DEF AtTests
    <3>2. Len(tests) \in Nat /\ run.k <= Len(tests) /\ t = tests[run.k]
      BY <1>3, <1>4
    <3>3. run.k \in 1 .. Len(tests)
      BY <3>1, <3>2
    <3>. QED
      BY <3>1, <3>2, <3>3, Zenon DEF TestsIn
  <2>2. t \in ToSet(tests)
    BY <1>3, <2>1, ToSetIs
  <2>3. t \notin FirstOf(tests, run.k - 1)
    <3>1. ASSUME NEW m \in 1 .. run.k - 1
          PROVE  tests[m] # t
      <4>1. m \in 1 .. Len(tests) /\ m # run.k
        BY <2>1
      <4>. QED
        BY <1>3, <2>1, <4>1 DEF Registered
    <3>. QED
      BY <3>1 DEF FirstOf
  <2>4. t \notin InTests(suite, earlier)
    <3>1. ASSUME NEW s \in earlier
          PROVE  t \notin ToSet(suite[s].tests)
      <4>1. s \in ToSet(suites) /\ s # run.suite
        BY <1>3
      <4>2. TestsOf(s) \cap TestsOf(run.suite) = {}
        BY <1>3, <4>1, Zenon DEF Registered
      <4>. QED
        BY <2>2, <4>2 DEF TestsOf
    <3>. QED
      BY <3>1 DEF InTests
  <2>5. FirstOf(tests, run.k - 1) \subseteq FirstOf(tests, run.k)
    BY <2>1 DEF FirstOf
  <2>6. t \notin FailedIn(failures) /\ FailedIn(failures) \ {t} = FailedIn(failures)
        /\ FailedIn(failures) \ {} = FailedIn(failures)
    BY <2>1, <2>3, <2>4
  <2>7. Failed(r.of, {r.test})
    BY <1>1, <1>2, <2>6 DEF Failed
  <2>8. Running(r)
    BY <1>1, <1>2, <2>1 DEF Running
  <2>9. InATest(r)
    <3>1. /\ r.start <= Len(failures) /\ ~ (r.start < Len(failures))
          /\ r.test \notin FailedIn(failures)
      BY <1>1, <2>6
    <3>2. FailedIn(failures) \subseteq InTests(suite, earlier) \cup FirstOf(tests, run.k)
      BY <2>1, <2>5
    <3>3. /\ r.k \in 1 .. Len(suite[r.suite].tests) /\ r.test = suite[r.suite].tests[r.k]
          /\ FailedIn(failures) \subseteq
               TestsIn(called.entered \ {r.suite}) \cup FirstOf(suite[r.suite].tests, r.k)
          /\ Accounted(called.entered \ {r.suite}, r.k - 1)
      BY <1>1, <2>1, <3>2 DEF TestsIn
    <3>4. r.suite \in called.entered /\ r.test \in TestsOf(r.suite) /\ Cleaned({r.suite})
      BY <1>1, <1>2, <2>2 DEF TestsOf
    <3>. QED
      BY <2>7, <2>8, <3>1, <3>3, <3>4, Zenon DEF InATest
  <2>. QED
    BY <1>1, <1>2, <2>1, <2>9 DEF SameRun
<1>5. CASE AtRunTest(run) /\ t = run.test
  <2>1. run.of = "test" /\ FailedIn(failures) = {} /\ t \in TestsOf(run.suite)
    BY <1>5 DEF AtRunTest, Running
  <2>2. {} \ {t} = {} /\ {} \ {} = {}
    OBVIOUS
  <2>3. Failed(r.of, {r.test})
    BY <1>1, <1>2, <2>1, <2>2 DEF Failed
  <2>4. Running(r)
    BY <1>1, <1>2, <1>5 DEF Running
  <2>5. r.start <= Len(failures) /\ ~ (r.start < Len(failures))
    BY <1>1
  <2>6. InATest(r)
    BY <1>1, <1>2, <2>1, <2>3, <2>4, <2>5 DEF InATest
  <2>. QED
    BY <1>1, <1>2, <1>5, <2>6 DEF SameRun
<1>. QED
  BY <1>4, <1>5

LEMMA TestStartsKeeps ==
  ASSUME Typed, Typed', Registered, FailuresRecorded, Kept,
         UNCHANGED <<failures, fail_on_inactive, ignore>>, NEW t \in Tests, TestStarts(t),
         \/ /\ AtTests(run) /\ run.k <= Len(suite[run.suite].tests)
            /\ t = suite[run.suite].tests[run.k]
         \/ AtRunTest(run) /\ t = run.test
  PROVE  Onward /\ FailuresRecorded'
<1>1. PICK r : r = [run EXCEPT !.test = t, !.start = Len(failures)]
  OBVIOUS
<1>2. r \in ARun
  <2>1. run \in ARun /\ Len(failures) \in Nat
    BY DEF Typed
  <2>. QED
    BY <1>1, <2>1 DEF ARun
<1>3. InATest(r) /\ Torn({}, {}) /\ SameRun(r) /\ r.test = t
  <2>1. /\ r.of = run.of /\ r.suite = run.suite /\ r.pos = run.pos /\ r.first = run.first
        /\ r.k = run.k /\ r.test = t /\ r.start = Len(failures)
    BY <1>1 DEF Typed, ARun
  <2>. QED
    BY <1>2, <2>1, BeginsInATest
<1>4. Torn({}, {r.test})
  BY <1>3 DEF Torn
<1>5. \/ Finish(r) /\ UNCHANGED <<suite, called>>
      \/ /\ at' = "setup" /\ run' = r /\ called' = [called EXCEPT !.began = @ \cup {t}]
         /\ UNCHANGED <<suite, test, summary>>
      \/ TearDown(r)
      \/ Body(r)
  BY <1>1 DEF TestStarts
<1>6. CASE Finish(r) /\ UNCHANGED <<suite, called>>
  <2>1. Torn({}, {})'
    BY <1>3, <1>6 DEF Torn, TestsOf, Kept
  <2>. QED
    BY <1>2, <1>3, <1>6, <2>1, FinishKeeps DEF Onward, AfterATest
<1>7. CASE /\ at' = "setup" /\ run' = r /\ called' = [called EXCEPT !.began = @ \cup {t}]
           /\ UNCHANGED <<suite, test, summary>>
  <2>1. /\ called'.inactive_fails = called.inactive_fails /\ called'.ignores = called.ignores
        /\ called'.entered = called.entered /\ called'.cleaned = called.cleaned
        /\ called'.began = called.began \cup {r.test} /\ called'.torn = called.torn
    BY <1>3, <1>7 DEF Typed, ACalled
  <2>2. InATest(r)'
    BY <1>2, <1>3, <1>7, <2>1, InATestKept
  <2>3. Torn({}, {r.test})'
    <3>1. suites' = suites
      BY DEF Kept
    <3>. QED
      BY <1>3, <1>4, <1>7, <2>1, <3>1 DEF Torn, TestsOf
  <2>4. FailuresRecorded'
    BY <1>7, <2>1, RecordedKept
  <2>. QED
    BY <1>7, <2>2, <2>3, <2>4 DEF Onward
<1>8. CASE TearDown(r)
  BY <1>2, <1>3, <1>4, <1>8, TearDownKeeps
<1>9. CASE Body(r)
  BY <1>2, <1>3, <1>4, <1>9, BodyKeeps
<1>. QED
  BY <1>5, <1>6, <1>7, <1>8, <1>9

---------------------------------------------------------------------------
(* Between runs, and the beginning of one.                                 *)
LEMMA NoTests ==
  /\ \A st : InTests(st, {}) = {}
  /\ Cardinality({}) = 0 /\ IsFiniteSet({})
BY FS_EmptySet DEF InTests

LEMMA InvInit == Init => IInv
<1> SUFFICES ASSUME Init
             PROVE  IInv
  OBVIOUS
<1>1. Typed
  BY TypedInit
<1>2. /\ suites = <<>> /\ failures = <<>> /\ summary = NoResults /\ called = NothingCalled
      /\ run = NoRun /\ at = "idle"
  BY DEF Init
<1>3. ToSet(<<>>) = {}
  BY DEF ToSet
<1>4. Registered
  BY <1>2, <1>3 DEF Registered, NothingCalled
<1>5. FailuresRecorded
  BY <1>2 DEF FailuresRecorded, NoResults, NothingCalled
<1>6. Failed(run.of, {})
  <2>1. {} \ {} = {}
    OBVIOUS
  <2>2. summary.tests_failed = 0 /\ run.of = "none"
    BY <1>2 DEF NoResults, NoRun
  <2>3. IsFiniteSet(FailedIn(failures)) /\ Cardinality(FailedIn(failures) \ {}) = 0
    BY <1>2, <2>1, FailedOfNone, NoTests
  <2>. QED
    BY <2>2, <2>3 DEF Failed
<1>7. Accounted(called.entered, 0)
  BY <1>2, NoTests DEF Accounted, NoResults, NothingCalled, TestsIn
<1>8. Over
  BY <1>2, <1>3, <1>6, <1>7 DEF Over, Cleaned, Torn, NothingCalled, NoRun
<1>. QED
  BY <1>1, <1>2, <1>4, <1>5, <1>8 DEF IInv

LEMMA RegisterKeeps ==
  ASSUME IInv, Typed', NEW infos \in Infos, Register(infos)
  PROVE  IInv'
<1>1. /\ at = "idle" /\ at' = "idle" /\ suites = <<>>
      /\ UNCHANGED <<run, summary, failures, called>>
  BY DEF Register, Idle
<1>2. Typed /\ Registered /\ FailuresRecorded /\ Over
  BY <1>1 DEF IInv
<1>3. called.entered = {} /\ called.began = {} /\ called.cleaned = {}
  <2>1. ToSet(<<>>) = {}
    BY DEF ToSet
  <2>2. called.entered = {} /\ called.began = {}
    BY <1>1, <1>2, <2>1 DEF Registered
  <2>. QED
    BY <1>2, <2>2 DEF Over, Cleaned
<1>4. /\ Len(suites') = Len(infos) /\ Len(infos) \in Nat
      /\ \A i \in 1 .. Len(infos) :
           suites'[i] = infos[i].suite /\ suite'[suites'[i]].tests = infos[i].tests
      /\ ToSet(suites') = {suites'[i] : i \in 1 .. Len(infos)}
  BY <1>2, RegisterIs, ToSetIs
<1>5. /\ DOMAIN infos = 1 .. Len(infos) /\ infos \in Seq(SuiteInfo)
      /\ \A i, j \in 1 .. Len(infos) :
           i # j => /\ infos[i].suite # infos[j].suite
                    /\ ToSet(infos[i].tests) \cap ToSet(infos[j].tests) = {}
      /\ \A i \in 1 .. Len(infos) : \A m, n \in DOMAIN infos[i].tests :
           infos[i].tests[m] = infos[i].tests[n] => m = n
  <2>1. infos \in Seq(SuiteInfo)
    BY CUnitAssumption
  <2>2. DOMAIN infos = 1 .. Len(infos)
    BY <2>1
  <2>. QED
    BY <2>1, <2>2, CUnitAssumption, Zenon
<1>6. Registered'
  <2>1. \A i, j \in 1 .. Len(suites') : suites'[i] = suites'[j] => i = j
    BY <1>4, <1>5
  <2>2. ASSUME NEW s \in ToSet(suites'), NEW m \in 1 .. Len(suite'[s].tests),
               NEW n \in 1 .. Len(suite'[s].tests), suite'[s].tests[m] = suite'[s].tests[n]
        PROVE  m = n
    <3>1. PICK i \in 1 .. Len(infos) : s = suites'[i]
      BY <1>4
    <3>2. suite'[s].tests = infos[i].tests /\ DOMAIN infos[i].tests = 1 .. Len(infos[i].tests)
      <4>1. infos[i] \in SuiteInfo
        BY <1>5
      <4>. QED
        BY <1>4, <3>1, <4>1 DEF SuiteInfo
    <3>. QED
      BY <1>5, <2>2, <3>2
  <2>3. ASSUME NEW s \in ToSet(suites'), NEW u \in ToSet(suites'), s # u
        PROVE  ToSet(suite'[s].tests) \cap ToSet(suite'[u].tests) = {}
    <3>1. PICK i \in 1 .. Len(infos) : s = suites'[i]
      BY <1>4
    <3>2. PICK j \in 1 .. Len(infos) : u = suites'[j]
      BY <1>4
    <3>3. suite'[s].tests = infos[i].tests /\ suite'[u].tests = infos[j].tests /\ i # j
      BY <1>4, <2>3, <3>1, <3>2
    <3>. QED
      BY <1>5, <3>3
  <2>4. called'.entered \subseteq ToSet(suites') /\ called'.began = {}
    BY <1>1, <1>3
  <2>. QED
    BY <2>1, <2>2, <2>3, <2>4 DEF Registered, TestsOf
<1>7. FailuresRecorded'
  BY <1>1, <1>2 DEF FailuresRecorded
<1>8. Over'
  <2>1. Cleaned({})' /\ Torn({}, {})'
    BY <1>1, <1>3 DEF Cleaned, Torn
  <2>2. Failed(run.of, {})'
    BY <1>1, <1>2 DEF Over, Failed
  <2>3. Accounted(called.entered, 0) => Accounted(called.entered, 0)'
    BY <1>1, <1>3, NoTests DEF Accounted, TestsIn
  <2>. QED
    BY <1>1, <1>2, <2>1, <2>2, <2>3 DEF Over
<1>. QED
  BY <1>1, <1>6, <1>7, <1>8 DEF IInv

(* What is kept, for the actions that leave something of a run as it is.   *)
LEMMA CleanedKept ==
  ASSUME Typed, Registered, Kept, called'.entered = called.entered,
         called'.cleaned = called.cleaned, NEW open, Cleaned(open)
  PROVE  Cleaned(open)'
<1>1. \A s \in called.entered : suite'[s].fixture = suite[s].fixture
  BY KeptIs
<1>. QED
  BY <1>1 DEF Cleaned

LEMMA TornKept ==
  ASSUME Typed, Registered, Kept, called'.began = called.began, called'.torn = called.torn,
         \A s \in Suites : suite'[s].in_test_clean = suite[s].in_test_clean,
         NEW busy, NEW current, Torn(busy, current)
  PROVE  Torn(busy, current)'
<1>1. \A s \in ToSet(suites) : /\ suite'[s].fixture = suite[s].fixture
                               /\ suite'[s].tests = suite[s].tests
                               /\ suite'[s].in_test_clean = suite[s].in_test_clean
  BY KeptIs
<1>2. suites' = suites
  BY DEF Kept
<1>. QED
  BY <1>1, <1>2 DEF Torn, TestsOf

LEMMA FailedKept ==
  ASSUME FailedIn(failures') = FailedIn(failures),
         called'.inactive_fails = called.inactive_fails,
         summary'.tests_failed = summary.tests_failed,
         NEW of, of = "test" => summary'.tests_inactive = summary.tests_inactive,
         NEW current, Failed(of, current)
  PROVE  Failed(of, current)'
BY DEF Failed

LEMMA AccountedKept ==
  ASSUME Typed, Registered, Kept, summary'.suites_run = summary.suites_run,
         summary'.tests_run = summary.tests_run,
         summary'.tests_inactive = summary.tests_inactive,
         NEW over \in SUBSET Suites, NEW n, Accounted(over, n)
  PROVE  Accounted(over, n)'
BY KeptIs DEF Accounted, TestsIn

LEMMA ChangeKeeps ==
  ASSUME IInv, Typed', Change
  PROVE  IInv'
<1>1. at = "idle" /\ at' = "idle" /\ UNCHANGED <<suites, run, summary, failures, called>>
  BY DEF Change, Idle
<1>2. Typed /\ Registered /\ FailuresRecorded /\ Over
  BY <1>1 DEF IInv
<1>3. Kept /\ \A s \in Suites : suite'[s].in_test_clean = suite[s].in_test_clean
  <2>1. suite \in [Suites -> ASuite] /\ suites' = suites
    BY <1>1, <1>2 DEF Typed
  <2>2. CASE suite' = suite
    BY <2>1, <2>2 DEF Kept
  <2>3. CASE \E s \in ToSet(suites) : suite' = [suite EXCEPT ![s].active = ~ @]
    <3>1. PICK s \in ToSet(suites) : suite' = [suite EXCEPT ![s].active = ~ @]
      BY <2>3
    <3>2. ASSUME NEW u \in Suites
          PROVE  /\ suite'[u].tests = suite[u].tests /\ suite'[u].fixture = suite[u].fixture
                 /\ suite'[u].in_test_clean = suite[u].in_test_clean
      <4>1. suite[u] \in ASuite
        BY <2>1
      <4>. QED
        BY <2>1, <3>1, <4>1 DEF ASuite
    <3>. QED
      BY <2>1, <3>2 DEF Kept
  <2>. QED
    BY <2>2, <2>3, Zenon DEF Change
<1>4. Registered'
  BY <1>1, <1>2, <1>3, RegisteredKept DEF Registered
<1>5. FailuresRecorded'
  BY <1>1, <1>2, RecordedKept
<1>6. Over'
  <2>1. Cleaned({})' /\ Torn({}, {})' /\ Failed(run.of, {})'
    BY <1>1, <1>2, <1>3, CleanedKept, TornKept, FailedKept DEF Over
  <2>2. Accounted(called.entered, 0) => Accounted(called.entered, 0)'
    BY <1>1, <1>2, <1>3, AccountedKept, KeptIs
  <2>. QED
    BY <1>1, <1>2, <2>1, <2>2 DEF Over
<1>. QED
  BY <1>1, <1>4, <1>5, <1>6 DEF IInv

(* A run begins with nothing counted and nothing called.                   *)
LEMMA NothingYet ==
  ASSUME suites' = suites, failures' = <<>>, NEW of, NEW open, NEW busy, NEW current, NEW n,
         called'.cleaned = {}, called'.began = {},
         \A s \in called'.entered : s \in open,
         summary'.tests_failed = n, summary'.tests_inactive = 0, n = 0
  PROVE  Cleaned(open)' /\ Torn(busy, current)' /\ Failed(of, current)'
<1>1. Cleaned(open)' /\ Torn(busy, current)'
  BY DEF Cleaned, Torn
<1>2. IsFiniteSet(FailedIn(failures')) /\ Cardinality(FailedIn(failures') \ current) = 0
  <2>1. {} \ current = {}
    OBVIOUS
  <2>. QED
    BY <2>1, FailedOfNone, NoTests
<1>3. Failed(of, current)'
  BY <1>2 DEF Failed
<1>. QED
  BY <1>1, <1>3

LEMMA ClearedIs ==
  ASSUME Typed
  PROVE  /\ Cleared \in ASummary
         /\ Cleared.suites_run = 0 /\ Cleared.suites_failed = 0 /\ Cleared.suites_inactive = 0
         /\ Cleared.tests_run = 0 /\ Cleared.tests_failed = 0 /\ Cleared.tests_inactive = 0
         /\ Cleared.asserts_failed = 0
BY DEF Cleared, NoResults, ASummary, Typed

LEMMA RunBeginsKeeps ==
  ASSUME IInv, Typed', NEW of \in {"all", "suite"}, NEW s, NEW place, RunBegins(of, s, place),
         \/ place = "suite" /\ s \in ToSet(suites) /\ (of = "all" => s = suites[1])
         \/ place = "idle" /\ suites = <<>>
  PROVE  IInv'
<1>1. /\ at' = place /\ summary' = Cleared /\ failures' = <<>> /\ UNCHANGED registryVars
      /\ called' = [NothingCalled EXCEPT !.inactive_fails = fail_on_inactive, !.ignores = ignore]
      /\ run' = [NoRun EXCEPT !.of = of, !.pos = IF of = "all" THEN 1 ELSE 0, !.suite = s]
  BY DEF RunBegins
<1>2. Typed /\ Registered
  BY DEF IInv
<1>3. /\ suites' = suites /\ suite' = suite /\ fail_on_inactive' = fail_on_inactive
      /\ ignore' = ignore
  BY <1>1 DEF registryVars
<1>4. /\ called'.inactive_fails = fail_on_inactive /\ called'.ignores = ignore
      /\ called'.entered = {} /\ called'.cleaned = {} /\ called'.began = {}
      /\ run'.of = of /\ run'.suite = s /\ run'.first = "success" /\ run'.result = "success"
      /\ run'.pos = IF of = "all" THEN 1 ELSE 0
  BY <1>1 DEF NothingCalled, NoRun
<1>5. /\ summary'.suites_run = 0 /\ summary'.suites_failed = 0 /\ summary'.suites_inactive = 0
      /\ summary'.tests_run = 0 /\ summary'.tests_failed = 0 /\ summary'.tests_inactive = 0
      /\ summary'.asserts_failed = 0
  BY <1>1, <1>2, ClearedIs
<1>6. Registered'
  BY <1>2, <1>3, <1>4, RegisteredKept DEF Kept
<1>7. FailuresRecorded'
  BY <1>1, <1>5 DEF FailuresRecorded
<1>8. Cleaned({})' /\ Torn({}, {})' /\ Failed(of, {})' /\ Accounted(called.entered, 0)'
  <2>1. Accounted(called.entered, 0)'
    BY <1>4, <1>5, NoTests DEF Accounted, TestsIn
  <2>. QED
    BY <1>1, <1>3, <1>4, <1>5, <2>1, NothingYet
<1>9. CASE place = "suite" /\ s \in ToSet(suites) /\ (of = "all" => s = suites[1])
  <2>1. suites \in Seq(Suites) /\ 1 \in 1 .. Len(suites)
    <3>1. Len(suites) \in Nat /\ ToSet(suites) = {suites[i] : i \in 1 .. Len(suites)}
      BY <1>2, ToSetIs DEF Typed
    <3>. QED
      BY <1>2, <1>9, <3>1 DEF Typed
  <2>2. Running(run)'
    BY <1>3, <1>4, <1>9, <2>1 DEF Running
  <2>3. FailedIn(failures') = {}
    BY <1>1, FailedOfNone
  <2>4. Ahead(run)' /\ run'.of # "test"
    BY <1>4, <1>8, <2>2, <2>3 DEF Ahead
  <2>. QED
    BY <1>1, <1>6, <1>7, <1>9, <2>4 DEF IInv
<1>10. CASE place = "idle" /\ suites = <<>>
  <2>1. Over'
    BY <1>4, <1>8 DEF Over
  <2>. QED
    BY <1>1, <1>6, <1>7, <1>10, <2>1 DEF IInv
<1>. QED
  BY <1>9, <1>10

LEMMA RunTestKeeps ==
  ASSUME IInv, Typed', NEW s \in ToSet(suites), NEW t \in Tests, RunTest(s, t)
  PROVE  IInv'
<1>1. /\ at' = (IF "init" \in suite[s].fixture THEN "init" ELSE "run_test")
      /\ summary' = Cleared /\ failures' = <<>> /\ UNCHANGED registryVars
      /\ called' = [NothingCalled EXCEPT !.inactive_fails = fail_on_inactive, !.ignores = ignore,
                                         !.entered = IF at' = "init" THEN {} ELSE {s}]
      /\ run' = [NoRun EXCEPT !.of = "test", !.suite = s, !.test = t]
      /\ t \in TestsOf(s)
  BY DEF RunTest, TestsOf
<1>2. Typed /\ Registered
  BY DEF IInv
<1>3. /\ suites' = suites /\ suite' = suite /\ fail_on_inactive' = fail_on_inactive
      /\ ignore' = ignore
  BY <1>1 DEF registryVars
<1>4. /\ called'.inactive_fails = fail_on_inactive /\ called'.ignores = ignore
      /\ called'.entered = (IF at' = "init" THEN {} ELSE {s})
      /\ called'.cleaned = {} /\ called'.began = {}
      /\ run'.of = "test" /\ run'.suite = s /\ run'.test = t /\ run'.result = "success"
  BY <1>1 DEF NothingCalled, NoRun
<1>5. /\ summary'.suites_failed = 0 /\ summary'.suites_inactive = 0
      /\ summary'.tests_failed = 0 /\ summary'.tests_inactive = 0
      /\ summary'.asserts_failed = 0
  BY <1>1, <1>2, ClearedIs
<1>6. Registered'
  BY <1>2, <1>3, <1>4, RegisteredKept DEF Kept
<1>7. FailuresRecorded'
  BY <1>1, <1>5 DEF FailuresRecorded
<1>8. Running(run)'
  BY <1>1, <1>3, <1>4 DEF Running, TestsOf
<1>9. FailedIn(failures') = {}
  BY <1>1, FailedOfNone
<1>10. CASE at' = "init"
  <2>1. Cleaned({})' /\ Torn({}, {})' /\ Failed("test", {})'
    BY <1>1, <1>3, <1>4, <1>5, <1>10, NothingYet
  <2>2. Ahead(run)'
    BY <1>4, <1>8, <1>9, <1>10, <2>1 DEF Ahead
  <2>. QED
    BY <1>6, <1>7, <1>10, <2>2 DEF IInv
<1>11. CASE at' = "run_test"
  <2>1. Cleaned({s})' /\ Torn({}, {})' /\ Failed("test", {})'
    BY <1>1, <1>3, <1>4, <1>5, <1>11, NothingYet
  <2>2. AtRunTest(run)'
    BY <1>4, <1>8, <1>9, <1>11, <2>1 DEF AtRunTest
  <2>. QED
    BY <1>6, <1>7, <1>11, <2>2 DEF IInv
<1>. QED
  BY <1>1, <1>10, <1>11

LEMMA RunTestRefusedKeeps ==
  ASSUME IInv, Typed', NEW s \in ToSet(suites), NEW t \in Tests, RunTestRefused(s, t)
  PROVE  IInv'
<1>1. /\ at' = "idle" /\ UNCHANGED registryVars
      /\ summary' = [Cleared EXCEPT !.suites_inactive = IF suite[s].active THEN 0 ELSE 1]
      /\ failures' = IF ~ suite[s].active /\ fail_on_inactive
                     THEN <<[type |-> "suite_inactive", suite |-> s, test |-> None]>> ELSE <<>>
      /\ called' = [NothingCalled EXCEPT !.inactive_fails = fail_on_inactive, !.ignores = ignore]
  BY DEF RunTestRefused, Idle
<1>2. Typed /\ Registered
  BY DEF IInv
<1>3. suites' = suites /\ suite' = suite
  BY <1>1 DEF registryVars
<1>4. /\ called'.inactive_fails = fail_on_inactive /\ called'.entered = {}
      /\ called'.cleaned = {} /\ called'.began = {}
  BY <1>1 DEF NothingCalled
<1>5. run'.of = "test" /\ run'.result = "success"
  BY DEF RunTestRefused, NoRun
<1>6. /\ summary'.suites_inactive = IF suite[s].active THEN 0 ELSE 1
      /\ summary'.suites_failed = 0 /\ summary'.tests_failed = 0 /\ summary'.tests_inactive = 0
      /\ summary'.asserts_failed = 0
  <2>1. PICK n \in {0, 1} : /\ n = IF suite[s].active THEN 0 ELSE 1
                            /\ summary' = [Cleared EXCEPT !.suites_inactive = n]
    BY <1>1
  <2>. QED
    BY <1>2, <2>1, ClearedIs DEF ASummary
<1>7. Registered'
  BY <1>2, <1>3, <1>4, RegisteredKept DEF Kept
<1>8. FailuresRecorded'
  <2>1. Len(failures') = IF ~ suite[s].active /\ fail_on_inactive THEN 1 ELSE 0
    BY <1>1
  <2>. QED
    BY <1>4, <1>6, <2>1 DEF FailuresRecorded
<1>9. FailedIn(failures') = {}
  <2>1. CASE failures' = <<>>
    BY <2>1, FailedOfNone
  <2>2. CASE failures' = <<[type |-> "suite_inactive", suite |-> s, test |-> None]>>
    <3>1. Len(failures') = 1 /\ failures'[1].type # "assert"
      BY <2>2
    <3>. QED
      BY <3>1 DEF FailedIn
  <2>. QED
    BY <1>1, <2>1, <2>2
<1>10. Failed("test", {})'
  <2>1. {} \ {} = {}
    OBVIOUS
  <2>. QED
    BY <1>6, <1>9, <2>1, NoTests DEF Failed
<1>11. Over'
  BY <1>4, <1>5, <1>10 DEF Over, Cleaned, Torn
<1>. QED
  BY <1>1, <1>7, <1>8, <1>11 DEF IInv

---------------------------------------------------------------------------
(* From suite to suite.                                                    *)
LEMMA Under ==
  ASSUME IInv, Kept, called'.entered \subseteq called.entered \cup {run.suite}, at # "idle"
  PROVE  Typed /\ Registered /\ FailuresRecorded /\ Registered'
<1>1. Typed /\ Registered /\ FailuresRecorded
  BY DEF IInv
<1>2. run.suite \in ToSet(suites)
  BY Somewhere
<1>3. suites # <<>>
  BY <1>2 DEF ToSet
<1>. QED
  BY <1>1, <1>2, <1>3, RegisteredKept DEF Registered

(* The flag that keeps a tear-down from running twice, and what does not   *)
(* concern the tests.                                                      *)
StillClean == \A s \in Suites : suite'[s].in_test_clean = suite[s].in_test_clean

LEMMA SameSuites ==
  ASSUME suite' = suite, suites' = suites
  PROVE  Kept /\ StillClean
BY DEF Kept, StillClean

LEMMA AheadIsOver ==
  ASSUME Typed, Registered, Kept, StillClean, UNCHANGED <<fail_on_inactive, ignore, called>>,
         NEW r \in ARun, r = run, Ahead(r), NEW result,
         FailedIn(failures') = FailedIn(failures),
         summary'.suites_run = summary.suites_run, summary'.tests_run = summary.tests_run,
         summary'.tests_inactive = summary.tests_inactive,
         summary'.tests_failed = summary.tests_failed
  PROVE  TestsOver(r, {}, result)'
<1>1. Running(r)'
  BY RunningKept DEF Ahead
<1>2. Cleaned({})' /\ Torn({}, {})' /\ Failed(r.of, {})'
  BY CleanedKept, TornKept, FailedKept DEF Ahead, StillClean
<1>3. ASSUME r.of # "test"
      PROVE  FailedIn(failures') \subseteq TestsIn(called.entered)' /\ Accounted(called.entered, 0)'
  <2>1. called.entered \in SUBSET Suites
        /\ InTests(suite', called.entered) = InTests(suite, called.entered)
    BY KeptIs
  <2>2. FailedIn(failures) \subseteq TestsIn(called.entered) /\ Accounted(called.entered, 0)
    BY <1>3 DEF Ahead
  <2>. QED
    BY <2>1, <2>2, AccountedKept DEF TestsIn
<1>. QED
  BY <1>1, <1>2, <1>3 DEF TestsOver

LEMMA OverInv ==
  ASSUME Typed', Registered', FailuresRecorded', at' \in {"idle", "suite"},
         at' = "idle" => Over', at' = "suite" => Ahead(run)' /\ run'.of # "test"
  PROVE  IInv'
BY DEF IInv

LEMMA ToTestsKeeps ==
  ASSUME IInv, Typed', Kept, StillClean, Ahead(run), at # "idle", run.of # "test", ToTests,
         UNCHANGED <<fail_on_inactive, ignore, summary, failures>>
  PROVE  IInv'
<1>1. PICK q : q = run'
  OBVIOUS
<1>2. /\ at' = "tests" /\ q = [run EXCEPT !.k = 1]
      /\ called' = [called EXCEPT !.entered = @ \cup {run.suite}]
  BY <1>1 DEF ToTests, S
<1>3. /\ called'.inactive_fails = called.inactive_fails /\ called'.ignores = called.ignores
      /\ called'.entered = called.entered \cup {run.suite} /\ called'.cleaned = called.cleaned
      /\ called'.began = called.began /\ called'.torn = called.torn
  BY <1>2 DEF IInv, Typed, ACalled
<1>4. Typed /\ Registered /\ FailuresRecorded /\ Registered'
  BY <1>3, Under
<1>5. PICK r \in ARun : r = run
  BY <1>4 DEF Typed
<1>6. /\ q \in ARun /\ q.of = r.of /\ q.suite = r.suite /\ q.pos = r.pos /\ q.first = r.first
      /\ q.k = 1 /\ q.test = r.test
  BY <1>1, <1>2, <1>5 DEF ARun
<1>7. /\ r.suite \notin called.entered /\ r.suite \in Suites
      /\ called'.entered \ {r.suite} = called.entered
      /\ called.entered \in SUBSET Suites
      /\ InTests(suite', called.entered) = InTests(suite, called.entered)
      /\ suite'[r.suite].tests \in Seq(Tests)
  <2>1. r.suite \notin called.entered /\ r.suite \in Suites
    BY <1>5, Somewhere DEF Ahead
  <2>. QED
    BY <1>3, <1>4, <1>5, <2>1, KeptIs
<1>8. Running(q)'
  BY <1>3, <1>4, <1>5, <1>6, RunningKept DEF Ahead
<1>9. Cleaned({q.suite})'
  <2>1. \A s \in called.entered : suite'[s].fixture = suite[s].fixture
    BY <1>4, KeptIs
  <2>. QED
    BY <1>3, <1>6, <1>7, <2>1 DEF Ahead, Cleaned
<1>10. Torn({}, {})' /\ Failed(q.of, {})'
  BY <1>3, <1>4, <1>5, <1>6, TornKept, FailedKept DEF Ahead, StillClean
<1>11. Accounted(called.entered \ {q.suite}, q.k - 1)'
  <2>1. Accounted(called.entered, 0)
    BY DEF Ahead
  <2>. QED
    <3>1. q.k - 1 = 0 /\ called'.entered \ {q.suite} = called.entered
      BY <1>6, <1>7
    <3>. QED
      BY <1>7, <2>1, <3>1 DEF Accounted, TestsIn
<1>12. FailedIn(failures') \subseteq TestsIn(called.entered \ {q.suite})'
  BY <1>6, <1>7 DEF Ahead, TestsIn
<1>13. q.k \in 1 .. Len(suite'[q.suite].tests) + 1
  <2>1. Len(suite'[r.suite].tests) \in Nat
    BY <1>7
  <2>. QED
    BY <1>6, <2>1
<1>14. AtTests(q)'
  BY <1>3, <1>5, <1>6, <1>8, <1>9, <1>10, <1>11, <1>12, <1>13 DEF AtTests
<1>15. FailuresRecorded'
  BY <1>3, <1>4, RecordedKept
<1>. QED
  BY <1>1, <1>2, <1>4, <1>14, <1>15 DEF IInv

LEMMA SuiteStartsKeeps ==
  ASSUME IInv, Typed', SuiteStarts
  PROVE  IInv'
<1>1. at = "suite" /\ UNCHANGED registryVars /\ Ahead(run) /\ run.of # "test"
  BY DEF SuiteStarts, IInv
<1>2. /\ suites' = suites /\ suite' = suite /\ fail_on_inactive' = fail_on_inactive
      /\ ignore' = ignore /\ Kept /\ StillClean
  BY <1>1, SameSuites DEF registryVars
<1>3. CASE ~ suite[S].active
  <2> PICK result \in Results : result = IF fail_on_inactive THEN "suite_inactive" ELSE "success"
    BY DEF Results
  <2>1. /\ summary' = [summary EXCEPT !.suites_inactive = @ + 1]
        /\ failures' = IF fail_on_inactive
                       THEN Append(failures, Record("suite_inactive", None)) ELSE failures
        /\ SuiteOver(result) /\ called' = called
    BY <1>3, Zenon DEF SuiteStarts
  <2>2. Typed /\ Registered /\ FailuresRecorded /\ Registered'
    BY <1>1, <1>2, <2>1, Under
  <2>3. PICK r \in ARun : r = run
    BY <2>2 DEF Typed
  <2>5. /\ summary'.suites_run = summary.suites_run /\ summary'.tests_run = summary.tests_run
        /\ summary'.tests_inactive = summary.tests_inactive
        /\ summary'.tests_failed = summary.tests_failed
        /\ summary'.asserts_failed = summary.asserts_failed
        /\ summary'.suites_failed = summary.suites_failed
        /\ summary'.suites_inactive = summary.suites_inactive + 1
        /\ summary.suites_inactive \in Nat /\ summary.asserts_failed \in Nat
        /\ summary.suites_failed \in Nat /\ summary.tests_inactive \in Nat
    BY <2>1, <2>2 DEF Typed, ASummary
  <2>6. FailedIn(failures') = FailedIn(failures)
        /\ Len(failures') = Len(failures) + (IF fail_on_inactive THEN 1 ELSE 0)
        /\ Len(failures) \in Nat
    <3>1. /\ Record("suite_inactive", None) \in AFailure
          /\ Record("suite_inactive", None).type # "assert"
      BY <1>1, Somewhere DEF Record, AFailure, Kinds, S
    <3>. QED
      BY <2>1, <2>2, <3>1, RecordAdds DEF Typed
  <2>7. FailuresRecorded'
    <3>1. called.inactive_fails = fail_on_inactive
      BY <1>1 DEF Ahead, Running
    <3>. QED
      BY <2>1, <2>2, <2>5, <2>6, <3>1 DEF FailuresRecorded
  <2>8. TestsOver(r, {}, result)'
    BY <1>1, <1>2, <2>1, <2>2, <2>3, <2>5, <2>6, AheadIsOver
  <2>9. /\ at' \in {"idle", "suite"}
        /\ at' = "idle" => Over'
        /\ at' = "suite" => Ahead(run)' /\ run'.of # "test"
    BY <1>2, <2>1, <2>2, <2>3, <2>8, SuiteOverKeeps
  <2>. QED
    BY <2>2, <2>7, <2>9, OverInv
<1>4. CASE suite[S].active
  <2>1. UNCHANGED <<summary, failures>>
    BY <1>4, Zenon DEF SuiteStarts
  <2>2. CASE Has("init")
    <3>1. at' = "init" /\ UNCHANGED <<run, called>>
      BY <1>4, <2>2, Zenon DEF SuiteStarts
    <3>2. Typed /\ Registered /\ FailuresRecorded /\ Registered'
      BY <1>1, <1>2, <3>1, Under
    <3>3. PICK r \in ARun : r = run
      BY <3>2 DEF Typed
    <3>4. Running(r)'
      BY <1>1, <1>2, <3>1, <3>2, <3>3, RunningKept DEF Ahead
    <3>5. Ahead(run)'
      BY <1>1, <1>2, <2>1, <3>1, <3>3, <3>4 DEF Ahead, Cleaned, Torn, Failed, Accounted, TestsIn, TestsOf
    <3>6. FailuresRecorded'
      BY <2>1, <3>1, <3>2, RecordedKept
    <3>. QED
      BY <3>1, <3>2, <3>5, <3>6 DEF IInv
  <2>3. CASE ~ Has("init")
    <3>1. ToTests
      BY <1>4, <2>3, Zenon DEF SuiteStarts
    <3>. QED
      BY <1>1, <1>2, <2>1, <3>1, ToTestsKeeps
  <2>. QED
    BY <2>2, <2>3
<1>. QED
  BY <1>3, <1>4

---------------------------------------------------------------------------
(* From test to test.                                                      *)
LEMMA OnwardInv ==
  ASSUME Typed', Registered', FailuresRecorded', Onward
  PROVE  IInv'
BY DEF IInv, Onward, AfterATest

(* What a tear-down, or the end of a test, leaves as it is.                *)
LEMMA TearDownLeaves ==
  ASSUME Typed, run.suite \in Suites, suites' = suites, NEW r, TearDown(r)
  PROVE  /\ Kept /\ called'.entered = called.entered
         /\ \A s \in Suites : s # run.suite => suite'[s] = suite[s]
<1>1. /\ suite \in [Suites -> ASuite] /\ called \in ACalled
      /\ \A s \in Suites : suite[s] \in ASuite
  BY DEF Typed
<1>2. CASE /\ suite' = [suite EXCEPT ![run.suite].in_test_clean = TRUE]
           /\ called' = [called EXCEPT !.torn = @ \cup {r.test}]
  <2>1. \A s \in Suites : /\ suite'[s].tests = suite[s].tests
                          /\ suite'[s].fixture = suite[s].fixture
                          /\ s # run.suite => suite'[s] = suite[s]
    BY <1>1, <1>2 DEF ASuite
  <2>2. called'.entered = called.entered
    BY <1>1, <1>2 DEF ACalled
  <2>. QED
    BY <2>1, <2>2 DEF Kept
<1>3. CASE UNCHANGED <<suite, called>>
  BY <1>3 DEF Kept
<1>4. \/ /\ suite' = [suite EXCEPT ![run.suite].in_test_clean = TRUE]
         /\ called' = [called EXCEPT !.torn = @ \cup {r.test}]
      \/ UNCHANGED <<suite, called>>
  BY Zenon DEF TearDown, S
<1>. QED
  BY <1>2, <1>3, <1>4

LEMMA TestStartsLeaves ==
  ASSUME Typed, run.suite \in Suites, suites' = suites, NEW t, TestStarts(t)
  PROVE  Kept /\ called'.entered = called.entered
<1>1. PICK r : r = [run EXCEPT !.test = t, !.start = Len(failures)]
  OBVIOUS
<1>2. CASE TearDown(r)
  BY <1>2, TearDownLeaves
<1>3. CASE suite' = suite /\ \E more : called' = [called EXCEPT !.began = @ \cup more]
  BY <1>3 DEF Kept, Typed, ACalled
<1>4. CASE UNCHANGED <<suite, called>>
  BY <1>4 DEF Kept
<1>5. \/ TearDown(r)
      \/ suite' = suite /\ \E more : called' = [called EXCEPT !.began = @ \cup more]
      \/ UNCHANGED <<suite, called>>
  BY <1>1 DEF TestStarts, Body
<1>. QED
  BY <1>2, <1>3, <1>4, <1>5

(* The suite that is open has no more tests.                               *)
LEMMA LastTestOver ==
  ASSUME Typed, Registered, NEW r \in ARun, AtTests(r), r.k = Len(suite[r.suite].tests) + 1
  PROVE  /\ FailedIn(failures) \subseteq InTests(suite, called.entered)
         /\ Cardinality(called.entered) = Cardinality(called.entered \ {r.suite}) + 1
         /\ Cardinality(called.entered \ {r.suite}) \in Nat
         /\ Cardinality(InTests(suite, called.entered)) =
              Cardinality(InTests(suite, called.entered \ {r.suite})) + (r.k - 1)
<1>1. /\ called.entered \subseteq ToSet(suites) /\ ToSet(suites) \subseteq Suites
      /\ IsFiniteSet(ToSet(suites))
  BY OnceCounted, ToSetIs DEF Typed, Registered
<1>2. /\ called.entered \in SUBSET Suites /\ IsFiniteSet(called.entered)
      /\ r.suite \in called.entered /\ r.suite \in ToSet(suites)
      /\ IsFiniteSet(called.entered \ {r.suite})
  BY <1>1, FS_Subset DEF AtTests
<1>3. suite[r.suite].tests \in Seq(Tests) /\ suite \in [Suites -> ASuite]
  BY <1>1, <1>2 DEF Typed, ASuite
<1>4. /\ \A i, j \in 1 .. Len(suite[r.suite].tests) :
           suite[r.suite].tests[i] = suite[r.suite].tests[j] => i = j
      /\ \A u \in called.entered :
           u # r.suite => ToSet(suite[u].tests) \cap ToSet(suite[r.suite].tests) = {}
  BY <1>1, <1>2 DEF Registered, TestsOf
<1>5. /\ Cardinality(called.entered) = Cardinality(called.entered \ {r.suite}) + 1
      /\ InTests(suite, called.entered) =
           InTests(suite, called.entered \ {r.suite}) \cup ToSet(suite[r.suite].tests)
      /\ Cardinality(InTests(suite, called.entered)) =
           Cardinality(InTests(suite, called.entered \ {r.suite})) + Len(suite[r.suite].tests)
  BY <1>2, <1>3, <1>4, SuiteAdds
<1>6. Len(suite[r.suite].tests) \in Nat /\ r.k - 1 = Len(suite[r.suite].tests)
  BY <1>3
<1>7. FirstOf(suite[r.suite].tests, r.k - 1) = ToSet(suite[r.suite].tests)
  BY <1>3, <1>6, ToSetIs DEF FirstOf
<1>8. FailedIn(failures) \subseteq InTests(suite, called.entered)
  BY <1>5, <1>7 DEF AtTests, TestsIn
<1>. QED
  BY <1>2, <1>5, <1>6, <1>8, FS_CardinalityType

LEMMA NextTestKeeps ==
  ASSUME IInv, Typed', NextTest
  PROVE  IInv'
<1>1. /\ at = "tests" /\ UNCHANGED <<suites, fail_on_inactive, ignore>> /\ AtTests(run)
      /\ run.of # "test"
  BY DEF NextTest, IInv, AtTests
<1>2. Typed /\ Registered
  BY DEF IInv
<1>3. PICK r \in ARun : r = run
  BY <1>2 DEF Typed
<1>4. /\ r.suite \in Suites /\ suite[r.suite].tests \in Seq(Tests) /\ S = r.suite
      /\ Len(suite[r.suite].tests) \in Nat /\ r.k \in Nat
      /\ suite[r.suite] \in ASuite /\ r.of # "test"
  BY <1>1, <1>3, Somewhere DEF S, ARun
<1>5. PICK t : t = suite[S].tests[run.k]
  OBVIOUS
<1> DEFINE more == run.k <= Len(suite[S].tests) /\ (run.result = "success" \/ ignore)
<1>6. \/ /\ ~ more
         /\ at' = "tests_done" /\ summary' = [summary EXCEPT !.suites_run = @ + 1]
         /\ UNCHANGED <<suite, test, run, failures, called>>
      \/ more /\ TestStarts(t) /\ UNCHANGED failures
      \/ /\ more
         /\ summary' = [summary EXCEPT !.tests_inactive = @ + 1]
         /\ failures' = IF fail_on_inactive
                        THEN Append(failures, Record("test_inactive", t)) ELSE failures
         /\ run' = [run EXCEPT !.k = @ + 1,
                               !.result = IF fail_on_inactive THEN "test_inactive" ELSE @]
         /\ UNCHANGED <<at, suite, test, called>>
  BY <1>5, Zenon DEF NextTest
<1>7. CASE /\ ~ more
           /\ at' = "tests_done" /\ summary' = [summary EXCEPT !.suites_run = @ + 1]
           /\ UNCHANGED <<suite, test, run, failures, called>>
  <2>1. Kept /\ StillClean
    BY <1>1, <1>7, SameSuites
  <2>2. Registered' /\ FailuresRecorded
    BY <1>1, <1>7, <2>1, Under
  <2>3. /\ summary'.suites_run = summary.suites_run + 1 /\ summary.suites_run \in Nat
        /\ summary'.tests_run = summary.tests_run
        /\ summary'.tests_inactive = summary.tests_inactive
        /\ summary'.tests_failed = summary.tests_failed
        /\ summary'.asserts_failed = summary.asserts_failed
        /\ summary'.suites_failed = summary.suites_failed
        /\ summary'.suites_inactive = summary.suites_inactive
    BY <1>2, <1>7 DEF Typed, ASummary
  <2>4. FailuresRecorded'
    BY <1>2, <1>7, <2>2, <2>3, RecordedKept
  <2>5. Running(r)'
    BY <1>1, <1>2, <1>3, <1>7, <2>1, RunningKept DEF AtTests
  <2>6. Cleaned({r.suite})' /\ Torn({}, {})' /\ Failed(r.of, {})'
    BY <1>1, <1>2, <1>3, <1>7, <2>1, <2>3, CleanedKept, TornKept, FailedKept
       DEF AtTests, StillClean
  <2>7. /\ FailedIn(failures') \subseteq TestsIn(called.entered)'
        /\ ignore' \/ (r.first = "success" /\ r.result = "success") =>
             Accounted(called.entered, 0)'
    <3>1. ASSUME ignore \/ r.result = "success"
          PROVE  Accounted(called.entered, 0)'
      <4>1. r.k = Len(suite[r.suite].tests) + 1
        BY <1>1, <1>3, <1>4, <1>7, <3>1 DEF AtTests
      <4>2. /\ Cardinality(called.entered) = Cardinality(called.entered \ {r.suite}) + 1
            /\ Cardinality(called.entered \ {r.suite}) \in Nat
            /\ Cardinality(InTests(suite, called.entered)) =
                 Cardinality(InTests(suite, called.entered \ {r.suite})) + (r.k - 1)
        BY <1>1, <1>2, <1>3, <4>1, LastTestOver
      <4>3. /\ summary.suites_run = Cardinality(called.entered \ {r.suite})
            /\ summary.tests_run + summary.tests_inactive =
                 Cardinality(InTests(suite, called.entered \ {r.suite})) + (r.k - 1)
        BY <1>1, <1>3 DEF AtTests, Accounted, TestsIn
      <4>4. summary'.suites_run = Cardinality(called'.entered)
        BY <1>7, <2>3, <4>2, <4>3
      <4>5. summary'.tests_run + summary'.tests_inactive =
              Cardinality(InTests(suite', called'.entered)) + 0
        <5>1. Cardinality(InTests(suite, called.entered)) =
                summary.tests_run + summary.tests_inactive
          BY <4>2, <4>3, Zenon
        <5>2. summary.tests_run \in Nat /\ summary.tests_inactive \in Nat
          BY <1>2 DEF Typed, ASummary
        <5>3. PICK n \in Nat : n = summary.tests_run + summary.tests_inactive
          BY <5>2
        <5>4. InTests(suite', called'.entered) = InTests(suite, called.entered)
          BY <1>7
        <5>5. summary'.tests_run + summary'.tests_inactive = n
          BY <2>3, <5>3
        <5>6. Cardinality(InTests(suite', called'.entered)) = n
          BY <5>1, <5>4, <5>3
        <5>. QED
          BY <5>5, <5>6
      <4>. QED
        BY <4>4, <4>5 DEF Accounted, TestsIn
    <3>2. FailedIn(failures) \subseteq InTests(suite, called.entered)
      <4>1. /\ FailedIn(failures) \subseteq InTests(suite, called.entered \ {r.suite})
                                              \cup FirstOf(suite[r.suite].tests, r.k - 1)
            /\ r.k \in 1 .. Len(suite[r.suite].tests) + 1 /\ r.suite \in called.entered
        BY <1>1, <1>3 DEF AtTests, TestsIn
      <4>2. FirstOf(suite[r.suite].tests, r.k - 1) \subseteq ToSet(suite[r.suite].tests)
        BY <1>4, <4>1, ToSetIs DEF FirstOf
      <4>3. InTests(suite, called.entered \ {r.suite}) \subseteq InTests(suite, called.entered)
            /\ ToSet(suite[r.suite].tests) \subseteq InTests(suite, called.entered)
        BY <4>1 DEF InTests
      <4>. QED
        BY <4>1, <4>2, <4>3
    <3>. QED
      BY <1>1, <1>7, <3>1, <3>2 DEF TestsIn
  <2>8. TestsOver(r, {r.suite}, r.result)' /\ r.suite \in called'.entered
    BY <1>1, <1>3, <1>7, <2>5, <2>6, <2>7 DEF TestsOver, AtTests
  <2>9. r = run'
    BY <1>3, <1>7
  <2>. QED
    BY <1>7, <2>2, <2>4, <2>8, <2>9 DEF IInv
<1>8. CASE more /\ TestStarts(t) /\ UNCHANGED failures
  <2>1. run.k <= Len(suite[run.suite].tests) /\ t = suite[run.suite].tests[run.k] /\ t \in Tests
    BY <1>1, <1>3, <1>4, <1>5, <1>8 DEF AtTests, S
  <2>2. Kept /\ called'.entered \subseteq called.entered \cup {run.suite}
    BY <1>1, <1>2, <1>3, <1>4, <1>8, <2>1, TestStartsLeaves
  <2>3. Registered' /\ FailuresRecorded
    BY <1>1, <2>2, Under
  <2>. QED
    BY <1>1, <1>2, <1>8, <2>1, <2>2, <2>3, TestStartsKeeps, OnwardInv
<1>9. CASE /\ more
           /\ summary' = [summary EXCEPT !.tests_inactive = @ + 1]
           /\ failures' = IF fail_on_inactive
                          THEN Append(failures, Record("test_inactive", t)) ELSE failures
           /\ run' = [run EXCEPT !.k = @ + 1,
                                 !.result = IF fail_on_inactive THEN "test_inactive" ELSE @]
           /\ UNCHANGED <<at, suite, test, called>>
  <2>1. Kept /\ StillClean
    BY <1>1, <1>9, SameSuites
  <2>2. Registered' /\ FailuresRecorded
    BY <1>1, <1>9, <2>1, Under
  <2>3. /\ summary'.tests_inactive = summary.tests_inactive + 1
        /\ summary'.suites_run = summary.suites_run
        /\ summary'.tests_run = summary.tests_run
        /\ summary'.tests_failed = summary.tests_failed
        /\ summary'.asserts_failed = summary.asserts_failed
        /\ summary'.suites_failed = summary.suites_failed
        /\ summary'.suites_inactive = summary.suites_inactive
        /\ summary.suites_inactive \in Nat /\ summary.asserts_failed \in Nat
        /\ summary.suites_failed \in Nat /\ summary.tests_inactive \in Nat
        /\ summary.tests_run \in Nat
    BY <1>2, <1>9 DEF Typed, ASummary
  <2>4. FailedIn(failures') = FailedIn(failures)
        /\ Len(failures') = Len(failures) + (IF fail_on_inactive THEN 1 ELSE 0)
        /\ Len(failures) \in Nat
    <3>1. t \in Tests
      BY <1>1, <1>3, <1>4, <1>5, <1>9 DEF AtTests, S
    <3>2. /\ Record("test_inactive", t) \in AFailure
          /\ Record("test_inactive", t).type # "assert"
      BY <1>4, <3>1 DEF Record, AFailure, Kinds
    <3>. QED
      BY <1>2, <1>9, <3>2, RecordAdds DEF Typed
  <2>5. FailuresRecorded'
    <3>1. called.inactive_fails = fail_on_inactive
      BY <1>1 DEF AtTests, Running
    <3>. QED
      BY <1>9, <2>2, <2>3, <2>4, <3>1 DEF FailuresRecorded
  <2>6. PICK q \in ARun : q = run'
    BY DEF Typed
  <2>7. /\ q.of = r.of /\ q.suite = r.suite /\ q.pos = r.pos /\ q.first = r.first
        /\ q.k = r.k + 1 /\ q.test = r.test
    BY <1>3, <1>9, <2>6 DEF ARun
  <2>8. Running(q)'
    BY <1>1, <1>2, <1>3, <1>9, <2>1, <2>7, RunningKept DEF AtTests
  <2>9. Cleaned({q.suite})' /\ Torn({}, {})' /\ Failed(q.of, {})'
    BY <1>1, <1>2, <1>3, <1>4, <1>9, <2>1, <2>3, <2>4, <2>7, CleanedKept, TornKept, FailedKept
       DEF AtTests, StillClean
  <2>10. /\ q.k \in 1 .. Len(suite'[q.suite].tests) + 1 /\ q.k - 1 = r.k
         /\ q.suite \in called'.entered
    BY <1>1, <1>3, <1>4, <1>9, <2>7 DEF AtTests
  <2>11. FailedIn(failures') \subseteq
           TestsIn(called.entered \ {q.suite})' \cup FirstOf(suite'[q.suite].tests, q.k - 1)
    <3>1. FailedIn(failures) \subseteq InTests(suite, called.entered \ {r.suite})
                                         \cup FirstOf(suite[r.suite].tests, r.k - 1)
      BY <1>1, <1>3 DEF AtTests, TestsIn
    <3>2. FirstOf(suite[r.suite].tests, r.k - 1) \subseteq FirstOf(suite[r.suite].tests, r.k)
      BY <1>4 DEF FirstOf
    <3>. QED
      BY <1>9, <2>4, <2>7, <2>10, <3>1, <3>2 DEF TestsIn
  <2>12. Accounted(called.entered \ {q.suite}, q.k - 1)'
    <3>1. /\ summary.suites_run = Cardinality(called.entered \ {r.suite})
          /\ summary.tests_run + summary.tests_inactive =
               Cardinality(InTests(suite, called.entered \ {r.suite})) + (r.k - 1)
      BY <1>1, <1>3 DEF AtTests, Accounted, TestsIn
    <3>2. Cardinality(InTests(suite, called.entered \ {r.suite})) \in Nat
      <4>1. /\ called.entered \ {r.suite} \in SUBSET Suites
            /\ IsFiniteSet(called.entered \ {r.suite})
        BY <1>2, <2>1, KeptIs, FS_Subset
      <4>. QED
        BY <1>2, <4>1, TestsFinite, FS_CardinalityType DEF Typed
    <3>3. summary'.tests_run + summary'.tests_inactive =
            Cardinality(InTests(suite, called.entered \ {r.suite})) + r.k
      <4>1. PICK c \in Nat : c = Cardinality(InTests(suite, called.entered \ {r.suite}))
        BY <3>2
      <4>2. summary.tests_run + summary.tests_inactive = c + (r.k - 1)
        BY <3>1, <4>1
      <4>3. PICK m \in Nat, n \in Nat, k \in Nat :
              m = summary.tests_run /\ n = summary.tests_inactive /\ k = r.k
        BY <1>4, <2>3
      <4>4. m + n = c + (k - 1)
        BY <4>2, <4>3
      <4>5. m + (n + 1) = c + k
        BY <4>4
      <4>6. summary.tests_run + (summary.tests_inactive + 1) = c + r.k
        BY <4>3, <4>5
      <4>. QED
        BY <2>3, <4>1, <4>6
    <3>. QED
      BY <1>9, <2>3, <2>7, <2>10, <3>1, <3>3 DEF Accounted, TestsIn
  <2>13. AtTests(q)'
    BY <1>4, <2>7, <2>8, <2>9, <2>10, <2>11, <2>12 DEF AtTests
  <2>. QED
    BY <1>1, <1>9, <2>2, <2>5, <2>6, <2>13 DEF IInv
<1>. QED
  BY <1>6, <1>7, <1>8, <1>9

LEMMA RunTestStartsKeeps ==
  ASSUME IInv, Typed', RunTestStarts
  PROVE  IInv'
<1>1. /\ at = "run_test" /\ UNCHANGED <<suites, fail_on_inactive, ignore>> /\ AtRunTest(run)
      /\ run.of = "test" /\ Typed /\ Registered
  BY DEF RunTestStarts, IInv, AtRunTest
<1>2. PICK r \in ARun : r = run
  BY <1>1 DEF Typed
<1>3. /\ run.suite \in Suites /\ run.suite \in ToSet(suites) /\ run.test \in Tests
      /\ S = run.suite
  BY <1>1, Somewhere DEF S
<1>4. CASE test[run.test].active
  <2>1. TestStarts(run.test) /\ UNCHANGED failures
    BY <1>4, Zenon DEF RunTestStarts
  <2>2. PICK t \in Tests : t = run.test
    BY <1>3
  <2>3. Kept /\ called'.entered \subseteq called.entered \cup {run.suite}
    BY <1>1, <1>3, <2>1, <2>2, TestStartsLeaves
  <2>4. Registered' /\ FailuresRecorded
    BY <1>1, <2>3, Under
  <2>. QED
    BY <1>1, <2>1, <2>2, <2>3, <2>4, TestStartsKeeps, OnwardInv
<1>5. CASE ~ test[run.test].active
  <2>1. /\ failures' = IF fail_on_inactive
                       THEN Append(failures, Record("test_inactive", run.test)) ELSE failures
        /\ AfterTest("test_inactive") /\ UNCHANGED <<suite, called>>
    BY <1>5, Zenon DEF RunTestStarts
  <2>2. PICK n \in {0, 1} :
          /\ n = IF fail_on_inactive THEN 1 ELSE 0
          /\ summary' = [summary EXCEPT !.tests_inactive = @ + 1, !.tests_failed = @ + n]
    BY <1>1, <1>3, <1>5, InactiveIs
  <2>3. Kept /\ StillClean
    BY <1>1, <2>1, SameSuites
  <2>4. Registered' /\ FailuresRecorded
    BY <1>1, <2>1, <2>3, Under
  <2>5. /\ summary'.tests_inactive = summary.tests_inactive + 1
        /\ summary'.tests_failed = summary.tests_failed + n
        /\ summary'.asserts_failed = summary.asserts_failed
        /\ summary'.suites_failed = summary.suites_failed
        /\ summary'.suites_inactive = summary.suites_inactive
        /\ summary.suites_inactive \in Nat /\ summary.asserts_failed \in Nat
        /\ summary.suites_failed \in Nat /\ summary.tests_inactive \in Nat
        /\ summary.tests_failed \in Nat
    BY <1>1, <2>2 DEF Typed, ASummary
  <2>6. FailedIn(failures') = FailedIn(failures) /\ Len(failures') = Len(failures) + n
        /\ Len(failures) \in Nat
    <3>1. /\ Record("test_inactive", run.test) \in AFailure
          /\ Record("test_inactive", run.test).type # "assert"
      BY <1>3 DEF Record, AFailure, Kinds
    <3>. QED
      BY <1>1, <2>1, <2>2, <3>1, RecordAdds DEF Typed
  <2>7. called.inactive_fails = fail_on_inactive
    BY <1>1 DEF AtRunTest, Running
  <2>8. FailuresRecorded'
    BY <2>1, <2>2, <2>4, <2>5, <2>6, <2>7 DEF FailuresRecorded
  <2>9. PICK q \in ARun : q = run'
    BY DEF Typed
  <2>10. /\ q.of = r.of /\ q.suite = r.suite /\ q.pos = r.pos /\ q.first = r.first
         /\ q.test = r.test /\ at' = "tests_done" /\ "test_inactive" \in Results
    BY <1>1, <1>2, <2>1, <2>9, AfterTestIs DEF Results
  <2>11. Running(q)'
    BY <1>1, <1>2, <2>1, <2>3, <2>10, RunningKept DEF AtRunTest
  <2>12. Cleaned({q.suite})' /\ Torn({}, {})'
    BY <1>1, <1>2, <2>1, <2>3, <2>10, CleanedKept, TornKept DEF AtRunTest, StillClean
  <2>13. Failed(q.of, {})'
    <3>1. /\ FailedIn(failures) = {}
          /\ summary.tests_failed =
               Cardinality({} \ {}) + IF called.inactive_fails THEN summary.tests_inactive ELSE 0
      BY <1>1 DEF AtRunTest, Failed
    <3>2. {} \ {} = {} /\ Cardinality({}) = 0 /\ IsFiniteSet({})
      BY NoTests
    <3>3. summary'.tests_failed =
            0 + IF called.inactive_fails THEN summary'.tests_inactive ELSE 0
      BY <2>2, <2>5, <2>7, <3>1, <3>2
    <3>. QED
      BY <1>1, <1>2, <2>1, <2>6, <2>10, <3>1, <3>2, <3>3 DEF Failed
  <2>14. TestsOver(q, {q.suite}, q.result)' /\ q.suite \in called'.entered
    BY <1>1, <1>2, <2>1, <2>10, <2>11, <2>12, <2>13 DEF TestsOver, AtRunTest
  <2>. QED
    BY <2>4, <2>8, <2>9, <2>10, <2>14 DEF IInv
<1>. QED
  BY <1>4, <1>5

(* From a function of a test to the next one.                              *)
LEMMA SetUpReturnsKeeps ==
  ASSUME IInv, Typed', SetUpReturns
  PROVE  IInv'
<1>1. /\ at = "setup" /\ UNCHANGED <<suites, fail_on_inactive, ignore, failures>>
      /\ InATest(run) /\ Torn({}, {run.test}) /\ Typed /\ Registered
  BY DEF SetUpReturns, IInv
<1>2. PICK r \in ARun : r = run
  BY <1>1 DEF Typed
<1>3. run.suite \in Suites /\ SameRun(r)
  BY <1>1, <1>2, Somewhere DEF SameRun
<1>4. InATest(r) /\ Torn({}, {r.test})
  BY <1>1, <1>2
<1>5. CASE TearDown(r)
  <2>1. Kept /\ called'.entered \subseteq called.entered \cup {run.suite}
    BY <1>1, <1>3, <1>5, TearDownLeaves
  <2>2. Registered' /\ FailuresRecorded
    BY <1>1, <2>1, Under
  <2>. QED
    BY <1>1, <1>3, <1>4, <1>5, <2>1, <2>2, TearDownKeeps, OnwardInv
<1>6. CASE Body(r)
  <2>1. Kept /\ called'.entered \subseteq called.entered \cup {run.suite}
    BY <1>1, <1>6 DEF Body, Kept, Typed, ACalled
  <2>2. Registered' /\ FailuresRecorded
    BY <1>1, <2>1, Under
  <2>. QED
    BY <1>1, <1>4, <1>6, <2>1, <2>2, BodyKeeps, OnwardInv
<1>7. TearDown(run) \/ Body(run)
  BY DEF SetUpReturns
<1>. QED
  BY <1>2, <1>5, <1>6, <1>7

LEMMA ToTearDownKeeps ==
  ASSUME IInv, Typed', at \in {"test", "jumped"}, TearDown(run),
         UNCHANGED <<suites, fail_on_inactive, ignore, failures>>
  PROVE  IInv'
<1>1. InATest(run) /\ Torn({}, {run.test}) /\ Typed /\ Registered
  BY DEF IInv
<1>2. PICK r \in ARun : r = run
  BY <1>1 DEF Typed
<1>3. run.suite \in Suites /\ SameRun(r)
  BY <1>2, Somewhere DEF SameRun
<1>4. InATest(r) /\ Torn({}, {r.test}) /\ TearDown(r)
  BY <1>1, <1>2
<1>5. Kept /\ called'.entered \subseteq called.entered \cup {run.suite}
  BY <1>1, <1>3, <1>4, TearDownLeaves
<1>6. Registered' /\ FailuresRecorded
  BY <1>1, <1>5, Under
<1>. QED
  BY <1>1, <1>3, <1>4, <1>5, <1>6, TearDownKeeps, OnwardInv

LEMMA TearDownReturnsKeeps ==
  ASSUME IInv, Typed', TearDownReturns
  PROVE  IInv'
<1>1. /\ at = "teardown" /\ UNCHANGED <<suites, fail_on_inactive, ignore, failures, called>>
      /\ InATest(run) /\ Torn({run.suite}, {}) /\ Typed /\ Registered
  BY DEF TearDownReturns, IInv
<1>2. PICK r \in ARun : r = run
  BY <1>1 DEF Typed
<1>3. /\ run.suite \in Suites /\ SameRun(r) /\ InATest(r) /\ Torn({r.suite}, {}) /\ Finish(r)
      /\ suite' = [suite EXCEPT ![r.suite].in_test_clean = FALSE]
  BY <1>1, <1>2, Somewhere DEF SameRun, TearDownReturns, S
<1>4. \A s \in Suites :
        /\ suite'[s].tests = suite[s].tests /\ suite'[s].fixture = suite[s].fixture
        /\ s # r.suite => suite'[s] = suite[s]
  BY <1>1, <1>2, <1>3 DEF Typed, ASuite
<1>5. Kept /\ called'.entered \subseteq called.entered \cup {run.suite}
  BY <1>1, <1>4 DEF Kept
<1>6. Registered' /\ FailuresRecorded
  BY <1>1, <1>5, Under
<1>7. Torn({}, {})'
  BY <1>1, <1>3, <1>4, <1>5, KeptIs DEF Torn, TestsOf
<1>8. AfterATest /\ FailuresRecorded'
  BY <1>1, <1>3, <1>5, <1>6, <1>7, FinishKeeps
<1>9. at' \in {"tests", "tests_done"}
  BY <1>8 DEF AfterATest
<1>10. Onward
  BY <1>8, <1>9 DEF Onward
<1>. QED
  BY <1>6, <1>8, <1>10, OnwardInv

---------------------------------------------------------------------------
(* The functions of a suite.                                               *)
LEMMA TestsOverKept ==
  ASSUME Typed, Registered, Kept, StillClean, UNCHANGED <<fail_on_inactive, ignore>>,
         called'.inactive_fails = called.inactive_fails, called'.ignores = called.ignores,
         called'.entered = called.entered, called'.began = called.began,
         called'.torn = called.torn,
         NEW r \in ARun, NEW open, NEW result, TestsOver(r, open, result),
         FailedIn(failures') = FailedIn(failures),
         summary'.suites_run = summary.suites_run, summary'.tests_run = summary.tests_run,
         summary'.tests_inactive = summary.tests_inactive,
         summary'.tests_failed = summary.tests_failed,
         NEW open2, Cleaned(open2)', NEW result2, result2 = "success" => result = "success"
  PROVE  TestsOver(r, open2, result2)'
<1>1. Running(r)'
  BY RunningKept DEF TestsOver
<1>2. Torn({}, {})' /\ Failed(r.of, {})'
  BY TornKept, FailedKept DEF TestsOver, StillClean
<1>3. ASSUME r.of # "test"
      PROVE  /\ FailedIn(failures') \subseteq TestsIn(called.entered)'
             /\ ignore' \/ (r.first = "success" /\ result2 = "success") =>
                  Accounted(called.entered, 0)'
  <2>1. called.entered \in SUBSET Suites
        /\ InTests(suite', called.entered) = InTests(suite, called.entered)
    BY KeptIs
  <2>2. /\ FailedIn(failures) \subseteq TestsIn(called.entered)
        /\ ignore \/ (r.first = "success" /\ result2 = "success") =>
             Accounted(called.entered, 0)
    BY <1>3 DEF TestsOver
  <2>3. Accounted(called.entered, 0) => Accounted(called.entered, 0)'
    BY <2>1 DEF Accounted, TestsIn
  <2>. QED
    BY <2>1, <2>2, <2>3 DEF TestsIn
<1>. QED
  BY <1>1, <1>2, <1>3 DEF TestsOver

LEMMA AheadKept ==
  ASSUME Typed, Registered, Kept, StillClean, UNCHANGED <<fail_on_inactive, ignore, called>>,
         NEW r \in ARun, Ahead(r), FailedIn(failures') = FailedIn(failures),
         summary'.suites_run = summary.suites_run, summary'.tests_run = summary.tests_run,
         summary'.tests_inactive = summary.tests_inactive,
         summary'.tests_failed = summary.tests_failed
  PROVE  Ahead(r)'
<1>1. Running(r)'
  BY RunningKept DEF Ahead
<1>2. Cleaned({})' /\ Torn({}, {})' /\ Failed(r.of, {})'
  BY CleanedKept, TornKept, FailedKept DEF Ahead, StillClean
<1>3. called.entered \in SUBSET Suites
      /\ InTests(suite', called.entered) = InTests(suite, called.entered)
  BY KeptIs
<1>4. FailedIn(failures') \subseteq TestsIn(called.entered)'
  BY <1>3 DEF Ahead, TestsIn
<1>5. r.of # "test" => Accounted(called.entered, 0)'
  BY <1>3 DEF Ahead, Accounted, TestsIn
<1>. QED
  BY <1>1, <1>2, <1>4, <1>5 DEF Ahead

LEMMA CleanupStartsKeeps ==
  ASSUME IInv, Typed', CleanupStarts
  PROVE  IInv'
<1>1. /\ at = "tests_done" /\ UNCHANGED registryVars /\ UNCHANGED <<summary, failures>>
      /\ TestsOver(run, {run.suite}, run.result) /\ run.suite \in called.entered
  BY DEF CleanupStarts, IInv
<1>2. Kept /\ StillClean /\ UNCHANGED <<suites, suite, fail_on_inactive, ignore>>
  BY <1>1, SameSuites DEF registryVars
<1>3. Typed
  BY DEF IInv
<1>4. PICK r \in ARun : r = run
  BY <1>3 DEF Typed
<1>5. /\ called'.inactive_fails = called.inactive_fails /\ called'.ignores = called.ignores
      /\ called'.entered = called.entered /\ called'.began = called.began
      /\ called'.torn = called.torn
      /\ called'.cleaned = IF Has("cleanup") THEN called.cleaned \cup {r.suite}
                           ELSE called.cleaned
  BY <1>3, <1>4 DEF CleanupStarts, Typed, ACalled, S
<1>6. Registered /\ FailuresRecorded /\ Registered'
  BY <1>1, <1>2, <1>5, Under
<1>7. Cleaned({})'
  <2>1. called.cleaned = {s \in called.entered \ {r.suite} : "cleanup" \in suite[s].fixture}
        /\ r.suite \in called.entered
    BY <1>1, <1>4 DEF TestsOver, Cleaned
  <2>. QED
    BY <1>2, <1>4, <1>5, <2>1 DEF Cleaned, Has, S
<1>8. PICK result \in Results : result = r.result
  BY DEF ARun
<1>9. TestsOver(r, {}, result)'
  BY <1>1, <1>2, <1>3, <1>4, <1>5, <1>6, <1>7, <1>8, TestsOverKept
<1>10. FailuresRecorded'
  BY <1>1, <1>3, <1>5, <1>6, RecordedKept
<1>11. CASE Has("cleanup")
  <2>1. at' = "cleanup" /\ run' = run
    BY <1>11, Zenon DEF CleanupStarts
  <2>2. r = run'
    BY <1>4, <2>1
  <2>3. TestsOver(run, {}, run.result)' /\ (run.suite \in called.entered)'
    BY <1>1, <1>4, <1>5, <1>8, <1>9, <2>2
  <2>. QED
    BY <1>6, <1>10, <2>1, <2>3 DEF IInv
<1>12. CASE ~ Has("cleanup")
  <2>1. SuiteOver(result)
    BY <1>4, <1>8, <1>12, Zenon DEF CleanupStarts
  <2>2. /\ at' \in {"idle", "suite"}
        /\ at' = "idle" => Over'
        /\ at' = "suite" => Ahead(run)' /\ run'.of # "test"
    BY <1>2, <1>3, <1>4, <1>6, <1>9, <2>1, SuiteOverKeeps
  <2>. QED
    BY <1>6, <1>10, <2>2, OverInv
<1>. QED
  BY <1>11, <1>12

LEMMA CleanupReturnsKeeps ==
  ASSUME IInv, Typed', NEW ok \in BOOLEAN, CleanupReturns(ok)
  PROVE  IInv'
<1> DEFINE in_suite == run.of # "test"
           over == IF ~ ok \/ (in_suite /\ suite[S].cleanup_error) THEN "cleanup_failed"
                   ELSE run.result
           failed == IF in_suite THEN over # "success" ELSE ~ ok
<1>1. /\ at = "cleanup" /\ UNCHANGED <<suites, fail_on_inactive, ignore, called>>
      /\ TestsOver(run, {}, run.result)
      /\ suite' = [suite EXCEPT ![S].cleanup_error = @ \/ (in_suite /\ failed)]
      /\ SuiteOver(over)
  BY DEF CleanupReturns, IInv
<1>2. Typed
  BY DEF IInv
<1>3. PICK r \in ARun : r = run
  BY <1>2 DEF Typed
<1>4. PICK result \in Results : result = over
  BY <1>3 DEF ARun, Results
<1>5. result = "success" => r.result = "success"
  BY <1>3, <1>4
<1>6. Kept /\ StillClean
  BY <1>1, <1>2 DEF Kept, StillClean, Typed, ASuite
<1>7. Registered /\ FailuresRecorded /\ Registered'
  BY <1>1, <1>6, Under
<1>8. PICK n \in {0, 1} :
        /\ summary'.suites_failed = summary.suites_failed + n
        /\ summary'.suites_run = summary.suites_run /\ summary'.tests_run = summary.tests_run
        /\ summary'.tests_inactive = summary.tests_inactive
        /\ summary'.tests_failed = summary.tests_failed
        /\ summary'.asserts_failed = summary.asserts_failed
        /\ summary'.suites_inactive = summary.suites_inactive
        /\ FailedIn(failures') = FailedIn(failures)
        /\ Len(failures') = Len(failures) + n
  <2>1. CASE failed
    <3>1. /\ summary' = [summary EXCEPT !.suites_failed = @ + 1]
          /\ failures' = Append(failures, Record("cleanup_failed", None))
      BY <2>1, Zenon DEF CleanupReturns
    <3>2. /\ Record("cleanup_failed", None) \in AFailure
          /\ Record("cleanup_failed", None).type # "assert"
      BY <1>1, Somewhere DEF Record, AFailure, Kinds, S
    <3>3. FailedIn(failures') = FailedIn(failures) /\ Len(failures') = Len(failures) + 1
      BY <1>2, <3>1, <3>2, RecordAdds DEF Typed
    <3>. QED
      BY <1>2, <3>1, <3>3 DEF Typed, ASummary
  <2>2. CASE ~ failed
    <3>1. UNCHANGED <<summary, failures>>
      BY <2>2, Zenon DEF CleanupReturns
    <3>2. Len(failures) \in Nat /\ summary.suites_failed \in Nat
      BY <1>2 DEF Typed, ASummary
    <3>. QED
      BY <3>1, <3>2
  <2>. QED
    BY <2>1, <2>2
<1>9. FailuresRecorded'
  <2>1. /\ Len(failures) \in Nat /\ summary.suites_failed \in Nat /\ summary.asserts_failed \in Nat
        /\ summary.suites_inactive \in Nat /\ summary.tests_inactive \in Nat
    BY <1>2 DEF Typed, ASummary
  <2>. QED
    BY <1>1, <1>7, <1>8, <2>1 DEF FailuresRecorded
<1>10. Cleaned({})'
  BY <1>1, <1>2, <1>6, <1>7, CleanedKept DEF TestsOver
<1>11. TestsOver(r, {}, result)'
  BY <1>1, <1>2, <1>3, <1>5, <1>6, <1>7, <1>8, <1>10, TestsOverKept
<1>12. /\ at' \in {"idle", "suite"}
       /\ at' = "idle" => Over'
       /\ at' = "suite" => Ahead(run)' /\ run'.of # "test"
  BY <1>1, <1>2, <1>3, <1>4, <1>7, <1>11, SuiteOverKeeps
<1>. QED
  BY <1>7, <1>9, <1>12, OverInv

LEMMA InitReturnsKeeps ==
  ASSUME IInv, Typed', NEW ok \in BOOLEAN, InitReturns(ok)
  PROVE  IInv'
<1> DEFINE in_suite == run.of # "test"
           failed == ~ ok \/ (in_suite /\ suite[S].set_up_error)
           skipped == in_suite /\ suite[S].skipped
<1>1. /\ at = "init" /\ UNCHANGED <<suites, fail_on_inactive, ignore>> /\ Ahead(run)
      /\ suite' = [suite EXCEPT ![S].set_up_error = @ \/ (in_suite /\ failed)]
  BY DEF InitReturns, IInv
<1>2. Typed
  BY DEF IInv
<1>3. PICK r \in ARun : r = run
  BY <1>2 DEF Typed
<1>4. Kept /\ StillClean
  BY <1>1, <1>2 DEF Kept, StillClean, Typed, ASuite
<1>5. \/ skipped /\ SuiteOver("success") /\ UNCHANGED <<summary, failures, called>>
      \/ /\ failed
         /\ summary' = [summary EXCEPT !.suites_failed = @ + 1]
         /\ failures' = Append(failures, Record("init_failed", None))
         /\ SuiteOver("init_failed") /\ UNCHANGED called
      \/ in_suite /\ ToTests /\ UNCHANGED <<summary, failures>>
      \/ /\ ~ in_suite /\ at' = "run_test" /\ UNCHANGED run
         /\ called' = [called EXCEPT !.entered = {S}] /\ UNCHANGED <<summary, failures>>
  BY Zenon DEF InitReturns
<1>6. CASE skipped /\ SuiteOver("success") /\ UNCHANGED <<summary, failures, called>>
  <2>1. Registered /\ FailuresRecorded /\ Registered'
    BY <1>1, <1>4, <1>6, Under
  <2>2. FailuresRecorded'
    BY <1>2, <1>6, <2>1, RecordedKept
  <2>3. TestsOver(r, {}, "success")'
    BY <1>1, <1>2, <1>3, <1>4, <1>6, <2>1, AheadIsOver
  <2>4. /\ at' \in {"idle", "suite"}
        /\ at' = "idle" => Over'
        /\ at' = "suite" => Ahead(run)' /\ run'.of # "test"
    BY <1>1, <1>2, <1>3, <1>6, <2>1, <2>3, SuiteOverKeeps DEF Results
  <2>. QED
    BY <2>1, <2>2, <2>4, OverInv
<1>7. CASE /\ failed
           /\ summary' = [summary EXCEPT !.suites_failed = @ + 1]
           /\ failures' = Append(failures, Record("init_failed", None))
           /\ SuiteOver("init_failed") /\ UNCHANGED called
  <2>1. Registered /\ FailuresRecorded /\ Registered'
    BY <1>1, <1>4, <1>7, Under
  <2>2. /\ summary'.suites_failed = summary.suites_failed + 1
        /\ summary'.suites_run = summary.suites_run /\ summary'.tests_run = summary.tests_run
        /\ summary'.tests_inactive = summary.tests_inactive
        /\ summary'.tests_failed = summary.tests_failed
        /\ summary'.asserts_failed = summary.asserts_failed
        /\ summary'.suites_inactive = summary.suites_inactive
        /\ summary.suites_failed \in Nat /\ summary.asserts_failed \in Nat
        /\ summary.suites_inactive \in Nat /\ summary.tests_inactive \in Nat
    BY <1>2, <1>7 DEF Typed, ASummary
  <2>3. FailedIn(failures') = FailedIn(failures) /\ Len(failures') = Len(failures) + 1
        /\ Len(failures) \in Nat
    <3>1. /\ Record("init_failed", None) \in AFailure
          /\ Record("init_failed", None).type # "assert"
      BY <1>1, Somewhere DEF Record, AFailure, Kinds, S
    <3>. QED
      BY <1>2, <1>7, <3>1, RecordAdds DEF Typed
  <2>4. FailuresRecorded'
    <3>1. called' = called
      BY <1>7
    <3>2. PICK i \in Nat :
            i = IF called.inactive_fails
                THEN summary.suites_inactive + summary.tests_inactive ELSE 0
      BY <2>2
    <3>3. Len(failures) = summary.asserts_failed + summary.suites_failed + i
      BY <2>1, <3>2 DEF FailuresRecorded
    <3>4. Len(failures') = summary'.asserts_failed + summary'.suites_failed + i
      BY <2>2, <2>3, <3>3
    <3>. QED
      BY <2>2, <3>1, <3>2, <3>4 DEF FailuresRecorded
  <2>5. TestsOver(r, {}, "init_failed")'
    BY <1>1, <1>2, <1>3, <1>4, <1>7, <2>1, <2>2, <2>3, AheadIsOver
  <2>6. /\ at' \in {"idle", "suite"}
        /\ at' = "idle" => Over'
        /\ at' = "suite" => Ahead(run)' /\ run'.of # "test"
    BY <1>1, <1>2, <1>3, <1>7, <2>1, <2>5, SuiteOverKeeps DEF Results
  <2>. QED
    BY <2>1, <2>4, <2>6, OverInv
<1>8. CASE in_suite /\ ToTests /\ UNCHANGED <<summary, failures>>
  BY <1>1, <1>4, <1>8, ToTestsKeeps
<1>9. CASE /\ ~ in_suite /\ at' = "run_test" /\ UNCHANGED run
           /\ called' = [called EXCEPT !.entered = {S}] /\ UNCHANGED <<summary, failures>>
  <2>1. /\ called'.inactive_fails = called.inactive_fails /\ called'.ignores = called.ignores
        /\ called'.entered = {r.suite} /\ called'.began = called.began
        /\ called'.torn = called.torn /\ called'.cleaned = called.cleaned
    BY <1>2, <1>3, <1>9 DEF Typed, ACalled, S
  <2>2. Typed /\ Registered /\ FailuresRecorded /\ Registered'
    BY <1>1, <1>3, <1>4, <2>1, Under
  <2>3. FailuresRecorded'
    BY <1>9, <2>1, <2>2, RecordedKept
  <2>4. r.of = "test" /\ Ahead(r)
    BY <1>1, <1>3, <1>9
  <2>5. called.entered = {}
    BY <2>4 DEF Ahead, Running
  <2>6. Running(r)'
    BY <1>1, <1>2, <1>4, <2>1, <2>2, <2>4, RunningKept DEF Ahead
  <2>7. called.cleaned = {} /\ FailedIn(failures) = {}
    BY <2>4, <2>5 DEF Ahead, Cleaned, TestsIn, InTests
  <2>8. Cleaned({r.suite})'
    BY <2>1, <2>7 DEF Cleaned
  <2>9. Torn({}, {})' /\ Failed(r.of, {})'
    BY <1>2, <1>4, <1>9, <2>1, <2>2, <2>4, TornKept, FailedKept DEF Ahead, StillClean
  <2>10. AtRunTest(r)'
    BY <1>9, <2>1, <2>4, <2>6, <2>7, <2>8, <2>9 DEF AtRunTest
  <2>11. r = run'
    BY <1>3, <1>9
  <2>. QED
    BY <1>9, <2>2, <2>3, <2>10, <2>11 DEF IInv
<1>. QED
  BY <1>5, <1>6, <1>7, <1>8, <1>9

---------------------------------------------------------------------------
(* The checks.                                                             *)
LEMMA InTestStays ==
  ASSUME IInv, Typed', Kept, StillClean, FailuresRecorded', Registered',
         UNCHANGED <<fail_on_inactive, ignore, run, called>>,
         summary'.suites_run = summary.suites_run, summary'.tests_run = summary.tests_run,
         summary'.tests_inactive = summary.tests_inactive,
         summary'.tests_failed = summary.tests_failed,
         at \in {"setup", "test", "teardown"}, at' \in {at, "jumped"},
         \/ failures' = failures
         \/ /\ FailedIn(failures') = FailedIn(failures) \cup {run.test}
            /\ Len(failures') = Len(failures) + 1
  PROVE  IInv'
<1>1. InATest(run) /\ Typed /\ Registered
  BY DEF IInv
<1>2. PICK r \in ARun : r = run
  BY <1>1 DEF Typed
<1>3. r = run' /\ InATest(r)
  BY <1>1, <1>2
<1>4. InATest(r)'
  BY <1>1, <1>2, <1>3, InATestKept
<1>5. r.suite \in Suites
  BY <1>2, Somewhere
<1>6. CASE at \in {"setup", "test"}
  <2>1. Torn({}, {r.test})
    BY <1>2, <1>6 DEF IInv
  <2>2. Torn({}, {r.test})'
    BY <1>1, <2>1, TornKept DEF StillClean
  <2>. QED
    BY <1>3, <1>4, <1>6, <2>2 DEF IInv
<1>7. CASE at = "teardown"
  <2>1. Torn({r.suite}, {}) /\ suite[r.suite].in_test_clean
    BY <1>2, <1>7 DEF IInv
  <2>2. Torn({}, {r.test})
    BY <2>1 DEF Torn
  <2>3. Torn({r.suite}, {})' /\ Torn({}, {r.test})' /\ suite'[r.suite].in_test_clean
    BY <1>1, <1>5, <2>1, <2>2, TornKept DEF StillClean
  <2>. QED
    BY <1>3, <1>4, <1>7, <2>3 DEF IInv
<1>. QED
  BY <1>6, <1>7

LEMMA BetweenStays ==
  ASSUME IInv, Typed', Kept, StillClean, FailuresRecorded', Registered',
         UNCHANGED <<fail_on_inactive, ignore, run, called, at>>,
         summary'.suites_run = summary.suites_run, summary'.tests_run = summary.tests_run,
         summary'.tests_inactive = summary.tests_inactive,
         summary'.tests_failed = summary.tests_failed,
         at \in {"init", "cleanup"}, FailedIn(failures') = FailedIn(failures)
  PROVE  IInv'
<1>1. Typed /\ Registered
  BY DEF IInv
<1>2. PICK r \in ARun : r = run
  BY <1>1 DEF Typed
<1>3. r = run'
  BY <1>2
<1>4. CASE at = "init"
  <2>1. Ahead(r)
    BY <1>2, <1>4 DEF IInv
  <2>2. Ahead(r)'
    BY <1>1, <2>1, AheadKept
  <2>. QED
    BY <1>3, <1>4, <2>2 DEF IInv
<1>5. CASE at = "cleanup"
  <2>1. TestsOver(r, {}, r.result) /\ r.suite \in called.entered
    BY <1>2, <1>5 DEF IInv
  <2>2. Cleaned({})'
    BY <1>1, <2>1, CleanedKept DEF TestsOver
  <2>3. TestsOver(r, {}, r.result)'
    BY <1>1, <2>1, <2>2, TestsOverKept
  <2>. QED
    BY <1>3, <1>5, <2>1, <2>3 DEF IInv
<1>. QED
  BY <1>4, <1>5

LEMMA CheckFailsKeeps ==
  ASSUME IInv, Typed', NEW fatal \in BOOLEAN, CheckFails(fatal)
  PROVE  IInv'
<1>1. /\ at \in {"init", "cleanup", "setup", "test", "teardown"}
      /\ UNCHANGED <<suites, fail_on_inactive, ignore, run, called>>
      /\ at' = IF InTest /\ fatal /\ run.jump THEN "jumped" ELSE at
      /\ summary' = [summary EXCEPT !.asserts_failed = @ + 1]
      /\ failures' = Append(failures, Record("assert", IF InTest THEN run.test ELSE None))
  BY DEF CheckFails, InUserCode, InTest
<1>2. Typed
  BY DEF IInv
<1>3. Kept /\ StillClean
  <2>1. \E b, c : suite' = [suite EXCEPT ![S].set_up_error = b, ![S].cleanup_error = c]
    BY Zenon DEF CheckFails
  <2>2. PICK b, c : suite' = [suite EXCEPT ![S].set_up_error = b, ![S].cleanup_error = c]
    BY <2>1
  <2>. QED
    BY <1>1, <1>2, <2>2 DEF Kept, StillClean, Typed, ASuite
<1>4. Registered /\ FailuresRecorded /\ Registered'
  BY <1>1, <1>3, Under
<1>5. /\ summary'.asserts_failed = summary.asserts_failed + 1
      /\ summary'.suites_run = summary.suites_run /\ summary'.tests_run = summary.tests_run
      /\ summary'.tests_inactive = summary.tests_inactive
      /\ summary'.tests_failed = summary.tests_failed
      /\ summary'.suites_failed = summary.suites_failed
      /\ summary'.suites_inactive = summary.suites_inactive
      /\ summary.suites_failed \in Nat /\ summary.asserts_failed \in Nat
      /\ summary.suites_inactive \in Nat /\ summary.tests_inactive \in Nat
  BY <1>1, <1>2 DEF Typed, ASummary
<1>6. /\ Len(failures') = Len(failures) + 1 /\ Len(failures) \in Nat
      /\ InTest => FailedIn(failures') = FailedIn(failures) \cup {run.test}
      /\ ~ InTest => FailedIn(failures') = FailedIn(failures)
  <2>1. PICK t : t = IF InTest THEN run.test ELSE None
    OBVIOUS
  <2>2. run.suite \in Suites /\ (InTest => t \in Tests /\ t # None) /\ (~ InTest => t = None)
    BY <1>1, <2>1, Somewhere, CUnitAssumption DEF InTest
  <2>3. /\ Record("assert", t) \in AFailure
        /\ Record("assert", t).type = "assert" /\ Record("assert", t).test = t
    BY <2>2 DEF Record, AFailure, Kinds, S
  <2>4. failures' = Append(failures, Record("assert", t))
    BY <1>1, <2>1
  <2>5. /\ Len(failures') = Len(failures) + 1 /\ Len(failures) \in Nat
        /\ FailedIn(failures') = FailedIn(failures) \cup ({t} \ {None})
    BY <1>2, <2>3, <2>4, RecordAdds DEF Typed
  <2>. QED
    BY <2>1, <2>2, <2>5
<1>7. FailuresRecorded'
  <2>1. PICK i \in Nat :
          i = IF called.inactive_fails
              THEN summary.suites_inactive + summary.tests_inactive ELSE 0
    BY <1>5
  <2>2. Len(failures) = summary.asserts_failed + summary.suites_failed + i
    BY <1>4, <2>1 DEF FailuresRecorded
  <2>3. Len(failures') = summary'.asserts_failed + summary'.suites_failed + i
    BY <1>5, <1>6, <2>2
  <2>. QED
    BY <1>1, <1>5, <2>1, <2>3 DEF FailuresRecorded
<1>8. CASE InTest
  BY <1>1, <1>3, <1>4, <1>5, <1>6, <1>7, <1>8, InTestStays DEF InTest
<1>9. CASE ~ InTest
  BY <1>1, <1>3, <1>4, <1>5, <1>6, <1>7, <1>9, BetweenStays DEF InTest
<1>. QED
  BY <1>8, <1>9

LEMMA SkipKeeps ==
  ASSUME IInv, Typed', Skip
  PROVE  IInv'
<1>1. /\ at \in {"init", "cleanup", "setup", "test", "teardown"}
      /\ UNCHANGED <<suites, fail_on_inactive, ignore, run, failures, called>>
      /\ at' = IF InTest /\ run.jump THEN "jumped" ELSE at
  BY DEF Skip, InUserCode, InTest
<1>2. Typed
  BY DEF IInv
<1>3. Kept /\ StillClean
  <2>1. \/ suite' = [suite EXCEPT ![S].skipped = TRUE, ![S].active = FALSE]
        \/ suite' = suite
    BY Zenon DEF Skip
  <2>2. ASSUME suite' = [suite EXCEPT ![S].skipped = TRUE, ![S].active = FALSE],
               NEW s \in Suites
        PROVE  /\ suite'[s].tests = suite[s].tests /\ suite'[s].fixture = suite[s].fixture
               /\ suite'[s].in_test_clean = suite[s].in_test_clean
    BY <1>2, <2>2 DEF Typed, ASuite
  <2>. QED
    BY <1>1, <2>1, <2>2, SameSuites DEF Kept, StillClean
<1>4. Registered /\ FailuresRecorded /\ Registered'
  BY <1>1, <1>3, Under
<1>5. /\ summary'.asserts_failed = summary.asserts_failed
      /\ summary'.suites_run = summary.suites_run /\ summary'.tests_run = summary.tests_run
      /\ summary'.tests_inactive = summary.tests_inactive
      /\ summary'.tests_failed = summary.tests_failed
      /\ summary'.suites_failed = summary.suites_failed
      /\ summary'.suites_inactive = summary.suites_inactive
  <2>1. PICK m \in {0, 1}, n \in {0, 1} :
          summary' = [summary EXCEPT !.suites_skipped = @ + m, !.tests_skipped = @ + n]
    BY <1>2, SkipCounts DEF Typed
  <2>. QED
    BY <1>2, <2>1 DEF Typed, ASummary
<1>6. FailuresRecorded'
  BY <1>1, <1>2, <1>4, <1>5, RecordedKept
<1>7. CASE InTest
  BY <1>1, <1>3, <1>4, <1>5, <1>6, <1>7, InTestStays DEF InTest
<1>8. CASE ~ InTest
  BY <1>1, <1>3, <1>4, <1>5, <1>6, <1>8, BetweenStays DEF InTest
<1>. QED
  BY <1>7, <1>8

---------------------------------------------------------------------------
(* The theorem.                                                            *)
LEMMA InvStep ==
  ASSUME IInv, [Next]_vars
  PROVE  IInv'
<1>1. Typed'
  BY TypedStep
<1>2. ASSUME NEW infos \in Infos, Register(infos)
      PROVE  IInv'
  BY <1>1, <1>2, RegisterKeeps
<1>3. CASE Change
  BY <1>1, <1>3, ChangeKeeps
<1>4. CASE RunAll
  <2>1. CASE suites = <<>>
    BY <1>1, <1>4, <2>1, RunBeginsKeeps DEF RunAll
  <2>2. CASE suites # <<>>
    <3>1. suites[1] \in ToSet(suites)
      BY <2>2, ToSetIs DEF IInv, Typed
    <3>. QED
      BY <1>1, <1>4, <2>2, <3>1, RunBeginsKeeps DEF RunAll
  <2>. QED
    BY <2>1, <2>2
<1>5. ASSUME NEW s \in ToSet(suites), RunSuite(s)
      PROVE  IInv'
  BY <1>1, <1>5, RunBeginsKeeps DEF RunSuite
<1>6. ASSUME NEW s \in ToSet(suites), NEW t \in Tests, RunTest(s, t) \/ RunTestRefused(s, t)
      PROVE  IInv'
  BY <1>1, <1>6, RunTestKeeps, RunTestRefusedKeeps
<1>7. CASE SuiteStarts \/ NextTest \/ RunTestStarts
  BY <1>1, <1>7, SuiteStartsKeeps, NextTestKeeps, RunTestStartsKeeps
<1>8. CASE SetUpReturns \/ TearDownReturns \/ CleanupStarts
  BY <1>1, <1>8, SetUpReturnsKeeps, TearDownReturnsKeeps, CleanupStartsKeeps
<1>9. CASE TestReturns \/ Jumped
  BY <1>1, <1>9, ToTearDownKeeps DEF TestReturns, Jumped
<1>10. ASSUME NEW ok \in BOOLEAN, InitReturns(ok) \/ CleanupReturns(ok)
       PROVE  IInv'
  BY <1>1, <1>10, InitReturnsKeeps, CleanupReturnsKeeps
<1>11. ASSUME NEW fatal \in BOOLEAN, CheckFails(fatal)
       PROVE  IInv'
  BY <1>1, <1>11, CheckFailsKeeps
<1>12. CASE Skip
  BY <1>1, <1>12, SkipKeeps
<1>13. CASE UNCHANGED vars
  <2>1. /\ UNCHANGED <<suites, suite, test, fail_on_inactive, ignore>>
        /\ UNCHANGED <<at, run, summary, failures, called>>
    BY <1>13 DEF vars
  <2>2. PICK r : r = run
    OBVIOUS
  <2>3. r = run'
    BY <2>1, <2>2
  <2>4. /\ Running(r)' <=> Running(r)
        /\ \A n : Accounted(called.entered, n)' <=> Accounted(called.entered, n)
        /\ \A n : Accounted(called.entered \ {r.suite}, n)' <=>
                   Accounted(called.entered \ {r.suite}, n)
    BY <2>1 DEF Running, Accounted, TestsIn, TestsOf
  <2>5. \A open, busy, current :
          /\ Cleaned(open)' <=> Cleaned(open)
          /\ Torn(busy, current)' <=> Torn(busy, current)
          /\ Failed(r.of, current)' <=> Failed(r.of, current)
    BY <2>1 DEF Cleaned, Torn, Failed, TestsOf
  <2>6. Over => Over'
    BY <2>1, <2>2, <2>3, <2>4, <2>5, Zenon DEF Over
  <2>7. Ahead(r) => Ahead(r)'
    BY <2>1, <2>4, <2>5 DEF Ahead, TestsIn
  <2>8. AtRunTest(r) => AtRunTest(r)'
    BY <2>1, <2>4, <2>5 DEF AtRunTest
  <2>9. AtTests(r) => AtTests(r)'
    BY <2>1, <2>4, <2>5 DEF AtTests, TestsIn
  <2>10. InATest(r) => InATest(r)'
    BY <2>1, <2>4, <2>5 DEF InATest, TestsIn, TestsOf
  <2>11. \A open : TestsOver(r, open, r.result) => TestsOver(r, open, r.result)'
    BY <2>1, <2>4, <2>5 DEF TestsOver, TestsIn
  <2>12. Registered' /\ FailuresRecorded'
    BY <2>1 DEF IInv, Registered, FailuresRecorded, TestsOf
  <2>13. CASE at = "idle"
    BY <1>1, <2>1, <2>6, <2>12, <2>13 DEF IInv
  <2>14. CASE at \in {"suite", "init"}
    BY <1>1, <2>1, <2>2, <2>3, <2>7, <2>12, <2>14 DEF IInv
  <2>15. CASE at \in {"run_test", "tests"}
    BY <1>1, <2>1, <2>2, <2>3, <2>8, <2>9, <2>12, <2>15 DEF IInv
  <2>16. CASE at \in {"setup", "test", "jumped", "teardown"}
    BY <1>1, <2>1, <2>2, <2>3, <2>5, <2>10, <2>12, <2>16 DEF IInv
  <2>17. CASE at \in {"tests_done", "cleanup"}
    BY <1>1, <2>1, <2>2, <2>3, <2>11, <2>12, <2>17 DEF IInv
  <2>. QED
    BY <2>13, <2>14, <2>15, <2>16, <2>17 DEF IInv, Typed, Places
<1>. QED
  BY <1>2, <1>3, <1>4, <1>5, <1>6, <1>7, <1>8, <1>9, <1>10, <1>11, <1>12, <1>13 DEF Next

LEMMA FailedTestsIs == FailedTests = FailedIn(failures)
BY DEF FailedTests, FailedIn

LEMMA InvImplies ==
  ASSUME IInv
  PROVE  RunsAddUp
<1>1. FailuresRecorded
  BY DEF IInv
<1>2. ASSUME Idle
      PROVE  Over
  BY <1>2 DEF IInv, Idle
<1>3. FailedTestsCounted
  <2>1. FailedIn(failures) \ {} = FailedIn(failures)
    OBVIOUS
  <2>. QED
    BY <1>2, <2>1, FailedTestsIs DEF FailedTestsCounted, Over, Failed
<1>4. FixturesPaired
  <2>1. ASSUME Idle
        PROVE  called.cleaned = {s \in called.entered : "cleanup" \in suite[s].fixture}
    BY <1>2, <2>1 DEF Over, Cleaned
  <2>2. ASSUME Idle, NEW s \in ToSet(suites), "teardown" \in suite[s].fixture,
               ~ suite[s].in_test_clean
        PROVE  called.began \cap ToSet(suite[s].tests) \subseteq called.torn
    BY <1>2, <2>2 DEF Over, Torn, TestsOf
  <2>. QED
    BY <2>1, <2>2 DEF FixturesPaired
<1>5. TestsAccounted
  <2>1. ASSUME Idle, run.of # "test", called.ignores \/ run.first = "success"
        PROVE  /\ summary.suites_run = Cardinality(called.entered)
               /\ summary.tests_run + summary.tests_inactive =
                    Cardinality(InTests(suite, called.entered))
    <3>1. Accounted(called.entered, 0)
      BY <1>2, <2>1 DEF Over
    <3>2. PICK m \in Nat, n \in Nat : m = summary.tests_run /\ n = summary.tests_inactive
      BY DEF IInv, Typed, ASummary
    <3>3. called.entered \in SUBSET Suites /\ IsFiniteSet(called.entered)
      <4>1. called.entered \subseteq ToSet(suites) /\ ToSet(suites) \subseteq Suites
            /\ IsFiniteSet(ToSet(suites))
        BY OnceCounted, ToSetIs DEF IInv, Typed, Registered
      <4>. QED
        BY <4>1, FS_Subset
    <3>4. PICK c \in Nat : c = Cardinality(InTests(suite, called.entered))
      BY <3>3, TestsFinite, FS_CardinalityType DEF IInv, Typed
    <3>5. m + n = c + 0
      BY <3>1, <3>2, <3>4 DEF Accounted, TestsIn
    <3>6. m + n = c
      BY <3>5
    <3>. QED
      BY <3>1, <3>2, <3>4, <3>6 DEF Accounted
  <2>. QED
    BY <2>1 DEF TestsAccounted, InTests
<1>. QED
  BY <1>1, <1>3, <1>4, <1>5 DEF RunsAddUp

(* Theorem: a run adds up (TestRun.c:716-1169).  Each failure is on        *)
(* record once, each test with a failed check is counted as failed, suites *)
(* are cleaned up and tests torn down if they were set up, and no test of  *)
(* a suite that was run is passed over.                                    *)
THEOREM RunsAddUpHolds == Spec => []RunsAddUp
<1>1. Init => IInv
  BY InvInit
<1>2. IInv /\ [Next]_vars => IInv'
  BY InvStep
<1>3. IInv => RunsAddUp
  BY InvImplies
<1>. QED
  BY <1>1, <1>2, <1>3, PTL DEF Spec
=============================================================================
