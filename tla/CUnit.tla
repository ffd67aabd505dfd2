------------------------------- MODULE CUnit --------------------------------
(***************************************************************************)
(* CUnit 3.2.7, which runs the tests of this repository: the registry of   *)
(* suites and tests (TestDB.c) and a run of them (TestRun.c).  The         *)
(* functions of a suite and its tests belong to the user: between the call *)
(* of one and its return are its checks, of which a fatal one, or a skip,  *)
(* may leave it by longjmp.                                                *)
(*                                                                         *)
(* Names are unique and allocation does not fail; clocks, handlers and     *)
(* what is printed are left out.  A suite keeps flags from one run to the  *)
(* next that nothing resets.                                               *)
(*                                                                         *)
(* A definition whose comment calls it a fault stands before the one it is *)
(* a faulty variant of; nothing uses it but the mutants of the runs.       *)
(***************************************************************************)
EXTENDS Integers, Sequences, FiniteSets, SequencesExt

CONSTANTS Suites, Tests,
          Infos,        \* arrays of CU_SuiteInfo: suite, its functions, its tests
          None,
          MaxRuns,      \* bound: test runs
          MaxChecks,    \* bound: checks that fail and skips
          MaxChanges    \* bound: calls that change a suite, a test or a setting

SuiteInfo == [suite : Suites, fixture : SUBSET {"init", "cleanup", "setup", "teardown"},
              tests : Seq(Tests)]

(* An entry of an array makes a suite, or a test, of its own.              *)
ASSUME CUnitAssumption ==
    /\ \A infos \in Infos :
         /\ infos \in Seq(SuiteInfo)
         /\ \A i, j \in DOMAIN infos :
                i # j => /\ infos[i].suite # infos[j].suite
                         /\ ToSet(infos[i].tests) \cap ToSet(infos[j].tests) = {}
         /\ \A i \in DOMAIN infos : \A m, n \in DOMAIN infos[i].tests :
                infos[i].tests[m] = infos[i].tests[n] => m = n
    /\ None \notin Suites \cup Tests
    /\ MaxRuns \in Nat /\ MaxChecks \in Nat /\ MaxChanges \in Nat

VARIABLES
    suites,           \* the registry: its suites, in the order of their addition
    suite, test,      \* what CU_Suite and CU_Test hold
    fail_on_inactive, ignore,     \* f_failure_on_inactive; the error action is CUEA_IGNORE
    at,               \* where the run is; between runs "idle"
    run,              \* the locals of the run
    summary,          \* f_run_summary
    failures,         \* f_failure_list
    called,           \* what this run has called
    runs, checks, changes

vars == <<suites, suite, test, fail_on_inactive, ignore, at, run, summary, failures, called,
          runs, checks, changes>>
registryVars == <<suites, suite, test, fail_on_inactive, ignore>>

NewSuite(fixture, its_tests) ==
    [fixture |-> fixture, tests |-> its_tests, active |-> TRUE, skipped |-> FALSE,
     set_up_error |-> FALSE, cleanup_error |-> FALSE, in_test_clean |-> FALSE]
NewTest == [active |-> TRUE, skipped |-> FALSE, failed_runs |-> 0]

NoRun == [of |-> "none", pos |-> 0, suite |-> None, k |-> 0, test |-> None, start |-> 0,
          jump |-> FALSE, result |-> "success", first |-> "success"]
NoResults == [suites_run |-> 0, suites_failed |-> 0, suites_inactive |-> 0, tests_run |-> 0,
              tests_failed |-> 0, tests_inactive |-> 0, asserts_failed |-> 0,
              suites_skipped |-> 0, tests_skipped |-> 0]
NothingCalled == [inactive_fails |-> FALSE, ignores |-> FALSE, entered |-> {}, cleaned |-> {},
                  began |-> {}, torn |-> {}]

Init ==
    /\ suites = <<>> /\ suite = [s \in Suites |-> NewSuite({}, <<>>)]
    /\ test = [t \in Tests |-> NewTest]
    /\ fail_on_inactive = TRUE /\ ignore = TRUE
    /\ at = "idle" /\ run = NoRun /\ summary = NoResults /\ failures = <<>>
    /\ called = NothingCalled
    /\ runs = 0 /\ checks = 0 /\ changes = 0

---------------------------------------------------------------------------
(* The registry.                                                           *)

InASuite(t) == \E s \in ToSet(suites) : t \in ToSet(suite[s].tests)

Idle == at = "idle"

(* CU_register_suites, with an array of suites and their tests. *)
Register(infos) ==
    LET info(s) == CHOOSE i \in ToSet(infos) : i.suite = s
    IN  /\ Idle /\ suites = <<>>
        /\ suites' = [i \in DOMAIN infos |-> infos[i].suite]
        /\ suite' = [s \in Suites |->
                        IF s \in ToSet(suites') THEN NewSuite(info(s).fixture, info(s).tests)
                        ELSE suite[s]]
        /\ UNCHANGED <<test, fail_on_inactive, ignore, at, run, summary, failures, called, runs,
                       checks, changes>>

(* CU_set_suite_active, CU_set_test_active, CU_set_fail_on_inactive,       *)
(* CU_set_error_action.                                                    *)
Change ==
    /\ Idle /\ changes < MaxChanges /\ changes' = changes + 1
    /\ \/ /\ \E s \in ToSet(suites) : suite' = [suite EXCEPT ![s].active = ~ @]
          /\ UNCHANGED <<test, fail_on_inactive, ignore>>
       \/ /\ \E t \in Tests : InASuite(t) /\ test' = [test EXCEPT ![t].active = ~ @]
          /\ UNCHANGED <<suite, fail_on_inactive, ignore>>
       \/ fail_on_inactive' = ~ fail_on_inactive /\ UNCHANGED <<suite, test, ignore>>
       \/ ignore' = ~ ignore /\ UNCHANGED <<suite, test, fail_on_inactive>>
    /\ UNCHANGED <<suites, at, run, summary, failures, called, runs, checks>>

---------------------------------------------------------------------------
(* What a run does between the user's functions.                           *)

S == run.suite
Has(function) == function \in suite[S].fixture
Record(type, t) == [type |-> type, suite |-> S, test |-> t]

(* clear_previous_results: the counts of what was skipped stay.            *)
Cleared == [NoResults EXCEPT !.suites_skipped = summary.suites_skipped,
                             !.tests_skipped = summary.tests_skipped]

RunBegins(of, s, place) ==
    /\ Idle /\ runs < MaxRuns
    /\ runs' = runs + 1
    /\ at' = place
    /\ run' = [NoRun EXCEPT !.of = of, !.pos = IF of = "all" THEN 1 ELSE 0, !.suite = s]
    /\ failures' = <<>> /\ summary' = Cleared
    /\ called' = [NothingCalled EXCEPT !.inactive_fails = fail_on_inactive, !.ignores = ignore]
    /\ UNCHANGED <<registryVars, checks, changes>>

(* CU_run_all_tests and CU_run_suite. *)
RunAll == RunBegins("all", IF suites = <<>> THEN None ELSE suites[1],
                    IF suites = <<>> THEN "idle" ELSE "suite")
RunSuite(s) == RunBegins("suite", s, "suite")

(* CU_run_test of an active suite that has the test. *)
RunTest(s, t) ==
    /\ Idle /\ runs < MaxRuns /\ suite[s].active /\ t \in ToSet(suite[s].tests)
    /\ runs' = runs + 1
    /\ at' = IF "init" \in suite[s].fixture THEN "init" ELSE "run_test"
    /\ run' = [NoRun EXCEPT !.of = "test", !.suite = s, !.test = t]
    /\ failures' = <<>> /\ summary' = Cleared
    /\ called' = [NothingCalled EXCEPT !.inactive_fails = fail_on_inactive, !.ignores = ignore,
                                       !.entered = IF at' = "init" THEN {} ELSE {s}]
    /\ UNCHANGED <<registryVars, checks, changes>>

(* CU_run_test of an inactive suite, or with a test of another one. *)
RunTestRefused(s, t) ==
    /\ Idle /\ runs < MaxRuns /\ (suite[s].active => t \notin ToSet(suite[s].tests))
    /\ runs' = runs + 1
    /\ run' = [NoRun EXCEPT !.of = "test", !.suite = s, !.test = t,
                            !.first = IF suite[s].active THEN "not_in_suite" ELSE "suite_inactive"]
    /\ failures' = IF ~ suite[s].active /\ fail_on_inactive
                   THEN <<[type |-> "suite_inactive", suite |-> s, test |-> None]>> ELSE <<>>
    /\ summary' = [Cleared EXCEPT !.suites_inactive = IF suite[s].active THEN 0 ELSE 1]
    /\ called' = [NothingCalled EXCEPT !.inactive_fails = fail_on_inactive, !.ignores = ignore]
    /\ UNCHANGED <<registryVars, at, checks, changes>>

(* The suite is over with `result`: the next one, or the end of the run.   *)
SuiteOver(result) ==
    LET first == IF run.first = "success" THEN result ELSE run.first
        next == IF run.of = "all" /\ run.pos < Len(suites) /\ (first = "success" \/ ignore)
                THEN run.pos + 1 ELSE 0
    IN  /\ at' = IF next = 0 THEN "idle" ELSE "suite"
        /\ run' = [run EXCEPT !.first = first, !.result = "success", !.pos = next,
                              !.suite = IF next = 0 THEN S ELSE suites[next]]

(* The loop over the tests is next, at the first of them.                  *)
ToTests ==
    /\ at' = "tests" /\ run' = [run EXCEPT !.k = 1]
    /\ called' = [called EXCEPT !.entered = @ \cup {S}]

(* run_single_suite up to the initialization function.                     *)
SuiteStarts ==
    /\ at = "suite"
    /\ IF ~ suite[S].active
       THEN /\ summary' = [summary EXCEPT !.suites_inactive = @ + 1]
            /\ failures' = IF fail_on_inactive
                           THEN Append(failures, Record("suite_inactive", None)) ELSE failures
            /\ SuiteOver(IF fail_on_inactive THEN "suite_inactive" ELSE "success")
            /\ UNCHANGED called
       ELSE /\ IF Has("init") THEN at' = "init" /\ UNCHANGED <<run, called>> ELSE ToTests
            /\ UNCHANGED <<summary, failures>>
    /\ UNCHANGED <<registryVars, runs, checks, changes>>

(* The initialization function returns.  CU_run_test looks at what it      *)
(* returns only; run_single_suite at a failed check, too, and at a flag    *)
(* that stays from an earlier failure.                                     *)
InitReturns(ok) ==
    LET in_suite == run.of # "test"
        failed == ~ ok \/ (in_suite /\ suite[S].set_up_error)
        skipped == in_suite /\ suite[S].skipped
    IN  /\ at = "init"
        /\ suite' = [suite EXCEPT ![S].set_up_error = @ \/ (in_suite /\ failed)]
        /\ \/ skipped /\ SuiteOver("success") /\ UNCHANGED <<summary, failures, called>>
           \/ /\ ~ skipped /\ failed
              /\ summary' = [summary EXCEPT !.suites_failed = @ + 1]
              /\ failures' = Append(failures, Record("init_failed", None))
              /\ SuiteOver("init_failed") /\ UNCHANGED called
           \/ /\ ~ skipped /\ ~ failed
              /\ IF in_suite
                 THEN ToTests
                 ELSE /\ at' = "run_test" /\ UNCHANGED run
                      /\ called' = [called EXCEPT !.entered = {S}]
              /\ UNCHANGED <<summary, failures>>
        /\ UNCHANGED <<suites, test, fail_on_inactive, ignore, runs, checks, changes>>

(* One test is done, with `result`: the loop goes on, or CU_run_test does. *)
AfterTest(result) ==
    IF run.of = "test"
    THEN at' = "tests_done" /\ run' = [run EXCEPT !.result = result, !.jump = FALSE]
    ELSE /\ at' = "tests"
         /\ run' = [run EXCEPT !.k = @ + 1, !.test = None, !.jump = FALSE,
                               !.result = IF @ = "success" THEN result ELSE @]

(* The function of the test is next.                                       *)
Body(r) == /\ at' = "test" /\ run' = [r EXCEPT !.jump = TRUE]
           /\ called' = [called EXCEPT !.began = @ \cup {r.test}]
           /\ UNCHANGED <<suite, test, summary>>

(* The test was run: it failed if it added a record. *)
Finish(r) ==
    LET failed == Len(failures) > r.start
    IN  /\ summary' = [summary EXCEPT !.tests_run = @ + 1,
                                      !.tests_failed = IF failed THEN @ + 1 ELSE @]
        /\ test' = [test EXCEPT ![r.test].failed_runs = IF failed THEN @ + 1 ELSE @]
        /\ AfterTest("success")

(* The tear-down is next, unless an earlier one was left by a jump: the    *)
(* flag that keeps it from running twice is then still set.                *)
TearDown(r) ==
    IF Has("teardown") /\ ~ suite[S].in_test_clean
    THEN /\ at' = "teardown" /\ run' = r
         /\ suite' = [suite EXCEPT ![S].in_test_clean = TRUE]
         /\ called' = [called EXCEPT !.torn = @ \cup {r.test}]
         /\ UNCHANGED <<test, summary>>
    ELSE Finish(r) /\ UNCHANGED <<suite, called>>

(* run_single_test of t, an active test. *)
TestStarts(t) ==
    LET r == [run EXCEPT !.test = t, !.start = Len(failures)]
    IN  IF suite[S].skipped
        THEN Finish(r) /\ UNCHANGED <<suite, called>>
        ELSE IF Has("setup")
        THEN /\ at' = "setup" /\ run' = r
             /\ called' = [called EXCEPT !.began = @ \cup {t}]
             /\ UNCHANGED <<suite, test, summary>>
        ELSE IF test[t].skipped THEN TearDown(r) ELSE Body(r)

(* The loop of run_single_suite over its tests, and its end: an inactive   *)
(* test is counted and the next one looked at.                             *)
NextTest ==
    LET t == suite[S].tests[run.k]
        more == run.k <= Len(suite[S].tests) /\ (run.result = "success" \/ ignore)
    IN  /\ at = "tests"
        /\ \/ /\ ~ more
              /\ at' = "tests_done"
              /\ summary' = [summary EXCEPT !.suites_run = @ + 1]
              /\ UNCHANGED <<suite, test, run, failures, called>>
           \/ /\ more /\ test[t].active
              /\ TestStarts(t) /\ UNCHANGED failures
           \/ /\ more /\ ~ test[t].active
              /\ summary' = [summary EXCEPT !.tests_inactive = @ + 1]
              /\ failures' = IF fail_on_inactive
                             THEN Append(failures, Record("test_inactive", t)) ELSE failures
              /\ run' = [run EXCEPT !.k = @ + 1,
                                    !.result = IF fail_on_inactive THEN "test_inactive" ELSE @]
              /\ UNCHANGED <<at, suite, test, called>>
        /\ UNCHANGED <<suites, fail_on_inactive, ignore, runs, checks, changes>>

(* CU_run_test gets to its test.  An inactive one is counted as failed,    *)
(* too, if it left a record.                                               *)
RunTestStarts ==
    LET t == run.test
    IN  /\ at = "run_test"
        /\ IF test[t].active
           THEN TestStarts(t) /\ UNCHANGED failures
           ELSE /\ failures' = IF fail_on_inactive
                               THEN Append(failures, Record("test_inactive", t)) ELSE failures
                /\ summary' = [summary EXCEPT
                                   !.tests_inactive = @ + 1,
                                   !.tests_failed = IF fail_on_inactive THEN @ + 1 ELSE @]
                /\ test' = [test EXCEPT ![t].failed_runs = IF fail_on_inactive THEN @ + 1 ELSE @]
                /\ AfterTest("test_inactive")
                /\ UNCHANGED <<suite, called>>
        /\ UNCHANGED <<suites, fail_on_inactive, ignore, runs, checks, changes>>

SetUpReturns ==
    /\ at = "setup"
    /\ IF test[run.test].skipped THEN TearDown(run) ELSE Body(run)
    /\ UNCHANGED <<suites, fail_on_inactive, ignore, failures, runs, checks, changes>>

TestReturns ==
    /\ at = "test"
    /\ TearDown(run)
    /\ UNCHANGED <<suites, fail_on_inactive, ignore, failures, runs, checks, changes>>

TearDownReturns ==
    /\ at = "teardown"
    /\ suite' = [suite EXCEPT ![S].in_test_clean = FALSE]
    /\ Finish(run)
    /\ UNCHANGED <<suites, fail_on_inactive, ignore, failures, called, runs, checks, changes>>

(* The tests are done: the cleanup function, if there is one.              *)
CleanupStarts ==
    /\ at = "tests_done"
    /\ IF Has("cleanup")
       THEN at' = "cleanup" /\ UNCHANGED run
       ELSE SuiteOver(run.result)
    /\ called' = IF Has("cleanup") THEN [called EXCEPT !.cleaned = @ \cup {S}] ELSE called
    /\ UNCHANGED <<registryVars, summary, failures, runs, checks, changes>>

(* The cleanup function returns.  run_single_suite takes a result that an  *)
(* inactive test left for a failure of it.                                 *)
CleanupReturns(ok) ==
    LET in_suite == run.of # "test"
        result == IF ~ ok \/ (in_suite /\ suite[S].cleanup_error) THEN "cleanup_failed"
                  ELSE run.result
        failed == IF in_suite THEN result # "success" ELSE ~ ok
    IN  /\ at = "cleanup"
        /\ suite' = [suite EXCEPT ![S].cleanup_error = @ \/ (in_suite /\ failed)]
        /\ IF failed
           THEN /\ summary' = [summary EXCEPT !.suites_failed = @ + 1]
                /\ failures' = Append(failures, Record("cleanup_failed", None))
           ELSE UNCHANGED <<summary, failures>>
        /\ SuiteOver(result)
        /\ UNCHANGED <<suites, test, fail_on_inactive, ignore, called, runs, checks, changes>>

---------------------------------------------------------------------------
(* Checks in the user's functions.                                         *)

InTest == at \in {"setup", "test", "teardown"}
InUserCode == InTest \/ at \in {"init", "cleanup"}

(* Fault: a fatal check leaves the test without its tear-down.             *)
JumpedPastTearDown ==
    /\ at = "jumped"
    /\ Finish(run)
    /\ UNCHANGED <<suites, suite, fail_on_inactive, ignore, failures, called, runs, checks,
                   changes>>

(* longjmp to where run_single_test called the test: the tear-down is next.*)
(* It may have been one that jumped, and then its flag stays.              *)
Jumped ==
    /\ at = "jumped"
    /\ TearDown(run)
    /\ UNCHANGED <<suites, fail_on_inactive, ignore, failures, runs, checks, changes>>

(* A check that fails, CU_assertImplementation: a fatal one jumps if the   *)
(* test has been called.                                                   *)
CheckFails(fatal) ==
    /\ InUserCode /\ checks < MaxChecks /\ checks' = checks + 1
    /\ summary' = [summary EXCEPT !.asserts_failed = @ + 1]
    /\ failures' = Append(failures, Record("assert", IF InTest THEN run.test ELSE None))
    /\ suite' = [suite EXCEPT ![S].set_up_error = @ \/ (at = "init" /\ run.of # "test"),
                              ![S].cleanup_error = @ \/ (at = "cleanup" /\ run.of # "test")]
    /\ at' = IF InTest /\ fatal /\ run.jump THEN "jumped" ELSE at
    /\ UNCHANGED <<suites, test, fail_on_inactive, ignore, run, called, runs, changes>>

(* CU_SkipImplementation: in an initialization function the suite is       *)
(* skipped, in the functions of a test the test.                           *)
Skip ==
    /\ InUserCode /\ checks < MaxChecks /\ checks' = checks + 1
    /\ suite' = IF at = "init" /\ run.of # "test"
                THEN [suite EXCEPT ![S].skipped = TRUE, ![S].active = FALSE] ELSE suite
    /\ test' = IF InTest
               THEN [test EXCEPT ![run.test].skipped = TRUE, ![run.test].active = FALSE] ELSE test
    /\ summary' = [summary EXCEPT
                      !.suites_skipped = IF at = "init" /\ run.of # "test" THEN @ + 1 ELSE @,
                      !.tests_skipped = IF InTest THEN @ + 1 ELSE @]
    /\ at' = IF InTest /\ run.jump THEN "jumped" ELSE at
    /\ UNCHANGED <<suites, fail_on_inactive, ignore, run, failures, called, runs, changes>>

Next ==
    \/ \E infos \in Infos : Register(infos)
    \/ Change
    \/ RunAll
    \/ \E s \in ToSet(suites) : RunSuite(s)
    \/ \E s \in ToSet(suites), t \in Tests : RunTest(s, t) \/ RunTestRefused(s, t)
    \/ SuiteStarts \/ NextTest \/ RunTestStarts \/ SetUpReturns \/ TestReturns
    \/ TearDownReturns \/ CleanupStarts \/ Jumped
    \/ \E ok \in BOOLEAN : InitReturns(ok) \/ CleanupReturns(ok)
    \/ \E fatal \in BOOLEAN : CheckFails(fatal)
    \/ Skip

Spec == Init /\ [][Next]_vars

---------------------------------------------------------------------------
FailedTests == {failures[i].test : i \in {j \in 1 .. Len(failures) : failures[j].type = "assert"}}
               \ {None}

(* Every failure is on record once (TestRun.c:730-793): each failed check, *)
(* each suite counted as failed, and, if they count as failures, what was  *)
(* found inactive.                                                         *)
FailuresRecorded ==
    Len(failures) = summary.asserts_failed + summary.suites_failed
                    + IF called.inactive_fails
                      THEN summary.suites_inactive + summary.tests_inactive ELSE 0

(* The tests that had a failed check are the tests counted as failed       *)
(* (TestRun.c:1126-1133), wherever a jump left them.  CU_run_test counts   *)
(* an inactive test, too.                                                  *)
FailedTestsCounted ==
    Idle => summary.tests_failed =
                Cardinality(FailedTests)
                + IF run.of = "test" /\ called.inactive_fails THEN summary.tests_inactive ELSE 0

(* A suite is cleaned up if and only if it was initialized                 *)
(* (TestRun.c:922-1010), and a test that was set up, or began, is torn     *)
(* down (1086-1107), unless an earlier tear-down of the suite was left by  *)
(* a jump.                                                                 *)
FixturesPaired ==
    Idle => /\ called.cleaned = {s \in called.entered : "cleanup" \in suite[s].fixture}
            /\ \A s \in ToSet(suites) :
                   "teardown" \in suite[s].fixture /\ ~ suite[s].in_test_clean =>
                       called.began \cap ToSet(suite[s].tests) \subseteq called.torn

(* No test of a suite that was run is passed over: each was run or counted *)
(* as inactive, unless an error stops the run (TestRun.c:957-981).         *)
TestsAccounted ==
    Idle /\ run.of # "test" /\ (called.ignores \/ run.first = "success") =>
        /\ summary.suites_run = Cardinality(called.entered)
        /\ summary.tests_run + summary.tests_inactive =
               Cardinality(UNION {ToSet(suite[s].tests) : s \in called.entered})

(* A test run adds up, wherever its functions are left (TestRun.c:137-203, *)
(* 487-570, 900-1144).                                                     *)
RunsAddUp == FailuresRecorded /\ FailedTestsCounted /\ FixturesPaired /\ TestsAccounted
=============================================================================
