----------------------------- MODULE TestSuites -----------------------------
(***************************************************************************)
(* Unit test suites and their runs (unitTests.ts, UnitTestWorkbench.tsx).  *)
(* The run works on what was rendered when it started and writes back at   *)
(* the end, while suites are edited, moved and deleted, and requests are   *)
(* moved between collections and deleted.  There is one suite; a test is   *)
(* known by its id.                                                        *)
(***************************************************************************)
EXTENDS Naturals, Sequences, SequencesExt, FiniteSetsExt

CONSTANTS
    TestIds,       \* tests that can be created
    TestRequests,  \* the requests of the project
    KeptRuns       \* unitTestResults retained: 100

ASSUME TestSuiteAssumptions == KeptRuns \in Nat

VARIABLES
    suiteCol,    \* the suite's collection: "home", "away", or "" once the suite is deleted
    tests,       \* in the order of their sort keys: id and request ("" for none)
    requestsOf,  \* the requests of each of the two collections
    testRun,     \* the run under way: its tests, verdicts, and rendered copies
    runResults,  \* unitTestResults, newest first: tests selected and verdicts
    stored       \* response history: requests with a stored response

suiteVars == <<suiteCol, tests, requestsOf, testRun, runResults, stored>>

NoTestRun == [todo |-> <<>>, chosen |-> <<>>, verdicts |-> <<>>, offered |-> {}, copy |-> {}]
Collections == {"home", "away"}
Offered == IF suiteCol \in Collections THEN requestsOf[suiteCol] ELSE {}
Existing == requestsOf["home"] \cup requestsOf["away"]

-----------------------------------------------------------------------------
(* createUnitTest: nextSortKey puts a new test first.                      *)
TestsNow == {tests[k].id : k \in DOMAIN tests}
OrderedTests == [k \in DOMAIN tests |-> tests[k].id]
AddTest(t) ==
    /\ suiteCol # "" /\ t \notin TestsNow
    /\ \E r \in IF Offered = {} THEN {""} ELSE Offered : tests' = InsertAt(tests, 1, [id |-> t, req |-> r])
    /\ UNCHANGED <<suiteCol, requestsOf, testRun, runResults, stored>>

DeleteTest(t) ==
    /\ \E k \in DOMAIN tests : tests[k].id = t /\ tests' = RemoveAt(tests, k)
    /\ UNCHANGED <<suiteCol, requestsOf, testRun, runResults, stored>>

(* reorder: the test at position k is put beside the one at j.             *)
MoveTest(k, j, after) ==
    LET others == RemoveAt(tests, k)
        target == IF j > k THEN j - 1 ELSE j
    IN /\ k # j /\ tests' = InsertAt(others, IF after THEN target + 1 ELSE target, tests[k])
       /\ UNCHANGED <<suiteCol, requestsOf, testRun, runResults, stored>>

(* The select of a test: a request of the suite's collection, or none.     *)
TestChoices == Offered \cup {""}
RetargetTest(k, r) ==
    /\ tests' = [tests EXCEPT ![k].req = r]
    /\ UNCHANGED <<suiteCol, requestsOf, testRun, runResults, stored>>

(* moveUnitTestSuiteToCollection: requests of the other one are cleared.   *)
MoveSuite(col) ==
    /\ suiteCol # "" /\ col # suiteCol /\ suiteCol' = col
    /\ tests' = [k \in DOMAIN tests |-> [tests[k] EXCEPT !.req = IF @ \in requestsOf[col] THEN @ ELSE ""]]
    /\ UNCHANGED <<requestsOf, testRun, runResults, stored>>

(* moveWorkspaceResource: a request goes to the other collection, alone or *)
(* with its folder; the tests keep what they point at.                     *)
RelocateRequest(r, col) ==
    /\ r \in Existing \ requestsOf[col]
    /\ requestsOf' = [c \in Collections |-> IF c = col THEN requestsOf[c] \cup {r} ELSE requestsOf[c] \ {r}]
    /\ UNCHANGED <<suiteCol, tests, testRun, runResults, stored>>

(* Deleting the active request; clearDeletedUnitTestRequest.               *)
DeleteRequest(r) ==
    /\ r \in Existing /\ requestsOf' = [c \in Collections |-> requestsOf[c] \ {r}]
    /\ tests' = [k \in DOMAIN tests |-> [tests[k] EXCEPT !.req = IF @ = r THEN "" ELSE @]]
    /\ UNCHANGED <<suiteCol, testRun, runResults, stored>>

(* deleteTestSuite, from the tab or the dashboard, also while a run is     *)
(* under way: the suite and its results go.                                *)
DeleteSuite ==
    /\ suiteCol # "" /\ suiteCol' = "" /\ tests' = <<>> /\ runResults' = <<>>
    /\ UNCHANGED <<requestsOf, testRun, stored>>

-----------------------------------------------------------------------------
(* run: the tests as rendered, and a copy of the response history.         *)
StartRun(chosen) ==
    /\ suiteCol # "" /\ testRun = NoTestRun /\ chosen # <<>>
    /\ testRun' = [todo |-> chosen, chosen |-> chosen, verdicts |-> <<>>, offered |-> Offered, copy |-> stored]
    /\ UNCHANGED <<suiteCol, tests, requestsOf, runResults, stored>>

(* A test ends, passed, failed or thrown, after sending any of the         *)
(* requests the collection had when the run started.                       *)
RunOneTest(passed, sent) ==
    /\ testRun.todo # <<>> /\ sent \subseteq testRun.offered
    /\ testRun' = [testRun EXCEPT !.todo = Tail(@), !.copy = @ \cup sent,
                                  !.verdicts = Append(@, [test |-> Head(testRun.todo), passed |-> passed])]
    /\ UNCHANGED <<suiteCol, tests, requestsOf, runResults, stored>>

RecordedAlways(result) == [k \in 1 .. Min({KeptRuns, Len(runResults) + 1}) |-> IF k = 1 THEN result ELSE runResults[k - 1]]
Recorded(result) ==
    IF suiteCol = "" THEN runResults
    ELSE [k \in 1 .. Min({KeptRuns, Len(runResults) + 1}) |-> IF k = 1 THEN result ELSE runResults[k - 1]]

FinishRun ==
    /\ testRun # NoTestRun /\ testRun.todo = <<>>
    /\ runResults' = Recorded([chosen |-> testRun.chosen, verdicts |-> testRun.verdicts])
    /\ stored' = testRun.copy /\ testRun' = NoTestRun
    /\ UNCHANGED <<suiteCol, tests, requestsOf>>

(* A response of a request sent elsewhere.                                 *)
StoreResponse(r) ==
    /\ r \in Existing \ stored /\ stored' = stored \cup {r}
    /\ UNCHANGED <<suiteCol, tests, requestsOf, testRun, runResults>>

SuiteInit ==
    /\ suiteCol = "home" /\ tests = <<>>
    /\ \E kept \in SUBSET TestRequests :
          requestsOf = [c \in Collections |-> IF c = "home" THEN kept ELSE TestRequests \ kept]
    /\ testRun = NoTestRun /\ runResults = <<>> /\ stored = {}
SuiteNext ==
    \/ (\E t \in TestIds : AddTest(t) \/ DeleteTest(t))
    \/ \E k, j \in DOMAIN tests, after \in BOOLEAN : MoveTest(k, j, after)
    \/ \E k \in DOMAIN tests, r \in TestChoices : RetargetTest(k, r)
    \/ MoveSuite("home") \/ MoveSuite("away") \/ DeleteSuite \/ FinishRun
    \/ \E r \in TestRequests : DeleteRequest(r) \/ StoreResponse(r) \/ RelocateRequest(r, "home") \/ RelocateRequest(r, "away")
    \/ StartRun(OrderedTests) \/ \E t \in TestsNow : StartRun(<<t>>)
    \/ \E passed \in BOOLEAN, sent \in {{}} \cup {{r} : r \in testRun.offered} : RunOneTest(passed, sent)
SuiteSpec == SuiteInit /\ [][SuiteNext]_suiteVars

-----------------------------------------------------------------------------
(* However the suite is edited, moved or deleted while it runs, and        *)
(* however requests are moved and deleted: every saved run has one verdict *)
(* for each test it was started with, in their order; no result outlives   *)
(* its suite; at most KeptRuns are kept; no test points at a request that  *)
(* was deleted; and a test is in the order once                            *)
(* (UnitTestWorkbench.tsx, run; App.tsx, deleteTestSuite; unitTests.ts).   *)
TestRunsAccount ==
    /\ \A k \in DOMAIN runResults : runResults[k].chosen = [j \in DOMAIN runResults[k].verdicts |-> runResults[k].verdicts[j].test]
    /\ suiteCol = "" => runResults = <<>>
    /\ Len(runResults) <= KeptRuns
    /\ \A k \in DOMAIN tests : tests[k].req \in {""} \cup Existing
    /\ IsInjective(OrderedTests)
=============================================================================
