------------------------------ MODULE RunPages ------------------------------
(* A browser tab on one page of the dashboard: which requests the page sends,   *)
(* which of them are repeated while a run is active, and what a mutation makes  *)
(* stale. The server's runs move on meanwhile. An answer is read and shown in   *)
(* one step: React Query drops those it has replaced. What it still caches of   *)
(* runs out of view is left out: such a run is fetched again when it comes back. *)
EXTENDS Naturals, FiniteSets

CONSTANTS Runs,        \* run ids
          First,       \* the one there, if any, when the tab is opened
          None,
          MayFail      \* whether requests fail

VARIABLES opened,      \* which page the tab shows; it stays
          server,      \* status of a run on the server
          list,        \* the cached list of runs: each absent, active or over
          inView,     \* the run in view
          shown,       \* its cached status
          details,     \* its cached results: all of them, or not (none read, or read too early)
          fetching,    \* the queries with a request in flight
          tests,       \* the unit test run handleGenerate waits for, "none" without one
          chain        \* handleGenerate: "idle", "waiting", "recheck"

vars == <<opened, server, list, inView, shown, details, fetching, tests, chain>>
view == <<list, inView, shown, details>>
generating == <<tests, chain>>

Pages == {"scan", "unitTests", "coverage", "gate", "qa", "scans", "tests"}
Active == {"queued", "running"}
Terminal == {"completed", "stopped"}     \* stopped: failed or cancelled, alike to a page
Status == {"none"} \union Active \union Terminal
Queries == {"list", "status", "details"}

TypeOK == /\ opened \in Pages /\ server \in [Runs -> Status]
          /\ list \in [Runs -> {"none", "active", "over"}]
          /\ inView \in Runs \union {None} /\ shown \in Status /\ details \in {"early", "final"}
          /\ fetching \subseteq Queries
          /\ tests \in Status /\ chain \in {"idle", "waiting", "recheck"}

-----------------------------------------------------------------------------
(* What a page mounts, with the run in view or without one. Without a staleTime *)
(* every query that is mounted is fetched.                                      *)

ScanDetailPage == {"status", "details"}                  \* summary and findings
UnitTestRunDetailPage == {"status", "details"}           \* generated files and results
CoverageRunDetailPage == {"status", "details"}           \* file results
CoverageGateSection == {"list", "status", "details"}
QaAutomationPage == {"list", "details"}                  \* history; RunResults of the row expanded
CodeQualitySecuritySection == {"list", "details"}        \* history; the trend of all it lists
GenerateUnitTestsSection == {"list"}

Of(p) == CASE p = "scan" -> ScanDetailPage
           [] p = "unitTests" -> UnitTestRunDetailPage
           [] p = "coverage" -> CoverageRunDetailPage
           [] p = "gate" -> CoverageGateSection
           [] p = "qa" -> QaAutomationPage
           [] p = "scans" -> CodeQualitySecuritySection
           [] p = "tests" -> GenerateUnitTestsSection

\* the pages that show runs of a list
WithList == {p \in Pages : "list" \in Of(p)}

Listing == {r \in Runs : list[r] # "none"}

\* the trend waits for the list, the other queries for a run in view
Mounted == Of(opened) \ IF (opened = "scans" /\ Listing # {}) \/ inView # None THEN {}
                        ELSE {"status", "details"}

\* what stands over a run: its progress and a button to cancel it, that it stopped, what it found
Told(s) == CASE s \in Active -> "progress" [] s = "stopped" -> "stopped" [] OTHER -> "nothing"

ScanStatusHeader(s) == [cancel |-> s \in Active, says |-> Told(s)]
UnitTestRunStatusPanel(s) ==
    [cancel |-> s \in Active, says |-> IF s = "completed" THEN "summary" ELSE Told(s)]
CoverageRunStatusPanel(s) ==
    [cancel |-> s \in Active, says |-> IF s = "completed" THEN "verdict" ELSE Told(s)]

Panel == CASE opened = "scan" -> ScanStatusHeader(shown)
           [] opened = "unitTests" -> UnitTestRunStatusPanel(shown)
           [] opened \in {"coverage", "gate"} -> CoverageRunStatusPanel(shown)
           [] OTHER -> [cancel |-> FALSE, says |-> "nothing"]

\* one that is in flight already is joined, or replaced by a new one
Fetch(queries) == fetching' = fetching \union queries

ComesIntoView(r) == inView' = r /\ shown' = "none" /\ details' = "early"

\* the tab is opened with the run at any point of its life
Init == /\ opened \in Pages
        /\ \E s \in Status : server = [r \in Runs |-> IF r = First THEN s ELSE "none"]
        /\ opened \notin WithList => server[First] # "none"
        /\ list = [r \in Runs |-> "none"] /\ shown = "none" /\ details = "early"
        /\ inView = IF opened \in WithList THEN None ELSE First
        /\ fetching = Mounted
        /\ tests = "none" /\ chain = "idle"

-----------------------------------------------------------------------------
(* Requests and their answers                                                   *)

\* the QA service inserts the row when it takes the job: a queued run is not listed
Listed(r) == IF server[r] \in {"none", IF opened = "qa" THEN "queued" ELSE "none"} THEN "none"
             ELSE IF server[r] \in Active THEN "active" ELSE "over"

\* rows are written while the run is running, the last of them before it is completed
DetailsNow(r) == IF server[r] = "completed" THEN {"final"}
                 ELSE IF server[r] = "running" THEN {"early", "final"} ELSE {"early"}

\* the trend of a query's data goes with the scans listed: another scan is another query
TrendNow == LET statuses == {server[r] : r \in Listing} IN
            IF "queued" \in statuses THEN {"early"}
            ELSE IF "running" \in statuses THEN {"early", "final"} ELSE {"final"}

ListArrives ==
    /\ "list" \in fetching
    /\ list' = [r \in Runs |-> Listed(r)]
    /\ IF opened = "scans" /\ Listing' # Listing
       THEN details' = "early" /\ fetching' = (fetching \ {"list"}) \union {"details"}
       ELSE fetching' = fetching \ {"list"} /\ UNCHANGED details
    /\ UNCHANGED <<opened, server, inView, shown, generating>>

\* the gate section's effect: the latest run comes into view if none is
LatestComesIntoView(r) ==
    /\ opened = "gate" /\ inView = None /\ list[r] # "none"
    /\ r = First => \A q \in Runs \ {First} : list[q] = "none"
    /\ ComesIntoView(r) /\ Fetch(Of(opened) \ {"list"})
    /\ UNCHANGED <<opened, server, list, generating>>

StatusArrives == /\ "status" \in fetching /\ fetching' = fetching \ {"status"}
                 /\ shown' = server[inView]
                 /\ UNCHANGED <<opened, server, list, inView, details, generating>>

DetailsArrive == /\ "details" \in fetching /\ fetching' = fetching \ {"details"}
                 /\ details' \in IF opened = "scans" THEN TrendNow ELSE DetailsNow(inView)
                 /\ UNCHANGED <<opened, server, list, inView, shown, generating>>

\* after its retries a request is given up; the error state keeps the data there was
RequestFails(q) == /\ MayFail /\ q \in fetching /\ fetching' = fetching \ {q}
                   /\ UNCHANGED <<opened, server, view, generating>>

RunningOnly(s) == s = "running"       \* Mutant: a queued run is taken for one at rest

\* refetchInterval of useScan, useUnitTestRun, useCoverageRun and of the lists
HasActive(s) == s \in Active

Poll(q) == /\ q \in Mounted \ fetching /\ Fetch({q})
           /\ IF q = "list" THEN \E r \in Runs : list[r] = "active" ELSE q = "status" /\ HasActive(shown)
           /\ UNCHANGED <<opened, server, view, generating>>

\* refetchOnWindowFocus, or the page visited again
Focus == Fetch(Mounted) /\ UNCHANGED <<opened, server, view, generating>>

-----------------------------------------------------------------------------
(* What the user does                                                           *)

\* a past run, or a row of the QA history, is clicked
Select(r) == /\ opened \in {"gate", "qa"} /\ list[r] # "none" /\ inView # r
             /\ ComesIntoView(r) /\ Fetch(Of(opened) \ {"list"})
             /\ UNCHANGED <<opened, server, list, generating>>

\* a coverage run the page has created; useCreateCoverageRun invalidates the list
Creates(r) == /\ server[r] = "none" /\ server' = [server EXCEPT ![r] = "queued"]
              /\ ComesIntoView(r) /\ Fetch(Of(opened))
              /\ UNCHANGED <<opened, list>>

\* "Run coverage gate"
HandleCreate(r) == opened = "gate" /\ Creates(r) /\ UNCHANGED generating

\* a mutation that adds a run and invalidates the list of them, which is fetched at once
Starts(r) == /\ server[r] = "none" /\ server' = [server EXCEPT ![r] = "queued"]
             /\ Fetch({"list"})
             /\ UNCHANGED <<opened, view, generating>>

TriggerQaAutomationRun(r) == opened = "qa" /\ Starts(r)        \* "Run now"
CreateScan(r) == opened = "scans" /\ Starts(r)                 \* "Start scan"
CreateUnitTestRun(r) == opened = "tests" /\ Starts(r)          \* "Generate & run"

\* "Cancel": the answer invalidates the run and the lists
Cancel == /\ Panel.cancel /\ server[inView] \in Active
          /\ server' = [server EXCEPT ![inView] = "stopped"]
          /\ Fetch(Mounted \ {"details"})
          /\ UNCHANGED <<opened, view, generating>>

\* "Generate tests with Gemini", on a file of a completed gate
HandleGenerate == /\ opened \in {"gate", "coverage"} /\ chain = "idle"
                  /\ shown = "completed" /\ details = "final"
                  /\ tests' = "queued" /\ chain' = "waiting"
                  /\ UNCHANGED <<opened, server, view, fetching>>

\* waitForUnitTestRunToFinish: one GET a second for two minutes, then an error
WaitForUnitTestRunToFinish ==
    /\ chain = "waiting"
    /\ chain' \in IF tests \in Terminal THEN {"recheck"} ELSE {"waiting", "idle"}
    /\ tests' = IF chain' = "idle" THEN "none" ELSE tests
    /\ UNCHANGED <<opened, server, view, fetching>>

\* however the unit test run ended, the gate is run again
Recheck(r) == chain = "recheck" /\ Creates(r) /\ chain' = "idle" /\ tests' = "none"

\* a POST or GET of the chain fails: setError
ChainFails == /\ chain # "idle" /\ chain' = "idle" /\ tests' = "none"
              /\ UNCHANGED <<opened, server, view, fetching>>

-----------------------------------------------------------------------------
(* The server meanwhile (WorkerRuns, ScanRun, QaAutomationRuns)                 *)

Moves(s) == IF s = "queued" THEN {"running", "stopped"}
            ELSE IF s = "running" THEN {"completed", "stopped"} ELSE {}

RunMoves(r) == /\ \E s \in Moves(server[r]) : server' = [server EXCEPT ![r] = s]
               /\ UNCHANGED <<opened, view, fetching, generating>>

TestsMove == tests' \in Moves(tests) /\ UNCHANGED <<opened, server, view, fetching, chain>>

Next == \/ ListArrives \/ StatusArrives \/ DetailsArrive \/ Focus \/ Cancel
        \/ \E q \in Queries : RequestFails(q) \/ Poll(q)
        \/ \E r \in Runs : \/ LatestComesIntoView(r) \/ Select(r) \/ HandleCreate(r)
                           \/ TriggerQaAutomationRun(r) \/ CreateScan(r)
                           \/ CreateUnitTestRun(r) \/ Recheck(r) \/ RunMoves(r)
        \/ HandleGenerate \/ WaitForUnitTestRunToFinish \/ ChainFails \/ TestsMove

\* the browser's timers; a request repeated for ever is answered at last; the server's runs
\* end (worker_runs, scan_run, qa_runs)
Fairness == /\ SF_vars(ListArrives) /\ SF_vars(StatusArrives)
            /\ WF_vars(Poll("list")) /\ WF_vars(Poll("status"))
            /\ \A r \in Runs : WF_vars(RunMoves(r))

Spec == Init /\ [][Next]_vars /\ Fairness

-----------------------------------------------------------------------------
\* A run over which progress and a button to cancel it stand is, in the end, told as it ended,
\* whatever requests fail on the way and however cancelling and polling overlap; so is a listed
\* run.
PageSettles ==
    \A r \in Runs :
      /\ inView = r /\ Panel.cancel ~> inView # r \/ shown \in Terminal
      /\ list[r] = "active" ~> list[r] = "over"

\* CoverageGateSection: "Shows the latest run's full result (verdict + fixable file list)
\* right here, inline". A completed run with nothing on its way shows all of its results.
FullResultShown ==
    opened = "gate" /\ Panel.says = "verdict" /\ fetching = {} => details = "final"
=============================================================================
