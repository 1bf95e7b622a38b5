----------------------------- MODULE MCDashboard -----------------------------
(* What is stored of scans, what the API waits for and what a page shows of    *)
(* runs, in one model: a behaviour is of the part its first state names.        *)
EXTENDS FindingStore, TLC

CONSTANTS e1, e2, e3, s1, s2,          \* FindingStore
          Runs, Browses,               \* ApiCalls, RunPages
          First, None, MayFail

VARIABLES part,
          cronRow, call, verdict, external, lost, waiter, job,
          opened, server, list, inView, shown, details, fetching, tests, chain

\* Two executions of the same scan (a redelivered job) and one of another.
MCScanOf == (e1 :> s1) @@ (e2 :> s1) @@ (e3 :> s2)

Calls == INSTANCE ApiCalls
Tab   == INSTANCE RunPages

store == vars
calls == <<cronRow, call, verdict, external, lost, waiter, job>>
pages == <<opened, server, list, inView, shown, details, fetching, tests, chain>>

MCInit == /\ part \in {"findings", "calls", "pages"}
          /\ Init /\ (part # "findings" => \A e \in Executions : raw[e] = {})
          /\ Calls!Init
          /\ Tab!Init /\ (part # "pages" => opened = "gate" /\ server[First] = "none")

MCNext == \/ part = "findings" /\ Next /\ UNCHANGED <<part, calls, pages>>
          \/ part = "calls" /\ Calls!Next /\ UNCHANGED <<part, store, pages>>
          \/ part = "pages" /\ Tab!Next /\ UNCHANGED <<part, store, calls>>

\* the fairness of the three modules, each of its own part
MCFairness ==
    /\ \A e \in Executions : WF_store(part = "findings" /\ Step(e))
    /\ \A b \in Browses : /\ WF_calls(part = "calls" /\ Calls!AddJob(b))
                          /\ WF_calls(part = "calls" /\ Calls!TimerFires(b))
                          /\ WF_calls(part = "calls" /\ Calls!Respond(b))
    /\ SF_pages(part = "pages" /\ Tab!ListArrives) /\ SF_pages(part = "pages" /\ Tab!StatusArrives)
    /\ WF_pages(part = "pages" /\ Tab!Poll("list")) /\ WF_pages(part = "pages" /\ Tab!Poll("status"))
    /\ \A r \in Runs : WF_pages(part = "pages" /\ Tab!RunMoves(r))

MCSpec == MCInit /\ [][MCNext]_<<part, store, calls, pages>> /\ MCFairness

\* EveryExecutionEnds of FindingStore, in behaviours of that part
ExecutionsEnd == part = "findings" => EveryExecutionEnds

\* The properties of the instantiated modules, as those state them.
CronRowsTell == Calls!CronRowsTell
EveryBrowseAnswered == Calls!EveryBrowseAnswered
PageSettles == Tab!PageSettles
=============================================================================
