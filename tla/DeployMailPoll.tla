--------------------------- MODULE DeployMailPoll ---------------------------
(***************************************************************************)
(* The hourly poll of the deploy mailbox: read the cursor, take the time,  *)
(* list the mails received since the cursor, advance the cursor to that    *)
(* time, and - if some body matched - enqueue one production QA run.       *)
(* Every step is an await: mails arrive, calls fail and the process dies   *)
(* between any two of them.  The poll worker runs one job at a time.       *)
(***************************************************************************)
EXTENDS Naturals, FiniteSets

CONSTANTS Mails, Deploys,       \* the mails; those whose body matches
          PageSize,             \* $top of the Graph request
          Lookback,             \* how far a first poll looks back
          MaxClock,             \* bound: clock ticks
          MaxFaults             \* bound: calls that throw, crashes

ASSUME MailAssumption == /\ Deploys \subseteq Mails /\ IsFiniteSet(Mails)
                         /\ PageSize \in Nat \ {0}
                         /\ Lookback \in Nat \ {0} /\ MaxClock \in Nat
                       /\ Lookback < MaxClock /\ MaxFaults \in Nat

Never == 0      \* a time before the first tick: not received, not polled

VARIABLES
    clock,
    received,       \* received[m]: receivedDateTime, Never if not yet
    cursor,         \* lastPolledAt, Never if null
    pc,             \* "idle", "fetch", "advance", "enqueue"
    now, since,     \* the poll's variables
    page,           \* the mails listRecentDeployMails returned
    rested,         \* when the last poll ended
    horizon,        \* since of the first poll that advanced the cursor
    triggered,      \* triggered[m]: QA runs enqueued by polls that saw m
    cut, dropped,   \* mails a full page left out; mails whose trigger was lost
    faults

vars == <<clock, received, cursor, pc, now, since, page, rested, horizon, triggered,
          cut, dropped, faults>>

Times == 0..MaxClock

TypeOK ==
    /\ clock \in Times /\ cursor \in Times /\ now \in Times /\ since \in Times
    /\ rested \in Times /\ horizon \in Times
    /\ received \in [Mails -> Times]
    /\ pc \in {"idle", "fetch", "advance", "enqueue"}
    /\ page \subseteq Mails /\ Cardinality(page) <= PageSize
    /\ triggered \in [Mails -> 0..MaxClock]
    /\ cut \subseteq Mails /\ dropped \subseteq Deploys
    /\ faults \in 0..MaxFaults

Init ==
    /\ clock = Lookback + 1 /\ received = [m \in Mails |-> Never]
    /\ cursor = Never /\ pc = "idle" /\ now = 0 /\ since = 0 /\ page = {}
    /\ rested = 0 /\ horizon = 0
    /\ triggered = [m \in Mails |-> 0] /\ cut = {} /\ dropped = {} /\ faults = 0

Fault == faults < MaxFaults /\ faults' = faults + 1

Tick ==
    /\ clock < MaxClock /\ clock' = clock + 1
    /\ UNCHANGED <<received, cursor, pc, now, since, page, rested, horizon, triggered,
                   cut, dropped, faults>>

MailArrives(m) ==
    /\ received[m] = Never
    /\ received' = [received EXCEPT ![m] = clock]
    /\ UNCHANGED <<clock, cursor, pc, now, since, page, rested, horizon, triggered,
                   cut, dropped, faults>>

\* cursorRepository.get, then new Date(): the time the cursor will advance to.
StartPoll ==
    /\ pc = "idle" /\ clock > rested
    /\ now' = clock
    /\ since' = IF cursor = Never THEN clock - Lookback ELSE cursor
    /\ pc' = "fetch"
    /\ UNCHANGED <<clock, received, cursor, page, rested, horizon, triggered, cut,
                   dropped, faults>>

OldestFirst(P, candidates) ==
    \A m \in P, n \in candidates \ P : received[m] <= received[n]

\* $filter=receivedDateTime ge since
MailsSince(t) == {m \in Mails : received[m] # Never /\ received[m] >= t}

\* One page of at most $top mails, oldest first; a next page is not requested.
Fetch ==
    LET candidates == MailsSince(since) IN
    /\ pc = "fetch"
    /\ \E P \in SUBSET candidates :
         /\ \/ P = candidates /\ Cardinality(P) <= PageSize
            \/ Cardinality(P) = PageSize /\ OldestFirst(P, candidates)
         /\ page' = P /\ cut' = cut \cup (candidates \ P)
    /\ pc' = "advance"
    /\ UNCHANGED <<clock, received, cursor, now, since, rested, horizon, triggered,
                   dropped, faults>>

\* Mutant: the cursor takes the time of the write.
AdvanceToClock ==
    /\ pc = "advance"
    /\ cursor' = clock
    /\ horizon' = IF cursor = Never THEN since ELSE horizon
    /\ IF page \cap Deploys # {} THEN pc' = "enqueue" /\ UNCHANGED rested
                                 ELSE pc' = "idle" /\ rested' = clock
    /\ UNCHANGED <<clock, received, now, since, page, triggered, cut, dropped, faults>>

\* updateLastPolledAt(now), matched or not.
Advance ==
    /\ pc = "advance"
    /\ cursor' = now
    /\ horizon' = IF cursor = Never THEN since ELSE horizon
    /\ IF page \cap Deploys # {} THEN pc' = "enqueue" /\ UNCHANGED rested
                                 ELSE pc' = "idle" /\ rested' = clock
    /\ UNCHANGED <<clock, received, now, since, page, triggered, cut, dropped, faults>>

\* enqueueMailTriggeredQaAutomationRun: one job, however many mails of the page match.
Enqueue ==
    /\ pc = "enqueue"
    /\ triggered' = [m \in Mails |-> triggered[m] + IF m \in page \cap Deploys THEN 1 ELSE 0]
    /\ pc' = "idle" /\ rested' = clock
    /\ UNCHANGED <<clock, received, cursor, now, since, page, horizon, cut, dropped, faults>>

\* A Graph, Postgres or Redis call throws, or the process dies: the poll is over, and
\* a cursor that has already advanced stays advanced.
PollFails ==
    /\ pc # "idle" /\ Fault
    /\ dropped' = IF pc = "enqueue" THEN dropped \cup (page \cap Deploys) ELSE dropped
    /\ pc' = "idle" /\ rested' = clock
    /\ UNCHANGED <<clock, received, cursor, now, since, page, horizon, triggered, cut>>

Next == \/ Tick \/ \E m \in Mails : MailArrives(m)
        \/ StartPoll \/ Fetch \/ Advance \/ Enqueue \/ PollFails

Spec == Init /\ [][Next]_vars

-----------------------------------------------------------------------------
\* Deploys do not silently stop triggering: a deploy mail older than the cursor, and not
\* older than where polling began, has triggered a run - however polls failed before
\* they advanced the cursor.  Only a full page or a poll that fails after advancing the
\* cursor loses one.
EveryDeployTriggers ==
    \A m \in Deploys \ (cut \cup dropped) :
        received[m] \in horizon..cursor - 1 /\ received[m] # Never /\ cursor # Never
          => triggered[m] > 0 \/ (pc = "enqueue" /\ m \in page)

\* A deploy mail triggers a second run at most - when it arrived between a poll's clock
\* reading and its request - and never a third.
AtMostTwice == \A m \in Mails : triggered[m] <= 2

(***************************************************************************)
(* The inductive invariant behind both (proved in DeployMailPoll_proofs).  *)
(* Polls do not overlap in time, so what a poll reads the clock for lies   *)
(* after everything an earlier poll saw; and a page is complete for the    *)
(* interval the cursor is about to skip.                                   *)
(***************************************************************************)
PollsInOrder ==
    /\ clock > Lookback /\ now <= clock /\ rested <= clock
    /\ \A m \in Mails : received[m] <= clock
    /\ pc # "idle" => rested < now
    /\ IF pc = "enqueue" THEN cursor = now ELSE cursor <= rested
    /\ pc \in {"fetch", "advance"} /\ cursor # Never => since = cursor

PageIsComplete ==
    pc = "advance" => \A m \in Mails \ (page \cup cut) :
                         received[m] # Never => received[m] \notin since..now - 1

PageIsNew ==
    pc \in {"advance", "enqueue"} =>
        \A m \in page : received[m] # Never /\ triggered[m] <= 1

TriggeredIsOld ==
    \A m \in Mails :
        /\ triggered[m] > 0 => received[m] # Never /\ received[m] <= rested /\ cursor # Never
        /\ triggered[m] > 1 => received[m] < cursor

IInv == TypeOK /\ PollsInOrder /\ PageIsComplete /\ PageIsNew /\ TriggeredIsOld
        /\ EveryDeployTriggers /\ AtMostTwice
=============================================================================
