----------------------------- MODULE MCServices -----------------------------
(* The services beside the runs, the reports on them and the browser checks, in *)
(* one model: a behaviour is of the part its first state names, the others rest. *)
EXTENDS DeployMailPoll, Accounts

CONSTANTS Puts, Tests, QuarantinedTests,              \* Schedules
          Uploads, Tokens,                            \* OneDriveCopy
          Starts, MaxTicks, Offers,                   \* PortalChecks
          Targets, Slips,                             \* PortalSidebar
          Pool, EngineersOnly, Wrong,                 \* CandidateSearch
          ReportPlans, MaxRedeliveries                \* Reports

VARIABLES part,
          row, scheduler, put, settled, queue,
          stored, valid, up, callback, torn,
          booking, bookingAt, start, hour, unopened, offer, modal, dates, verdicts, clicked, shown,
          section, attempt, free, priority, step, payment, booked, mishaps, blinks,
          check, checkAt, works, clicks, width, reading, moving, derailed, dialog, rounds, opened,
          next, landed, failures, checkedOut, slips,
          search, at, searchAt, tries, honest, checked, applied, pending, counts, found, losses,
          kind, plan, status, saved, gen, file, reportRow, redeliveries, reportFaults,
          exec, had, savedThen

Plans == INSTANCE Schedules
Drive == INSTANCE OneDriveCopy
Slots == INSTANCE PortalChecks WITH test <- booking, pc <- bookingAt, clock <- hour,
                                    result <- booked, faults <- mishaps
Nav == INSTANCE PortalSidebar WITH pc <- checkAt, result <- checkedOut, faults <- slips,
                                   MaxFaults <- Slips
Find == INSTANCE CandidateSearch WITH test <- search, pc <- searchAt, result <- found,
                                      faults <- losses
Docs == INSTANCE Reports WITH RunRows <- ReportPlans, row <- reportRow, faults <- reportFaults,
                              MaxFaults <- Slips

ASSUME TimesAssumption == Slots!SlotsAssumption
ASSUME DestinationsAssumption == Nav!TargetsAssumption
ASSUME CandidatesAssumption == Find!PoolAssumption
ASSUME TablesAssumption == Docs!RowsAssumption

mail == vars
accounts == accountVars
schedules == <<row, scheduler, put, settled, queue>>
onedrive == <<stored, valid, up, callback, torn>>
slots == <<booking, bookingAt, start, hour, unopened, offer, modal, dates, verdicts, clicked, shown,
           section, attempt, free, priority, step, payment, booked, mishaps, blinks>>
sidebar == <<check, checkAt, works, clicks, width, reading, moving, derailed, dialog, rounds,
             opened, next, landed, failures, checkedOut, slips>>
searches == <<search, at, searchAt, tries, honest, checked, applied, pending, counts, found, losses>>
reports == <<kind, plan, status, saved, gen, file, reportRow, redeliveries, reportFaults,
             exec, had, savedThen>>
portal == <<slots, sidebar, searches>>
services == <<mail, accounts, schedules, onedrive, reports>>

\* what the site lists for a date: one that keeps the rule on a weekday, one that keeps it on a
\* Sunday, one paid hour given away, one slot a minute past the paid hours, nothing to pay for
MCOffers == {[free |-> {570}, priority |-> {540}], [free |-> {}, priority |-> {540, 1260}],
             [free |-> {540}, priority |-> {}], [free |-> {}, priority |-> {1261}],
             [free |-> {570}, priority |-> {}]}

\* the start page's own item, one behind a group that leads to the other shell, one behind a group
MCTargets == <<[home |-> TRUE, group |-> None, crosses |-> FALSE],
               [home |-> FALSE, group |-> "Candidates", crosses |-> TRUE],
               [home |-> FALSE, group |-> "Jobs", crosses |-> FALSE]>>

MCPool == [Male |-> 3, Female |-> 2, Others |-> 1]

\* results that the sheets of a QA report tell apart, a finding that costs and one that does not;
\* for the other kinds only the number matters
Result(passed, prefix) == [passed |-> passed, prefix |-> prefix]
Finding(severity, state) == [severity |-> severity, status |-> state]

MCReportPlans ==
    [qa |-> {<<Result(TRUE, "none"), Result(FALSE, "none"), Result(FALSE, "deselected"),
               Result(FALSE, "skipped")>>},
     scan |-> {<<Finding("high", "resolved"), Finding("medium", "open")>>},
     unit |-> {<<"a", "b">>}, coverage |-> {<<"a", "b">>}]

AnOffer == [free |-> {570}, priority |-> {540}]

MCInit ==
    /\ part \in {"mail", "accounts", "schedules", "onedrive", "reports",
                "slots", "sidebar", "search"}
    /\ Init /\ Plans!Init /\ Drive!Init
    /\ AccountsInit /\ (part # "accounts" => proven = {})
    /\ Docs!Init /\ (part # "reports" => kind = "unit")
    /\ Slots!Init
    /\ part # "slots" => /\ booking = "premium-upgrade" /\ start = 10
                         /\ offer = [n \in {1, 2} |-> AnOffer]
    /\ Nav!Init /\ (part # "sidebar" => check = Nav!Candidate /\ \A t \in DOMAIN Targets : works[t] = "ok")
    /\ Find!Init /\ (part # "search" => honest /\ search = "candidate-search-skill-filters")

MCNext ==
    \/ part = "mail" /\ Next /\ UNCHANGED <<part, accounts, schedules, onedrive, reports, portal>>
    \/ part = "accounts" /\ AccountsNext /\ UNCHANGED <<part, mail, schedules, onedrive, reports, portal>>
    \/ part = "schedules" /\ Plans!Next /\ UNCHANGED <<part, mail, accounts, onedrive, reports, portal>>
    \/ part = "onedrive" /\ Drive!Next /\ UNCHANGED <<part, mail, accounts, schedules, reports, portal>>
    \/ part = "reports" /\ Docs!Next /\ UNCHANGED <<part, mail, accounts, schedules, onedrive, portal>>
    \/ part = "slots" /\ Slots!Next /\ UNCHANGED <<part, services, sidebar, searches>>
    \/ part = "sidebar" /\ Nav!Next /\ UNCHANGED <<part, services, slots, searches>>
    \/ part = "search" /\ Find!Next /\ UNCHANGED <<part, services, slots, sidebar>>

MCSpec == MCInit /\ [][MCNext]_<<part, services, portal>>

\* The properties of the instantiated modules, as those state them.
SettledSchedulesAgree == Plans!SettledSchedulesAgree
ConnectionStaysUsable == Drive!ConnectionStaysUsable
ReportIsHonest == Docs!ReportIsHonest
SlotVerdictsAreReal == Slots!SlotVerdictsAreReal
OneVerdictEach == Nav!OneVerdictEach
SearchVerdictsAreReal == Find!SearchVerdictsAreReal
=============================================================================
