---------------------------- MODULE PortalSidebar ----------------------------
(* The dashboard checks of the seven personas: sign in, see the expected items *)
(* in the sidebar, click through every one of them and note which do not lead  *)
(* where they should (sidebar-click-through.ts, the *-dashboard-navigation and  *)
(* *-navigation modules of packages/qa-automation-tests). The portal animates, *)
(* pops dialogs up and loses sessions on its own; what it does wrong or late is *)
(* written down in the ghost variable faults.                                  *)
EXTENDS Integers, Sequences, FiniteSets

CONSTANTS Targets,      \* NAV_TARGETS, in order: their group or None; whether one leads into
                        \* the other shell (crosses), or is the start page's own item (home)
          MaxFaults,    \* how often the portal misbehaves in one test
          None

VARIABLES check, pc,
          works,        \* the portal: what each destination does when its item is clicked
          clicks,       \* submits of the login form
          width,        \* of the sidebar, in pixels
          reading,      \* the last width read
          moving,       \* the sidebar is being animated shut
          derailed,     \* the page's toggle leads to the dashboard instead of expanding
          dialog,       \* a dialog covers the page
          rounds,       \* toggles of ensureSidebarOpen, rounds of dismissOpenDialog
          opened,       \* the groups that are open
          next,         \* the target being opened
          landed,       \* where the last click led: "start" (nowhere yet) or what the site did
          failures,     \* the targets with a line in the report
          result, faults

vars == <<check, pc, works, clicks, width, reading, moving, derailed, dialog, rounds, opened,
          next, landed, failures, result, faults>>

portal == <<works, check>>
sidebar == <<width, reading, moving, derailed>>

(* The seven checks are one script over three parameters: the login form, its  *)
(* promo modal, and whether the page has to say who is logged in.              *)

loginToRecruiterDashboard == [form |-> "recruiter", promo |-> TRUE]
loginToSchedulingAdminDashboard == [form |-> "curatal-users", promo |-> FALSE]
loginToPanelAdminDashboard == [form |-> "curatal-users", promo |-> FALSE]
loginToPlatformAdminDashboard == [form |-> "curatal-users", promo |-> FALSE]
loginAndExpandSidebar == [form |-> "portal", promo |-> FALSE]

Recruiter == [login |-> loginToRecruiterDashboard, badge |-> TRUE]
StandardRecruiter == [login |-> loginToRecruiterDashboard, badge |-> FALSE]
Interviewer == [login |-> loginToRecruiterDashboard, badge |-> FALSE]
SchedulingAdmin == [login |-> loginToSchedulingAdminDashboard, badge |-> TRUE]
PanelAdmin == [login |-> loginToPanelAdminDashboard, badge |-> TRUE]
PlatformAdmin == [login |-> loginToPlatformAdminDashboard, badge |-> FALSE]
Candidate == [login |-> loginAndExpandSidebar, badge |-> FALSE]

Checks == {Recruiter, StandardRecruiter, Interviewer, SchedulingAdmin, PanelAdmin, PlatformAdmin,
           Candidate}

Collapsed == 60
Expanded == 250

EXPANDED_SIDEBAR_MIN_WIDTH == 150

\* "ok", no such item, another page, the login page
Destinations == {"ok", "gone", "elsewhere", "login"}

Init ==
    /\ check \in Checks /\ pc = "login"
    /\ works \in [DOMAIN Targets -> Destinations]
    /\ clicks = 0 /\ width = Collapsed /\ reading = None /\ moving = FALSE /\ derailed = FALSE
    /\ dialog = FALSE /\ rounds = 0 /\ opened = {} /\ next = 0 /\ landed = "start"
    /\ failures = {} /\ result = "none" /\ faults = <<>>

\* Another fault of the portal, while the target next is being opened.
Fault(kind) == Len(faults) < MaxFaults /\ faults' = Append(faults, [at |-> next, kind |-> kind])

Over(how) == result' = how /\ pc' = "done"

(* Signing in.                                                                 *)

\* The first click on a freshly filled form may send nothing; three clicks, then the test throws.
submitLoginUntilAppLoads ==
    /\ pc = "login" /\ check.login.form # "portal"
    /\ clicks' = clicks + 1
    /\ \/ pc' = "badge" /\ UNCHANGED <<result, faults>>
       \/ clicks' < 3 /\ UNCHANGED <<pc, result, faults>>
       \/ clicks' = 3 /\ Over("threw") /\ Fault("login")
    /\ UNCHANGED <<portal, sidebar, dialog, rounds, opened, next, landed, failures>>

\* The candidate's form is submitted once, without looking whether the app loads.
SignIn ==
    /\ pc = "login" /\ check.login.form = "portal"
    /\ \/ pc' = "expand" /\ UNCHANGED faults
       \/ pc' = "no-sidebar" /\ Fault("login")
    /\ UNCHANGED <<portal, clicks, sidebar, dialog, rounds, opened, next, landed, failures, result>>

\* With the promo out of the way the arrow is clicked, ready or not.
expandCollapsedAdminSidebar ==
    /\ pc = "expand"
    /\ \/ width' = Expanded /\ UNCHANGED faults
       \/ UNCHANGED width /\ Fault("early-click")
    /\ pc' = "settle" /\ reading' = width' /\ rounds' = 0
    /\ UNCHANGED <<portal, clicks, moving, derailed, dialog, opened, next, landed, failures, result>>

\* Only some of the checks look for who is logged in.
Badge ==
    /\ pc = "badge"
    /\ \/ pc' = "expand" /\ UNCHANGED <<result, faults>>
       \/ check.badge /\ Over("failed") /\ Fault("badge")
    /\ UNCHANGED <<portal, clicks, sidebar, dialog, rounds, opened, next, landed, failures>>

(* ensureSidebarOpen: two equal readings of the width, then at most two clicks *)
(* on the toggle; it returns either way.                                        *)

\* The helper's way back: the first time to the list of labels, later to the next target's item.
Ensured == pc' = IF next = 0 THEN "labels" ELSE "find"

\* what an animation shows 200 ms later
Frame(w) == IF ~moving THEN w ELSE IF w > 200 THEN 200 ELSE Collapsed

Decide == IF width' > EXPANDED_SIDEBAR_MIN_WIDTH THEN Ensured /\ UNCHANGED rounds
          ELSE pc' = "toggle" /\ rounds' = 0

\* Mutant: one reading decides.
OneReading ==
    /\ pc = "settle"
    /\ UNCHANGED <<width, moving>> /\ reading' = width /\ Decide
    /\ UNCHANGED <<portal, clicks, derailed, dialog, opened, next, landed, failures, result, faults>>

\* An animation is over after three readings: the cap of 15, after which the last one decides, is
\* not reached.
WidthSettles ==
    /\ pc = "settle"
    /\ width' = Frame(width) /\ moving' = (moving /\ width' # Collapsed)
    /\ IF width' # reading THEN reading' = width' /\ UNCHANGED <<pc, rounds>>
       ELSE UNCHANGED reading /\ Decide
    /\ UNCHANGED <<portal, clicks, derailed, dialog, opened, next, landed, failures, result, faults>>

Toggle ==
    /\ pc = "toggle"
    /\ rounds' = rounds + 1
    /\ IF derailed THEN UNCHANGED <<width, faults>>
       ELSE \/ width' = (IF width = Collapsed THEN Expanded ELSE Collapsed) /\ UNCHANGED faults
            \/ UNCHANGED width /\ Fault("toggle")
    /\ IF width' > EXPANDED_SIDEBAR_MIN_WIDTH \/ rounds' = 2 THEN Ensured ELSE UNCHANGED pc
    /\ UNCHANGED <<portal, clicks, reading, moving, derailed, dialog, opened, next, landed, failures,
                   result>>

\* An animation that began before the readings goes on; one may also begin after they agreed.
Collapses ==
    /\ pc = "find" /\ width > EXPANDED_SIDEBAR_MIN_WIDTH
    /\ width' = Collapsed /\ moving' = FALSE
    /\ IF moving THEN UNCHANGED faults ELSE Fault("late-collapse")
    /\ UNCHANGED <<portal, pc, clicks, reading, derailed, dialog, rounds, opened, next, landed,
                   failures, result>>

(* The expected items, then one destination after the other.                   *)

\* Labels of a group are not among those looked for, only top-level ones.
Missing == {t \in DOMAIN Targets : /\ Targets[t].group = None
                                   /\ works[t] = "gone" \/ width <= EXPANDED_SIDEBAR_MIN_WIDTH}

Labels ==
    /\ pc = "labels"
    /\ IF Missing # {} THEN Over("failed") /\ UNCHANGED next
       ELSE pc' = "goto" /\ next' = 1 /\ UNCHANGED result
    /\ UNCHANGED <<portal, clicks, sidebar, dialog, rounds, opened, landed, failures, faults>>

\* Every target begins with a full load of the start page: groups closed, no dialog of the page
\* before, a toggle that works; the sidebar comes up expanded, collapsed or on its way shut.
Goto ==
    /\ pc = "goto"
    /\ opened' = {} /\ landed' = "start" /\ derailed' = FALSE /\ rounds' = 0
    /\ dialog' \in BOOLEAN
    /\ width' \in {Collapsed, Expanded} /\ reading' = width'
    /\ moving' \in BOOLEAN /\ (moving' => width' = Expanded /\ ~dialog')
    /\ pc' = IF dialog' THEN "dialog" ELSE "settle"
    /\ UNCHANGED <<portal, clicks, next, failures, result, faults>>

Stubborn == \E n \in DOMAIN faults : faults[n] = [at |-> next, kind |-> "dialog"]

\* After the load or after a click it intercepted; a dialog may survive all three rounds.
dismissOpenDialog ==
    /\ pc \in {"dialog", "dialog-again"}
    /\ rounds' = rounds + 1
    /\ \/ dialog' = FALSE /\ UNCHANGED faults
       \/ /\ UNCHANGED dialog
          /\ IF Stubborn THEN UNCHANGED faults ELSE Fault("dialog")
    /\ IF dialog' /\ rounds' < 3 THEN UNCHANGED pc
       ELSE pc' = IF pc = "dialog" THEN "settle" ELSE "click-again"
    /\ UNCHANGED <<portal, clicks, sidebar, opened, next, landed, failures, result>>

\* A verdict on the target; the next one begins afresh, whatever became of this one.
Noted(bad) ==
    /\ failures' = IF bad THEN failures \cup {next} ELSE failures
    /\ IF next < Len(Targets) THEN pc' = "goto" /\ next' = next + 1 /\ UNCHANGED result
       ELSE Over(IF failures' = {} THEN "passed" ELSE "failed") /\ UNCHANGED next

Visible(t) == /\ width > EXPANDED_SIDEBAR_MIN_WIDTH /\ works[t] # "gone"
              /\ Targets[t].group \in opened \cup {None}

\* The item, or its group first. A group may not be visible either; a click on it that a dialog
\* intercepts is not tried again, unlike the one on the item.
findVisibleSidebarItem ==
    /\ pc = "find"
    /\ IF Visible(next) THEN pc' = "click" /\ UNCHANGED <<opened, next, failures, result, faults>>
       ELSE IF /\ Targets[next].group \notin opened \cup {None}
               /\ width > EXPANDED_SIDEBAR_MIN_WIDTH /\ ~dialog
            THEN \/ /\ opened' = opened \cup {Targets[next].group}
                    /\ UNCHANGED <<pc, next, failures, result, faults>>
                 \/ Fault("late-dialog") /\ Noted(TRUE) /\ UNCHANGED opened
       ELSE Noted(TRUE) /\ UNCHANGED <<opened, faults>>
    /\ UNCHANGED <<portal, clicks, sidebar, dialog, rounds, landed>>

\* A dialog can come up just before the click, which it then intercepts: dismissed, tried again.
Click ==
    /\ pc \in {"click", "click-again"}
    /\ \/ /\ ~dialog
          /\ landed' = works[next] /\ pc' = "land"
          /\ derailed' = Targets[next].crosses
          /\ UNCHANGED <<dialog, rounds, next, failures, result, faults>>
       \/ /\ pc = "click"
          /\ \/ dialog /\ UNCHANGED faults
             \/ ~dialog /\ Fault("late-dialog")
          /\ dialog' = TRUE /\ rounds' = 0 /\ pc' = "dialog-again"
          /\ UNCHANGED <<landed, derailed, next, failures, result>>
       \/ /\ pc = "click-again" /\ dialog
          /\ Noted(TRUE) /\ UNCHANGED <<landed, derailed, dialog, rounds, faults>>
    /\ UNCHANGED <<portal, clicks, width, reading, moving, opened>>

\* waitForURL: the expected page within the timeout, or a line in the report. The start page's own
\* address is there before the click has led anywhere. (Every target of the seven checks names the
\* page it expects: clickThroughSidebar's other branch is not taken.)
Land ==
    /\ pc = "land"
    /\ \/ Noted(landed # "ok") /\ UNCHANGED faults
       \/ Targets[next].home /\ Noted(FALSE) /\ UNCHANGED faults
       \/ landed = "ok" /\ Fault("slow-page") /\ Noted(TRUE)
    /\ UNCHANGED <<portal, clicks, sidebar, dialog, rounds, opened, landed>>

\* Without a sidebar - the session is gone - ensureSidebarOpen gives up: a line for the target,
\* or, before the first, an error of the whole test.
SessionLost ==
    /\ \/ pc = "no-sidebar" /\ Over("threw") /\ UNCHANGED <<next, failures, faults>>
       \/ pc = "settle" /\ next > 0 /\ Fault("session") /\ Noted(TRUE)
    /\ UNCHANGED <<portal, clicks, sidebar, dialog, rounds, opened, landed>>

Next == \/ submitLoginUntilAppLoads \/ SignIn \/ Badge \/ expandCollapsedAdminSidebar
        \/ WidthSettles \/ Toggle \/ Collapses
        \/ Labels \/ Goto \/ dismissOpenDialog \/ findVisibleSidebarItem \/ Click \/ Land \/ SessionLost

Spec == Init /\ [][Next]_vars

\* every check has destinations to click through
TargetsAssumption ==
    Targets \in Seq([group : {Targets[t].group : t \in DOMAIN Targets}, crosses : BOOLEAN, home : BOOLEAN])
                 \ {<<>>}

Kinds == {"login", "early-click", "badge", "toggle", "late-collapse", "dialog", "late-dialog",
          "slow-page", "session"}
Entries == [at : Nat, kind : Kinds]

TypeOK ==
    /\ check \in Checks
    /\ pc \in {"login", "badge", "expand", "settle", "toggle", "labels", "goto", "dialog", "find",
                "click", "dialog-again", "click-again", "land", "no-sidebar", "done"}
    /\ works \in [DOMAIN Targets -> Destinations]
    /\ clicks \in Nat /\ width \in {Collapsed, 200, Expanded} /\ moving \in BOOLEAN
    /\ derailed \in BOOLEAN /\ dialog \in BOOLEAN /\ rounds \in Nat
    /\ next \in 0 .. Len(Targets) /\ failures \subseteq DOMAIN Targets
    /\ result \in {"none", "passed", "failed", "threw"}
    /\ faults \in Seq(Entries)

Faulted(t) == \E n \in DOMAIN faults : faults[n].at = t

\* Every destination gets a verdict of its own. One that works is reported broken only when the
\* portal did something wrong while that very target was being opened - an animated sidebar, a
\* dialog, another broken page or a page whose toggle derails are no reason - and one that does
\* not work is never passed over (clickThroughSidebar, openFromSidebar).
OneVerdictEach ==
    /\ \A t \in failures : works[t] # "ok" \/ Faulted(t)
    /\ failures # {} \/ result = "passed" =>
          \A t \in DOMAIN Targets :
             works[t] # "ok" /\ ~Targets[t].home /\ result # "none" => t \in failures
    /\ result = "failed" /\ failures = {} =>
          faults # <<>> \/ \E t \in DOMAIN Targets : works[t] = "gone"
    /\ result = "threw" => faults # <<>>

\* Where the test is: signing in and before the first target there is nothing to report.
InOrder ==
    /\ pc \in {"login", "badge", "expand", "no-sidebar", "labels"} => next = 0
    /\ pc \in {"goto", "dialog", "find", "click", "dialog-again", "click-again", "land"} => next > 0
    /\ next = 0 => failures = {} /\ result \in {"none", "failed", "threw"}
    /\ (pc = "done") <=> (result # "none")
    /\ next > 0 => result # "threw"
    /\ pc = "no-sidebar" => faults # <<>>

\* The targets behind the current one have their verdicts, and nothing is said of one ahead.
VerdictsSoFar ==
    /\ \A t \in failures : t <= next /\ (t = next => result # "none")
    /\ \A t \in DOMAIN Targets :
         t < next \/ (t = next /\ result # "none") =>
           works[t] = "ok" \/ Targets[t].home \/ t \in failures

\* The sidebar is decided on at rest; one that is not open afterwards, and a dialog that is still
\* there when the item is looked for, are faults of the portal, with this target.
SidebarSoFar ==
    /\ pc \in {"login", "badge", "expand", "no-sidebar", "settle", "toggle", "labels", "find",
               "dialog"} => ~derailed
    /\ pc \in {"login", "badge", "expand"} => width = Collapsed /\ ~moving /\ ~dialog
    /\ pc \in {"dialog", "settle"} /\ moving => width # Collapsed /\ reading = width
    /\ pc \in {"toggle", "labels", "find"} => ~moving
    /\ pc = "toggle" => width = Collapsed /\ (rounds > 0 => Faulted(next)) /\ rounds < 2
    /\ pc \in {"labels", "find"} => width > EXPANDED_SIDEBAR_MIN_WIDTH \/ Faulted(next)
    /\ pc \in {"settle", "toggle", "labels", "find", "click"} => ~dialog \/ Faulted(next)
    /\ pc = "dialog-again" \/ (pc = "click-again" /\ dialog) => Faulted(next)
    /\ pc = "land" => landed = works[next]

NavInv == TypeOK /\ InOrder /\ VerdictsSoFar /\ SidebarSoFar /\ OneVerdictEach
=============================================================================
