---------------------------- MODULE PortalChecks ----------------------------
(* The browser checks of the booking and payment screens                      *)
(* (packages/qa-automation-tests: slot-listing-pricing, slot-availability-    *)
(* snapshot, slot-booking-flow, premium-upgrade, development-report-download  *)
(* and portal-navigation.ts): a script that looks at somebody else's site     *)
(* while the clock runs and the site changes under it. A test has a page of   *)
(* its own, so a behaviour is one test. What the site does wrong or late is   *)
(* nondeterministic, and written down in the ghost variable faults.           *)
EXTENDS Integers, Sequences

CONSTANTS Starts,     \* half-hours since midnight UTC of day 0 (a Saturday) at which a test starts
          MaxTicks,   \* half-hours a test may see pass
          Offers,     \* what the site may list for a date: [free, priority : sets of minutes]
          None

VARIABLES test, pc,
          start, clock,         \* when the test began, now
          unopened, offer,      \* the site: dates whose cells it has disabled, or does not show
                                \* because they are of the next month; what it lists
          modal,                \* the verification modal: "no", "late" (still to come), "open"
          dates, verdicts,      \* the dates to look at, what was found of those looked at
          clicked, shown,       \* the date clicked last, the date whose slot panels are on screen
          section, attempt,     \* of the retry loop
          free, priority,       \* what was read
          step, payment,        \* the next probe of a script; the payment screen covers the page
          result,
          faults, blinks        \* ghosts: what the site did wrong, the reads that found slots gone

vars == <<test, pc, start, clock, unopened, offer, modal, dates, verdicts, clicked, shown,
          section, attempt, free, priority, step, payment, result, faults, blinks>>

(* The calendar of the container and of the site.                             *)

\* As before the anchoring to IST: the container's own calendar day.
ContainerDay(from) == from \div 48

\* India is 5:30 ahead of UTC, the container's own time zone
istDateOnly(from) == (from + 11) \div 48

isPastSameDayCutoffIST(from) == ((from + 11) % 48) \div 2 >= 15

upcomingDates(count, from) ==
    [i \in 1 .. count |->
        istDateOnly(from) + (IF isPastSameDayCutoffIST(from) THEN 1 ELSE 0) + i - 1]

getDay(date) == (date + 6) % 7        \* 0 is a Sunday

\* of two days in a row one at most is a Sunday
nextNonSunday(from) == LET days == upcomingDates(2, from) IN
                       days[IF getDay(days[1]) # 0 THEN 1 ELSE 2]

\* the site: a date can be booked from 15:00 IST two days before until 15:00 IST of the day
SiteDates(t) ==
    LET now == t + 11
        today == now \div 48
    IN {date \in today .. today + 2 : 48 * (date - 2) + 30 <= now /\ now < 48 * date + 30}

OfferOf(date) == offer[(date % 2) + 1]

\* with the modal open the day cells are not in the accessibility tree
isDateBookable(date) == /\ modal # "open"
                        /\ date \in SiteDates(clock)
                        /\ date \notin unopened

(* What the site writes for a time of day, and what the check reads of it.    *)

Label(minutes) == [hour |-> IF (minutes \div 60) % 12 = 0 THEN 12 ELSE (minutes \div 60) % 12,
                   minute |-> minutes % 60,
                   meridiem |-> IF minutes < 720 THEN "AM" ELSE "PM"]

parseSlotTime(label) ==
    ((label.hour % 12) + (IF label.meridiem = "PM" THEN 12 ELSE 0)) * 60 + label.minute

isPaidWindow(minutes) == minutes \in 7 * 60 .. 9 * 60 \/ minutes \in 19 * 60 .. 21 * 60

\* the panel on screen under a heading - of whatever date it is - or an empty one while its slots
\* are momentarily gone, or out of the accessibility tree under the modal
findSlotPanel(which, gone) == IF gone THEN {} ELSE {Label(m) : m \in OfferOf(shown)[which]}

readSlotTimes(which, gone) == {parseSlotTime(label) : label \in findSlotPanel(which, gone)}

(* The tests of the registry that this module is about, and their probes.     *)

createPortalAutomationTests ==
    <<"slot-listing-pricing", "slot-availability-snapshot", "slot-booking-flow", "premium-upgrade",
      "development-report-download", "candidate-search-skill-filters",
      "candidate-search-gender-breakdown", "candidate-search-education-additive",
      "recruiter-dashboard-navigation", "scheduling-admin-dashboard-navigation",
      "panel-admin-dashboard-navigation", "candidate-dashboard-navigation",
      "interviewer-dashboard-navigation", "standard-recruiter-dashboard-navigation",
      "platform-admin-dashboard-navigation">>

SlotTests == {createPortalAutomationTests[i] : i \in 1 .. 3}

\* each probe looks for something and clicks it; the last looks into the payment frame
loginAndReachJobsPage == <<"Jobs">>
loginAndReachCompletedInterviewsTab == <<"My-Interviews", "Completed">>

PremiumUpgrade ==
    loginAndReachJobsPage \o <<"Upgrade-to-Premium", "Get-7-Days-Plan", "Confirm-Your-Subscription",
                               "Terms-checkbox", "Proceed-to-Payment", "Razorpay">>

DevelopmentReportDownload ==
    loginAndReachCompletedInterviewsTab \o <<"Download-Report", "checkbox", "Unlock-Full-Report",
                                             "Razorpay">>

Script == IF test = "premium-upgrade" THEN PremiumUpgrade ELSE DevelopmentReportDownload

\* the booking flow's: the free slot first, the payment screen covers the page afterwards
Sections == <<"free", "priority">>

AfterTimeButton == [free |-> <<"Schedule-Interview">>,
                    priority |-> <<"Pay-and-Schedule", "I-agree", "Confirm-and-Schedule", "Razorpay">>]

\* clicked without looking first, or looked for by a helper that throws
Throwing == {"Jobs", "My-Interviews", "Completed", "Terms-checkbox",
             "Pay-and-Schedule", "I-agree", "Confirm-and-Schedule"}

Probes == IF test \in SlotTests THEN AfterTimeButton[Sections[section]] ELSE Script

Init ==
    /\ test \in {createPortalAutomationTests[i] : i \in 1 .. 5}
    /\ start \in Starts /\ clock = start
    /\ unopened \in SUBSET SiteDates(start)
    /\ offer \in [{1, 2} -> Offers]
    /\ test \notin SlotTests => unopened = {} /\ offer[1] = offer[2]
    /\ pc = "login" /\ modal = "no" /\ dates = <<>> /\ verdicts = <<>>
    /\ clicked = None /\ shown = None /\ section = 1 /\ attempt = 0
    /\ free = {} /\ priority = {} /\ step = 1 /\ payment = FALSE
    /\ result = "none" /\ faults = {} /\ blinks = {}

site == <<start, unopened, offer, test>>
reading == <<section, attempt, free, priority, blinks>>

\* The test returns or throws; the runner makes a failed result of an error.
Over(how) == result' = how /\ pc' = "done"

Throw(why) == Over("threw") /\ faults' = faults \cup {why}

(* The way to the screen.                                                     *)

\* The sidebar's item is there or the helper throws; the modal, which only some accounts see,
\* is awaited for 20 seconds and cancelled.
loginAndReachBookingScreen ==
    /\ pc = "login" /\ test \in SlotTests
    /\ \/ Throw("layout") /\ UNCHANGED <<modal, dates>>
       \/ /\ modal' \in {"no", "late"}
          /\ dates' = IF test = "slot-booking-flow" THEN <<nextNonSunday(clock)>>
                                                   ELSE upcomingDates(2, clock)
          /\ pc' = "look" /\ UNCHANGED <<result, faults>>
    /\ UNCHANGED <<site, clock, verdicts, clicked, shown, reading, step, payment>>

loginAndExpandSidebar ==
    /\ pc = "login" /\ test \notin SlotTests
    /\ pc' = "script"
    /\ UNCHANGED <<site, clock, modal, dates, verdicts, clicked, shown, reading, step, payment,
                   result, faults>>

(* The three slot tests.                                                      *)

Date == dates[Len(verdicts) + 1]

\* With a verdict on every date a listing test ends; the booking flow ends with its only one.
Judged(verdict) ==
    LET all == Append(verdicts, verdict) IN
    /\ verdicts' = all
    /\ IF Len(all) < Len(dates) THEN pc' = "look" /\ UNCHANGED result
       ELSE Over(IF "fail" \in {all[i] : i \in DOMAIN all} THEN "failed" ELSE "passed")

\* A date that is not open yet is not a failure: there is nothing to check.
Look ==
    /\ pc = "look"
    /\ IF isDateBookable(Date) THEN pc' = "select" /\ UNCHANGED <<verdicts, result>>
                              ELSE Judged("closed")
    /\ UNCHANGED <<site, clock, modal, dates, clicked, shown, reading, step, payment, faults>>

\* The click lands, or the panels of the date before stay where they were: either is taken for
\* the date's own. Without any panel the helper throws, and so it does when the date has closed.
selectCalendarDate(then) ==
    IF ~isDateBookable(Date) THEN Throw("date-closed") /\ UNCHANGED <<clicked, shown>>
    ELSE /\ clicked' = Date
         /\ \/ shown' = Date /\ pc' = then /\ UNCHANGED <<result, faults>>
            \/ /\ shown # Date /\ UNCHANGED shown
               /\ IF shown = None THEN Throw("no-panel")
                  ELSE pc' = then /\ faults' = faults \cup {"slow-panel"} /\ UNCHANGED result

Select ==
    /\ pc = "select"
    /\ selectCalendarDate(IF test = "slot-booking-flow" THEN "retry" ELSE "read-free")
    /\ section' = 1 /\ attempt' = 1
    /\ UNCHANGED <<site, clock, modal, dates, verdicts, free, priority, step, payment,
                   blinks>>

\* One read of a panel; slots can be there one moment and gone the next.
Read(which, gone) ==
    /\ gone => OfferOf(shown)[which] # {}
    /\ free' = IF which = "free" THEN readSlotTimes(which, gone) ELSE free
    /\ priority' = IF which = "priority" THEN readSlotTimes(which, gone) ELSE priority
    /\ blinks' = blinks \cup (IF gone THEN {<<which, attempt>>} ELSE {})

ReadFree ==
    /\ pc = "read-free"
    /\ \E gone \in BOOLEAN : Read("free", gone)
    /\ pc' = "read-priority"
    /\ UNCHANGED <<site, clock, modal, dates, verdicts, clicked, shown, section, attempt, step,
                   payment, result, faults>>

\* A Sunday's empty priority panel is not taken at face value.
ReadPriority ==
    /\ pc = "read-priority"
    /\ \E gone \in BOOLEAN :
          /\ gone => OfferOf(shown).priority # {}
          /\ priority' = readSlotTimes("priority", gone)
          /\ blinks' = blinks \cup (IF gone THEN {<<"priority", 0>>} ELSE {})
    /\ IF test = "slot-listing-pricing" /\ getDay(Date) = 0 /\ priority' = {}
       THEN pc' = "retry" /\ section' = 2 /\ attempt' = 1
       ELSE pc' = "judge" /\ UNCHANGED <<section, attempt>>
    /\ UNCHANGED <<site, clock, modal, dates, verdicts, clicked, shown, free, step, payment,
                   result, faults>>

\* retryOnMissingSlot: three reads, the date selected anew before the second and the third.
retryOnMissingSlot ==
    /\ pc = "retry"
    /\ \E gone \in BOOLEAN : Read(Sections[section], gone)
    /\ LET found == (IF section = 1 THEN free' ELSE priority') # {} IN
       IF ~found /\ attempt < 3 THEN pc' = "again" /\ attempt' = attempt + 1 /\ UNCHANGED <<verdicts, result>>
       ELSE /\ UNCHANGED attempt
            /\ IF test # "slot-booking-flow" THEN pc' = "judge" /\ UNCHANGED <<verdicts, result>>
               ELSE IF found THEN pc' = "time-button" /\ UNCHANGED <<verdicts, result>>
               ELSE Judged("fail")
    /\ UNCHANGED <<site, clock, modal, dates, clicked, shown, section, step, payment, faults>>

SelectAgain ==
    /\ pc = "again"
    /\ selectCalendarDate("retry")
    /\ UNCHANGED <<site, clock, modal, dates, verdicts, reading, step, payment>>

checkSunday == IF free # {} \/ priority = {} THEN "fail" ELSE "pass"

checkWeekday == IF \/ \E minutes \in free : isPaidWindow(minutes)
                   \/ \E minutes \in priority : ~isPaidWindow(minutes)
                THEN "fail" ELSE "pass"

SlotAvailabilitySnapshot == "pass"

Judge ==
    /\ pc = "judge"
    /\ Judged(IF test = "slot-availability-snapshot" THEN SlotAvailabilitySnapshot
              ELSE IF getDay(Date) = 0 THEN checkSunday ELSE checkWeekday)
    /\ UNCHANGED <<site, clock, modal, dates, clicked, shown, reading, step, payment, faults>>

\* The booking flow clicks the slot it found: it may be gone by now, and under the modal or the
\* payment frame no click gets through.
clickTimeButton ==
    /\ pc = "time-button"
    /\ IF payment THEN Over("threw") /\ UNCHANGED <<step, faults>>
       ELSE \/ modal # "open" /\ pc' = "script" /\ step' = 1 /\ UNCHANGED <<result, faults>>
            \/ Throw("slot-taken") /\ UNCHANGED step
    /\ UNCHANGED <<site, clock, modal, dates, verdicts, clicked, shown, reading, payment>>

(* Probe after probe to the payment screen, which is never paid.              *)

\* After the free slot's probe comes the priority slot; after the last the flow has passed.
Passed ==
    IF test # "slot-booking-flow" THEN Over("passed") /\ UNCHANGED <<verdicts, section, attempt>>
    ELSE IF section < 2 THEN /\ pc' = "retry" /\ section' = section + 1 /\ attempt' = 1
                             /\ UNCHANGED <<verdicts, result>>
    ELSE Judged("pass") /\ UNCHANGED <<section, attempt>>

ProbeSeen ==
    /\ pc = "script" /\ (modal = "open" => Probes[step] = "Razorpay")
    /\ IF step < Len(Probes)
       THEN step' = step + 1 /\ UNCHANGED <<pc, verdicts, section, attempt, result>>
       ELSE Passed /\ UNCHANGED step
    /\ payment' = (payment \/ Probes[step] = "Razorpay")
    /\ UNCHANGED <<site, clock, modal, dates, clicked, shown, free, priority, faults,
                   blinks>>

ProbeMissing ==
    /\ pc = "script"
    /\ faults' = faults \cup {"layout"}
    /\ IF Probes[step] \in Throwing THEN Over("threw") /\ UNCHANGED verdicts
       ELSE IF test = "slot-booking-flow" THEN Judged("fail")
       ELSE Over("failed") /\ UNCHANGED verdicts
    /\ UNCHANGED <<site, clock, modal, dates, clicked, shown, reading, step, payment>>

(* The site and the clock, at any time.                                       *)

Tick == /\ pc \in {"look", "select", "again"} /\ clock < start + MaxTicks
        /\ clock' = clock + 1
        /\ UNCHANGED <<site, pc, modal, dates, verdicts, clicked, shown, reading, step, payment,
                       result, faults>>

ModalAppears == /\ modal = "late" /\ pc \notin {"login", "done"}
                /\ modal' = "open"
                /\ UNCHANGED <<site, pc, clock, dates, verdicts, clicked, shown, reading, step,
                               payment, result, faults>>

PanelArrives == /\ pc # "done" /\ clicked # shown
                /\ shown' = clicked
                /\ UNCHANGED <<site, pc, clock, modal, dates, verdicts, clicked, reading, step,
                               payment, result, faults>>

Next == \/ loginAndReachBookingScreen \/ loginAndExpandSidebar
        \/ Look \/ Select \/ ReadFree \/ ReadPriority \/ retryOnMissingSlot \/ SelectAgain \/ Judge
        \/ clickTimeButton \/ ProbeSeen \/ ProbeMissing
        \/ Tick \/ ModalAppears \/ PanelArrives

Spec == Init /\ [][Next]_vars

(* Properties.                                                                *)

Minutes == 0 .. 1439      \* of a day

\* The rule the site has to keep, in hours of the day.
KeepsTheRule(date) ==
    LET o == OfferOf(date)
        PaidHours == {m \in Minutes :
                        \/ 420 <= m /\ m <= 540
                        \/ 1140 <= m /\ m <= 1260}
    IN
    IF getDay(date) = 0 THEN o.free = {} /\ o.priority # {}
    ELSE o.free \cap PaidHours = {} /\ o.priority \subseteq PaidHours

\* every read of a section's retries found its slots gone for the moment
AlwaysGone(which) == \A n \in 1 .. 3 : <<which, n>> \in blinks

Slow == "slow-panel" \in faults
Lost == Slow \/ faults \cap {"layout", "date-closed", "no-panel", "slot-taken"} # {}

\* A verdict of the slot checks is about the site, whatever the time and however it flickers: a
\* check fails or throws only when the site broke its rule, or was missing a slot at every retry,
\* or lost the screen; it calls a date closed only when its cell was disabled or of the next month,
\* the modal had come too late to be cancelled, or the site's dates changed under the check; and it
\* passes the pricing of a date only when the rule was kept, and a payment flow only on its payment
\* screen - unless the panels were late or gone (retryOnMissingSlot, upcomingDates,
\* SlotBookingFlowTest.run).
VerdictsOnDates ==
    \A i \in DOMAIN verdicts :
      /\ verdicts[i] = "closed" => \/ dates[i] \in unopened
                                   \/ modal = "open"
                                   \/ SiteDates(clock) # SiteDates(start)
      /\ test = "slot-listing-pricing" =>
            /\ verdicts[i] = "fail" => ~KeepsTheRule(dates[i]) \/ Slow \/ AlwaysGone("priority")
            /\ verdicts[i] = "pass" => KeepsTheRule(dates[i]) \/ Slow \/ blinks # {}

SlotVerdictsAreReal ==
    /\ VerdictsOnDates
    /\ result = "threw" => Lost
    /\ result = "failed" /\ test # "slot-listing-pricing" =>
          \/ Lost
          \/ \E which \in {"free", "priority"} : \/ AlwaysGone(which)
                                                \/ OfferOf(dates[1])[which] = {}
    /\ result = "passed" /\ test \notin {"slot-listing-pricing", "slot-availability-snapshot"} =>
          payment \/ verdicts = <<"closed">>

-----------------------------------------------------------------------------
(* What it rests on.                                                          *)

\* a site lists times of a day
SlotsAssumption ==
    /\ Starts \subseteq Nat
    /\ Offers \subseteq [free : SUBSET Minutes, priority : SUBSET Minutes]

Ended == pc = "done"
Booking == test = "slot-booking-flow"

\* The dates to look at are of the site's calendar at the start, and the check is at one of them.
OnADate ==
    /\ test \in {createPortalAutomationTests[i] : i \in 1 .. 5}
    /\ start \in Starts /\ clock \in Nat /\ start <= clock /\ (pc = "login" => clock = start /\ dates = <<>>)
    /\ offer \in [{1, 2} -> Offers]
    /\ dates \in Seq(Nat) /\ Len(dates) <= 2 /\ (Booking => Len(dates) <= 1)
    /\ \A i \in DOMAIN dates : dates[i] \in SiteDates(start)
    /\ verdicts \in Seq({"closed", "pass", "fail"}) /\ Len(verdicts) <= Len(dates)
    /\ test \in SlotTests /\ pc \notin {"login", "done"} => Len(verdicts) < Len(dates)
    /\ test \notin SlotTests => pc \in {"login", "script", "done"}
    /\ Ended <=> result # "none"
    /\ modal \in {"no", "late", "open"}

\* What was read is of the panels of the date, or else they were slow.
PanelsRead ==
    /\ ~Ended /\ clicked # shown => Slow
    /\ test \in SlotTests /\ pc \notin {"login", "look", "select", "done"} /\ ~Slow =>
         clicked = Date /\ shown = Date
    /\ test = "slot-listing-pricing" /\ pc \in {"read-priority", "retry", "again", "judge"} /\ ~Slow =>
         free = OfferOf(Date).free \/ (free = {} /\ blinks # {})
    /\ test = "slot-listing-pricing" /\ pc = "judge" /\ ~Slow =>
         \/ priority = OfferOf(Date).priority
         \/ priority = {} /\ blinks # {} /\ (getDay(Date) = 0 => AlwaysGone("priority"))

\* The retries so far found nothing, and each for a reason.
RetriesSoFar ==
    /\ section \in {1, 2} /\ attempt \in 0 .. 3
    /\ pc \in {"read-free", "read-priority", "judge"} => test \in SlotTests /\ ~Booking
    /\ pc \in {"retry", "again"} =>
         /\ attempt > 0
         /\ Booking \/ (test = "slot-listing-pricing" /\ section = 2 /\ getDay(Date) = 0)
         /\ ~Slow => \A n \in 1 .. attempt - 1 : \/ <<Sections[section], n>> \in blinks
                                               \/ OfferOf(Date)[Sections[section]] = {}

\* The payment screen is the last of a flow.
FlowSoFar ==
    /\ ~Ended => ~payment
    /\ pc = "time-button" => Booking
    /\ pc = "script" => Booking \/ test \notin SlotTests
    /\ pc = "script" => step \in 1 .. Len(Probes)
    /\ pc = "login" => step = 1
    /\ test = "slot-availability-snapshot" => result # "failed" /\ \A i \in DOMAIN verdicts : verdicts[i] # "fail"

SlotsInv == OnADate /\ PanelsRead /\ RetriesSoFar /\ FlowSoFar /\ SlotVerdictsAreReal
=============================================================================
