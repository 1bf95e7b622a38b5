--------------------------- MODULE CandidateSearch ---------------------------
(* The three Candidate Search checks of packages/qa-automation-tests: skill    *)
(* filters, gender breakdown, additive education. The filter lists are         *)
(* virtualised and re-render under the click, and a count is of the last Apply *)
(* that the site has answered, not of the last one that was clicked; what the  *)
(* site loses, hides or does late is nondeterministic and noted in faults.     *)
EXTENDS Integers, Sequences, FiniteSets

CONSTANTS Pool,        \* how many candidates there are of each gender
          EngineersOnly, \* how many of them a search for the other degree leaves out
          Wrong,       \* by how much a broken site miscounts
          MaxFaults

VARIABLES test, at,       \* the check, the next operation of its plan
          pc, tries,      \* inside an operation; attempts at opening a filter or unchecking
          honest,         \* the site: its counts add up
          checked,        \* the boxes checked in the panel
          applied,        \* those the counts on screen are for
          pending,        \* those whose counts the site still owes
          counts,         \* what was read, and (ghost) the boxes it was for
          result, faults  \* ghost: what the site has done wrong besides

vars == <<test, at, pc, tries, honest, checked, applied, pending, counts, result, faults>>

GENDERS == <<"Male", "Female", "Others">>

Skills == <<"Java", "SpringBoot", "Microservices">>

(* The plans: what each check does after it has reached the page.              *)

Select(i) == [op |-> "skill", box |-> Skills[i], previous |-> {}]
Check(option) == [op |-> "option", box |-> option, previous |-> {}]
Gender(i) == [op |-> "gender", box |-> GENDERS[i],
              previous |-> IF i = 1 THEN {} ELSE {GENDERS[i - 1]}]
Apply == [op |-> "apply", box |-> "none", previous |-> {}]
Show == [op |-> "show", box |-> "none", previous |-> {}]

SkillFilters == <<Select(1), Select(2), Select(3), Apply, Show, Show>>

GenderBreakdown == <<Select(1), Select(2), Select(3), Apply, Show, Gender(1), Apply, Show,
                     Gender(2), Apply, Show, Gender(3), Apply, Show>>

\* "Bachelor of ..." both
EducationAdditive == <<Select(1), Select(2), Select(3), Check("Engineering"), Apply, Show,
                       Check("Technology"), Apply, Show>>

SearchTests == {"candidate-search-skill-filters", "candidate-search-gender-breakdown",
                "candidate-search-education-additive"}

Plan == CASE test = "candidate-search-skill-filters" -> SkillFilters
          [] test = "candidate-search-gender-breakdown" -> GenderBreakdown
          [] OTHER -> EducationAdditive

Op == Plan[at]

(* The site.                                                                   *)

Gendered(boxes) == IF boxes \cap DOMAIN Pool = {} THEN DOMAIN Pool ELSE boxes \cap DOMAIN Pool

\* What it shows for a choice of boxes when it is asked for the n-th time; a broken one miscounts
\* a choice that has to add up with another, or the skill filters' second tab. Skills lower all
\* counts of a check alike and are left out.
ShownFor(boxes, n) ==
    LET g == Gendered(boxes) IN
    (IF "Male" \in g THEN Pool["Male"] ELSE 0) + (IF "Female" \in g THEN Pool["Female"] ELSE 0)
    + (IF "Others" \in g THEN Pool["Others"] ELSE 0)
    - (IF "Technology" \in boxes /\ "Engineering" \notin boxes THEN EngineersOnly ELSE 0)
    + (IF honest \/ (/\ boxes \cap {"Male", "Technology"} = {}
                     /\ test # "candidate-search-skill-filters" \/ n = 1)
       THEN 0 ELSE Wrong)

Total == Pool["Male"] + Pool["Female"] + Pool["Others"]

Fault(kind) == Cardinality(faults) < MaxFaults /\ faults' = faults \cup {kind}

Init ==
    /\ test \in SearchTests
    /\ honest \in BOOLEAN
    /\ at = 1 /\ pc = "login" /\ tries = 0
    /\ checked = {} /\ applied = {} /\ pending = {} /\ counts = <<>> /\ result = "none" /\ faults = {}

Over(how) == result' = how /\ pc' = "done"

\* the next operation of the plan
Done == at' = at + 1 /\ pc' = "op" /\ tries' = 0

(* The operations.                                                             *)

loginAndReachCandidateSearch ==
    /\ pc = "login"
    /\ \/ pc' = "op" /\ UNCHANGED <<result, faults>>
       \/ Over("threw") /\ Fault("login")
    /\ UNCHANGED <<test, at, tries, honest, checked, applied, pending, counts>>

\* A click right after the load can be lost: three clicks, then one long wait.
openFilter ==
    /\ pc = "op" /\ at <= Len(Plan) /\ Op.op \in {"skill", "gender", "option"}
    /\ \/ pc' = (IF Op.op = "gender" THEN "uncheck" ELSE "check") /\ tries' = 0
          /\ UNCHANGED <<result, faults>>
       \/ tries < 2 /\ tries' = tries + 1 /\ UNCHANGED <<pc, result, faults>>
       \/ tries = 2 /\ Over("threw") /\ Fault("filter") /\ UNCHANGED tries
    /\ UNCHANGED <<test, at, honest, checked, applied, pending, counts>>

\* Mutant: the box of the gender before stays checked.
KeepPrevious ==
    /\ pc = "uncheck" /\ pc' = "check"
    /\ UNCHANGED <<test, at, tries, honest, checked, applied, pending, counts, result, faults>>

\* The gender before is unchecked in three clicks or the check throws; a box that is not rendered
\* (yet) counts as cleared, and the third click is not looked at again.
clearPrevious ==
    /\ pc = "uncheck"
    /\ \/ Op.previous \cap checked = {} /\ pc' = "check" /\ UNCHANGED <<tries, checked, result, faults>>
       \/ /\ Op.previous \cap checked # {} /\ Fault("not-rendered")
          /\ pc' = "check" /\ UNCHANGED <<tries, checked, result>>
       \/ /\ Op.previous \cap checked # {} /\ tries < 3
          /\ tries' = tries + 1
          /\ \/ checked' = checked \ Op.previous /\ UNCHANGED faults
             \/ UNCHANGED checked /\ Fault("lost-uncheck")
          /\ IF tries' = 3 THEN Over("threw") ELSE UNCHANGED <<pc, result>>
    /\ UNCHANGED <<test, at, honest, applied, pending, counts>>

\* The label is found by scrolling a virtualised list, or the wait for it ends the check.
findExactSkillLabel ==
    /\ pc = "check" /\ Op.op = "skill"
    /\ \/ pc' = "row" /\ UNCHANGED <<result, faults>>
       \/ Over("threw") /\ Fault("label")
    /\ UNCHANGED <<test, at, tries, honest, checked, applied, pending, counts>>

\* A plain click and the rating beside it; whether the list kept the click is not looked at.
selectSkillWithRating ==
    /\ pc = "row"
    /\ \/ checked' = checked \cup {Op.box} /\ Done /\ UNCHANGED <<result, faults>>
       \/ Fault("lost-check") /\ Done /\ UNCHANGED <<checked, result>>
       \/ Fault("rating") /\ Over("threw") /\ UNCHANGED <<checked, at, tries>>
    /\ UNCHANGED <<test, honest, applied, pending, counts>>

\* The box is checked on top of the others, once it is visible; whether the list kept the click is
\* not looked at.
CheckBox ==
    /\ \/ checked' = checked \cup {Op.box} /\ Done /\ UNCHANGED <<result, faults>>
       \/ Fault("lost-check") /\ Done /\ UNCHANGED <<checked, result>>
       \/ Fault("option") /\ Over("threw") /\ UNCHANGED <<checked, at, tries>>
    /\ UNCHANGED <<test, honest, applied, pending, counts>>

setGenderFilter == pc = "check" /\ Op.op = "gender" /\ CheckBox

checkFilterOption == pc = "check" /\ Op.op = "option" /\ CheckBox

\* The site has two seconds for its answer; a later one leaves the counts of before on screen.
clickApply ==
    /\ pc = "op" /\ at <= Len(Plan) /\ Op.op = "apply"
    /\ \/ applied' = checked /\ Done /\ UNCHANGED <<pending, result, faults>>
       \/ pending' = pending \cup {checked} /\ Done /\ Fault("late-answer")
          /\ UNCHANGED <<applied, result>>
       \/ Fault("apply") /\ Over("threw") /\ UNCHANGED <<applied, pending, at, tries>>
    /\ UNCHANGED <<test, honest, checked, counts>>

\* also one that a later answer has overtaken
AnswerArrives ==
    /\ pc # "done"
    /\ \E boxes \in pending : applied' = boxes /\ pending' = pending \ {boxes}
    /\ UNCHANGED <<test, at, pc, tries, honest, checked, counts, result, faults>>

getShownAndTotal ==
    /\ pc = "op" /\ at <= Len(Plan) /\ Op.op = "show"
    /\ \/ /\ counts' = Append(counts, [shown |-> ShownFor(applied, Len(counts) + 1), of |-> applied])
          /\ Done /\ UNCHANGED <<result, faults>>
       \/ Fault("no-count") /\ Over("threw") /\ UNCHANGED <<counts, at, tries>>
    /\ UNCHANGED <<test, honest, checked, applied, pending>>

\* What each check makes of its counts.
SkillFiltersHold == Total > 0 /\ \A i \in DOMAIN counts : counts[i].shown \in 0 .. Total

GenderBreakdownHolds == counts[2].shown + counts[3].shown + counts[4].shown = counts[1].shown

EducationAdditiveHolds == counts[2].shown = counts[1].shown

Judge ==
    /\ pc = "op" /\ at > Len(Plan)
    /\ Over(IF CASE test = "candidate-search-skill-filters" -> SkillFiltersHold
                 [] test = "candidate-search-gender-breakdown" -> GenderBreakdownHolds
                 [] OTHER -> EducationAdditiveHolds
            THEN "passed" ELSE "failed")
    /\ UNCHANGED <<test, at, tries, honest, checked, applied, pending, counts, faults>>

Next == \/ loginAndReachCandidateSearch \/ openFilter \/ clearPrevious \/ findExactSkillLabel
        \/ selectSkillWithRating \/ setGenderFilter \/ checkFilterOption \/ clickApply \/ AnswerArrives
        \/ getShownAndTotal \/ Judge

Spec == Init /\ [][Next]_vars

\* The boxes the n-th count of a check is said to be for, of those that change a count.
NamedFor(n) ==
    IF test = "candidate-search-education-additive"
    THEN {"Engineering"} \cup (IF n = 1 THEN {} ELSE {"Technology"})
    ELSE IF n = 1 \/ test = "candidate-search-skill-filters" THEN {}
    ELSE IF n = 2 THEN {"Male"} ELSE IF n = 3 THEN {"Female"} ELSE {"Others"}

Counting == {"Male", "Female", "Others", "Engineering", "Technology"}

AsNamed(n) == counts[n].of \cap Counting = NamedFor(n)

OneGender(boxes) == \A g, h \in boxes \cap DOMAIN Pool : g = h

Astray == {"lost-check", "late-answer", "not-rendered"}

\* What a search check makes of the site, whatever the site loses, hides or does late meanwhile: if
\* its counts are of the boxes they are named for, it passes exactly when the site's counts add up.
\* They are, unless a click that checks was lost, an answer came late or the box of the gender
\* before was out of sight when it was to be unchecked; and lost unchecking clicks and late answers
\* alone never put two genders into one count: those are seen and repeated, or the check throws
\* (CandidateSearchPanel and the three tests; the box out of sight is NothingContaminated's).
SearchVerdictsAreReal ==
    /\ result \in {"passed", "failed"} /\ (\A n \in DOMAIN counts : AsNamed(n)) =>
          (result = "passed" <=> honest)
    /\ \A n \in DOMAIN counts :
          /\ AsNamed(n) \/ faults \cap Astray # {}
          /\ OneGender(counts[n].of) \/ "not-rendered" \in faults
    /\ result = "threw" => faults # {}

\* candidate-search-navigation.ts:249: a gender that is still checked makes the check throw, as it
\* "would silently contaminate the next gender's count".
NothingContaminated == \A n \in DOMAIN counts : OneGender(counts[n].of)

(* What makes the verdicts real (proved in Services_proofs).                   *)

\* there are candidates, and a broken site miscounts by something
PoolAssumption ==
    /\ Pool \in [{"Male", "Female", "Others"} -> Nat] /\ Total > 0
    /\ Wrong \in Nat \ {0} /\ EngineersOnly \in 0 .. Total

Boxes == {"Java", "SpringBoot", "Microservices"} \cup Counting

TypeOK ==
    /\ test \in SearchTests /\ at \in 1 .. Len(Plan) + 1
    /\ pc \in {"login", "op", "uncheck", "check", "row", "done"} /\ tries \in 0 .. 3
    /\ honest \in BOOLEAN
    /\ checked \subseteq Boxes /\ applied \subseteq Boxes /\ pending \subseteq SUBSET Boxes
    /\ counts \in Seq([shown : Int, of : SUBSET Boxes])
    /\ result \in {"none", "passed", "failed", "threw"}

\* Inside which operation each place is.
InOperation ==
    /\ pc \in {"uncheck", "check", "row"} => at <= Len(Plan)
    /\ pc = "uncheck" => Op.op = "gender"
    /\ pc = "check" => Op.op \in {"skill", "gender", "option"}
    /\ pc = "row" => Op.op = "skill"
    /\ (pc = "done") <=> (result # "none")

\* Another unchecking click follows on a lost one only.
LostClicks == pc = "uncheck" /\ tries > 0 /\ Op.previous \cap checked # {} => "lost-uncheck" \in faults

\* the boxes that should be checked when operation n begins, of those that change a count; how
\* many counts were read before it
Chosen(n) ==
    IF test = "candidate-search-gender-breakdown"
    THEN IF n \in 7 .. 9 THEN {"Male"} ELSE IF n \in 10 .. 12 THEN {"Female"}
         ELSE IF n > 12 THEN {"Others"} ELSE {}
    ELSE IF test = "candidate-search-education-additive"
    THEN IF n > 7 THEN {"Engineering", "Technology"} ELSE IF n > 4 THEN {"Engineering"} ELSE {}
    ELSE {}

ReadBefore(n) ==
    IF test = "candidate-search-gender-breakdown"
    THEN IF n < 6 THEN 0 ELSE IF n < 9 THEN 1 ELSE IF n < 12 THEN 2 ELSE IF n < 15 THEN 3 ELSE 4
    ELSE IF test = "candidate-search-education-additive"
    THEN IF n < 7 THEN 0 ELSE IF n < 10 THEN 1 ELSE 2
    ELSE IF n < 6 THEN 0 ELSE IF n < 7 THEN 1 ELSE 2

Genders == {"Male", "Female", "Others"}

\* the gender before is no longer checked, the one to come not yet
BetweenGenders == pc = "check" /\ Op.op = "gender"

\* A count is what the site shows for its boxes.
CountsAreShown ==
    /\ \A n \in DOMAIN counts : counts[n].shown = ShownFor(counts[n].of, n)
    /\ pc # "done" => Len(counts) = ReadBefore(at)
    /\ result \in {"passed", "failed"} => at = Len(Plan) + 1 /\ Len(counts) = ReadBefore(at)

\* As long as no box is out of sight, no two genders are checked at once.
OneAtATime ==
    "not-rendered" \notin faults =>
      /\ pc # "done" => checked \cap Genders \subseteq IF BetweenGenders THEN {} ELSE Chosen(at)
      /\ OneGender(applied) /\ \A boxes \in pending : OneGender(boxes)

\* As long as nothing else astray happens either, the boxes are those the plan says.
AsPlanned ==
    faults \cap Astray = {} =>
      /\ pending = {}
      /\ pc # "done" =>
            \/ checked \cap Counting = IF BetweenGenders THEN {} ELSE Chosen(at)
            \/ pc = "uncheck" /\ checked \cap Counting = {}
      /\ pc # "done" /\ at <= Len(Plan) /\ Op.op = "show" => applied \cap Counting = Chosen(at)

SearchInv == TypeOK /\ InOperation /\ LostClicks /\ CountsAreShown /\ OneAtATime /\ AsPlanned
             /\ SearchVerdictsAreReal
=============================================================================
