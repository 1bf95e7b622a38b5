------------------------ MODULE DeployMailPoll_proofs ------------------------
(***************************************************************************)
(* Proofs about DeployMailPoll, for any mails, page size, lookback, number *)
(* of polls and failures.                                                  *)
(***************************************************************************)
EXTENDS DeployMailPoll, FiniteSetTheorems, TLAPS

\* A mailbox without mails and a cursor that was never set satisfy the invariant.
LEMMA InvInit == Init => IInv
<1> SUFFICES ASSUME Init PROVE IInv
  OBVIOUS
<1>1. Cardinality({}) = 0
  BY FS_EmptySet
<1>2. TypeOK
  BY <1>1, MailAssumption DEF Init, TypeOK, Times, Never
<1>3. PollsInOrder /\ PageIsComplete /\ PageIsNew /\ TriggeredIsOld
  BY MailAssumption DEF Init, PollsInOrder, PageIsComplete, PageIsNew, TriggeredIsOld,
     Never
<1>4. EveryDeployTriggers /\ AtMostTwice
  BY MailAssumption DEF Init, EveryDeployTriggers, AtMostTwice, Never
<1> QED
  BY <1>2, <1>3, <1>4 DEF IInv

\* Time passes.
LEMMA TickStep == ASSUME IInv, Tick PROVE IInv'
<1> USE MailAssumption DEF IInv, Tick, Times, Never
<1>1. TypeOK'
  BY DEF TypeOK
<1>2. PollsInOrder'
  BY DEF PollsInOrder, TypeOK
<1>3. PageIsComplete' /\ PageIsNew' /\ TriggeredIsOld'
  BY DEF PageIsComplete, PageIsNew, TriggeredIsOld
<1>4. EveryDeployTriggers' /\ AtMostTwice'
  BY DEF EveryDeployTriggers, AtMostTwice
<1> QED
  BY <1>1, <1>2, <1>3, <1>4

\* A mail arrives at the present time, which no poll's interval contains.
LEMMA ArriveStep == ASSUME IInv, NEW m \in Mails, MailArrives(m) PROVE IInv'
<1> USE MailAssumption DEF IInv, MailArrives, Times, Never, TypeOK, PollsInOrder
<1>1. TypeOK'
  OBVIOUS
<1>2. PollsInOrder'
  OBVIOUS
<1>3. PageIsComplete'
  BY DEF PageIsComplete
<1>4. PageIsNew' /\ TriggeredIsOld'
  BY DEF PageIsNew, TriggeredIsOld
<1>5. EveryDeployTriggers'
  BY DEF EveryDeployTriggers
<1>6. AtMostTwice'
  BY DEF AtMostTwice
<1> QED
  BY <1>1, <1>2, <1>3, <1>4, <1>5, <1>6

\* A poll reads the cursor and the clock.
LEMMA StartStep == ASSUME IInv, StartPoll PROVE IInv'
<1> USE MailAssumption DEF IInv, StartPoll, Times, Never, TypeOK, PollsInOrder
<1>1. TypeOK' /\ PollsInOrder'
  OBVIOUS
<1>2. PageIsComplete' /\ PageIsNew' /\ TriggeredIsOld'
  BY DEF PageIsComplete, PageIsNew, TriggeredIsOld
<1>3. EveryDeployTriggers' /\ AtMostTwice'
  BY DEF EveryDeployTriggers, AtMostTwice
<1> QED
  BY <1>1, <1>2, <1>3

\* The page holds, or a full page cuts, every mail since the cursor; none of them was
\* triggered twice.
LEMMA FetchStep == ASSUME IInv, Fetch PROVE IInv'
<1> USE MailAssumption DEF IInv, Times, Never, TypeOK, PollsInOrder
<1>1. PICK P \in SUBSET MailsSince(since) :
        /\ Cardinality(P) <= PageSize
        /\ page' = P /\ cut' = cut \cup (MailsSince(since) \ P)
  <2>1. PICK P \in SUBSET MailsSince(since) :
          /\ \/ P = MailsSince(since) /\ Cardinality(P) <= PageSize
             \/ Cardinality(P) = PageSize /\ OldestFirst(P, MailsSince(since))
          /\ page' = P /\ cut' = cut \cup (MailsSince(since) \ P)
    BY DEF Fetch
  <2>2. Cardinality(P) <= PageSize
    BY <2>1
  <2> QED
    BY <2>1, <2>2
<1>2. /\ pc = "fetch" /\ pc' = "advance"
      /\ UNCHANGED <<clock, received, cursor, now, since, rested, horizon, triggered,
                     dropped, faults>>
  BY DEF Fetch
<1>3. MailsSince(since) \subseteq Mails
  BY DEF MailsSince
<1>4. TypeOK' /\ PollsInOrder'
  BY <1>1, <1>2, <1>3
<1>5. PageIsComplete'
  BY <1>1, <1>2 DEF PageIsComplete, MailsSince
<1>6. PageIsNew'
  <2> SUFFICES ASSUME NEW m \in page' PROVE received[m] # Never /\ triggered[m] <= 1
    BY <1>2 DEF PageIsNew
  <2>1. m \in Mails /\ received[m] # Never /\ received[m] >= since
    BY <1>1 DEF MailsSince
  <2>2. triggered[m] > 1 => received[m] < cursor /\ cursor # Never
    BY <2>1 DEF TriggeredIsOld
  <2> QED
    BY <1>2, <2>1, <2>2
<1>7. TriggeredIsOld' /\ AtMostTwice'
  BY <1>2 DEF TriggeredIsOld, AtMostTwice
<1>8. EveryDeployTriggers'
  BY <1>1, <1>2 DEF EveryDeployTriggers
<1> QED
  BY <1>4, <1>5, <1>6, <1>7, <1>8

\* The cursor skips the interval of the page.
LEMMA AdvanceStep == ASSUME IInv, Advance PROVE IInv'
<1> USE MailAssumption DEF IInv, Advance, Times, Never, TypeOK, PollsInOrder
<1>1. TypeOK'
  OBVIOUS
<1>2. PollsInOrder'
  OBVIOUS
<1>3. PageIsComplete' /\ PageIsNew'
  BY DEF PageIsComplete, PageIsNew
<1>4. TriggeredIsOld'
  BY DEF TriggeredIsOld
<1>5. AtMostTwice'
  BY DEF AtMostTwice
<1>6. EveryDeployTriggers'
  <2> SUFFICES ASSUME NEW m \in Deploys \ (cut \cup dropped),
                      received[m] \in horizon'..now - 1, received[m] # Never
               PROVE  triggered[m] > 0 \/ (pc' = "enqueue" /\ m \in page)
    BY DEF EveryDeployTriggers
  <2>1. CASE cursor # Never /\ received[m] < cursor
    BY <2>1 DEF EveryDeployTriggers
  <2>2. CASE cursor # Never /\ received[m] >= cursor
    <3>1. received[m] \in since..now - 1
      BY <2>2
    <3>2. m \in page
      BY <3>1 DEF PageIsComplete
    <3> QED
      BY <3>2
  <2>3. CASE cursor = Never
    <3>1. received[m] \in since..now - 1
      BY <2>3
    <3>2. m \in page
      BY <3>1 DEF PageIsComplete
    <3> QED
      BY <3>2
  <2> QED
    BY <2>1, <2>2, <2>3
<1> QED
  BY <1>1, <1>2, <1>3, <1>4, <1>5, <1>6

\* The job is enqueued: the second time for a mail that the previous poll had seen
\* already, and this poll's time lies after that poll.
LEMMA EnqueueStep == ASSUME IInv, Enqueue PROVE IInv'
<1> USE MailAssumption DEF IInv, Enqueue, Times, Never, TypeOK, PollsInOrder
<1>1. \A m \in Mails : triggered'[m] = triggered[m] + (IF m \in page \cap Deploys THEN 1 ELSE 0)
  OBVIOUS
<1>2. \A m \in page : triggered[m] <= 1
  BY DEF PageIsNew
<1>3. AtMostTwice'
  BY <1>1, <1>2 DEF AtMostTwice
<1>4. TypeOK'
  <2>1. \A m \in Mails : triggered'[m] \in 0..MaxClock
    BY <1>1, <1>3 DEF AtMostTwice
  <2> QED
    BY <2>1
<1>5. PollsInOrder'
  OBVIOUS
<1>6. PageIsComplete' /\ PageIsNew'
  BY DEF PageIsComplete, PageIsNew
<1>7. TriggeredIsOld'
  <2> SUFFICES ASSUME NEW m \in Mails
               PROVE  /\ triggered'[m] > 0 => received[m] # Never /\ received[m] <= clock
                                              /\ cursor # Never
                      /\ triggered'[m] > 1 => received[m] < cursor
    BY DEF TriggeredIsOld
  <2>1. CASE m \in page \cap Deploys
    BY <1>1, <2>1 DEF PageIsNew, TriggeredIsOld
  <2>2. CASE m \notin page \cap Deploys
    BY <1>1, <2>2 DEF TriggeredIsOld
  <2> QED
    BY <2>1, <2>2
<1>8. EveryDeployTriggers'
  BY <1>1 DEF EveryDeployTriggers
<1> QED
  BY <1>3, <1>4, <1>5, <1>6, <1>7, <1>8

\* A failing poll loses the triggers of its page only if the cursor has advanced.
LEMMA FailStep == ASSUME IInv, PollFails PROVE IInv'
<1> USE MailAssumption DEF IInv, PollFails, Fault, Times, Never, TypeOK, PollsInOrder
<1>1. TypeOK' /\ PollsInOrder'
  OBVIOUS
<1>2. PageIsComplete' /\ PageIsNew'
  BY DEF PageIsComplete, PageIsNew
<1>3. TriggeredIsOld' /\ AtMostTwice'
  BY DEF TriggeredIsOld, AtMostTwice
<1>4. EveryDeployTriggers'
  BY DEF EveryDeployTriggers
<1> QED
  BY <1>1, <1>2, <1>3, <1>4

\* Every step of the mailbox, the clock and the poll preserves the invariant.
LEMMA InvStep == IInv /\ [Next]_vars => IInv'
<1>1. IInv /\ UNCHANGED vars => IInv'
  BY DEF vars, IInv, TypeOK, PollsInOrder, PageIsComplete, PageIsNew, TriggeredIsOld,
     EveryDeployTriggers, AtMostTwice
<1> QED
  BY <1>1, TickStep, ArriveStep, StartStep, FetchStep, AdvanceStep, EnqueueStep, FailStep
     DEF Next

\* The strengthened invariant of the poll holds in every reachable state.
THEOREM Inductive == Spec => []IInv
  BY InvInit, InvStep, PTL DEF Spec

\* A deploy mail the cursor has passed has triggered a run, unless a full page cut it
\* or the poll failed after it had advanced the cursor.
THEOREM NoDeployForgotten == Spec => []EveryDeployTriggers
<1>1. IInv => EveryDeployTriggers
  BY DEF IInv
<1> QED
  BY <1>1, Inductive, PTL

\* No deploy mail triggers more than two runs.
THEOREM NoThirdRun == Spec => []AtMostTwice
<1>1. IInv => AtMostTwice
  BY DEF IInv
<1> QED
  BY <1>1, Inductive, PTL
=============================================================================
