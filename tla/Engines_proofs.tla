--------------------------- MODULE Engines_proofs ---------------------------
(***************************************************************************)
(* Proofs about the engines that MCEngines composes, each about every      *)
(* behaviour of the module itself, for any values of its constants.        *)
(***************************************************************************)
EXTENDS MCEngines, FiniteSetTheorems, WellFoundedInduction, TLAPS

(***************************************************************************)
(* PluginRuntime: any plugins, globs and files                             *)
(***************************************************************************)

\* Sets of plugins are finite, and their cardinalities are ordered by inclusion.
LEMMA PluginCount ==
    ASSUME NEW S, NEW T, S \subseteq T, T \subseteq Plugins
    PROVE  /\ IsFiniteSet(S) /\ Cardinality(S) \in Nat /\ Cardinality(T) \in Nat
           /\ Cardinality(S) <= Cardinality(T)
  BY PluginsAssumption, FS_Subset, FS_CardinalityType

\* Numbering o more writes after c of them.
LEMMA Numbered ==
    ASSUME NEW c \in Nat, NEW o \in Nat, NEW I \in SUBSET (0..c)
    PROVE  I \cup {c + k : k \in 1..o} \subseteq 0..(c + o)
<1>1. \A n \in I : n \in 0..(c + o)
  OBVIOUS
<1>2. \A k \in 1..o : c + k \in 0..(c + o)
  OBVIOUS
<1> QED
  BY <1>1, <1>2

\* The numbers that follow an interval continue it.
LEMMA Following ==
    ASSUME NEW c \in Nat, NEW o \in Nat, NEW a \in Nat, a <= c + 1
    PROVE  (a .. c) \cup {c + k : k \in 1..o} = a .. (c + o)
<1>1. ASSUME NEW n \in a .. (c + o), n \notin a .. c PROVE n \in {c + k : k \in 1..o}
  <2>1. n - c \in 1..o /\ n = c + (n - c)
    BY <1>1
  <2> QED
    BY <2>1
<1>2. \A k \in 1..o : c + k \in a .. (c + o)
  OBVIOUS
<1>3. a .. c \subseteq a .. (c + o)
  OBVIOUS
<1> QED
  BY <1>1, <1>2, <1>3

\* An interval from 0 grows with its end.
LEMMA Interval == \A a, b \in Nat : a <= b => 0..a \subseteq 0..b
  OBVIOUS

\* Before runScan nothing is applicable, armed or counted.
LEMMA PluginsInit == Init => IInv
<1> SUFFICES ASSUME Init PROVE IInv
  OBVIOUS
<1>1. Cardinality(Plugins) \in Nat /\ Cardinality(Settled) \in Nat
  BY PluginCount DEF Init, Settled
<1>2. TypeOK
  <2>1. progress \in [total : 0..Cardinality(Plugins), completed : 0..Cardinality(Plugins)]
    <3>1. 0 \in 0..Cardinality(Plugins)
      BY <1>1
    <3> QED
      BY <3>1 DEF Init
  <2> QED
    BY <2>1 DEF Init, TypeOK, Events
<1>3. Quiet /\ OnlyApplicable /\ Phases
  BY DEF Init, Quiet, OnlyApplicable, Phases, Settled
<1>4. Counted /\ InOrder
  BY <1>1 DEF Init, Counted, InOrder
<1> QED
  BY <1>2, <1>3, <1>4 DEF IInv

\* All applicable plugins start at once; none has settled.
LEMMA StartStep == ASSUME IInv, StartPlugins PROVE IInv'
<1> USE DEF StartPlugins
<1>1. applicable = {} /\ applicable' \subseteq Plugins
  BY DEF IInv, Phases
<1>2. \A p \in Plugins : result[p] = "none" /\ event[p] = "none"
  BY <1>1 DEF IInv, OnlyApplicable
<1>3. Settled = {} /\ Settled' = {}
  BY <1>1, <1>2 DEF Settled
<1>4. Cardinality(Plugins) \in Nat /\ Cardinality(Settled) \in Nat
  BY <1>3, PluginCount
<1>5. TypeOK'
  BY <1>1, <1>4 DEF IInv, TypeOK
<1>6. Quiet'
  BY <1>3 DEF Quiet
<1>7. OnlyApplicable' /\ Phases'
  BY <1>2 DEF OnlyApplicable, Phases
<1>8. Cardinality(Settled') = 0
  BY <1>3, FS_EmptySet
<1>9. progress' = progress /\ progress.completed = 0
  BY DEF IInv, Phases
<1>10. Counted' /\ InOrder'
  BY <1>8, <1>9 DEF Counted, InOrder
<1> QED
  BY <1>5, <1>6, <1>7, <1>10 DEF IInv

\* Only a thread that is alive ends, so its plugin applies and has not settled.
LEMMA EndsStep ==
    ASSUME IInv, NEW p \in Plugins, PluginEnds(p)
    PROVE  IInv'
<1> USE DEF PluginEnds
<1>1. p \in applicable \ Settled /\ Settled' = Settled
  BY DEF IInv, Quiet, Settled
<1>2. TypeOK'
  BY DEF IInv, TypeOK, Events
<1>3. Quiet'
  BY <1>1 DEF IInv, Quiet, TypeOK
<1>4. OnlyApplicable' /\ Phases'
  BY <1>1 DEF IInv, OnlyApplicable, Phases, TypeOK
<1>5. Counted' /\ InOrder'
  BY <1>1 DEF IInv, Counted, InOrder
<1> QED
  BY <1>2, <1>3, <1>4, <1>5 DEF IInv

\* Settling plugins gives the open ones their result, switches them off and reports each
\* of them once.
LEMMA SettleStep ==
    ASSUME IInv, NEW ps \in SUBSET applicable, NEW res \in Results, Settle(ps, res),
           UNCHANGED <<phase, applicable, progress, late>>, aborted' \in BOOLEAN,
           event' \in [Plugins -> Events],
           \A p \in Plugins \ applicable : event'[p] = "none"
    PROVE  IInv'
<1> DEFINE open == ps \ Settled
<1>1. /\ result' = [p \in Plugins |-> IF p \in open THEN res ELSE result[p]]
      /\ timer' = [p \in Plugins |-> timer[p] /\ p \notin open]
      /\ listening' = [p \in Plugins |-> listening[p] /\ p \notin open]
      /\ thread' = [p \in Plugins |-> IF p \in open /\ thread[p] = "alive"
                                      THEN "terminated" ELSE thread[p]]
      /\ inflight' = inflight \cup {Cardinality(Settled) + k : k \in 1..Cardinality(open)}
  BY DEF Settle, Disarm, ReportFinish
<1>2. applicable \subseteq Plugins /\ open \subseteq Plugins /\ Settled \subseteq Plugins
  BY DEF IInv, TypeOK, Settled
<1>4. res # "none"
  BY DEF Results
<1>5. Settled' = Settled \cup open
  BY <1>1, <1>2, <1>4 DEF Settled
<1>6. Cardinality(Settled') = Cardinality(Settled) + Cardinality(open)
  <2>1. IsFiniteSet(Settled) /\ IsFiniteSet(open)
    BY <1>2, PluginCount
  <2>2. Settled \cap open = {}
    OBVIOUS
  <2>3. Cardinality(Settled \cup open)
          = Cardinality(Settled) + Cardinality(open) - Cardinality({})
    BY <2>1, <2>2, FS_Union
  <2>4. Cardinality(Settled) \in Nat /\ Cardinality(open) \in Nat
    BY <2>1, FS_CardinalityType
  <2> QED
    BY <1>5, <2>3, <2>4, FS_EmptySet
<1>7. /\ Cardinality(Settled) \in Nat /\ Cardinality(open) \in Nat
      /\ Cardinality(Plugins) \in Nat
      /\ Cardinality(Settled) + Cardinality(open) <= Cardinality(Plugins)
  <2>1. Settled' \subseteq Plugins
    BY <1>2, <1>5
  <2>2. Cardinality(Settled') <= Cardinality(Plugins) /\ Cardinality(Plugins) \in Nat
    BY <2>1, PluginCount
  <2>3. Cardinality(Settled) \in Nat /\ Cardinality(open) \in Nat
    BY <1>2, PluginCount
  <2> QED
    BY <1>6, <2>2, <2>3
<1>8. Counted'
  <2>1. inflight \in SUBSET (0..Cardinality(Settled))
    BY DEF IInv, Counted
  <2>2. inflight' \subseteq 0..Cardinality(Settled')
    BY <1>1, <1>6, <1>7, <2>1, Numbered
  <2>3. progress'.completed <= Cardinality(Settled')
    <3>1. progress.completed \in 0..Cardinality(Plugins) /\ progress.completed <= Cardinality(Settled)
      BY DEF IInv, TypeOK, Counted
    <3> QED
      BY <1>6, <1>7, <3>1
  <2> QED
    BY <2>2, <2>3 DEF Counted
<1>9. TypeOK'
  <2>1. inflight' \subseteq 0..Cardinality(Plugins)
    <3>1. inflight' \subseteq 0..(Cardinality(Settled) + Cardinality(open))
      BY <1>6, <1>8 DEF Counted
    <3>2. Cardinality(Settled) + Cardinality(open) \in Nat
      BY <1>7
    <3>3. 0..(Cardinality(Settled) + Cardinality(open)) \subseteq 0..Cardinality(Plugins)
      BY <1>7, <3>2, Interval
    <3> QED
      BY <3>1, <3>3
  <2>2. /\ result' \in [Plugins -> Results \cup {"none"}]
        /\ timer' \in [Plugins -> BOOLEAN] /\ listening' \in [Plugins -> BOOLEAN]
        /\ thread' \in [Plugins -> {"none", "alive", "ended", "terminated"}]
    BY <1>1 DEF IInv, TypeOK
  <2> QED
    BY <2>1, <2>2 DEF IInv, TypeOK
<1>10. Quiet'
  BY <1>1, <1>2, <1>5 DEF IInv, Quiet
<1>11. OnlyApplicable'
  BY <1>1, <1>2 DEF IInv, OnlyApplicable
<1>12. Phases'
  <2>1. phase = "before" => open = {} /\ Cardinality(open) = 0
    BY FS_EmptySet DEF IInv, Phases
  <2> QED
    BY <1>1, <1>5, <2>1 DEF IInv, Phases
<1>13. InOrder'
  <2> SUFFICES ASSUME phase # "before", ~late PROVE InOrder'
    BY DEF InOrder
  <2> DEFINE c == Cardinality(Settled)
             o == Cardinality(open)
             d == progress.completed
  <2>1. d \in 0..Cardinality(Plugins) /\ d <= c
    BY DEF IInv, TypeOK, Counted
  <2>2. \/ d = 0 /\ inflight = 0..c
        \/ progress.total = Cardinality(applicable) /\ inflight = d + 1 .. c
    BY DEF IInv, InOrder
  <2>3. c \in Nat /\ o \in Nat /\ d \in Nat
    BY <1>7, <2>1
  <2>4. inflight' = inflight \cup {c + k : k \in 1..o} /\ Cardinality(Settled') = c + o
    BY <1>1, <1>6
  <2> HIDE DEF c, o, d
  <2>5. (0..c) \cup {c + k : k \in 1..o} = 0..(c + o)
    <3>1. 0 <= c + 1
      BY <2>3
    <3>2. \A a \in Nat : a <= c + 1 => (a .. c) \cup {c + k : k \in 1..o} = a .. (c + o)
      BY <2>3, Following
    <3> QED
      BY <3>1, <3>2
  <2>6. (d + 1 .. c) \cup {c + k : k \in 1..o} = d + 1 .. (c + o)
    BY <2>1, <2>3, Following
  <2> QED
    BY <2>2, <2>4, <2>5, <2>6 DEF InOrder, d
<1> QED
  BY <1>8, <1>9, <1>10, <1>11, <1>12, <1>13 DEF IInv

\* Message, error, timeout and abort settle plugins that apply.
LEMMA EventStep ==
    ASSUME IInv, NEW p \in Plugins, DeliverEvent(p) \/ Timeout(p) \/ Abort
    PROVE  IInv'
<1>1. CASE DeliverEvent(p)
  <2>1. p \in applicable /\ event[p] \in Results
    BY <1>1 DEF DeliverEvent, IInv, OnlyApplicable, Results
  <2>2. /\ event' \in [Plugins -> Events]
        /\ \A q \in Plugins \ applicable : event'[q] = "none"
    BY <1>1 DEF DeliverEvent, IInv, OnlyApplicable, TypeOK, Events
  <2>3. aborted' \in BOOLEAN
    BY <1>1 DEF DeliverEvent, IInv, TypeOK
  <2>4. {p} \in SUBSET applicable
    BY <2>1
  <2>5. Settle({p}, event[p]) /\ UNCHANGED <<phase, applicable, progress, late>>
    BY <1>1 DEF DeliverEvent
  <2> QED
    BY <2>1, <2>2, <2>3, <2>4, <2>5, SettleStep
<1>2. CASE Timeout(p)
  <2>1. {p} \in SUBSET applicable
    BY <1>2 DEF Timeout, IInv, Quiet
  <2>2. "timeout" \in Results
    BY DEF Results
  <2>3. /\ event' \in [Plugins -> Events] /\ aborted' \in BOOLEAN
        /\ \A q \in Plugins \ applicable : event'[q] = "none"
    BY <1>2 DEF Timeout, IInv, OnlyApplicable, TypeOK
  <2>4. Settle({p}, "timeout") /\ UNCHANGED <<phase, applicable, progress, late>>
    BY <1>2 DEF Timeout
  <2> QED
    BY <2>1, <2>2, <2>3, <2>4, SettleStep
<1>3. CASE Abort
  <2>1. {q \in Plugins : listening[q]} \in SUBSET applicable
    BY DEF IInv, Quiet
  <2>2. "aborted" \in Results
    BY DEF Results
  <2>3. /\ event' \in [Plugins -> Events] /\ aborted' \in BOOLEAN
        /\ \A q \in Plugins \ applicable : event'[q] = "none"
    BY <1>3 DEF Abort, IInv, OnlyApplicable, TypeOK
  <2>4. /\ Settle({q \in Plugins : listening[q]}, "aborted")
        /\ UNCHANGED <<phase, applicable, progress, late>>
    BY <1>3 DEF Abort
  <2> QED
    BY <2>1, <2>2, <2>3, <2>4, SettleStep
<1> QED
  BY <1>1, <1>2, <1>3

\* runScan returns when all plugins it started have settled.
LEMMA ReturnStep == ASSUME IInv, RunScanReturns PROVE IInv'
<1>1. Settled' = Settled
  BY DEF RunScanReturns, Settled
<1> QED
  BY <1>1 DEF IInv, RunScanReturns, TypeOK, Quiet, OnlyApplicable, Phases, Counted, InOrder

\* A progress write that lands counts plugins that have settled.
LEMMA ProgressStep ==
    ASSUME IInv, NEW n \in inflight, ProgressLands(n)
    PROVE  IInv'
<1> USE DEF ProgressLands
<1>1. Settled' = Settled
  BY DEF Settled
<1>2. n \in 0..Cardinality(Settled) /\ n \in 0..Cardinality(Plugins)
  BY DEF IInv, Counted, TypeOK
<1>3. /\ Cardinality(applicable) \in 0..Cardinality(Plugins)
      /\ Cardinality(Settled) \in Nat /\ Cardinality(Plugins) \in Nat
  <2>1. Settled \subseteq Plugins /\ applicable \subseteq Plugins
    BY DEF IInv, TypeOK, Settled
  <2> QED
    BY <2>1, PluginCount
<1>4. TypeOK'
  <2>1. progress' \in [total : 0..Cardinality(Plugins), completed : 0..Cardinality(Plugins)]
    BY <1>2, <1>3 DEF IInv, TypeOK
  <2> QED
    BY <2>1 DEF IInv, TypeOK
<1>5. Quiet' /\ OnlyApplicable' /\ Phases'
  BY <1>1 DEF IInv, Quiet, OnlyApplicable, Phases
<1>6. Counted'
  BY <1>1, <1>2, <1>3 DEF IInv, Counted, TypeOK
<1>7. InOrder'
  <2> SUFFICES ASSUME phase # "before", ~late, ~late' PROVE InOrder'
    BY DEF InOrder
  <2> DEFINE c == Cardinality(Settled)
             d == progress.completed
  <2>1. /\ \/ d = 0 /\ inflight = 0..c
           \/ progress.total = Cardinality(applicable) /\ inflight = d + 1 .. c
        /\ d \in Nat /\ c \in Nat /\ n \in Nat
    BY <1>2, <1>3 DEF IInv, InOrder, TypeOK
  <2>2. /\ \A m \in inflight : ~(m < n)
        /\ progress' = IF n = 0 THEN [total |-> Cardinality(applicable), completed |-> 0]
                       ELSE [progress EXCEPT !.completed = n]
        /\ inflight' = inflight \ {n} /\ Cardinality(Settled') = c
    BY <1>1
  <2>3. CASE n = 0
    <3>1. inflight = 0..c /\ inflight' = 1 .. c
      BY <2>1, <2>2, <2>3
    <3> QED
      BY <2>2, <2>3, <3>1 DEF InOrder
  <2>4. CASE n # 0
    <3>1. progress.total = Cardinality(applicable) /\ inflight = d + 1 .. c
      <4>1. 0 \notin inflight
        BY <2>1, <2>2, <2>4
      <4> QED
        BY <2>1, <4>1
    <3>2. n = d + 1
      <4>1. n \in d + 1 .. c /\ d + 1 \in inflight
        BY <2>1, <3>1
      <4>2. ~(d + 1 < n)
        BY <2>2, <4>1
      <4> QED
        BY <2>1, <4>1, <4>2
    <3>3. inflight' = n + 1 .. c
      BY <2>1, <2>2, <3>1, <3>2
    <3>4. progress'.total = Cardinality(applicable) /\ progress'.completed = n
      BY <2>2, <2>4, <3>1 DEF IInv, TypeOK
    <3> QED
      BY <2>2, <3>3, <3>4 DEF InOrder
  <2> QED
    BY <2>3, <2>4
<1> QED
  BY <1>4, <1>5, <1>6, <1>7 DEF IInv

\* Every step preserves the invariant.
LEMMA PluginsStep == ASSUME IInv, [Next]_vars PROVE IInv'
<1>1. CASE StartPlugins \/ RunScanReturns
  BY <1>1, StartStep, ReturnStep
<1>2. CASE \E p \in Plugins : PluginEnds(p)
  BY <1>2, EndsStep
<1>3. CASE \E p \in Plugins : DeliverEvent(p) \/ Timeout(p)
  BY <1>3, EventStep
<1>4. CASE Abort
  <2>1. CASE Plugins # {}
    BY <1>4, <2>1, EventStep
  <2>2. CASE Plugins = {}
    <3>1. /\ {p \in Plugins : listening[p]} \in SUBSET applicable
          /\ \A p \in Plugins \ applicable : event'[p] = "none"
      BY <2>2
    <3>2. "aborted" \in Results /\ aborted' \in BOOLEAN /\ event' \in [Plugins -> Events]
      BY <1>4 DEF Abort, Results, IInv, TypeOK
    <3> QED
      BY <1>4, <3>1, <3>2, SettleStep DEF Abort
  <2> QED
    BY <2>1, <2>2
<1>5. CASE \E n \in inflight : ProgressLands(n)
  BY <1>5, ProgressStep
<1>6. CASE UNCHANGED vars
  <2>1. Settled' = Settled
    BY <1>6 DEF vars, Settled
  <2> QED
    BY <1>6, <2>1 DEF vars, IInv, TypeOK, Quiet, OnlyApplicable, Phases, Counted, InOrder
<1> QED
  BY <1>1, <1>2, <1>3, <1>4, <1>5, <1>6 DEF Next

\* The strengthened invariant of the plugin runtime holds in every reachable state.
THEOREM PluginsInductive == Spec => []IInv
<1>1. IInv /\ [Next]_vars => IInv'
  BY PluginsStep
<1> QED
  BY <1>1, PluginsInit, PTL DEF Spec

\* When runScan returns, no thread, timer or listener of its plugins is left.
THEOREM NothingLeaks == Spec => []NothingLeftRunning
<1>1. IInv => NothingLeftRunning
  BY DEF IInv, Quiet, Phases, NothingLeftRunning
<1> QED
  BY <1>1, PluginsInductive, PTL

\* The progress shown never runs ahead of the plugins, in whatever order writes land, and shows
\* all that settled when none was lost or overtaken.
THEOREM ProgressIsHonest == Spec => []ProgressAddsUp
<1>1. IInv => ProgressAddsUp
  <2> SUFFICES ASSUME IInv, phase # "before", inflight = {}, ~late
               PROVE  progress = [total |-> Cardinality(applicable), completed |-> Cardinality(Settled)]
    BY DEF ProgressAddsUp, IInv, Counted
  <2> DEFINE c == Cardinality(Settled)
             d == progress.completed
  <2>1. Settled \subseteq Plugins /\ Cardinality(Plugins) \in Nat
    BY PluginCount DEF Settled, IInv, TypeOK
  <2>2. c \in Nat /\ d \in Nat /\ d <= c
    BY <2>1, PluginCount DEF IInv, TypeOK, Counted
  <2>3. progress = [total |-> progress.total, completed |-> d]
    BY DEF IInv, TypeOK
  <2>4. /\ progress.total = Cardinality(applicable) /\ d + 1 .. c = {}
    <3>1. 0 \in 0..c
      BY <2>2
    <3> QED
      BY <3>1 DEF IInv, InOrder
  <2>5. d = c
    <3>1. d + 1 \notin d + 1 .. c
      BY <2>4
    <3> QED
      BY <2>2, <3>1
  <2> QED
    BY <2>3, <2>4, <2>5
<1> QED
  BY <1>1, PluginsInductive, PTL

(***************************************************************************)
(* CoverageGate: any files, of any number of lines                         *)
(***************************************************************************)

\* A set of natural numbers that is not empty has a least element.
LEMMA LeastNat == ASSUME NEW T, T \subseteq Nat, T # {}
                  PROVE  \E x \in T : \A y \in T : x <= y
<1>1. PICK x \in T : \A y \in T : ~ (<<y, x>> \in OpToRel(<, Nat))
  BY NatLessThanWellFounded, WFMin
<1>2. ASSUME NEW y \in T PROVE x <= y
  <2>1. y < x => <<y, x>> \in OpToRel(<, Nat)
    BY DEF OpToRel
  <2>2. x \in Nat /\ y \in Nat
    OBVIOUS
  <2>3. ~ (y < x)
    BY <1>1, <2>1
  <2> QED
    BY <2>2, <2>3
<1> QED
  BY <1>2

\* One that is bounded has a greatest.
LEMMA GreatestNat == ASSUME NEW T, T \subseteq Nat, T # {}, NEW n \in Nat, \A x \in T : x <= n
                     PROVE  \E x \in T : \A y \in T : y <= x
<1> DEFINE D == {d \in 0 .. n : n - d \in T}
<1>1. D \subseteq Nat /\ D # {}
  <2>1. PICK x \in T : TRUE
    OBVIOUS
  <2>2. n - x \in 0 .. n /\ n - (n - x) = x
    BY <2>1
  <2> QED
    BY <2>1, <2>2
<1>2. PICK d \in D : \A e \in D : d <= e
  BY <1>1, LeastNat
<1>3. ASSUME NEW y \in T PROVE y <= n - d
  <2>1. n - y \in D
    BY <1>3
  <2> QED
    BY <2>1, <1>2
<1> QED
  BY <1>2, <1>3

-----------------------------------------------------------------------------
(* parseUnifiedDiffHunks                                                      *)

\* The new lines from the first of a hunk on, as far as they are adjacent, are an interval.
LEMMA HunkIsInterval ==
  ASSUME NEW f \in Paths, content[f] \in Seq(Line), NEW c \in FirstOfHunk(f)
  PROVE  \E e \in Nat : c <= e /\ InHunk(f, c) = c .. e
<1>1. DOMAIN content[f] = 1 .. Len(content[f]) /\ Len(content[f]) \in Nat
  OBVIOUS
<1>2. c \in 1 .. Len(content[f]) /\ content[f][c].new
  BY <1>1 DEF FirstOfHunk
<1>3. InHunk(f, c) \subseteq Nat /\ (\A l \in InHunk(f, c) : l <= Len(content[f]))
  BY <1>1 DEF InHunk
<1>4. c \in InHunk(f, c)
  BY <1>1, <1>2 DEF InHunk
<1>5. PICK e \in InHunk(f, c) : \A l \in InHunk(f, c) : l <= e
  BY <1>1, <1>3, <1>4, GreatestNat
<1>6. InHunk(f, c) = c .. e
  BY <1>1, <1>2, <1>5 DEF InHunk
<1> QED
  BY <1>3, <1>4, <1>5, <1>6

\* Every new line is in the hunk of some first line.
LEMMA EveryNewLineInAHunk ==
  ASSUME NEW f \in Paths, content[f] \in Seq(Line), NEW l \in NewLines(f)
  PROVE  \E c \in FirstOfHunk(f) : l \in InHunk(f, c)
<1> DEFINE T == {c \in 1 .. l : \A k \in c .. l : content[f][k].new}
<1>1. DOMAIN content[f] = 1 .. Len(content[f]) /\ Len(content[f]) \in Nat
  OBVIOUS
<1>2. l \in 1 .. Len(content[f]) /\ content[f][l].new
  BY <1>1 DEF NewLines
<1>3. T \subseteq Nat /\ T # {}
  <2>1. l \in Nat /\ l \in 1 .. l
    BY <1>1, <1>2
  <2>2. T \subseteq Nat
    BY <2>1
  <2>3. l \in T
    BY <1>2, <2>1
  <2> QED
    BY <2>2, <2>3
<1>4. PICK c \in T : \A d \in T : c <= d
  BY <1>3, LeastNat
<1>5. c > 1 => ~content[f][c - 1].new
  <2>1. SUFFICES ASSUME c > 1, content[f][c - 1].new PROVE FALSE
    OBVIOUS
  <2>2. \A k \in (c - 1) .. l : k = c - 1 \/ k \in c .. l
    BY <1>2, <1>4
  <2>3. c - 1 \in T
    BY <1>2, <1>4, <2>1, <2>2
  <2> QED
    BY <1>4, <2>3
<1>6. c \in FirstOfHunk(f)
  BY <1>1, <1>2, <1>4, <1>5 DEF FirstOfHunk
<1>7. l \in InHunk(f, c)
  BY <1>1, <1>2, <1>4 DEF InHunk
<1> QED
  BY <1>6, <1>7

\* A header names its lines exactly: with a count, without one, and with a count of zero.
LEMMA HeaderIsExact ==
  ASSUME NEW f \in Paths, content[f] \in Seq(Line), NEW c \in FirstOfHunk(f)
  PROVE  HunkLines(IF Cardinality(InHunk(f, c)) = 1 THEN <<c>>
                   ELSE <<c, Cardinality(InHunk(f, c))>>) = InHunk(f, c)
<1>1. PICK e \in Nat : c <= e /\ InHunk(f, c) = c .. e
  BY HunkIsInterval
<1>2. c \in Nat
  BY DEF FirstOfHunk
<1>3. Cardinality(InHunk(f, c)) = e - c + 1
  BY <1>1, <1>2, FS_Interval
<1>4. CASE e = c
  BY <1>1, <1>2, <1>3, <1>4 DEF HunkLines
<1>5. CASE e # c
  <2>1. HunkLines(<<c, e - c + 1>>) = c .. c + (e - c + 1) - 1
    BY <1>1, <1>2, <1>5 DEF HunkLines
  <2> QED
    BY <1>1, <1>2, <1>3, <1>5, <2>1
<1> QED
  BY <1>4, <1>5

\* What is read off the hunks of a file git tracks are its new lines; it prints none of another.
LEMMA HunksOfAFile ==
  ASSUME NEW f \in Paths, content[f] \in Seq(Line)
  PROVE  UNION {HunkLines(h) : h \in Hunks(f)} = IF f \in tracked THEN NewLines(f) ELSE {}
<1> DEFINE Header(c) == IF Cardinality(InHunk(f, c)) = 1 THEN <<c>>
                        ELSE <<c, Cardinality(InHunk(f, c))>>
<1>0. CASE f \notin tracked
  BY <1>0 DEF Hunks
<1>1. HunkLines(<<Len(content[f]), 0>>) = {}
  BY DEF HunkLines
<1>2. \A c \in FirstOfHunk(f) : HunkLines(Header(c)) = InHunk(f, c)
  BY HeaderIsExact
<1> HIDE DEF Header
<1>3. \A h \in Hunks(f) : \/ h = <<Len(content[f]), 0>>
                          \/ \E c \in FirstOfHunk(f) : h = Header(c)
  BY DEF Hunks, Header
<1>4. f \in tracked => \A c \in FirstOfHunk(f) : Header(c) \in Hunks(f)
  BY DEF Hunks, Header
<1>5. \A c \in FirstOfHunk(f) : InHunk(f, c) \subseteq NewLines(f)
  BY DEF FirstOfHunk, InHunk, NewLines
<1>6. ASSUME NEW h \in Hunks(f), NEW l \in HunkLines(h) PROVE l \in NewLines(f)
  BY <1>1, <1>2, <1>3, <1>5, <1>6
<1>7. ASSUME f \in tracked, NEW l \in NewLines(f) PROVE \E h \in Hunks(f) : l \in HunkLines(h)
  BY <1>2, <1>4, <1>7, EveryNewLineInAHunk
<1>8. CASE f \in tracked
  BY <1>6, <1>7, <1>8
<1> QED
  BY <1>0, <1>8

\* The path git prints comes back as the path from repoRoot, wherever that lies.
LEMMA PathFromRepoRoot ==
  ASSUME NEW f \in Paths, prefix \in Seq(STRING)
  PROVE  stripGitPrefix(gitPath(f)) = f
<1>1. f \in Seq(STRING)
  BY GatePathsAssumption DEF PathsAssumption
<1>2. CASE prefix = <<>>
  BY <1>1, <1>2 DEF stripGitPrefix, gitPath
<1>3. CASE Len(prefix) > 0
  <2> DEFINE path == prefix \o f
  <2>1. /\ path \in Seq(STRING) /\ Len(path) = Len(prefix) + Len(f)
        /\ Len(prefix) \in Nat /\ Len(f) \in Nat
    BY <1>1
  <2>2. SubSeq(path, 1, Len(prefix)) = prefix
    <3>1. \A i \in 1 .. Len(prefix) : path[i] = prefix[i]
      BY <1>1
    <3>2. SubSeq(path, 1, Len(prefix)) = [i \in 1 .. Len(prefix) |-> path[i]]
      BY <2>1
    <3>3. prefix = [i \in 1 .. Len(prefix) |-> prefix[i]]
      OBVIOUS
    <3> QED
      BY <3>1, <3>2, <3>3
  <2>3. SubSeq(path, Len(prefix) + 1, Len(path)) = f
    <3>1. \A i \in 1 .. Len(f) : path[Len(prefix) + i] = f[i]
      BY <1>1
    <3>2. SubSeq(path, Len(prefix) + 1, Len(path)) = [i \in 1 .. Len(f) |-> path[Len(prefix) + i]]
      BY <2>1
    <3>3. f = [i \in 1 .. Len(f) |-> f[i]]
      BY <1>1
    <3> QED
      BY <3>1, <3>2, <3>3
  <2> QED
    BY <1>3, <2>1, <2>2, <2>3 DEF stripGitPrefix, gitPath
<1> QED
  BY <1>2, <1>3

\* What is read off the diff: of the files git tracks that have any, the new lines, under the
\* paths from repoRoot (computeChangedLinesFromWorkingTree).
THEOREM DiffLosesNothing ==
  ASSUME prefix \in Seq(STRING), tracked \subseteq Paths, content \in [Paths -> Seq(Line)]
  PROVE  parseUnifiedDiffHunks = [f \in {g \in tracked : NewLines(g) # {}} |-> NewLines(f)]
<1> DEFINE lines(f) == UNION {HunkLines(h) : h \in Hunks(f)}
           named(path) == {f \in Paths : lines(f) # {} /\ stripGitPrefix(gitPath(f)) = path}
           seen == {g \in tracked : NewLines(g) # {}}
<1>1. \A f \in Paths : lines(f) = IF f \in tracked THEN NewLines(f) ELSE {}
  BY HunksOfAFile
<1>2. \A f \in Paths : stripGitPrefix(gitPath(f)) = f
  BY PathFromRepoRoot
<1>3. parseUnifiedDiffHunks =
        [path \in {stripGitPrefix(gitPath(f)) : f \in {g \in Paths : lines(g) # {}}} |->
           UNION {lines(f) : f \in named(path)}]
  BY DEF parseUnifiedDiffHunks
<1> HIDE DEF lines
<1>4. {stripGitPrefix(gitPath(f)) : f \in {g \in Paths : lines(g) # {}}} = seen
  BY <1>1, <1>2
<1>5. ASSUME NEW f \in seen PROVE UNION {lines(g) : g \in named(f)} = NewLines(f)
  <2>1. named(f) = {f}
    BY <1>1, <1>2
  <2> HIDE DEF named
  <2> QED
    BY <1>1, <2>1
<1> HIDE DEF named
<1> QED
  BY <1>3, <1>4, <1>5

-----------------------------------------------------------------------------
(* runCoverageGate                                                            *)

\* An untouched working tree before the diff satisfies the invariant.
LEMMA GateInvInit == GateInit => GateInv
<1> SUFFICES ASSUME GateInit PROVE GateInv
  OBVIOUS
<1>1. Contents \subseteq Seq(Line)
  BY DEF Contents
<1>2. prefix \in Seq(STRING)
  BY GatePathsAssumption DEF GateInit, PathsAssumption
<1>3. content \in [Paths -> Seq(Line)]
  BY <1>1 DEF GateInit
<1>4. GateTypeOK
  BY <1>2, <1>3 DEF GateInit, GateTypeOK
<1>5. DiffIsExact /\ GateIsHonest
  BY DEF GateInit, DiffIsExact, GateIsHonest
<1> QED
  BY <1>4, <1>5 DEF GateInv

\* The diff is exact when it is read.
LEMMA DiffStep == ASSUME GateInv, NEW ok \in BOOLEAN, Diff(ok) PROVE GateInv'
<1> USE DEF GateInv, Diff, workingTree
<1>1. GateTypeOK'
  BY DEF GateTypeOK
<1>2. DiffIsExact'
  <2> SUFFICES ASSUME ok
               PROVE  changed' = [f \in {g \in tracked' : NewLines(g)' # {}} |-> NewLines(f)']
    BY DEF DiffIsExact
  <2>1. changed' = [f \in {g \in tracked : NewLines(g) # {}} |-> NewLines(f)]
    BY DiffLosesNothing DEF GateTypeOK
  <2> QED
    BY <2>1 DEF NewLines
<1>3. GateIsHonest'
  BY DEF GateIsHonest
<1> QED
  BY <1>1, <1>2, <1>3

\* Neither a cancel nor the suite touches the files.
LEMMA JestStep ==
  ASSUME GateInv,
         \/ Cancel \/ Aborted
         \/ \E found \in BOOLEAN, executed \in Executions,
               outcome \in {"passed", "failed", "unloaded"} : Jest(found, executed, outcome)
  PROVE  GateInv'
<1> USE DEF GateInv, Cancel, Aborted, Jest, workingTree
<1>1. GateTypeOK'
  BY DEF GateTypeOK
<1>2. DiffIsExact'
  <2>1. \A f : NewLines(f)' = NewLines(f)
    BY DEF NewLines
  <2>2. changed' = changed /\ tracked' = tracked /\ moved' = moved
    OBVIOUS
  <2>3. step' \in {"jest", "cross"} => step \in {"jest", "cross"}
    OBVIOUS
  <2> QED
    BY <2>1, <2>2, <2>3 DEF DiffIsExact
<1>3. GateIsHonest'
  BY DEF GateIsHonest, NewLines, CodeLines, isEligibleSourceFile
<1> QED
  BY <1>1, <1>2, <1>3

\* After an edit nothing is promised.
LEMMA EditStep == ASSUME GateInv, NEW f \in Paths, Edit(f) PROVE GateInv'
<1> USE DEF GateInv, Edit
<1>1. <<[new |-> TRUE, code |-> TRUE]>> \o content[f] \in Seq(Line)
  <2>1. <<[new |-> TRUE, code |-> TRUE]>> \in Seq(Line) /\ content[f] \in Seq(Line)
    BY DEF GateTypeOK, Line
  <2> QED
    BY <2>1
<1>2. GateTypeOK'
  BY <1>1 DEF GateTypeOK
<1>3. DiffIsExact' /\ GateIsHonest'
  BY DEF DiffIsExact, GateIsHonest
<1> QED
  BY <1>2, <1>3

\* The cross reference is of the new lines with those executed.
LEMMA CrossReferenceStep == ASSUME GateInv, CrossReference PROVE GateInv'
<1> USE DEF GateInv, CrossReference, workingTree
<1>1. GateTypeOK' /\ DiffIsExact'
  BY DEF GateTypeOK, DiffIsExact, NewLines
<1>2. GateIsHonest'
  <2> DEFINE Executed(f) == IF hits[f] = NoEntry THEN NewLines(f) = {}
                            ELSE NewLines(f) \intersect CodeLines(f) \subseteq hits[f]
  <2> SUFFICES ASSUME ~moved
               PROVE  step' = "passed" <=>
                        suite # "failed" /\ \A f \in tracked : isEligibleSourceFile(f) => Executed(f)
    BY DEF GateIsHonest, NewLines, CodeLines, isEligibleSourceFile
  <2>1. changed = [f \in {g \in tracked : NewLines(g) # {}} |-> NewLines(f)] /\ tracked \subseteq Paths
    BY DEF DiffIsExact, GateTypeOK
  <2>2. ASSUME NEW f \in tracked, NewLines(f) # {}
        PROVE  f \in DOMAIN changed /\ (Uncovered(f) = {} <=> Executed(f))
    BY <2>1, <2>2 DEF Uncovered
  <2>3. ASSUME NEW f \in tracked, NewLines(f) = {} PROVE Executed(f)
    BY <2>3
  <2>4. DOMAIN changed = {g \in tracked : NewLines(g) # {}}
    BY <2>1
  <2>5. step' = "passed" <=>
          (\A f \in DOMAIN changed : isEligibleSourceFile(f) => Uncovered(f) = {}) /\ suite # "failed"
    OBVIOUS
  <2> HIDE DEF Executed
  <2> QED
    BY <2>2, <2>3, <2>4, <2>5
<1> QED
  BY <1>1, <1>2

\* The strengthened invariant of the gate is inductive.
THEOREM GateInductive == GateSpec => []GateInv
<1>1. GateInit => GateInv
  BY GateInvInit
<1>2. GateInv /\ [GateNext]_gateVars => GateInv'
  <2> SUFFICES ASSUME GateInv, [GateNext]_gateVars PROVE GateInv'
    OBVIOUS
  <2>1. CASE UNCHANGED gateVars
    BY <2>1 DEF GateInv, GateTypeOK, DiffIsExact, GateIsHonest, NewLines, CodeLines,
       isEligibleSourceFile, gateVars, workingTree
  <2>2. CASE GateNext
    BY <2>2, DiffStep, JestStep, EditStep, CrossReferenceStep DEF GateNext
  <2> QED
    BY <2>1, <2>2
<1> QED
  BY <1>1, <1>2, PTL DEF GateSpec

\* A verdict on files that nobody edited under it is right in both directions
\* (runCoverageGate), for files of any length and any number of hunks, at any depth of git's
\* working tree: it counts the new statements of the source files git tracks, all of them and
\* no others.
THEOREM VerdictsAreHonest == GateSpec => []GateIsHonest
<1>1. GateInv => GateIsHonest
  BY DEF GateInv
<1> QED
  BY <1>1, GateInductive, PTL

(***************************************************************************)
(* StagingSuite: any batches of different tests                            *)
(***************************************************************************)

\* The sequences a plan is made of.
LEMMA PlanTests ==
    ASSUME Staging!PlanOK, NEW n \in DOMAIN plan
    PROVE  /\ plan[n] \in Seq(Staging!AllTests) /\ Len(plan[n]) \in Nat
           /\ DOMAIN plan[n] = 1 .. Len(plan[n])
           /\ \A i \in DOMAIN plan[n] : plan[n][i] \in Staging!ToSet(plan[n])
           /\ Staging!ToSet(plan[n]) \subseteq Staging!AllTests
<1>1. plan[n] \in Seq(Staging!AllTests)
  BY DEF Staging!PlanOK
<1>2. \A i \in DOMAIN plan[n] : plan[n][i] \in Staging!AllTests
  BY <1>1
<1> QED
  BY <1>1, <1>2 DEF Staging!ToSet

\* Before the suite is cloned: the plan of every mode is one of batches that are apart.
LEMMA StagingInit == Staging!Init => Staging!IInv
<1> SUFFICES ASSUME Staging!Init PROVE Staging!IInv
  OBVIOUS
<1>0. mode \in {"full", "skip1", "only", "rerun"} /\ plan = Staging!PlanOf(mode)
  BY DEF Staging!Init
<1>1. Staging!PlanOK
  <2> DEFINE S == Staging!AllTests
  <2>1. /\ SubBatches \in Seq(Seq(S)) /\ PanelAdmin \in Seq(S) /\ SubBatches # <<>>
        /\ \A n, m \in DOMAIN SubBatches : n # m =>
             Staging!ToSet(SubBatches[n]) \cap Staging!ToSet(SubBatches[m]) = {}
        /\ \A n \in DOMAIN SubBatches :
             Staging!ToSet(SubBatches[n]) \cap Staging!ToSet(PanelAdmin) = {}
    BY BatchesAssumption DEF Staging!SuiteAssumption
  <2> HIDE DEF S
  <2>2. CASE mode = "full"
    <3>1. plan = SubBatches \o <<PanelAdmin>>
      BY <1>0, <2>2 DEF Staging!PlanOf
    <3>2. /\ Len(SubBatches) \in Nat /\ plan \in Seq(Seq(S)) /\ Len(plan) = Len(SubBatches) + 1
          /\ DOMAIN plan = 1 .. Len(SubBatches) + 1 /\ DOMAIN SubBatches = 1 .. Len(SubBatches)
          /\ \A n \in 1 .. Len(SubBatches) : plan[n] = SubBatches[n]
          /\ plan[Len(SubBatches) + 1] = PanelAdmin
      BY <2>1, <3>1
    <3>3. ASSUME NEW n \in DOMAIN plan, NEW m \in DOMAIN plan, n < m
          PROVE  Staging!ToSet(plan[n]) \cap Staging!ToSet(plan[m]) = {}
      <4>1. n \in DOMAIN SubBatches /\ plan[n] = SubBatches[n]
        BY <3>2, <3>3
      <4>2. CASE m = Len(SubBatches) + 1
        BY <2>1, <3>2, <4>1, <4>2
      <4>3. CASE m # Len(SubBatches) + 1
        <5>1. m \in DOMAIN SubBatches /\ plan[m] = SubBatches[m]
          BY <3>2, <4>3
        <5>2. n # m
          BY <3>2, <3>3
        <5> QED
          BY <2>1, <4>1, <5>1, <5>2
      <4> QED
        BY <4>2, <4>3
    <3>4. \A n, m \in DOMAIN plan : n # m =>
             Staging!ToSet(plan[n]) \cap Staging!ToSet(plan[m]) = {}
      <4> SUFFICES ASSUME NEW n \in DOMAIN plan, NEW m \in DOMAIN plan, n # m
                   PROVE  Staging!ToSet(plan[n]) \cap Staging!ToSet(plan[m]) = {}
        OBVIOUS
      <4>1. n < m \/ m < n
        BY <3>2
      <4> QED
        BY <3>3, <4>1
    <3> QED
      BY <2>2, <3>2, <3>4 DEF Staging!PlanOK, S
  <2>3. CASE mode = "skip1"
    BY <1>0, <2>1, <2>3 DEF Staging!PlanOf, Staging!PlanOK, S
  <2>4. CASE mode = "only"
    <3>1. plan = <<SubBatches[1]>> /\ SubBatches[1] \in Seq(S)
      BY <1>0, <2>1, <2>4 DEF Staging!PlanOf
    <3>2. plan \in Seq(Seq(S)) /\ Len(plan) = 1 /\ DOMAIN plan = {1}
      BY <3>1
    <3>3. \A n, m \in DOMAIN plan : n = m
      BY <3>2
    <3>4. mode # "full" /\ Len(plan) <= 1
      BY <2>4, <3>2
    <3> QED
      BY <3>2, <3>3, <3>4 DEF Staging!PlanOK, S
  <2>5. CASE mode = "rerun"
    BY <1>0, <2>5 DEF Staging!PlanOf, Staging!PlanOK
  <2> QED
    BY <1>0, <2>2, <2>3, <2>4, <2>5
<1> USE DEF Staging!Init
<1>2. Staging!TypeOK
  <2>1. Len(plan) \in Nat
    BY <1>1 DEF Staging!PlanOK
  <2>2. 1 \in 1 .. Len(plan) + 1 /\ 0 \in 0 .. 100
    BY <2>1
  <2>3. "clone" \in Staging!ToSet(Staging!Steps)
    BY DEF Staging!ToSet, Staging!Steps
  <2> QED
    BY <2>2, <2>3 DEF Staging!TypeOK, Staging!When, Staging!Outcomes, Staging!NoLine
<1>3. Staging!InTurn
  <2>1. mode # "rerun" => Len(plan) >= 1
    BY BatchesAssumption DEF Staging!PlanOf, Staging!SuiteAssumption
  <2> QED
    BY <2>1 DEF Staging!InTurn
<1>5. Staging!BatchObserved /\ Staging!LogSoFar /\ Staging!RowsSoFar /\ Staging!RowsAreTrue
  BY DEF Staging!BatchObserved, Staging!LogSoFar, Staging!RowsSoFar,
         Staging!RowsAreTrue, Staging!When
<1>4. Staging!Collected
  <2>1. \A n \in DOMAIN plan : ~(n < 1)
    BY <1>1 DEF Staging!PlanOK
  <2> QED
    BY <2>1 DEF Staging!Collected
<1> QED
  BY <1>1, <1>2, <1>3, <1>4, <1>5 DEF Staging!IInv

\* The steps before the batches touch nothing but where runSuite is.
LEMMA SetupStepKeeps ==
    ASSUME Staging!IInv, NEW ok \in BOOLEAN, Staging!SetupStep(ok)
    PROVE  Staging!IInv'
<1> USE DEF Staging!SetupStep, Staging!pytest
<1>1. stage' \in Staging!ToSet(Staging!Steps) \union {"threw"}
  <2>1. \A i \in 1 .. 5 : Staging!Steps[1 + i] \in Staging!ToSet(Staging!Steps)
    BY DEF Staging!ToSet, Staging!Steps
  <2>2. \E i \in 1 .. 5 : Staging!Steps[i] = stage
    BY DEF Staging!Steps
  <2> QED
    BY <2>1, <2>2
<1>2. batch = 1 /\ proc = "none" /\ log = {} /\ results = {}
  <2>1. batch = 1 /\ proc = "none" /\ results = {}
    BY DEF Staging!IInv, Staging!InTurn
  <2>2. \A l \in log : FALSE
    BY <2>1 DEF Staging!IInv, Staging!LogSoFar, Staging!PlanOK
  <2> QED
    BY <2>1, <2>2
<1>3. stage' = "batch" => stage = "browser"
  BY DEF Staging!Steps
<1>4. stage = "clone" => stage' \in {"resolve", "threw"}
  BY DEF Staging!Steps
<1>5. Len(plan) \in Nat /\ (plan # <<>> => 1 <= Len(plan))
  BY DEF Staging!IInv, Staging!PlanOK
<1>6. Staging!InTurn'
  <2>1. stage' \notin {"returned", "untidy"}
    BY <1>1 DEF Staging!ToSet, Staging!Steps
  <2>2. plan = <<>> => mode = "rerun" /\ stage = "clone"
    BY DEF Staging!IInv, Staging!InTurn
  <2> QED
    BY <1>2, <1>3, <1>4, <1>5, <2>1, <2>2 DEF Staging!InTurn
<1>7. Staging!TypeOK'
  BY <1>1 DEF Staging!IInv, Staging!TypeOK
<1>8. Staging!PlanOK' /\ Staging!BatchObserved' /\ Staging!LogSoFar' /\ Staging!RowsSoFar'
      /\ Staging!RowsAreTrue'
  BY <1>2 DEF Staging!IInv, Staging!PlanOK, Staging!BatchObserved, Staging!LogSoFar,
     Staging!RowsSoFar, Staging!RowsAreTrue, Staging!Executed
<1>9. Staging!Collected'
  BY DEF Staging!IInv, Staging!Collected, Staging!LogVerdict, Staging!Logged
<1> QED
  BY <1>6, <1>7, <1>8, <1>9 DEF Staging!IInv

\* Nothing is logged or collected before the batches.
LEMMA BeforeBatches ==
    ASSUME Staging!IInv, stage \notin {"batch", "returned", "threw", "untidy"}
    PROVE  batch = 1 /\ proc = "none" /\ log = {} /\ results = {}
<1>1. batch = 1 /\ proc = "none" /\ results = {}
  BY DEF Staging!IInv, Staging!InTurn
<1>2. \A l \in log : FALSE
  BY <1>1 DEF Staging!IInv, Staging!LogSoFar, Staging!PlanOK
<1> QED
  BY <1>1, <1>2

\* What survives the resolution of a rerun's names is a sequence of tests.
LEMMA ResolvedTests ==
    ASSUME NEW definitions, NEW ids \in Staging!ResolveOnlyTestNames(definitions)
    PROVE  ids \in Seq(Staging!AllTests)
<1> DEFINE kept == {i \in DOMAIN Requested : definitions[Requested[i]] = 1}
           order == {s \in Staging!SeqOf(kept, Len(Requested)) :
                       /\ Staging!ToSet(s) = kept
                       /\ \A i, j \in DOMAIN s : i < j => s[i] < s[j]}
<1>1. Requested \in Seq(Staging!AllTests)
  BY BatchesAssumption DEF Staging!SuiteAssumption
<1>2. ids \in {[k \in DOMAIN s |-> Requested[s[k]]] : s \in order}
  BY Zenon DEF Staging!ResolveOnlyTestNames
<1>3. order \subseteq UNION {[1 .. n -> kept] : n \in 0 .. Len(Requested)}
  BY DEF Staging!SeqOf
<1> HIDE DEF order
<1>4. PICK s \in order : ids = [k \in DOMAIN s |-> Requested[s[k]]]
  BY <1>2
<1>5. PICK n \in 0 .. Len(Requested) : s \in [1 .. n -> kept]
  BY <1>3, <1>4
<1>6. n \in Nat /\ \A k \in 1 .. n : Requested[s[k]] \in Staging!AllTests
  BY <1>1, <1>5
<1> QED
  BY <1>4, <1>5, <1>6

\* A rerun gets its one batch.
LEMMA ResolveKeeps ==
    ASSUME Staging!IInv, Staging!Resolve
    PROVE  Staging!IInv'
<1> USE DEF Staging!Resolve, Staging!pytest
<1>1. batch = 1 /\ proc = "none" /\ log = {} /\ results = {}
  BY BeforeBatches
<1>2. \/ stage' = "pip" /\ plan' = plan /\ plan # <<>>
      \/ stage' = "threw" /\ plan' = plan
      \/ \E ids \in Seq(Staging!AllTests) : stage' = "pip" /\ plan' = <<ids>> /\ mode = "rerun"
  BY ResolvedTests DEF Staging!IInv, Staging!InTurn
<1>3. /\ Staging!PlanOK' /\ Len(plan') \in Nat
      /\ plan' = <<>> => stage' = "threw" /\ mode = "rerun"
  <2>1. CASE plan' = plan /\ (stage' = "threw" \/ plan # <<>>)
    BY <2>1, <1>2 DEF Staging!IInv, Staging!PlanOK, Staging!InTurn
  <2>2. ASSUME NEW ids \in Seq(Staging!AllTests), plan' = <<ids>>, mode = "rerun"
        PROVE  Staging!PlanOK' /\ Len(plan') \in Nat /\ plan' # <<>>
    <3>1. plan' \in Seq(Seq(Staging!AllTests)) /\ Len(plan') = 1 /\ DOMAIN plan' = {1}
      BY <2>2
    <3> QED
      BY <2>2, <3>1 DEF Staging!PlanOK
  <2> QED
    BY <1>2, <2>1, <2>2
<1>4. Staging!TypeOK'
  <2>1. "pip" \in Staging!ToSet(Staging!Steps)
    BY DEF Staging!ToSet, Staging!Steps
  <2> QED
    BY <1>1, <1>2, <1>3, <2>1 DEF Staging!IInv, Staging!TypeOK
<1>5. Staging!InTurn'
  BY <1>1, <1>2, <1>3 DEF Staging!InTurn
<1>6. Staging!BatchObserved' /\ Staging!LogSoFar' /\ Staging!RowsSoFar' /\ Staging!RowsAreTrue'
  BY <1>1 DEF Staging!IInv, Staging!BatchObserved, Staging!LogSoFar, Staging!RowsSoFar,
     Staging!RowsAreTrue
<1>7. Staging!Collected'
  <2>1. \A n \in DOMAIN plan' : ~(n < 1)
    BY <1>3 DEF Staging!PlanOK
  <2> QED
    BY <1>1, <2>1 DEF Staging!Collected
<1> QED
  BY <1>3, <1>4, <1>5, <1>6, <1>7 DEF Staging!IInv

\* Rows stay as true as they are while no row is added.
LEMMA RowsStayTrue ==
    ASSUME Staging!RowsAreTrue, results' = results, plan' = plan, garbled \subseteq garbled',
           \A r \in results : Staging!IsTrue(r) => Staging!IsTrue(r)'
    PROVE  Staging!RowsAreTrue'
<1>1. ASSUME NEW r \in results, Staging!CutShort(r) PROVE Staging!CutShort(r)'
  <2>1. PICK n \in DOMAIN plan \intersect garbled :
           /\ r.via = "junit" /\ r.verdict = "passed" /\ r.test \in Staging!ToSet(plan[n])
           /\ \A s \in results : s.test \in Staging!ToSet(plan[n]) => s = r \/ Staging!IsTrue(s)
    BY <1>1 DEF Staging!CutShort
  <2>2. n \in DOMAIN plan' \intersect garbled'
    OBVIOUS
  <2>3. \A s \in results' : s.test \in Staging!ToSet(plan'[n]) => s = r \/ Staging!IsTrue(s)'
    BY <2>1
  <2>4. r.test \in Staging!ToSet(plan'[n])
    BY <2>1
  <2> QED
    BY <2>1, <2>2, <2>3, <2>4 DEF Staging!CutShort
<1> QED
  BY <1>1 DEF Staging!RowsAreTrue

\* A new pytest process has run nothing yet.
LEMMA StartPytestKeeps ==
    ASSUME Staging!IInv, Staging!StartPytest
    PROVE  Staging!IInv'
<1> USE DEF Staging!IInv, Staging!StartPytest
<1>1. batch \in DOMAIN plan
  BY DEF Staging!TypeOK, Staging!InTurn, Staging!PlanOK
<1>2. Staging!TypeOK' /\ Staging!PlanOK' /\ Staging!InTurn'
  BY DEF Staging!TypeOK, Staging!PlanOK, Staging!InTurn
<1>3. Staging!BatchObserved'
  BY <1>1, PlanTests DEF Staging!BatchObserved
<1>4. Staging!LogSoFar' /\ Staging!RowsSoFar'
  BY DEF Staging!LogSoFar, Staging!RowsSoFar
<1>5. Staging!Collected'
  BY DEF Staging!Collected, Staging!LogVerdict, Staging!Logged
<1>6. Staging!RowsAreTrue'
  BY RowsStayTrue DEF Staging!IsTrue
<1> QED
  BY <1>2, <1>3, <1>4, <1>5, <1>6

\* A quotient stays in its range.
LEMMA Quotient == ASSUME NEW x \in Nat, NEW d \in Nat \ {0}, NEW k \in Nat, x <= d * k
                  PROVE  x \div d \in 0 .. k
<1> DEFINE q == x \div d
<1>1. q \in Int /\ d * q <= x /\ x < d * (q + 1)
  OBVIOUS
<1>2. q <= k
  <2> SUFFICES ASSUME q > k PROVE FALSE
    BY <1>1
  <2>1. d * q > d * k
    BY <1>1
  <2> QED
    BY <1>1, <2>1
<1>3. q >= 0
  <2> SUFFICES ASSUME q + 1 <= 0 PROVE FALSE
    BY <1>1
  <2>1. d * (q + 1) <= 0
    BY <1>1
  <2> QED
    BY <1>1, <2>1
<1> QED
  BY <1>1, <1>2, <1>3

\* The share of the run that is over is a percentage.
LEMMA Percentage ==
    ASSUME Staging!PlanOK, NEW n \in DOMAIN plan, NEW p \in 0 .. 100,
           mode = "full" => Len(plan) = Len(SubBatches) + 1
    PROVE  Staging!Overall(n, p) \in 0 .. 100
<1> DEFINE L == Len(SubBatches)
<1>1. L \in Nat \ {0} /\ n \in Nat \ {0} /\ n <= Len(plan) /\ Len(plan) \in Nat
  BY BatchesAssumption DEF Staging!SuiteAssumption, Staging!PlanOK
<1> HIDE DEF L
<1>2. CASE mode # "full"
  BY <1>2 DEF Staging!Overall
<1>3. CASE mode = "full" /\ n <= L
  <2> DEFINE x == 100 * (n - 1) + p
  <2>1. x \in Nat /\ x <= 100 * L
    BY <1>1, <1>3
  <2>2. 2 * (79 * x) + 100 * L \in Nat /\ 2 * (100 * L) \in Nat \ {0}
    BY <1>1, <2>1
  <2>3. 2 * (79 * x) + 100 * L <= (2 * (100 * L)) * 100
    <3>1. 2 * (79 * x) <= 15800 * L
      BY <1>1, <2>1
    <3> QED
      BY <1>1, <2>1, <3>1
  <2>4. (2 * (79 * x) + 100 * L) \div (2 * (100 * L)) \in 0 .. 100
    BY <2>2, <2>3, Quotient
  <2> QED
    BY <1>3, <2>4 DEF Staging!Overall, Staging!Round, L
<1>4. CASE mode = "full" /\ n > L
  <2>1. (2 * (21 * p) + 100) \div (2 * 100) \in 0 .. 21
    OBVIOUS
  <2>2. Staging!Overall(n, p) = 79 + (2 * (21 * p) + 100) \div (2 * 100)
    BY <1>1, <1>4 DEF Staging!Overall, Staging!Round, L
  <2> QED
    BY <2>1, <2>2
<1>5. n <= L \/ n > L
  BY <1>1
<1> QED
  BY <1>2, <1>3, <1>4, <1>5

\* While pytest runs, what it writes is about the batch it runs, not about one that is over.
LEMMA OtherBatches ==
    ASSUME Staging!IInv, proc # "none"
    PROVE  /\ batch \in DOMAIN plan /\ stage = "batch"
           /\ \A n \in DOMAIN plan : n < batch =>
                Staging!ToSet(plan[n]) \cap Staging!ToSet(plan[batch]) = {}
<1>1. batch \in DOMAIN plan /\ stage = "batch"
  BY DEF Staging!IInv, Staging!TypeOK, Staging!InTurn, Staging!PlanOK
<1>2. \A n \in DOMAIN plan : n < batch => n # batch
  BY <1>1 DEF Staging!IInv, Staging!PlanOK
<1> QED
  BY <1>1, <1>2 DEF Staging!IInv, Staging!PlanOK

\* A phase of a test: what it overwrites is no more than the teardown of the same test.
LEMMA PhaseKeeps ==
    ASSUME Staging!IInv, NEW o \in Staging!Outcomes, Staging!Phase(o)
    PROVE  Staging!IInv'
<1> DEFINE t == plan[batch][at]
           w == Staging!NextPhase(t)
<1>1. /\ proc = "running" /\ at <= Len(plan[batch])
      /\ ran' = [ran EXCEPT ![t][w] = o]
      /\ log' = log \union {<<t, w>>} /\ last' = <<t, w>>
      /\ at' = IF w = "teardown" THEN at + 1 ELSE at
      /\ percent' = IF w = "teardown"
                    THEN Staging!Overall(batch, (100 * at) \div Len(plan[batch])) ELSE percent
      /\ UNCHANGED <<mode, stage, plan, batch, proc, junit, garbled, results>>
  BY DEF Staging!Phase
<1>2. batch \in DOMAIN plan
  BY <1>1, OtherBatches
<1>3. at \in DOMAIN plan[batch] /\ at \in Nat \ {0} /\ Len(plan[batch]) \in Nat
  BY <1>1, <1>2, PlanTests DEF Staging!IInv, Staging!TypeOK
<1>4. t \in Staging!ToSet(plan[batch]) /\ t \in Staging!AllTests
  BY <1>2, <1>3, PlanTests DEF Staging!IInv
<1>5. w \in Staging!When
  BY DEF Staging!NextPhase, Staging!When
<1>6. ran \in [Staging!AllTests -> [Staging!When -> Staging!Outcomes \union {"none"}]]
  BY DEF Staging!IInv, Staging!TypeOK
<1>7. /\ \A u \in Staging!AllTests, v \in Staging!When :
           ran'[u][v] = IF u = t /\ v = w THEN o ELSE ran[u][v]
      /\ ran' \in [Staging!AllTests -> [Staging!When -> Staging!Outcomes \union {"none"}]]
  BY <1>1, <1>4, <1>5, <1>6
<1>8. /\ w # "teardown" => ran[t][w] = "none"
      /\ w = "call" => ran[t]["setup"] = "passed"
      /\ w = "teardown" => Staging!Executed(t)
  BY DEF Staging!NextPhase, Staging!Executed
<1>9. \A u \in Staging!AllTests : Staging!Executed(u) => Staging!Executed(u)'
  BY <1>7, <1>8 DEF Staging!Executed, Staging!When, Staging!Outcomes
<1>10. \A n \in DOMAIN plan : n < batch => t \notin Staging!ToSet(plan[n])
  BY <1>1, <1>4, OtherBatches
<1> HIDE DEF t, w
<1>11. Staging!TypeOK'
  <2>1. percent' \in 0 .. 100
    <3>1. (100 * at) \div Len(plan[batch]) \in 0 .. 100
      <4>1. 100 * at \in Nat /\ Len(plan[batch]) \in Nat \ {0} /\ 100 * at <= Len(plan[batch]) * 100
        BY <1>1, <1>3
      <4> QED
        BY <4>1, Quotient
    <3>2. Staging!Overall(batch, (100 * at) \div Len(plan[batch])) \in 0 .. 100
      BY <1>2, <3>1, Percentage DEF Staging!IInv, Staging!PlanOK
    <3> QED
      BY <1>1, <3>2 DEF Staging!IInv, Staging!TypeOK
  <2>2. log' \subseteq Staging!AllTests \X Staging!When /\ last' \in log' \union {Staging!NoLine}
    BY <1>1, <1>4, <1>5 DEF Staging!IInv, Staging!TypeOK
  <2>3. at' \in Nat \ {0}
    BY <1>1, <1>3
  <2> QED
    BY <1>1, <1>7, <2>1, <2>2, <2>3 DEF Staging!IInv, Staging!TypeOK
<1>12. Staging!PlanOK'
  BY <1>1 DEF Staging!IInv, Staging!PlanOK
<1>13. Staging!InTurn'
  BY <1>1, OtherBatches DEF Staging!IInv, Staging!InTurn
<1>14. Staging!BatchObserved'
  <2>1. \A u \in Staging!AllTests : ran'[u]["call"] # "none" => ran'[u]["setup"] = "passed"
    BY <1>7, <1>8 DEF Staging!IInv, Staging!BatchObserved, Staging!When
  <2>2. \A i \in DOMAIN plan[batch] : i < at' => Staging!Executed(plan[batch][i])'
    <3> SUFFICES ASSUME NEW i \in DOMAIN plan[batch], i < at' PROVE Staging!Executed(plan[batch][i])'
      OBVIOUS
    <3>1. plan[batch][i] \in Staging!AllTests /\ i \in Int
      BY <1>2, PlanTests DEF Staging!IInv
    <3>2. Staging!Executed(plan[batch][i])
      <4>1. CASE i < at
        BY <1>1, <4>1 DEF Staging!IInv, Staging!BatchObserved
      <4>2. CASE ~(i < at)
        BY <1>1, <1>3, <1>8, <3>1, <4>2 DEF t
      <4> QED
        BY <4>1, <4>2
    <3> QED
      BY <1>1, <1>9, <3>1, <3>2
  <2>3. junit # "absent" => FALSE
    BY <1>1, <1>3 DEF Staging!IInv, Staging!BatchObserved
  <2>4. last'[1] \in Staging!ToSet(plan'[batch'])
    BY <1>1, <1>4
  <2> QED
    BY <1>1, <2>1, <2>2, <2>3, <2>4 DEF Staging!BatchObserved
<1>15. Staging!LogSoFar'
  BY <1>1, <1>2, <1>4 DEF Staging!IInv, Staging!LogSoFar
<1>16. Staging!RowsSoFar'
  BY <1>1 DEF Staging!IInv, Staging!RowsSoFar
<1>17. \A n \in DOMAIN plan : n < batch => \A u \in Staging!ToSet(plan[n]) :
         /\ u \in Staging!AllTests /\ u # t
         /\ \A v \in Staging!When : ran'[u][v] = ran[u][v] /\ (<<u, v>> \in log' <=> <<u, v>> \in log)
  BY <1>1, <1>7, <1>10, PlanTests DEF Staging!IInv
<1>18. Staging!Collected'
  <2>1. \A n \in DOMAIN plan : n < batch => \A u \in Staging!ToSet(plan[n]) :
          Staging!LogVerdict(u)' = Staging!LogVerdict(u)
    BY <1>17 DEF Staging!LogVerdict, Staging!Logged, Staging!When
  <2> QED
    BY <1>1, <2>1 DEF Staging!IInv, Staging!Collected
<1>19. Staging!RowsAreTrue'
  <2> SUFFICES ASSUME NEW r \in results, Staging!IsTrue(r) PROVE Staging!IsTrue(r)'
    BY <1>1, RowsStayTrue DEF Staging!IInv
  <2>1. r.via # "stub" => \A v \in Staging!When : ran'[r.test][v] = ran[r.test][v]
    BY <1>17 DEF Staging!IInv, Staging!RowsSoFar
  <2> QED
    BY <2>1 DEF Staging!IsTrue, Staging!When
<1> QED
  BY <1>11, <1>12, <1>13, <1>14, <1>15, <1>16, <1>18, <1>19 DEF Staging!IInv

\* The report is begun after the last test, and whole when pytest exits.
LEMMA WriteJunitKeeps ==
    ASSUME Staging!IInv, Staging!WriteJunit
    PROVE  Staging!IInv'
<1> USE DEF Staging!IInv, Staging!WriteJunit
<1>1. Staging!TypeOK' /\ Staging!PlanOK' /\ Staging!InTurn'
  BY DEF Staging!TypeOK, Staging!PlanOK, Staging!InTurn
<1>2. Staging!BatchObserved'
  BY DEF Staging!BatchObserved, Staging!Executed
<1>3. Staging!LogSoFar' /\ Staging!RowsSoFar'
  BY DEF Staging!LogSoFar, Staging!RowsSoFar
<1>4. Staging!Collected'
  BY DEF Staging!Collected, Staging!LogVerdict, Staging!Logged
<1>5. Staging!RowsAreTrue'
  BY RowsStayTrue DEF Staging!IsTrue
<1> QED
  BY <1>1, <1>2, <1>3, <1>4, <1>5

\* A kill cuts at most a line of the batch that was running.
LEMMA EndedKeeps ==
    ASSUME Staging!IInv, NEW cut \in BOOLEAN, Staging!Ended(cut)
    PROVE  Staging!IInv'
<1>1. /\ proc = "running" /\ proc' = "ended" /\ last' = Staging!NoLine
      /\ log' = IF cut THEN log \ {last} ELSE log
      /\ garbled' = IF junit = "cut" THEN garbled \union {batch} ELSE garbled
      /\ UNCHANGED <<mode, stage, plan, batch, at, ran, junit, results, percent>>
  BY DEF Staging!Ended
<1>2. batch \in DOMAIN plan /\ batch \in Nat
  BY <1>1, OtherBatches DEF Staging!IInv, Staging!PlanOK
<1>3. Staging!TypeOK'
  BY <1>1, <1>2 DEF Staging!IInv, Staging!TypeOK
<1>4. Staging!PlanOK'
  BY <1>1 DEF Staging!IInv, Staging!PlanOK
<1>5. Staging!InTurn'
  BY <1>1, OtherBatches DEF Staging!IInv, Staging!InTurn
<1>6. Staging!BatchObserved'
  BY <1>1 DEF Staging!IInv, Staging!BatchObserved, Staging!Executed
<1>7. Staging!LogSoFar' /\ Staging!RowsSoFar'
  BY <1>1 DEF Staging!IInv, Staging!LogSoFar, Staging!RowsSoFar
<1>8. ASSUME NEW n \in DOMAIN plan, n < batch, NEW u \in Staging!ToSet(plan[n]), NEW v
      PROVE  <<u, v>> \in log' <=> <<u, v>> \in log
  <2>1. u \notin Staging!ToSet(plan[batch])
    BY <1>1, <1>8, OtherBatches
  <2>2. <<u, v>> # last
    <3>1. CASE last = Staging!NoLine
      BY <3>1 DEF Staging!NoLine
    <3>2. CASE last # Staging!NoLine
      BY <1>1, <2>1, <3>2 DEF Staging!IInv, Staging!BatchObserved
    <3> QED
      BY <3>1, <3>2
  <2> QED
    BY <1>1, <2>2
<1>9. Staging!Collected'
  <2>1. \A n \in DOMAIN plan : n < batch => \A u \in Staging!ToSet(plan[n]) :
          Staging!LogVerdict(u)' = Staging!LogVerdict(u)
    BY <1>1, <1>8 DEF Staging!LogVerdict, Staging!Logged
  <2> QED
    BY <1>1, <2>1 DEF Staging!IInv, Staging!Collected
<1>10. Staging!RowsAreTrue'
  BY <1>1, RowsStayTrue DEF Staging!IInv, Staging!IsTrue
<1> QED
  BY <1>3, <1>4, <1>5, <1>6, <1>7, <1>9, <1>10 DEF Staging!IInv

\* A batch is over: its rows join the results, all of them true but for the one a cut report may
\* hold, and they hold every verdict it logged.
LEMMA BatchOverKeeps ==
    ASSUME Staging!IInv, NEW rows, Staging!BatchOver(rows), stage = "batch", proc' = "none",
           UNCHANGED <<mode, plan, at, ran, log, last, junit, garbled, percent>>,
           NEW torn,
           \A r \in rows : /\ \/ Staging!IsTrue(r)
                              \/ batch \in garbled /\ r = torn /\ r.via = "junit" /\ r.verdict = "passed"
                           /\ r.test \in Staging!ToSet(plan[batch])
                           /\ r.verdict \in Staging!Verdicts /\ r.via \in {"junit", "log"},
           batch \notin garbled => \A t \in Staging!ToSet(plan[batch]) :
             Staging!LogVerdict(t) # "none" => \E r \in rows : r.test = t
    PROVE  Staging!IInv'
<1> DEFINE stubs == IF mode = "full" /\ batch = Len(SubBatches) THEN Staging!Stubs ELSE {}
<1>1. /\ results' = results \union rows \union stubs
      /\ batch' = batch + 1
      /\ stage' \in IF batch < Len(plan) THEN {"batch"}
                    ELSE IF results' = {} THEN {"threw"} ELSE {"returned", "untidy"}
  BY DEF Staging!BatchOver
<1>2. batch \in DOMAIN plan /\ batch \in 1 .. Len(plan) /\ Len(plan) \in Nat
  BY DEF Staging!IInv, Staging!TypeOK, Staging!InTurn, Staging!PlanOK
<1>3. \A s \in stubs : s.test \in Quarantined /\ s.via = "stub" /\ s.verdict = "skipped"
  BY DEF Staging!Stubs, Staging!Row
<1> HIDE DEF stubs
<1>4. Staging!TypeOK'
  <2>1. stage' \in Staging!ToSet(Staging!Steps) \union {"returned", "threw", "untidy"}
    BY <1>1 DEF Staging!ToSet, Staging!Steps
  <2>2. \A r \in results' : r.verdict \in Staging!Verdicts /\ r.via \in {"junit", "log", "stub"}
    BY <1>1, <1>3 DEF Staging!IInv, Staging!TypeOK, Staging!Verdicts
  <2> QED
    BY <1>1, <1>2, <2>1, <2>2 DEF Staging!IInv, Staging!TypeOK
<1>5. Staging!PlanOK'
  BY DEF Staging!IInv, Staging!PlanOK
<1>6. Staging!InTurn'
  BY <1>1, <1>2 DEF Staging!IInv, Staging!InTurn
<1>7. Staging!BatchObserved'
  BY DEF Staging!IInv, Staging!BatchObserved
<1>8. Staging!LogSoFar'
  <2> SUFFICES ASSUME NEW l \in log
               PROVE  \E n \in DOMAIN plan : l[1] \in Staging!ToSet(plan[n]) /\ n < batch'
    BY DEF Staging!LogSoFar
  <2>1. PICK n \in DOMAIN plan : l[1] \in Staging!ToSet(plan[n]) /\ (n < batch \/ n = batch)
    BY DEF Staging!IInv, Staging!LogSoFar
  <2>2. n < batch'
    BY <1>1, <1>2, <2>1
  <2> QED
    BY <2>1, <2>2
<1>9. Staging!RowsSoFar'
  <2> SUFFICES ASSUME NEW r \in results', r.via # "stub"
               PROVE  \E n \in DOMAIN plan : n < batch' /\ r.test \in Staging!ToSet(plan[n])
    BY DEF Staging!RowsSoFar
  <2>1. CASE r \in rows
    BY <1>1, <1>2, <2>1
  <2>2. CASE r \in results
    <3>1. PICK n \in DOMAIN plan : n < batch /\ r.test \in Staging!ToSet(plan[n])
      BY <2>2 DEF Staging!IInv, Staging!RowsSoFar
    <3>2. n < batch'
      BY <1>1, <1>2, <3>1
    <3> QED
      BY <3>1, <3>2
  <2> QED
    BY <1>1, <1>3, <2>1, <2>2
<1>10. Staging!Collected'
  <2> SUFFICES ASSUME NEW n \in DOMAIN plan, n < batch', n \notin garbled,
                      NEW t \in Staging!ToSet(plan[n]), Staging!LogVerdict(t) # "none"
               PROVE  \E r \in results' : r.test = t
    BY DEF Staging!Collected, Staging!LogVerdict, Staging!Logged
  <2>1. n < batch \/ n = batch
    BY <1>1, <1>2
  <2>2. CASE n < batch
    BY <1>1, <2>2 DEF Staging!IInv, Staging!Collected
  <2>3. CASE n = batch
    BY <1>1, <2>3
  <2> QED
    BY <2>1, <2>2, <2>3
<1>11. \A r : Staging!IsTrue(r)' <=> Staging!IsTrue(r)
  BY DEF Staging!IsTrue
<1>12. \A s \in stubs : Staging!IsTrue(s)
  BY <1>3 DEF Staging!IsTrue
<1>13. ASSUME NEW s \in results, s.test \in Staging!ToSet(plan[batch]) PROVE Staging!IsTrue(s)
  <2> SUFFICES ASSUME Staging!CutShort(s) PROVE FALSE
    BY DEF Staging!IInv, Staging!RowsAreTrue
  <2>1. s.via = "junit"
    BY DEF Staging!CutShort
  <2>2. PICK n \in DOMAIN plan : n < batch /\ s.test \in Staging!ToSet(plan[n])
    BY <2>1 DEF Staging!IInv, Staging!RowsSoFar
  <2>3. n # batch
    BY <1>2, <2>2
  <2> QED
    BY <1>2, <1>13, <2>2, <2>3 DEF Staging!IInv, Staging!PlanOK
<1>14. ASSUME NEW r \in results, ~Staging!IsTrue(r) PROVE Staging!CutShort(r)'
  <2>1. PICK n \in DOMAIN plan \intersect garbled :
           /\ r.via = "junit" /\ r.verdict = "passed" /\ r.test \in Staging!ToSet(plan[n])
           /\ \A s \in results : s.test \in Staging!ToSet(plan[n]) => s = r \/ Staging!IsTrue(s)
    BY <1>14 DEF Staging!IInv, Staging!RowsAreTrue, Staging!CutShort
  <2>2. n # batch
    BY <1>13, <1>14, <2>1
  <2>3. \A s \in rows : s.test \notin Staging!ToSet(plan[n])
    BY <1>2, <2>1, <2>2 DEF Staging!IInv, Staging!PlanOK
  <2>4. \A s \in results' : s.test \in Staging!ToSet(plan[n]) => s = r \/ Staging!IsTrue(s)
    BY <1>1, <1>12, <2>1, <2>3
  <2> QED
    BY <1>11, <2>1, <2>4 DEF Staging!CutShort
<1>15. ASSUME NEW r \in rows, ~Staging!IsTrue(r) PROVE Staging!CutShort(r)'
  <2>1. r = torn /\ r.via = "junit" /\ r.verdict = "passed" /\ batch \in garbled
    BY <1>15
  <2>2. \A s \in results' : s.test \in Staging!ToSet(plan[batch]) => s = r \/ Staging!IsTrue(s)
    BY <1>1, <1>12, <1>13, <2>1
  <2> QED
    BY <1>2, <1>11, <2>1, <2>2 DEF Staging!CutShort
<1>16. Staging!RowsAreTrue'
  BY <1>1, <1>11, <1>12, <1>14, <1>15 DEF Staging!RowsAreTrue
<1> QED
  BY <1>4, <1>5, <1>6, <1>7, <1>8, <1>9, <1>10, <1>16 DEF Staging!IInv

\* A batch without a report costs nothing that was logged, nor does it in the modes that give
\* up what they have: theirs is the only batch.
LEMMA BatchThrowsKeeps ==
    ASSUME Staging!IInv, Staging!BatchThrows, stage = "batch", proc' = "none",
           UNCHANGED <<mode, plan, at, ran, log, last, junit, garbled, percent>>,
           batch \notin garbled => \A t \in Staging!ToSet(plan[batch]) : Staging!LogVerdict(t) = "none"
    PROVE  Staging!IInv'
<1>1. CASE mode \in {"full", "skip1"}
  <2>1. Staging!BatchOver({})
    BY <1>1 DEF Staging!BatchThrows
  <2> QED
    BY <2>1, BatchOverKeeps
<1>2. CASE mode \in {"only", "rerun"}
  <2>1. stage' = "threw" /\ batch' = batch + 1 /\ results' = {}
    BY <1>2 DEF Staging!BatchThrows
  <2>2. batch = 1 /\ Len(plan) = 1 /\ DOMAIN plan = {1} /\ plan # <<>>
    <3>1. batch \in 1 .. Len(plan) + 1 /\ batch <= Len(plan) /\ Len(plan) <= 1 /\ plan # <<>>
      BY <1>2 DEF Staging!IInv, Staging!TypeOK, Staging!InTurn, Staging!PlanOK
    <3>2. Len(plan) \in Nat /\ DOMAIN plan = 1 .. Len(plan)
      BY DEF Staging!IInv, Staging!PlanOK
    <3> QED
      BY <3>1, <3>2
  <2>3. Staging!TypeOK'
    <3>1. 2 \in 1 .. Len(plan) + 1
      BY <2>2
    <3> QED
      BY <2>1, <2>2, <3>1 DEF Staging!IInv, Staging!TypeOK
  <2>4. Staging!PlanOK' /\ Staging!InTurn' /\ Staging!BatchObserved'
    BY <2>1, <2>2 DEF Staging!IInv, Staging!PlanOK, Staging!InTurn, Staging!BatchObserved
  <2>5. Staging!LogSoFar' /\ Staging!RowsSoFar' /\ Staging!RowsAreTrue'
    BY <2>1, <2>2 DEF Staging!IInv, Staging!LogSoFar, Staging!RowsSoFar, Staging!RowsAreTrue
  <2>6. Staging!Collected'
    BY <2>1, <2>2 DEF Staging!Collected, Staging!LogVerdict, Staging!Logged
  <2> QED
    BY <2>3, <2>4, <2>5, <2>6 DEF Staging!IInv
<1> QED
  BY <1>1, <1>2 DEF Staging!IInv, Staging!TypeOK

\* pytest cannot be started: nothing of this batch is on disk.
LEMMA SpawnFailsKeeps ==
    ASSUME Staging!IInv, Staging!SpawnFails
    PROVE  Staging!IInv'
<1>1. /\ stage = "batch" /\ proc = "none" /\ proc' = "none" /\ Staging!BatchThrows
      /\ UNCHANGED <<mode, plan, at, ran, log, last, junit, garbled, percent>>
  BY DEF Staging!SpawnFails, Staging!pytest
<1>2. \A t \in Staging!ToSet(plan[batch]) : Staging!LogVerdict(t) = "none"
  <2> SUFFICES ASSUME NEW t \in Staging!ToSet(plan[batch]), NEW v, <<t, v>> \in log
               PROVE  FALSE
    BY DEF Staging!LogVerdict, Staging!Logged
  <2>1. batch \in DOMAIN plan
    BY <1>1 DEF Staging!IInv, Staging!TypeOK, Staging!InTurn, Staging!PlanOK
  <2>2. PICK n \in DOMAIN plan : t \in Staging!ToSet(plan[n]) /\ n < batch
    BY <1>1 DEF Staging!IInv, Staging!LogSoFar
  <2>3. n # batch
    BY <2>1, <2>2 DEF Staging!IInv, Staging!PlanOK
  <2> QED
    BY <2>1, <2>2, <2>3 DEF Staging!IInv, Staging!PlanOK
<1> QED
  BY <1>1, <1>2, BatchThrowsKeeps

\* What the reports hold of a test.
LEMMA LogIsTrue ==
    ASSUME Staging!IInv, NEW t \in Staging!AllTests, Staging!LogVerdict(t) # "none"
    PROVE  /\ Staging!IsTrue(Staging!Row(t, Staging!LogVerdict(t), "log"))
           /\ Staging!LogVerdict(t) \in Staging!Verdicts
<1>1. t \notin Quarantined
  BY BatchesAssumption DEF Staging!SuiteAssumption
<1>2. ran[t]["call"] # "none" => ran[t]["setup"] = "passed"
  BY DEF Staging!IInv, Staging!BatchObserved
<1> QED
  BY <1>1, <1>2
  DEF Staging!LogVerdict, Staging!Logged, Staging!IsTrue, Staging!Row, Staging!When, Staging!Verdicts

LEMMA JunitIsTrue ==
    ASSUME Staging!IInv, NEW t \in Staging!AllTests, Staging!Executed(t),
           NEW case \in Staging!JunitCases(t)
    PROVE  /\ Staging!IsTrue(Staging!Row(t, Staging!CaseVerdict(case), "junit"))
           /\ Staging!CaseVerdict(case) \in Staging!Verdicts
<1>1. t \notin Quarantined
  BY BatchesAssumption DEF Staging!SuiteAssumption
<1>2. \A v \in Staging!When : ran[t][v] \in {"passed", "failed", "skipped", "none"}
  BY DEF Staging!IInv, Staging!TypeOK, Staging!Outcomes
<1>3. Staging!CaseVerdict(case) \in Staging!Verdicts
  BY DEF Staging!CaseVerdict, Staging!Verdicts
<1> DEFINE failure == IF ran[t]["call"] = "failed" THEN {"failure"} ELSE {}
           error == IF "failed" \in {ran[t]["setup"], ran[t]["teardown"]} THEN {"error"} ELSE {}
           skipped == IF "skipped" \in {ran[t]["setup"], ran[t]["call"]} THEN {"skipped"} ELSE {}
<1>4. \/ failure # {} /\ case \in {failure, error} /\ case # {}
      \/ failure = {} /\ case = error \union skipped
  BY DEF Staging!JunitCases
<1>5. Staging!CaseVerdict(case) = "failed" => \E v \in Staging!When : ran[t][v] = "failed"
  BY <1>4 DEF Staging!CaseVerdict, Staging!When
<1>6. Staging!CaseVerdict(case) = "skipped" => "skipped" \in {ran[t]["setup"], ran[t]["call"]}
  BY <1>4 DEF Staging!CaseVerdict
<1>7. Staging!CaseVerdict(case) = "passed" => ran[t]["setup"] = "passed" /\ ran[t]["call"] = "passed"
  <2> SUFFICES ASSUME Staging!CaseVerdict(case) = "passed"
               PROVE  ran[t]["setup"] = "passed" /\ ran[t]["call"] = "passed"
    OBVIOUS
  <2>1. "failure" \notin case /\ "error" \notin case /\ "skipped" \notin case
    BY DEF Staging!CaseVerdict
  <2>2. failure = {} /\ error = {} /\ skipped = {}
    BY <1>4, <2>1
  <2>3. ran[t]["call"] \notin {"failed", "skipped"} /\ ran[t]["setup"] \notin {"failed", "skipped"}
    BY <2>2
  <2> QED
    BY <1>2, <2>3 DEF Staging!Executed, Staging!When
<1> QED
  BY <1>1, <1>3, <1>5, <1>6, <1>7 DEF Staging!IsTrue, Staging!Row

\* A testcase a report was cut in says nothing that is not so, except that it passed.
LEMMA CutRowIsTrue ==
    ASSUME Staging!IInv, NEW t \in Staging!AllTests, NEW case \in Staging!JunitCases(t),
           NEW part \in SUBSET case
    PROVE  /\ \/ Staging!IsTrue(Staging!CutRow(t, part))
              \/ Staging!CutRow(t, part).verdict = "passed"
           /\ Staging!CutRow(t, part).verdict \in Staging!Verdicts
           /\ Staging!CutRow(t, part).test = t /\ Staging!CutRow(t, part).via = "junit"
<1>1. t \notin Quarantined
  BY BatchesAssumption DEF Staging!SuiteAssumption
<1>2. Staging!CaseVerdict(part) \in Staging!Verdicts
  BY DEF Staging!CaseVerdict, Staging!Verdicts
<1> DEFINE failure == IF ran[t]["call"] = "failed" THEN {"failure"} ELSE {}
           error == IF "failed" \in {ran[t]["setup"], ran[t]["teardown"]} THEN {"error"} ELSE {}
           skipped == IF "skipped" \in {ran[t]["setup"], ran[t]["call"]} THEN {"skipped"} ELSE {}
<1>3. part \subseteq failure \union error \union skipped
  BY DEF Staging!JunitCases
<1>4. Staging!CaseVerdict(part) = "failed" => \E v \in Staging!When : ran[t][v] = "failed"
  BY <1>3 DEF Staging!CaseVerdict, Staging!When
<1>5. Staging!CaseVerdict(part) = "skipped" => "skipped" \in {ran[t]["setup"], ran[t]["call"]}
  BY <1>3 DEF Staging!CaseVerdict
<1> QED
  BY <1>1, <1>2, <1>4, <1>5 DEF Staging!IsTrue, Staging!Row, Staging!CutRow, Staging!Verdicts

\* A batch is read back, whatever pytest left of it.
LEMMA ReadReportKeeps ==
    ASSUME Staging!IInv, Staging!ReadReport
    PROVE  Staging!IInv'
<1> DEFINE T == Staging!ToSet(plan[batch])
           recovered == Staging!ParseReportLog(T)
<1>1. /\ stage = "batch" /\ proc = "ended" /\ proc' = "none"
      /\ UNCHANGED <<mode, plan, at, ran, log, last, junit, garbled, percent>>
      /\ \/ junit = "whole" /\ Staging!BatchOver(Staging!ParseJunitXml(T))
         \/ junit = "cut" /\ \E rows \in SUBSET Staging!ParseJunitXml(T) :
              \/ Staging!BatchOver(rows)
              \/ \E t \in T : \E case \in Staging!JunitCases(t) : \E part \in SUBSET case :
                   Staging!BatchOver(rows \union {Staging!CutRow(t, part)})
         \/ junit = "cut" /\ Staging!BatchThrows
         \/ junit = "absent" /\ recovered # {} /\ Staging!BatchOver(recovered)
         \/ junit = "absent" /\ recovered = {} /\ Staging!BatchThrows
  BY DEF Staging!ReadReport, Staging!pytest
<1>2. batch \in DOMAIN plan /\ T \subseteq Staging!AllTests
  BY <1>1, OtherBatches, PlanTests DEF Staging!IInv
<1>3. junit = "cut" => batch \in garbled
  BY <1>1 DEF Staging!IInv, Staging!BatchObserved
<1>4. junit # "absent" => \A t \in T : Staging!Executed(t)
  <2> SUFFICES ASSUME junit # "absent", NEW t \in T PROVE Staging!Executed(t)
    OBVIOUS
  <2>1. PICK i \in DOMAIN plan[batch] : t = plan[batch][i]
    BY DEF Staging!ToSet
  <2>2. i < at
    BY <1>1, <1>2, PlanTests DEF Staging!IInv, Staging!TypeOK, Staging!BatchObserved
  <2> QED
    BY <1>1, <2>1, <2>2 DEF Staging!IInv, Staging!BatchObserved
<1>5. junit # "absent" => \A r \in Staging!ParseJunitXml(T) :
        /\ Staging!IsTrue(r) /\ r.test \in T /\ r.verdict \in Staging!Verdicts /\ r.via = "junit"
  <2> SUFFICES ASSUME junit # "absent", NEW r \in Staging!ParseJunitXml(T)
               PROVE  /\ Staging!IsTrue(r) /\ r.test \in T /\ r.verdict \in Staging!Verdicts
                      /\ r.via = "junit"
    OBVIOUS
  <2>1. PICK t \in T : \E k \in Staging!JunitCases(t) : r = Staging!Row(t, Staging!CaseVerdict(k), "junit")
    BY DEF Staging!ParseJunitXml
  <2> QED
    BY <1>2, <1>4, <2>1, JunitIsTrue DEF Staging!Row
<1>6. \A r \in recovered :
        /\ Staging!IsTrue(r) /\ r.test \in T /\ r.verdict \in Staging!Verdicts /\ r.via = "log"
  BY <1>2, LogIsTrue DEF Staging!ParseReportLog, Staging!Row
<1>7. \A t \in T : \E r \in Staging!ParseJunitXml(T) : r.test = t
  <2> SUFFICES ASSUME NEW t \in T PROVE \E r \in Staging!ParseJunitXml(T) : r.test = t
    OBVIOUS
  <2>1. PICK k : k \in Staging!JunitCases(t)
    BY DEF Staging!JunitCases
  <2>2. Staging!Row(t, Staging!CaseVerdict(k), "junit") \in Staging!ParseJunitXml(T)
    BY <2>1 DEF Staging!ParseJunitXml
  <2> QED
    BY <2>2 DEF Staging!Row
<1>8. \A t \in T : Staging!LogVerdict(t) # "none" => \E r \in recovered : r.test = t
  <2> SUFFICES ASSUME NEW t \in T, Staging!LogVerdict(t) # "none"
               PROVE  \E r \in recovered : r.test = t
    OBVIOUS
  <2>1. Staging!Row(t, Staging!LogVerdict(t), "log") \in recovered
    BY DEF Staging!ParseReportLog
  <2> QED
    BY <2>1 DEF Staging!Row
<1> HIDE DEF T, recovered
<1>9. CASE junit = "whole" /\ Staging!BatchOver(Staging!ParseJunitXml(T))
  BY <1>1, <1>5, <1>7, <1>9, BatchOverKeeps DEF T
<1>10. ASSUME NEW rows \in SUBSET Staging!ParseJunitXml(T), junit = "cut", Staging!BatchOver(rows)
       PROVE  Staging!IInv'
  BY <1>1, <1>3, <1>5, <1>10, BatchOverKeeps DEF T
<1>13. ASSUME NEW rows \in SUBSET Staging!ParseJunitXml(T), junit = "cut", NEW t \in T,
              NEW case \in Staging!JunitCases(t), NEW part \in SUBSET case,
              Staging!BatchOver(rows \union {Staging!CutRow(t, part)})
       PROVE  Staging!IInv'
  <2> DEFINE torn == Staging!CutRow(t, part)
  <2>1. /\ Staging!IsTrue(torn) \/ torn.verdict = "passed"
        /\ torn.verdict \in Staging!Verdicts /\ torn.test = t /\ torn.via = "junit"
    BY <1>2, <1>13, CutRowIsTrue
  <2> HIDE DEF torn
  <2>2. \A r \in rows \union {torn} :
          /\ \/ Staging!IsTrue(r)
             \/ batch \in garbled /\ r = torn /\ r.via = "junit" /\ r.verdict = "passed"
          /\ r.test \in T /\ r.verdict \in Staging!Verdicts /\ r.via \in {"junit", "log"}
    BY <1>3, <1>5, <1>13, <2>1
  <2>3. Staging!BatchOver(rows \union {torn})
    BY <1>13 DEF torn
  <2> QED
    BY <1>1, <1>3, <1>13, <2>2, <2>3, BatchOverKeeps DEF T
<1>11. CASE junit = "absent" /\ Staging!BatchOver(recovered)
  BY <1>1, <1>6, <1>8, <1>11, BatchOverKeeps DEF T
<1>12. CASE Staging!BatchThrows /\ (junit = "cut" \/ recovered = {})
  BY <1>1, <1>3, <1>8, <1>12, BatchThrowsKeeps DEF T
<1> QED
  BY <1>1, <1>9, <1>10, <1>11, <1>12, <1>13

\* Every step of a staging run.
LEMMA StagingStep == Staging!IInv /\ [Staging!Next]_(Staging!vars) => Staging!IInv'
<1> SUFFICES ASSUME Staging!IInv, [Staging!Next]_(Staging!vars) PROVE Staging!IInv'
  OBVIOUS
<1>1. CASE UNCHANGED Staging!vars
  BY <1>1 DEF Staging!vars, Staging!IInv, Staging!TypeOK, Staging!PlanOK, Staging!InTurn,
     Staging!BatchObserved, Staging!Executed, Staging!LogSoFar, Staging!RowsSoFar,
     Staging!Collected, Staging!LogVerdict, Staging!Logged, Staging!RowsAreTrue, Staging!IsTrue,
     Staging!CutShort
<1> QED
  BY <1>1, SetupStepKeeps, ResolveKeeps, StartPytestKeeps, SpawnFailsKeeps, PhaseKeeps,
     WriteJunitKeeps, EndedKeeps, ReadReportKeeps
  DEF Staging!Next, Staging!PytestCrashes, Staging!TimerFires

LEMMA StagingInductive == Staging!Spec => []Staging!IInv
  BY StagingInit, StagingStep, PTL DEF Staging!Spec

\* In every run of the staging suite a row says what pytest observed, however its batch ended.
THEOREM StagingRowsAreTrue == Staging!Spec => []RowsAreTrue
<1>1. Staging!IInv => RowsAreTrue
  BY DEF Staging!IInv, RowsAreTrue
<1> QED
  BY <1>1, StagingInductive, PTL

\* Whatever happens to one batch, a verdict on disk reaches the results.
THEOREM FlushedIsKept == Staging!Spec => []NothingFlushedIsLost
<1>1. Staging!IInv => NothingFlushedIsLost
  <2> SUFFICES ASSUME Staging!IInv, stage \in {"returned", "threw"},
                      NEW n \in 1 .. Len(plan) \ garbled, NEW t \in Staging!ToSet(plan[n]),
                      Staging!LogVerdict(t) # "none"
               PROVE  \E r \in results : r.test = t
    BY DEF NothingFlushedIsLost, Staging!NothingFlushedIsLost, Staging!Over
  <2>1. n \in DOMAIN plan /\ batch \in Int /\ Len(plan) \in Nat
    BY DEF Staging!IInv, Staging!PlanOK, Staging!TypeOK
  <2>2. log # {}
    BY DEF Staging!LogVerdict, Staging!Logged
  <2>3. n < batch
    BY <2>1, <2>2 DEF Staging!IInv, Staging!InTurn
  <2> QED
    BY <2>1, <2>3 DEF Staging!IInv, Staging!Collected
<1> QED
  BY <1>1, StagingInductive, PTL

(***************************************************************************)
(* UnitTestEngine: any files, cap and number of attempts                   *)
(***************************************************************************)

\* The walk is well defined: after n files it has found what the one before had and, below
\* the cap, a file that is there.
LEMMA FoundIsDefined ==
    ASSUME NEW n \in 0 .. Len(SourceFiles)
    PROVE  Unit!Found[n] = IF n = 0 THEN <<>>
                           ELSE IF tree[SourceFiles[n]] # "absent" /\ Len(Unit!Found[n - 1]) < Cap
                                THEN Append(Unit!Found[n - 1], SourceFiles[n])
                                ELSE Unit!Found[n - 1]
<1> DEFINE L == Len(SourceFiles)
           Next0(g, i) == IF i = 0 THEN <<>>
                          ELSE IF tree[SourceFiles[i]] # "absent" /\ Len(g[i - 1]) < Cap
                               THEN Append(g[i - 1], SourceFiles[i])
                               ELSE g[i - 1]
           Walks(m, g) == g = [i \in 0 .. m |-> Next0(g, i)]
           Bad == {m \in 0 .. L : \A g : ~Walks(m, g)}
<1>1. L \in Nat
  BY GenerationAssumption DEF Unit!UnitAssumption
<1> HIDE DEF L, Next0, Walks, Bad
<1>2. \A m \in 0 .. L : \E g : Walks(m, g)
  <2> SUFFICES ASSUME Bad # {} PROVE FALSE
    BY DEF Bad
  <2>1. Bad \subseteq Nat
    BY <1>1 DEF Bad
  <2>2. PICK m \in Bad : \A k \in Bad : m <= k
    BY <2>1, LeastNat
  <2>3. m \in 0 .. L /\ m \in Nat /\ \A g : ~Walks(m, g)
    BY <1>1, <2>1, <2>2 DEF Bad
  <2>4. CASE m = 0
    <3> DEFINE h == [i \in 0 .. 0 |-> <<>>]
    <3>1. \A i \in 0 .. 0 : Next0(h, i) = <<>>
      BY DEF Next0
    <3>2. h = [i \in 0 .. 0 |-> Next0(h, i)]
      BY <3>1
    <3> QED
      BY <2>3, <2>4, <3>2 DEF Walks
  <2>5. CASE m # 0
    <3>1. m - 1 \in 0 .. L /\ m - 1 \notin Bad
      BY <1>1, <2>2, <2>3, <2>5
    <3>2. PICK g : Walks(m - 1, g)
      BY <3>1 DEF Bad
    <3>3. \A i \in 0 .. (m - 1) : g[i] = Next0(g, i)
      BY <3>2 DEF Walks
    <3> DEFINE h == [i \in 0 .. m |-> IF i = m THEN Next0(g, i) ELSE g[i]]
    <3>4. \A i \in 0 .. (m - 1) : h[i] = g[i]
      BY <2>3
    <3>5. h[m] = Next0(g, m)
      BY <2>3
    <3> HIDE DEF h
    <3>6. \A i \in 0 .. m : Next0(h, i) = Next0(g, i)
      <4> SUFFICES ASSUME NEW i \in 0 .. m, i # 0 PROVE h[i - 1] = g[i - 1]
        BY DEF Next0
      <4>1. i - 1 \in 0 .. (m - 1)
        BY <2>3
      <4> QED
        BY <3>4, <4>1
    <3>7. \A i \in 0 .. m : h[i] = Next0(h, i)
      <4> SUFFICES ASSUME NEW i \in 0 .. m PROVE h[i] = Next0(g, i)
        BY <3>6
      <4>1. i = m \/ i \in 0 .. (m - 1)
        BY <2>3
      <4> QED
        BY <3>3, <3>4, <3>5, <4>1
    <3>8. h = [i \in 0 .. m |-> h[i]]
      BY DEF h
    <3>9. Walks(m, h)
      BY <3>7, <3>8 DEF Walks
    <3> QED
      BY <2>3, <3>9
  <2> QED
    BY <2>4, <2>5
<1>3. PICK g : Walks(L, g)
  BY <1>1, <1>2
<1>4. Unit!Found = CHOOSE g0 : Walks(L, g0)
  BY DEF Unit!Found, L, Walks, Next0
<1>5. Walks(L, Unit!Found)
  BY <1>3, <1>4
<1>6. Unit!Found[n] = Next0(Unit!Found, n)
  BY <1>5 DEF Walks, L
<1> QED
  BY <1>6 DEF Next0

\* What the walk finds are source files, and at most Cap of them.
LEMMA FoundIsCapped ==
    \A n \in 0 .. Len(SourceFiles) :
      Unit!Found[n] \in Seq(Unit!Sources) /\ Len(Unit!Found[n]) <= Cap
<1> DEFINE Good(n) == Unit!Found[n] \in Seq(Unit!Sources) /\ Len(Unit!Found[n]) <= Cap
           Bad == {n \in 0 .. Len(SourceFiles) : ~Good(n)}
<1>1. /\ SourceFiles \in Seq(Unit!Sources) /\ Len(SourceFiles) \in Nat /\ Cap \in Nat
      /\ \A i \in 1 .. Len(SourceFiles) : SourceFiles[i] \in Unit!Sources
  BY GenerationAssumption DEF Unit!UnitAssumption
<1> SUFFICES ASSUME Bad # {} PROVE FALSE
  OBVIOUS
<1> HIDE DEF Good
<1>2. Bad \subseteq Nat
  BY <1>1
<1>3. PICK n \in Bad : \A k \in Bad : n <= k
  BY <1>2, LeastNat
<1>4. n \in 0 .. Len(SourceFiles) /\ ~Good(n)
  OBVIOUS
<1>5. CASE n = 0
  <2>1. Unit!Found[0] = <<>>
    BY <1>4, <1>5, FoundIsDefined
  <2>2. <<>> \in Seq(Unit!Sources) /\ Len(<<>>) = 0
    OBVIOUS
  <2> QED
    BY <1>1, <1>4, <1>5, <2>1, <2>2 DEF Good
<1>6. CASE n # 0
  <2>1. n - 1 \in 0 .. Len(SourceFiles) /\ n - 1 \notin Bad /\ n \in 1 .. Len(SourceFiles)
    BY <1>1, <1>2, <1>3, <1>4, <1>6
  <2>2. Good(n - 1)
    BY <2>1
  <2> DEFINE s == Unit!Found[n - 1]
             x == SourceFiles[n]
  <2>3. s \in Seq(Unit!Sources) /\ Len(s) <= Cap /\ x \in Unit!Sources
    BY <1>1, <2>1, <2>2 DEF Good
  <2>4. Unit!Found[n] = s \/ (Unit!Found[n] = Append(s, x) /\ Len(s) < Cap)
    BY <1>4, <1>6, FoundIsDefined
  <2>5. Append(s, x) \in Seq(Unit!Sources) /\ (Len(s) < Cap => Len(Append(s, x)) <= Cap)
    <3> HIDE DEF s, x
    <3> QED
      BY <1>1, <2>3
  <2> QED
    BY <1>4, <2>3, <2>4, <2>5 DEF Good
<1> QED
  BY <1>5, <1>6

LEMMA DiscoveredFiles ==
    ASSUME NEW t \in Unit!Targets
    PROVE  /\ Unit!DiscoverSourceFiles(t) \in Seq(Unit!Sources)
           /\ Len(Unit!DiscoverSourceFiles(t)) <= Cap
<1>1. Len(SourceFiles) \in 0 .. Len(SourceFiles) /\ Cap \in Nat \ {0}
  BY GenerationAssumption DEF Unit!UnitAssumption
<1>2. CASE t = Unit!Directory
  BY <1>1, <1>2, FoundIsCapped DEF Unit!DiscoverSourceFiles
<1>3. CASE t # Unit!Directory
  BY <1>1, <1>3 DEF Unit!DiscoverSourceFiles, Unit!Targets
<1> QED
  BY <1>2, <1>3

\* A checkout nobody has generated tests in.
LEMMA UnitStart == Unit!UnitInit => Unit!UnitInv
<1> SUFFICES ASSUME Unit!UnitInit PROVE Unit!UnitInv
  OBVIOUS
<1>1. Unit!UnitTypeOK
  <2> USE DEF Unit!UnitInit
  <2>1. tree \in [Unit!Sources -> {"absent", "plain", "functions"}] /\ edits \in Nat
        /\ jest \in {"none", "own", "alone", "presets"} /\ babel \in BOOLEAN
    OBVIOUS
  <2>2. disk \in [Unit!Gens -> [Unit!Sources -> Nat]]
    OBVIOUS
  <2>3. Unit!NoReport \in [run : Nat, names : SUBSET Unit!Sources]
    BY DEF Unit!NoReport
  <2>4. report \in [Unit!Gens -> [Unit!Targets -> [run : Nat, names : SUBSET Unit!Sources]]]
    BY <2>3
  <2>5. gen \in Unit!Gens /\ target \in Unit!Targets
    BY DEF Unit!Gens, Unit!Targets
  <2>6. /\ clock \in Nat /\ byName \in BOOLEAN /\ pc = "idle" /\ attempt \in Nat /\ calls \in Nat
        /\ written \subseteq Unit!Sources /\ cancelled \in BOOLEAN
    OBVIOUS
  <2>7. todo \in Seq(Unit!Sources)
    OBVIOUS
  <2> HIDE DEF Unit!UnitInit
  <2> QED
    BY <2>1, <2>2, <2>4, <2>5, <2>6, <2>7 DEF Unit!UnitTypeOK
<1>2. Unit!OutputSoFar /\ Unit!FreshOutput
  BY DEF Unit!UnitInit, Unit!OutputSoFar, Unit!FreshOutput, Unit!NoReport, Unit!Targets
<1>3. MaxAttempts * Cap \in Nat
  BY GenerationAssumption DEF Unit!UnitAssumption
<1>4. Unit!BillSoFar /\ Unit!BillIsBounded
  BY <1>3 DEF Unit!UnitInit, Unit!BillSoFar, Unit!BillIsBounded
<1> QED
  BY <1>1, <1>2, <1>4 DEF Unit!UnitInv

\* A run is told what to do: nothing of it is there yet, and the files it finds can be paid for.
LEMMA BeginKeeps ==
    ASSUME Unit!UnitInv, NEW g \in Unit!Gens, NEW t \in Unit!Targets, NEW function \in BOOLEAN,
           Unit!Begin(g, t, function)
    PROVE  Unit!UnitInv'
<1> DEFINE found == Unit!DiscoverSourceFiles(t)
<1>1. /\ clock' = clock + 1 /\ gen' = g /\ target' = t /\ byName' = function
      /\ calls' = 0 /\ attempt' = 0 /\ written' = {} /\ cancelled' = FALSE
      /\ (pc' = "idle" /\ todo' = <<>>) \/ (pc' = "clear" /\ todo' = found)
      /\ UNCHANGED <<tree, edits, jest, babel, disk, report>>
  BY DEF Unit!Begin, Unit!checkout
<1>2. found \in Seq(Unit!Sources) /\ Len(found) <= Cap /\ Len(found) \in Nat
  BY DiscoveredFiles DEF Unit!Targets
<1> HIDE DEF found
<1>3. Unit!UnitTypeOK'
  <2>1. todo' \in Seq(Unit!Sources)
    <3>1. <<>> \in Seq(Unit!Sources)
      OBVIOUS
    <3> QED
      BY <1>1, <1>2, <3>1
  <2>2. Unit!UnitTypeOK
    BY DEF Unit!UnitInv
  <2>3. /\ clock' \in Nat /\ calls' \in Nat /\ attempt' \in Nat
        /\ written' \subseteq Unit!Sources /\ cancelled' \in BOOLEAN
        /\ pc' \in {"idle", "clear"}
    <3>1. clock \in Nat
      BY <2>2 DEF Unit!UnitTypeOK
    <3>2. clock' \in Nat /\ calls' \in Nat /\ attempt' \in Nat /\ written' \subseteq Unit!Sources
      BY <1>1, <3>1
    <3>3. cancelled' \in BOOLEAN
      BY <1>1
    <3>4. pc' \in {"idle", "clear"}
      BY <1>1
    <3> QED
      BY <3>2, <3>3, <3>4
  <2> QED
    BY <1>1, <2>1, <2>2, <2>3 DEF Unit!UnitTypeOK
<1>4. Unit!OutputSoFar'
  <2>1. Unit!Directory \in Unit!Targets
    BY DEF Unit!Targets
  <2> QED
    BY <1>1, <2>1 DEF Unit!UnitInv, Unit!UnitTypeOK, Unit!OutputSoFar
<1>5. Unit!FreshOutput'
  BY <1>1 DEF Unit!UnitInv, Unit!FreshOutput
<1>6. MaxAttempts \in Nat /\ Cap \in Nat
  BY GenerationAssumption DEF Unit!UnitAssumption
<1>7. MaxAttempts * Len(found) <= MaxAttempts * Cap /\ MaxAttempts * Cap \in Nat
  BY <1>2, <1>6
<1>8. Unit!BillSoFar' /\ Unit!BillIsBounded'
  <2>1. calls' = 0 /\ (pc' = "idle" \/ (pc' = "clear" /\ todo' = found))
    BY <1>1
  <2>2. MaxAttempts * Len(found) \in Nat
    BY <1>2, <1>6
  <2>3. Unit!BillIsBounded'
    BY <1>7, <2>1 DEF Unit!BillIsBounded
  <2>4. pc' = "clear" => calls' + MaxAttempts * Len(todo') <= MaxAttempts * Cap
    BY <1>7, <2>1, <2>2
  <2> QED
    BY <2>1, <2>3, <2>4 DEF Unit!BillSoFar
<1> QED
  BY <1>3, <1>4, <1>5, <1>8 DEF Unit!UnitInv

\* What was under the directory goes, with every report on it.
LEMMA ClearKeeps ==
    ASSUME Unit!UnitInv, Unit!Clear
    PROVE  Unit!UnitInv'
<1> USE DEF Unit!Clear, Unit!checkout, Unit!run
<1>1. Unit!UnitTypeOK'
  BY DEF Unit!UnitInv, Unit!UnitTypeOK, Unit!NoReport
<1>2. \A g \in Unit!Gens : /\ report'[g][Unit!Directory] \in {report[g][Unit!Directory], Unit!NoReport}
                           /\ disk'[g] # disk[g] =>
                                /\ disk'[g] = [f \in Unit!Sources |-> 0]
                                /\ report'[g][Unit!Directory] = Unit!NoReport
  BY DEF Unit!UnitInv, Unit!UnitTypeOK, Unit!Targets
<1>3. target = Unit!Directory => disk'[gen] = [f \in Unit!Sources |-> 0]
  BY DEF Unit!UnitInv, Unit!UnitTypeOK
<1>4. Unit!OutputSoFar'
  <2>1. ASSUME NEW g \in Unit!Gens
        PROVE  /\ \A f \in Unit!Sources : disk'[g][f] <= clock
               /\ report'[g][Unit!Directory].run <= clock
    <3>1. clock \in Nat /\ \A f \in Unit!Sources : disk[g][f] <= clock
      BY DEF Unit!UnitInv, Unit!UnitTypeOK, Unit!OutputSoFar
    <3>2. \A f \in Unit!Sources : disk'[g][f] = disk[g][f] \/ disk'[g][f] = 0
      BY <1>2
    <3>3. report[g][Unit!Directory].run <= clock
      BY DEF Unit!UnitInv, Unit!OutputSoFar
    <3>4. Unit!NoReport.run <= clock
      <4>1. Unit!NoReport.run = 0
        BY DEF Unit!NoReport
      <4> QED
        BY <3>1, <4>1
    <3> QED
      BY <1>2, <3>1, <3>2, <3>3, <3>4
  <2>2. written' = {} /\ clock' = clock /\ target' = target /\ gen' = gen /\ pc' = "next"
    BY DEF Unit!UnitInv, Unit!OutputSoFar
  <2>3. target = Unit!Directory => \A f \in Unit!Sources : disk'[gen][f] = 0
    BY <1>3
  <2> HIDE DEF Unit!Clear
  <2> QED
    BY <2>1, <2>2, <2>3 DEF Unit!OutputSoFar
<1>5. Unit!FreshOutput'
  <2> SUFFICES ASSUME NEW g \in Unit!Gens, report'[g][Unit!Directory].run > 0,
                      NEW f \in Unit!Sources
               PROVE  /\ f \in report'[g][Unit!Directory].names =>
                           disk'[g][f] >= report'[g][Unit!Directory].run
                      /\ disk'[g][f] # 0 => disk'[g][f] >= report'[g][Unit!Directory].run
    BY DEF Unit!FreshOutput
  <2>1. report'[g][Unit!Directory] = report[g][Unit!Directory] /\ disk'[g] = disk[g]
    BY <1>2 DEF Unit!NoReport
  <2> QED
    BY <2>1 DEF Unit!UnitInv, Unit!FreshOutput
<1>6. Unit!BillSoFar' /\ Unit!BillIsBounded'
  BY DEF Unit!UnitInv, Unit!BillSoFar, Unit!BillIsBounded
<1> QED
  BY <1>1, <1>4, <1>5, <1>6 DEF Unit!UnitInv

\* One file less costs MaxAttempts calls less.
LEMMA TailCosts ==
    ASSUME Unit!UnitTypeOK, todo # <<>>
    PROVE  /\ Tail(todo) \in Seq(Unit!Sources) /\ todo[1] \in Unit!Sources
           /\ MaxAttempts * Len(Tail(todo)) = MaxAttempts * Len(todo) - MaxAttempts
           /\ MaxAttempts * Len(todo) >= MaxAttempts
           /\ MaxAttempts * Len(todo) \in Nat /\ MaxAttempts * Cap \in Nat /\ MaxAttempts \in Nat \ {0}
<1>1. MaxAttempts \in Nat \ {0} /\ Cap \in Nat /\ todo \in Seq(Unit!Sources)
  BY GenerationAssumption DEF Unit!UnitAssumption, Unit!UnitTypeOK
<1>2. Len(todo) \in Nat \ {0} /\ Tail(todo) \in Seq(Unit!Sources) /\ todo[1] \in Unit!Sources
      /\ Len(Tail(todo)) = Len(todo) - 1
  BY <1>1
<1> DEFINE m == Len(todo)
<1> HIDE DEF m
<1>3. MaxAttempts * (m - 1) = MaxAttempts * m - MaxAttempts /\ MaxAttempts * m >= MaxAttempts
      /\ MaxAttempts * m \in Nat
  BY <1>1, <1>2 DEF m
<1> QED
  BY <1>1, <1>2, <1>3 DEF m

\* A file is skipped, given up with the run, or asked for.
LEMMA NextFileKeeps ==
    ASSUME Unit!UnitInv, Unit!NextFile
    PROVE  Unit!UnitInv'
<1> USE DEF Unit!checkout, Unit!run
<1>1. /\ pc = "next"
      /\ UNCHANGED <<tree, edits, jest, babel, disk, report, clock, gen, target, byName, written,
                     cancelled>>
      /\ \/ pc' = "jest" /\ UNCHANGED <<todo, attempt, calls>>
         \/ todo # <<>> /\ pc' = "idle" /\ UNCHANGED <<todo, attempt, calls>>
         \/ todo # <<>> /\ pc' = "next" /\ todo' = Tail(todo) /\ UNCHANGED <<attempt, calls>>
         \/ todo # <<>> /\ pc' = "generate" /\ attempt' = 1 /\ todo' = todo
            /\ calls' \in {calls, calls + 1}
  BY DEF Unit!NextFile, Unit!Extracted
<1>2. Unit!UnitTypeOK'
  <2>1. Unit!UnitTypeOK
    BY DEF Unit!UnitInv
  <2>2. todo' \in Seq(Unit!Sources)
    <3>1. todo \in Seq(Unit!Sources)
      BY <2>1 DEF Unit!UnitTypeOK
    <3>2. todo # <<>> => Tail(todo) \in Seq(Unit!Sources)
      BY <2>1, TailCosts
    <3> QED
      BY <1>1, <3>1, <3>2
  <2>3. calls' \in Nat /\ attempt' \in Nat
    BY <1>1, <2>1 DEF Unit!UnitTypeOK
  <2>4. pc' \in {"idle", "next", "generate", "jest"}
    BY <1>1
  <2> QED
    BY <1>1, <2>1, <2>2, <2>3, <2>4 DEF Unit!UnitTypeOK
<1>3. Unit!OutputSoFar' /\ Unit!FreshOutput'
  BY <1>1 DEF Unit!UnitInv, Unit!OutputSoFar, Unit!FreshOutput
<1>4. calls + MaxAttempts * Len(todo) <= MaxAttempts * Cap /\ calls \in Nat /\ calls <= MaxAttempts * Cap
  BY <1>1 DEF Unit!UnitInv, Unit!BillSoFar, Unit!UnitTypeOK, Unit!BillIsBounded
<1>5. Unit!BillSoFar' /\ Unit!BillIsBounded'
  <2> USE DEF Unit!BillSoFar, Unit!BillIsBounded
  <2>1. CASE pc' \in {"jest", "idle"} /\ calls' = calls
    BY <1>4, <2>1
  <2>2. CASE todo # <<>> /\ pc' = "next" /\ todo' = Tail(todo) /\ calls' = calls
    BY <1>4, <2>2, TailCosts DEF Unit!UnitInv
  <2>3. CASE todo # <<>> /\ pc' = "generate" /\ attempt' = 1 /\ todo' = todo
             /\ calls' \in {calls, calls + 1}
    BY <1>4, <2>3, TailCosts DEF Unit!UnitInv
  <2> QED
    BY <1>1, <2>1, <2>2, <2>3
<1> QED
  BY <1>2, <1>3, <1>5 DEF Unit!UnitInv

\* The model is asked again, or not any more; a test is written.
LEMMA AttemptKeeps ==
    ASSUME Unit!UnitInv, Unit!Retryable \/ Unit!Backoff \/ Unit!Fail
    PROVE  Unit!UnitInv'
<1> USE DEF Unit!checkout, Unit!run, Unit!Retryable, Unit!Backoff, Unit!Fail
<1>1. Unit!UnitTypeOK'
  BY DEF Unit!UnitInv, Unit!UnitTypeOK
<1>2. Unit!OutputSoFar' /\ Unit!FreshOutput'
  BY DEF Unit!UnitInv, Unit!OutputSoFar, Unit!FreshOutput
<1>3. Unit!BillSoFar' /\ Unit!BillIsBounded'
  <2>1. /\ calls + MaxAttempts * Len(todo) <= MaxAttempts * Cap + attempt /\ attempt <= MaxAttempts
        /\ todo # <<>> /\ calls \in Nat /\ attempt \in Nat
        /\ calls <= MaxAttempts * Cap /\ (pc = "backoff" => attempt < MaxAttempts)
    BY DEF Unit!UnitInv, Unit!BillSoFar, Unit!BillIsBounded, Unit!UnitTypeOK
  <2>2. CASE Unit!Retryable
    BY <2>1, <2>2, TailCosts DEF Unit!UnitInv, Unit!BillSoFar, Unit!BillIsBounded
  <2>3. CASE Unit!Backoff
    BY <2>1, <2>3, TailCosts DEF Unit!UnitInv, Unit!BillSoFar, Unit!BillIsBounded
  <2>4. CASE Unit!Fail
    BY <2>1, <2>4, TailCosts DEF Unit!UnitInv, Unit!BillSoFar, Unit!BillIsBounded
  <2> QED
    BY <2>2, <2>3, <2>4
<1> QED
  BY <1>1, <1>2, <1>3 DEF Unit!UnitInv

LEMMA WriteKeeps ==
    ASSUME Unit!UnitInv, Unit!Write
    PROVE  Unit!UnitInv'
<1> USE DEF Unit!checkout, Unit!run
<1> DEFINE x == todo[1]
<1>1. /\ pc = "generate" /\ pc' = "next"
      /\ disk' = [disk EXCEPT ![gen][x] = clock]
      /\ written' = written \union {x} /\ todo' = Tail(todo)
      /\ UNCHANGED <<tree, edits, jest, babel, report, clock, gen, target, byName, attempt, calls,
                     cancelled>>
  BY DEF Unit!Write
<1>2. todo # <<>> /\ x \in Unit!Sources /\ Tail(todo) \in Seq(Unit!Sources)
  BY <1>1, TailCosts DEF Unit!UnitInv, Unit!BillSoFar
<1> HIDE DEF x
<1>3. \A g \in Unit!Gens, f \in Unit!Sources :
        disk'[g][f] = IF g = gen /\ f = x THEN clock ELSE disk[g][f]
  BY <1>1 DEF Unit!UnitInv, Unit!UnitTypeOK
<1>4. Unit!UnitTypeOK'
  BY <1>1, <1>2 DEF Unit!UnitInv, Unit!UnitTypeOK
<1>5. Unit!OutputSoFar'
  BY <1>1, <1>3 DEF Unit!UnitInv, Unit!UnitTypeOK, Unit!OutputSoFar
<1>6. Unit!FreshOutput'
  <2>1. Unit!Directory \in Unit!Targets
    BY DEF Unit!Targets
  <2> QED
    BY <1>1, <1>3, <2>1 DEF Unit!UnitInv, Unit!UnitTypeOK, Unit!OutputSoFar, Unit!FreshOutput
<1>7. Unit!BillSoFar' /\ Unit!BillIsBounded'
  <2>1. /\ calls + MaxAttempts * Len(todo) <= MaxAttempts * Cap + attempt /\ attempt <= MaxAttempts
        /\ calls \in Nat /\ attempt \in Nat /\ calls <= MaxAttempts * Cap
    BY <1>1 DEF Unit!UnitInv, Unit!BillSoFar, Unit!BillIsBounded, Unit!UnitTypeOK
  <2> QED
    BY <1>1, <1>2, <2>1, TailCosts DEF Unit!UnitInv, Unit!BillSoFar, Unit!BillIsBounded
<1> QED
  BY <1>4, <1>5, <1>6, <1>7 DEF Unit!UnitInv

\* The report of a run over the directory names what that run wrote, and nothing else is there.
LEMMA ReportKeeps ==
    ASSUME Unit!UnitInv, Unit!Report
    PROVE  Unit!UnitInv'
<1> USE DEF Unit!checkout, Unit!run, Unit!Report
<1>1. Unit!UnitTypeOK'
  BY DEF Unit!UnitInv, Unit!UnitTypeOK
<1>2. Unit!BillSoFar' /\ Unit!BillIsBounded'
  BY DEF Unit!UnitInv, Unit!BillSoFar, Unit!BillIsBounded
<1>3. Unit!Directory \in Unit!Targets
  BY DEF Unit!Targets
<1>4. \A g \in Unit!Gens :
        \/ report'[g][Unit!Directory] = report[g][Unit!Directory]
        \/ /\ g = gen /\ target = Unit!Directory
           /\ report'[g][Unit!Directory] = [run |-> clock, names |-> written]
  BY <1>3 DEF Unit!UnitInv, Unit!UnitTypeOK
<1>5. Unit!OutputSoFar'
  BY <1>4 DEF Unit!UnitInv, Unit!UnitTypeOK, Unit!OutputSoFar
<1>6. Unit!FreshOutput'
  <2> SUFFICES ASSUME NEW g \in Unit!Gens, report'[g][Unit!Directory].run > 0, NEW f \in Unit!Sources
               PROVE  /\ f \in report'[g][Unit!Directory].names =>
                           disk[g][f] >= report'[g][Unit!Directory].run
                      /\ disk[g][f] # 0 => disk[g][f] >= report'[g][Unit!Directory].run
    BY DEF Unit!FreshOutput
  <2>1. CASE report'[g][Unit!Directory] = report[g][Unit!Directory]
    BY <2>1 DEF Unit!UnitInv, Unit!FreshOutput
  <2>2. CASE /\ g = gen /\ target = Unit!Directory
             /\ report'[g][Unit!Directory] = [run |-> clock, names |-> written]
    BY <2>2 DEF Unit!UnitInv, Unit!UnitTypeOK, Unit!OutputSoFar
  <2> QED
    BY <1>4, <2>1, <2>2
<1> QED
  BY <1>1, <1>2, <1>5, <1>6 DEF Unit!UnitInv

\* The developer, an abort, the end of the process, and jest touch neither files nor reports.
LEMMA UnitStep == Unit!UnitInv /\ [Unit!UnitNext]_(Unit!vars) => Unit!UnitInv'
<1> SUFFICES ASSUME Unit!UnitInv, [Unit!UnitNext]_(Unit!vars) PROVE Unit!UnitInv'
  OBVIOUS
<1> DEFINE Elsewhere == UNCHANGED <<disk, report, clock, gen, target, todo, attempt, calls, written>>
           Runs0 == {"jest", "install", "config", "run", "report"}
<1>1. ASSUME Elsewhere, Unit!UnitTypeOK',
             pc' = pc \/ pc' = "idle" \/ (pc \in Runs0 /\ pc' \in Runs0)
      PROVE  Unit!UnitInv'
  BY <1>1 DEF Unit!UnitInv, Unit!OutputSoFar, Unit!FreshOutput, Unit!BillSoFar, Unit!BillIsBounded
<1> USE DEF Unit!checkout, Unit!run
<1>2. ASSUME NEW f \in Unit!Sources, NEW now \in {"absent", "plain", "functions"}, Unit!Edit(f, now)
      PROVE  Unit!UnitInv'
  BY <1>1, <1>2 DEF Unit!Edit, Unit!UnitInv, Unit!UnitTypeOK
<1>3. CASE Unit!Abort \/ Unit!Dies \/ Unit!StartJest \/ Unit!WriteBabelConfig
  <2>1. CASE Unit!Abort
    BY <1>1, <2>1 DEF Unit!Abort, Unit!UnitInv, Unit!UnitTypeOK
  <2>2. CASE Unit!Dies
    BY <1>1, <2>2 DEF Unit!Dies, Unit!UnitInv, Unit!UnitTypeOK
  <2>3. CASE Unit!StartJest
    BY <1>1, <2>3 DEF Unit!StartJest, Unit!UnitInv, Unit!UnitTypeOK
  <2>4. CASE Unit!WriteBabelConfig
    BY <1>1, <2>4 DEF Unit!WriteBabelConfig, Unit!UnitInv, Unit!UnitTypeOK
  <2> QED
    BY <1>3, <2>1, <2>2, <2>3, <2>4
<1>4. ASSUME NEW o \in {"resolvable", "elsewhere", "fails"}, Unit!Install(o)
      PROVE  Unit!UnitInv'
  BY <1>1, <1>4 DEF Unit!Install, Unit!UnitInv, Unit!UnitTypeOK
<1>5. ASSUME NEW loaded \in SUBSET Unit!Sources, Unit!RunJest(loaded)
      PROVE  Unit!UnitInv'
  BY <1>1, <1>5 DEF Unit!RunJest, Unit!UnitInv, Unit!UnitTypeOK
<1>6. CASE UNCHANGED Unit!vars
  BY <1>1, <1>6 DEF Unit!vars, Unit!UnitInv, Unit!UnitTypeOK
<1> QED
  BY <1>2, <1>3, <1>4, <1>5, <1>6, BeginKeeps, ClearKeeps, NextFileKeeps, AttemptKeeps, WriteKeeps,
     ReportKeeps
  DEF Unit!UnitNext

LEMMA UnitInductive == Unit!UnitSpec => []Unit!UnitInv
  BY UnitStart, UnitStep, PTL DEF Unit!UnitSpec

\* Under a directory with a report there is nothing from before that run, and everything it names:
\* for any files and any number of runs, aborted, failed or killed anywhere.
THEOREM OutputIsFresh == Unit!UnitSpec => []FreshOutput
<1>1. Unit!UnitInv => FreshOutput
  BY DEF Unit!UnitInv, FreshOutput
<1> QED
  BY <1>1, UnitInductive, PTL

\* Whatever the model answers, a run calls it at most MaxAttempts times for at most Cap files.
THEOREM BillStaysBounded == Unit!UnitSpec => []Unit!BillIsBounded
<1>1. Unit!UnitInv => Unit!BillIsBounded
  BY DEF Unit!UnitInv
<1> QED
  BY <1>1, UnitInductive, PTL

(***************************************************************************)
(* ExportedFunctions: any files of either language. What the walk over the *)
(* statements finds, and what a plain file makes of it                     *)
(***************************************************************************)


\* What a statement of a file of either language is made of.
LEMMA Statements ==
    ASSUME Extract!TypeOK, NEW i \in 1 .. Len(source)
    PROVE  LET s == source[i] IN
           /\ s.kind \in {"function", "variable", "list", "default", "property", "module", "object"}
           /\ Extract!Declares(s) => s.name \in Names /\ s.modifiers \subseteq {"export", "default"}
           /\ Extract!Declares(s) /\ "default" \in s.modifiers =>
                 s.kind = "function" /\ "export" \in s.modifiers
           /\ Extract!Declares(s) /\ "default" \notin s.modifiers /\ "export" \in s.modifiers =>
                 s.modifiers = {"export"}
           /\ s.kind \in {"property", "object"} =>
                 /\ DOMAIN Extract!PropertiesOf(s) \subseteq Names
                 /\ \A n \in DOMAIN Extract!PropertiesOf(s) :
                      Extract!PropertiesOf(s)[n] \in Names \union {Extract!Callable, Extract!Unread}
           /\ s.kind = "module" => s.right \in Names \union {Extract!Callable}
<1> DEFINE s == source[i]
<1>1. s \in Extract!EsModule \union Extract!CommonJs
  BY DEF Extract!TypeOK
<1>2. CASE \E m : s \in Extract!FunctionDeclarations({m}) /\ m \in {{}, {"export"}, {"export", "default"}}
  BY <1>2 DEF Extract!FunctionDeclarations, Extract!Declares
<1>3. CASE \E m : s \in Extract!VariableStatements({m}) /\ m \in {{}, {"export"}}
  BY <1>3 DEF Extract!VariableStatements, Extract!Declares
<1>7. CASE s \in Extract!ExportLists \union Extract!ExportAssignments
  BY <1>7 DEF Extract!ExportLists, Extract!ExportAssignments, Extract!Declares
<1>4. CASE s \in Extract!PropertyAssignments
  BY <1>4 DEF Extract!PropertyAssignments, Extract!Declares, Extract!PropertiesOf
<1>5. CASE s \in Extract!ModuleAssignments
  BY <1>5 DEF Extract!ModuleAssignments, Extract!Declares
<1>6. CASE s \in Extract!ObjectLiterals
  <2>1. PICK keys \in SUBSET Names :
           s \in [kind : {"object"},
                  properties : [keys -> Names \union {Extract!Callable, Extract!Unread}]]
    BY <1>6 DEF Extract!ObjectLiterals
  <2> QED
    BY <2>1 DEF Extract!Declares, Extract!PropertiesOf
<1> QED
  <2>1. s \in Extract!EsModule => (\E m : s \in Extract!FunctionDeclarations({m}) /\ m \in {{}, {"export"}, {"export", "default"}})
                             \/ (\E m : s \in Extract!VariableStatements({m}) /\ m \in {{}, {"export"}})
                             \/ s \in Extract!ExportLists \union Extract!ExportAssignments
    BY DEF Extract!EsModule, Extract!FunctionDeclarations, Extract!VariableStatements
  <2>2. s \in Extract!CommonJs => \/ s \in Extract!FunctionDeclarations({{}}) \/ s \in Extract!VariableStatements({{}})
                             \/ s \in Extract!PropertyAssignments \/ s \in Extract!ModuleAssignments
                             \/ s \in Extract!ObjectLiterals
    BY DEF Extract!CommonJs
  <2> QED
    BY <1>1, <1>2, <1>3, <1>4, <1>5, <1>6, <1>7, <2>1, <2>2

\* an identifier is none of the other expressions
LEMMA Expressions == /\ Extract!Callable \notin Names /\ Extract!Unread \notin Names
                     /\ Extract!Callable # Extract!Unread
<1>1. {Extract!Callable, Extract!Unread} \intersect Names = {}
  BY IdentifiersAssumption DEF Extract!NamesAssumption
<1>2. Extract!Callable # Extract!Unread
  BY DEF Extract!Callable, Extract!Unread
<1> QED
  BY <1>1, <1>2

\* A file exports with the keyword or by assignments, never both.
LEMMA OneLanguage ==
    ASSUME Extract!TypeOK, NEW i \in 1 .. Len(source), NEW j \in 1 .. Len(source),
           Extract!Declares(source[i]), source[i].modifiers # {}
    PROVE  source[j].kind \notin {"property", "module", "object"}
<1>1. CASE source \in Seq(Extract!EsModule)
  BY <1>1 DEF Extract!EsModule, Extract!FunctionDeclarations, Extract!VariableStatements,
              Extract!ExportLists, Extract!ExportAssignments
<1>2. CASE source \in Seq(Extract!CommonJs)
  <2>1. source[i] \in Extract!CommonJs
    BY <1>2
  <2>2. source[i] \notin Extract!PropertyAssignments \union Extract!ModuleAssignments
    BY DEF Extract!PropertyAssignments, Extract!ModuleAssignments, Extract!Declares
  <2>3. source[i] \notin Extract!ObjectLiterals
    BY DEF Extract!ObjectLiterals, Extract!Declares
  <2> QED
    BY <2>1, <2>2, <2>3 DEF Extract!CommonJs, Extract!FunctionDeclarations, Extract!VariableStatements
<1> QED
  BY <1>1, <1>2 DEF Extract!TypeOK

\* The walk is well defined: the statements are visited one after the other.
LEMMA WalkVisitsEach ==
    ASSUME Len(source) \in Nat
    PROVE  /\ Extract!FoundBy[0] = Extract!NothingFound
           /\ \A n \in 1 .. Len(source) : Extract!FoundBy[n] = Extract!Visit(Extract!FoundBy[n - 1], n)
<1> DEFINE IsWalk(f, m) == f = [n \in 0 .. m |-> IF n = 0 THEN Extract!NothingFound
                                                         ELSE Extract!Visit(f[n - 1], n)]
           Bad == {m \in Nat : ~\E f : IsWalk(f, m)}
<1>1. \E f : IsWalk(f, 0)
  <2>1. IsWalk([n \in 0 .. 0 |-> Extract!NothingFound], 0)
    OBVIOUS
  <2> QED
    BY <2>1
<1>2. ASSUME NEW m \in Nat, \E f : IsWalk(f, m)
      PROVE  \E f : IsWalk(f, m + 1)
  <2>1. PICK f : IsWalk(f, m)
    BY <1>2
  <2> DEFINE g == [n \in 0 .. m + 1 |-> IF n <= m THEN f[n] ELSE Extract!Visit(f[m], m + 1)]
  <2>2. \A n \in 0 .. m + 1 : g[n] = IF n = 0 THEN Extract!NothingFound ELSE Extract!Visit(g[n - 1], n)
    <3> SUFFICES ASSUME NEW n \in 0 .. m + 1
                 PROVE  g[n] = IF n = 0 THEN Extract!NothingFound ELSE Extract!Visit(g[n - 1], n)
      OBVIOUS
    <3>1. CASE n = 0
      BY <2>1, <3>1
    <3>2. CASE n \in 1 .. m
      <4>1. g[n] = f[n] /\ g[n - 1] = f[n - 1]
        BY <3>2
      <4>2. f[n] = Extract!Visit(f[n - 1], n)
        BY <2>1, <3>2
      <4> QED
        BY <3>2, <4>1, <4>2
    <3>3. CASE n = m + 1
      <4>1. g[n] = Extract!Visit(f[m], n) /\ g[n - 1] = f[m]
        BY <3>3
      <4> QED
        BY <3>3, <4>1
    <3> QED
      BY <3>1, <3>2, <3>3
  <2>3. IsWalk(g, m + 1)
    BY <2>2
  <2> QED
    BY <2>3
<1>3. Bad = {}
  <2> SUFFICES ASSUME Bad # {} PROVE FALSE
    OBVIOUS
  <2>1. PICK n \in Bad : \A m \in Bad : n <= m
    BY LeastNat
  <2>2. n # 0
    BY <1>1
  <2>3. n - 1 \in Nat /\ n - 1 \notin Bad
    <3>1. n \in Nat
      OBVIOUS
    <3> HIDE DEF Bad
    <3> QED
      BY <2>1, <2>2, <3>1
  <2>4. \E f : IsWalk(f, n - 1)
    BY <2>3
  <2>5. \E f : IsWalk(f, (n - 1) + 1)
    BY <1>2, <2>3, <2>4
  <2>6. (n - 1) + 1 = n
    OBVIOUS
  <2> QED
    BY <2>5, <2>6
<1>4. \E f : IsWalk(f, Len(source))
  BY <1>3
<1>5. IsWalk(Extract!FoundBy, Len(source))
  <2> HIDE DEF IsWalk
  <2>1. Extract!FoundBy = CHOOSE f : IsWalk(f, Len(source))
    BY DEF Extract!FoundBy, IsWalk
  <2> QED
    BY <1>4, <2>1
<1> QED
  BY <1>5

\* What the visit of a statement changes in the two Maps and the Set.
WritesDown(found, next, n) ==
    /\ \A k : k \in DOMAIN next.locals <=> k \in DOMAIN found.locals \/ Extract!Writes(n, k)
    /\ \A k \in DOMAIN next.locals :
         next.locals[k] = IF Extract!Writes(n, k) THEN <<n, k>> ELSE found.locals[k]

ExportsUnder(found, next, n) ==
    /\ \A k : k \in DOMAIN next.exported <=>
                 k \in DOMAIN found.exported \/ \E local : Extract!Exports(n, k, local)
    /\ \A k \in DOMAIN next.exported :
         IF \E local : Extract!Exports(n, k, local) THEN Extract!Exports(n, k, next.exported[k])
                                                    ELSE next.exported[k] = found.exported[k]

ByStatement(found, next, n) ==
    /\ next = [locals |-> next.locals, exported |-> next.exported, defaults |-> next.defaults]
    /\ WritesDown(found, next, n) /\ ExportsUnder(found, next, n)
    /\ next.defaults = found.defaults \union {k \in Names : Extract!IsDefault(n, k)}
    /\ \A k, local : Extract!Writes(n, k) \/ Extract!Exports(n, k, local) => k \in Names

LEMMA PutUnder ==
    ASSUME NEW found, NEW next, NEW n, NEW new,
           next.exported = Extract!Put(found.exported, new),
           \A k : k \in DOMAIN new <=> \E local : Extract!Exports(n, k, local),
           \A k \in DOMAIN new : Extract!Exports(n, k, new[k])
    PROVE  ExportsUnder(found, next, n)
  BY DEF ExportsUnder, Extract!Put

LEMMA VisitAdds ==
    ASSUME Extract!TypeOK, NEW n \in 1 .. Len(source), NEW found,
           found = [locals |-> found.locals, exported |-> found.exported, defaults |-> found.defaults]
    PROVE  ByStatement(found, Extract!Visit(found, n), n)
<1> DEFINE s == source[n]
<1>1. CASE s.kind = "function"
  <2>1. s.name \in Names /\ s.modifiers \subseteq {"export", "default"}
        /\ ("default" \in s.modifiers => "export" \in s.modifiers)
    BY <1>1, Statements DEF Extract!Declares
  <2>2. Extract!Visit(found, n) = Extract!handleFunctionDeclaration(found, n)
    BY <1>1 DEF Extract!Visit
  <2>3. \A k : (Extract!Writes(n, k) <=> k = s.name) /\ (Extract!IsDefault(n, k) <=> k = s.name /\ "default" \in s.modifiers)
    BY <1>1, <2>1 DEF Extract!Writes, Extract!IsDefault
  <2>4. \A k, local : Extract!Exports(n, k, local) <=> k = s.name /\ local = k /\ "export" \in s.modifiers
    BY <1>1, <2>3 DEF Extract!Exports, Extract!Declares
  <2>5. CASE "export" \notin s.modifiers
    <3>1. Extract!Visit(found, n) =
            [locals |-> Extract!Put(found.locals, [k \in {s.name} |-> <<n, k>>]),
             exported |-> found.exported, defaults |-> found.defaults]
      BY <2>1, <2>2, <2>5 DEF Extract!handleFunctionDeclaration, Extract!Declare
    <3>2. WritesDown(found, Extract!Visit(found, n), n)
      BY <2>3, <3>1 DEF WritesDown, Extract!Put
    <3>3. ExportsUnder(found, Extract!Visit(found, n), n)
      BY <2>4, <2>5, <3>1 DEF ExportsUnder
    <3> QED
      BY <2>1, <2>3, <2>4, <2>5, <3>1, <3>2, <3>3 DEF ByStatement
  <2>6. CASE "export" \in s.modifiers
    <3>1. Extract!Visit(found, n) =
            [locals |-> Extract!Put(found.locals, [k \in {s.name} |-> <<n, k>>]),
             exported |-> Extract!Put(found.exported, [k \in {s.name} |-> k]),
             defaults |-> IF "default" \in s.modifiers THEN found.defaults \union {s.name} ELSE found.defaults]
      BY <2>1, <2>2, <2>6 DEF Extract!handleFunctionDeclaration, Extract!Declare, Extract!ExportItself,
         Extract!Export, Extract!Default
    <3>2. WritesDown(found, Extract!Visit(found, n), n)
      BY <2>3, <3>1 DEF WritesDown, Extract!Put
    <3>3. ExportsUnder(found, Extract!Visit(found, n), n)
      BY <2>4, <2>6, <3>1 DEF ExportsUnder, Extract!Put
    <3> QED
      BY <2>1, <2>3, <2>4, <2>6, <3>1, <3>2, <3>3 DEF ByStatement
  <2> QED
    BY <2>5, <2>6
<1>2. CASE s.kind = "variable"
  <2>1. s.name \in Names
    BY <1>2, Statements DEF Extract!Declares
  <2>2. Extract!Visit(found, n) = Extract!handleVariableStatement(found, n)
    BY <1>2 DEF Extract!Visit
  <2>3. \A k : (Extract!Writes(n, k) <=> k = s.name /\ Extract!callableIn(s.initializer)) /\ ~Extract!IsDefault(n, k)
    BY <1>2, <2>1 DEF Extract!Writes, Extract!IsDefault
  <2>4. \A k, local : Extract!Exports(n, k, local) <=>
           k = s.name /\ local = k /\ "export" \in s.modifiers /\ Extract!callableIn(s.initializer)
    BY <1>2, <2>3 DEF Extract!Exports, Extract!Declares
  <2>5. CASE ~Extract!callableIn(s.initializer)
    <3>1. Extract!Visit(found, n) = found
      BY <2>2, <2>5 DEF Extract!handleVariableStatement
    <3> QED
      BY <2>3, <2>4, <2>5, <3>1 DEF ByStatement, WritesDown, ExportsUnder
  <2>6. CASE Extract!callableIn(s.initializer) /\ "export" \notin s.modifiers
    <3>1. Extract!Visit(found, n) =
            [locals |-> Extract!Put(found.locals, [k \in {s.name} |-> <<n, k>>]),
             exported |-> found.exported, defaults |-> found.defaults]
      BY <2>1, <2>2, <2>6 DEF Extract!handleVariableStatement, Extract!Declare
    <3>2. WritesDown(found, Extract!Visit(found, n), n)
      BY <2>3, <2>6, <3>1 DEF WritesDown, Extract!Put
    <3>3. ExportsUnder(found, Extract!Visit(found, n), n)
      BY <2>4, <2>6, <3>1 DEF ExportsUnder
    <3> QED
      BY <2>1, <2>3, <2>4, <2>6, <3>1, <3>2, <3>3 DEF ByStatement
  <2>7. CASE Extract!callableIn(s.initializer) /\ "export" \in s.modifiers
    <3>1. Extract!Visit(found, n) =
            [locals |-> Extract!Put(found.locals, [k \in {s.name} |-> <<n, k>>]),
             exported |-> Extract!Put(found.exported, [k \in {s.name} |-> k]),
             defaults |-> found.defaults]
      BY <2>1, <2>2, <2>7 DEF Extract!handleVariableStatement, Extract!Declare, Extract!ExportItself,
         Extract!Export
    <3>2. WritesDown(found, Extract!Visit(found, n), n)
      BY <2>3, <2>7, <3>1 DEF WritesDown, Extract!Put
    <3>3. ExportsUnder(found, Extract!Visit(found, n), n)
      BY <2>4, <2>7, <3>1 DEF ExportsUnder, Extract!Put
    <3> QED
      BY <2>1, <2>3, <2>4, <2>7, <3>1, <3>2, <3>3 DEF ByStatement
  <2> QED
    BY <2>5, <2>6, <2>7
<1>3. CASE s.kind \in {"property", "object"}
  <2> DEFINE properties == Extract!PropertiesOf(s)
             callables == {k \in DOMAIN properties : Extract!callableIn(properties[k])}
             taken == {k \in DOMAIN properties : properties[k] # Extract!Unread}
  <2>1. DOMAIN properties \subseteq Names
    BY <1>3, Statements
  <2>2. Extract!Visit(found, n) = Extract!ExportProperties(found, properties, n)
    BY <1>3 DEF Extract!Visit, Extract!handleCommonJsAssignment, Extract!handleModuleExportsObjectLiteral,
       Extract!PropertiesOf
  <2>3. \A k : (Extract!Writes(n, k) <=> k \in callables) /\ ~Extract!IsDefault(n, k)
    BY <1>3 DEF Extract!Writes, Extract!IsDefault
  <2>4. \A k, local : Extract!Exports(n, k, local) <=>
           k \in taken /\ local = IF k \in callables THEN k ELSE properties[k]
    BY <1>3 DEF Extract!Exports, Extract!Declares
  <2>5. Extract!Visit(found, n) =
          [locals |-> Extract!Put(found.locals, [k \in callables |-> <<n, k>>]),
           exported |-> Extract!Put(found.exported,
                                    [k \in taken |-> IF k \in callables THEN k ELSE properties[k]]),
           defaults |-> found.defaults]
    BY <2>2 DEF Extract!ExportProperties, Extract!Declare, Extract!Export
  <2>6. callables \subseteq DOMAIN properties /\ taken \subseteq DOMAIN properties
    BY DEF callables, taken
  <2> HIDE DEF properties, callables, taken
  <2>7. WritesDown(found, Extract!Visit(found, n), n)
    BY <2>3, <2>5 DEF WritesDown, Extract!Put
  <2>8. ExportsUnder(found, Extract!Visit(found, n), n)
    <3> DEFINE new == [k \in taken |-> IF k \in callables THEN k ELSE properties[k]]
    <3>1. Extract!Visit(found, n).exported = Extract!Put(found.exported, new)
      BY <2>5
    <3>2. \A k : k \in DOMAIN new <=> \E local : Extract!Exports(n, k, local)
      BY <2>4
    <3>3. \A k \in DOMAIN new : Extract!Exports(n, k, new[k])
      BY <2>4
    <3> HIDE DEF new
    <3> QED
      BY <3>1, <3>2, <3>3, PutUnder
  <2> QED
    BY <2>1, <2>3, <2>4, <2>5, <2>6, <2>7, <2>8 DEF ByStatement
<1>4. CASE s.kind = "module" /\ s.right \in Names
  <2>1. s.right \in Names
    BY <1>4
  <2>2. \A k : ~Extract!Writes(n, k) /\ (Extract!IsDefault(n, k) <=> k = s.right)
    BY <1>4 DEF Extract!Writes, Extract!IsDefault
  <2>3. \A k, local : Extract!Exports(n, k, local) <=> k = s.right /\ local = k
    BY <1>4 DEF Extract!Exports, Extract!Declares
  <2>4. Extract!Visit(found, n) =
          [locals |-> found.locals, exported |-> Extract!Put(found.exported, [k \in {s.right} |-> k]),
           defaults |-> found.defaults \union {s.right}]
    BY <1>4 DEF Extract!Visit, Extract!handleCommonJsAssignment, Extract!ExportItself, Extract!Export,
       Extract!Default
  <2>5. WritesDown(found, Extract!Visit(found, n), n)
    BY <2>2, <2>4 DEF WritesDown
  <2>6. ExportsUnder(found, Extract!Visit(found, n), n)
    <3> DEFINE new == [k \in {s.right} |-> k]
    <3>1. Extract!Visit(found, n).exported = Extract!Put(found.exported, new)
      BY <2>4
    <3>2. \A k : k \in DOMAIN new <=> \E local : Extract!Exports(n, k, local)
      BY <2>3
    <3>3. \A k \in DOMAIN new : Extract!Exports(n, k, new[k])
      BY <2>3
    <3> HIDE DEF new
    <3> QED
      BY <3>1, <3>2, <3>3, PutUnder
  <2> QED
    BY <2>1, <2>2, <2>3, <2>4, <2>5, <2>6 DEF ByStatement
<1>5. CASE s.kind \in {"list", "default"} \/ (s.kind = "module" /\ s.right \notin Names)
  <2>1. Extract!Visit(found, n) = found
    BY <1>5 DEF Extract!Visit, Extract!handleCommonJsAssignment
  <2>2. \A k, local : ~Extract!Writes(n, k) /\ ~Extract!IsDefault(n, k) /\ ~Extract!Exports(n, k, local)
    BY <1>5 DEF Extract!Writes, Extract!IsDefault, Extract!Exports, Extract!Declares
  <2> QED
    BY <2>1, <2>2 DEF ByStatement, WritesDown, ExportsUnder
<1> QED
  BY <1>1, <1>2, <1>3, <1>4, <1>5, Statements

LEMMA VisitFinds ==
    ASSUME Extract!TypeOK, NEW n \in 1 .. Len(source), NEW found, Extract!FoundSoFar(found, n - 1)
    PROVE  Extract!FoundSoFar(Extract!Visit(found, n), n)
<1> DEFINE next == Extract!Visit(found, n)
<1>1. 1 .. n = (1 .. n - 1) \union {n}
  OBVIOUS
<1>2. ByStatement(found, next, n)
  BY VisitAdds DEF Extract!FoundSoFar
<1> HIDE DEF next
<1>3. \A k \in DOMAIN next.locals : \E i \in 1 .. n : Extract!Writes(i, k) /\ next.locals[k] = <<i, k>>
  BY <1>1, <1>2 DEF ByStatement, WritesDown, ExportsUnder, Extract!FoundSoFar
<1>4. \A i \in 1 .. n, k \in Names : Extract!Writes(i, k) => k \in DOMAIN next.locals
  BY <1>1, <1>2 DEF ByStatement, WritesDown, ExportsUnder, Extract!FoundSoFar
<1>5. \A k \in DOMAIN next.exported : k \in Names /\ \E i \in 1 .. n : Extract!Exports(i, k, next.exported[k])
  BY <1>1, <1>2 DEF ByStatement, WritesDown, ExportsUnder, Extract!FoundSoFar
<1>6. \A i \in 1 .. n, k, local \in Names : Extract!Exports(i, k, local) => k \in DOMAIN next.exported
  BY <1>1, <1>2 DEF ByStatement, WritesDown, ExportsUnder, Extract!FoundSoFar
<1>7. next.defaults = {k \in Names : \E i \in 1 .. n : Extract!IsDefault(i, k)}
  BY <1>1, <1>2 DEF ByStatement, WritesDown, ExportsUnder, Extract!FoundSoFar
<1> QED
  BY <1>2, <1>3, <1>4, <1>5, <1>6, <1>7 DEF ByStatement, Extract!FoundSoFar, next

LEMMA SourceIsASequence ==
    ASSUME Extract!TypeOK
    PROVE  Len(source) \in Nat /\ DOMAIN source = 1 .. Len(source)
  BY DEF Extract!TypeOK

LEMMA WalkFinds ==
    ASSUME Extract!TypeOK
    PROVE  \A n \in 0 .. Len(source) : Extract!FoundSoFar(Extract!FoundBy[n], n)
<1> DEFINE Lost == {n \in 0 .. Len(source) : ~Extract!FoundSoFar(Extract!FoundBy[n], n)}
<1> SUFFICES ASSUME Lost # {} PROVE FALSE
  OBVIOUS
<1>1. Len(source) \in Nat
  BY SourceIsASequence
<1>2. PICK n \in Lost : \A m \in Lost : n <= m
  <2>1. Lost \subseteq Nat
    BY <1>1
  <2> HIDE DEF Lost
  <2> QED
    BY <2>1, LeastNat
<1>3. CASE n = 0
  <2>1. Extract!FoundBy[0] = Extract!NothingFound
    BY <1>1, WalkVisitsEach
  <2>2. Extract!FoundSoFar(Extract!NothingFound, 0)
    BY DEF Extract!FoundSoFar, Extract!NothingFound, Extract!Nothing
  <2> QED
    BY <1>3, <2>1, <2>2
<1>4. CASE n \in 1 .. Len(source)
  <2>1. n - 1 \in 0 .. Len(source) /\ n - 1 \notin Lost
    <3>1. ~(n <= n - 1) /\ n - 1 \in 0 .. Len(source)
      BY <1>1, <1>4
    <3> HIDE DEF Lost
    <3> QED
      BY <1>2, <3>1
  <2>2. Extract!FoundSoFar(Extract!FoundBy[n - 1], n - 1)
    BY <2>1
  <2>3. Extract!FoundBy[n] = Extract!Visit(Extract!FoundBy[n - 1], n)
    BY <1>1, <1>4, WalkVisitsEach
  <2> QED
    BY <1>4, <2>2, <2>3, VisitFinds
<1> QED
  BY <1>1, <1>3, <1>4

\* What a name stands for: the one function declared under it, if there is one.
LEMMA DeclaredValue ==
    ASSUME Extract!TypeOK, Extract!Loads(source), NEW k, NEW i \in 1 .. Len(source),
           Extract!Declares(source[i]), Extract!Writes(i, k)
    PROVE  Extract!ValueOf(k) = <<i, k>>
<1>1. source[i].name = k /\ (source[i].kind = "variable" => Extract!callableIn(source[i].initializer))
  BY DEF Extract!Writes, Extract!Declares
<1>2. ASSUME NEW j \in DOMAIN source, Extract!Declares(source[j]), source[j].name = k
      PROVE  j = i
  BY <1>1, <1>2, SourceIsASequence DEF Extract!Loads
<1>3. i = CHOOSE j \in DOMAIN source : Extract!Declares(source[j]) /\ source[j].name = k
  BY <1>1, <1>2, SourceIsASequence
<1> QED
  BY <1>1, <1>3, SourceIsASequence DEF Extract!ValueOf

LEMMA ReadableValue ==
    ASSUME Extract!TypeOK, Extract!Loads(source), NEW k, Extract!Readable(Extract!ValueOf(k))
    PROVE  k \in Names /\ \E i \in 1 .. Len(source) : Extract!Declares(source[i]) /\ Extract!Writes(i, k)
<1> DEFINE c == CHOOSE i \in DOMAIN source : Extract!Declares(source[i]) /\ source[i].name = k
<1>1. Extract!ValueOf(k)[1] \in 1 .. Len(source) /\ Extract!Writes(Extract!ValueOf(k)[1], Extract!ValueOf(k)[2])
  BY SourceIsASequence DEF Extract!Readable
<1>2. \E i \in DOMAIN source : Extract!Declares(source[i]) /\ source[i].name = k
  <2> SUFFICES ASSUME ~\E i \in DOMAIN source : Extract!Declares(source[i]) /\ source[i].name = k
               PROVE  FALSE
    OBVIOUS
  <2>1. Extract!ValueOf(k) = <<0, k>>
    BY DEF Extract!ValueOf
  <2> QED
    BY <1>1, <2>1, SourceIsASequence
<1>3. c \in DOMAIN source /\ Extract!Declares(source[c]) /\ source[c].name = k
  BY <1>2
<1>4. Extract!ValueOf(k) = <<c, k>>
  BY <1>2 DEF Extract!ValueOf
<1> HIDE DEF c
<1>5. Extract!Writes(c, k)
  BY <1>1, <1>4
<1> QED
  BY <1>3, <1>5, Statements, SourceIsASequence

LEMMA ValueNamesItself == ASSUME NEW k PROVE Extract!ValueOf(k)[2] = k
  BY DEF Extract!ValueOf

\* What the properties of an object are to an importer.
LEMMA PropertyIsNamed ==
    ASSUME Extract!TypeOK, NEW i \in 1 .. Len(source), source[i].kind \in {"property", "object"},
           NEW k \in DOMAIN Extract!PropertiesOf(source[i])
    PROVE  <<k, IF Extract!PropertiesOf(source[i])[k] \in Names
                THEN Extract!ValueOf(Extract!PropertiesOf(source[i])[k]) ELSE <<i, k>>>> \in Extract!Named
<1>1. <<k, IF Extract!PropertiesOf(source[i])[k] \in Names
           THEN Extract!ValueOf(Extract!PropertiesOf(source[i])[k]) ELSE <<i, k>>>> \in Extract!NamedBy(i)
  BY DEF Extract!NamedBy, Extract!Declares
<1> QED
  BY <1>1, SourceIsASequence DEF Extract!Named

LEMMA PropertyIsUsed ==
    ASSUME Extract!TypeOK, NEW i \in 1 .. Len(source), source[i].kind \in {"property", "object"},
           NEW k \in DOMAIN Extract!PropertiesOf(source[i]),
           ~Extract!callableIn(Extract!PropertiesOf(source[i])[k]),
           Extract!PropertiesOf(source[i])[k] # Extract!Unread
    PROVE  Extract!PropertiesOf(source[i])[k] \in Extract!Uses(source[i]) \intersect Names
<1>1. Extract!PropertiesOf(source[i])[k] \in Names
  BY Statements DEF Extract!callableIn
<1>2. CASE source[i].kind = "property"
  BY <1>1, <1>2 DEF Extract!PropertiesOf, Extract!Uses
<1>3. CASE source[i].kind = "object"
  BY <1>1, <1>3 DEF Extract!PropertiesOf, Extract!Uses
<1> QED
  BY <1>2, <1>3

\* In a plain file a function written for a property shares its name with nothing else.
LEMMA WrittenForAProperty ==
    ASSUME Extract!TypeOK, Extract!Plain, NEW i \in 1 .. Len(source), NEW k, Extract!Writes(i, k),
           ~Extract!Declares(source[i])
    PROVE  /\ <<k, <<i, k>>>> \in Extract!Named
           /\ \A j \in 1 .. Len(source) : /\ Extract!Declares(source[j]) => source[j].name # k
                                         /\ k \notin Extract!Uses(source[j])
<1>1. /\ source[i].kind \in {"property", "object"} /\ k \in DOMAIN Extract!PropertiesOf(source[i])
      /\ Extract!callableIn(Extract!PropertiesOf(source[i])[k])
  BY DEF Extract!Writes, Extract!Declares
<1>2. <<k, <<i, k>>>> \in Extract!Named
  <2>1. Extract!PropertiesOf(source[i])[k] \notin Names
    BY <1>1, Expressions DEF Extract!callableIn
  <2> QED
    BY <1>1, <2>1, PropertyIsNamed
<1>3. Extract!Readable(<<i, k>>)
  BY SourceIsASequence DEF Extract!Readable
<1>4. \A e \in Extract!Named : Extract!Readable(e[2]) /\ ~Extract!Declares(source[e[2][1]]) =>
         \A j \in DOMAIN source : /\ Extract!Declares(source[j]) => source[j].name # e[1]
                                 /\ e[1] \notin Extract!Uses(source[j])
  BY DEF Extract!Plain
<1>5. \A j \in DOMAIN source : /\ Extract!Declares(source[j]) => source[j].name # k
                               /\ k \notin Extract!Uses(source[j])
  BY <1>2, <1>3, <1>4
<1> QED
  BY <1>2, <1>5, SourceIsASequence

LEMMA NamedOnce ==
    ASSUME Extract!Plain, NEW k, NEW f, NEW g, <<k, f>> \in Extract!Named, <<k, g>> \in Extract!Named
    PROVE  f = g
<1>1. \A d, e \in Extract!Named : d[1] = e[1] => d = e
  BY DEF Extract!Plain
<1>2. <<k, f>> = <<k, g>>
  BY <1>1
<1> QED
  BY <1>2

\* What the Map of local declarations holds of a plain file: for a name that is declared or
\* used, what it stands for; for one written for a property, that property.
LEMMA LocalIsTheValue ==
    ASSUME Extract!TypeOK, Extract!Loads(source), Extract!Plain, NEW found,
           Extract!FoundSoFar(found, Len(source)), NEW k \in DOMAIN found.locals,
           NEW j \in 1 .. Len(source),
           (Extract!Declares(source[j]) /\ source[j].name = k) \/ k \in Extract!Uses(source[j])
    PROVE  found.locals[k] = Extract!ValueOf(k)
<1>1. PICK i \in 1 .. Len(source) : Extract!Writes(i, k) /\ found.locals[k] = <<i, k>>
  BY DEF Extract!FoundSoFar
<1>2. Extract!Declares(source[i])
  BY <1>1, WrittenForAProperty
<1> QED
  BY <1>1, <1>2, DeclaredValue

LEMMA LocalIsTheProperty ==
    ASSUME Extract!TypeOK, Extract!Plain, NEW found, Extract!FoundSoFar(found, Len(source)),
           NEW k \in DOMAIN found.locals,
           NEW j \in 1 .. Len(source), Extract!Writes(j, k), ~Extract!Declares(source[j])
    PROVE  found.locals[k] = <<j, k>>
<1>1. PICK i \in 1 .. Len(source) : Extract!Writes(i, k) /\ found.locals[k] = <<i, k>>
  BY DEF Extract!FoundSoFar
<1>2. ~Extract!Declares(source[i])
  <2>1. Extract!Declares(source[i]) => source[i].name = k
    BY <1>1 DEF Extract!Writes, Extract!Declares
  <2> QED
    BY <2>1, WrittenForAProperty
<1>3. <<k, <<i, k>>>> \in Extract!Named /\ <<k, <<j, k>>>> \in Extract!Named
  BY <1>1, <1>2, WrittenForAProperty
<1> QED
  BY <1>1, <1>3, NamedOnce

LEMMA ValueIsLocal ==
    ASSUME Extract!TypeOK, Extract!Loads(source), NEW found, Extract!FoundSoFar(found, Len(source)),
           NEW k, Extract!Readable(Extract!ValueOf(k))
    PROVE  k \in DOMAIN found.locals
  BY ReadableValue DEF Extract!FoundSoFar

\* The ways a name can get into the Map of exports.
LEMMA WaysToExport ==
    ASSUME Extract!TypeOK, NEW j \in 1 .. Len(source), NEW n, NEW v, Extract!Exports(j, n, v)
    PROVE  \/ /\ Extract!Declares(source[j]) /\ "export" \in source[j].modifiers
              /\ source[j].name = n /\ Extract!Writes(j, n) /\ v = n
           \/ ~Extract!Declares(source[j]) /\ Extract!Writes(j, n) /\ v = n
           \/ /\ source[j].kind \in {"property", "object"} /\ v \in Extract!Uses(source[j])
              /\ <<n, Extract!ValueOf(v)>> \in Extract!Named
           \/ source[j].kind = "module" /\ v = n /\ source[j].right = n /\ n \in Extract!Uses(source[j])
<1>1. CASE Extract!Declares(source[j]) /\ "export" \in source[j].modifiers /\ Extract!Writes(j, n) /\ v = n
  BY <1>1 DEF Extract!Writes, Extract!Declares
<1>2. CASE /\ source[j].kind \in {"property", "object"} /\ n \in DOMAIN Extract!PropertiesOf(source[j])
           /\ Extract!PropertiesOf(source[j])[n] # Extract!Unread
           /\ v = IF Extract!callableIn(Extract!PropertiesOf(source[j])[n])
                  THEN n ELSE Extract!PropertiesOf(source[j])[n]
  <2>1. ~Extract!Declares(source[j])
    BY <1>2 DEF Extract!Declares
  <2>2. CASE Extract!callableIn(Extract!PropertiesOf(source[j])[n])
    BY <1>2, <2>1, <2>2 DEF Extract!Writes
  <2>3. CASE ~Extract!callableIn(Extract!PropertiesOf(source[j])[n])
    BY <1>2, <2>1, <2>3, PropertyIsUsed, PropertyIsNamed
  <2> QED
    BY <2>2, <2>3
<1>3. CASE source[j].kind = "module" /\ source[j].right = n /\ n \in Names /\ v = n
  BY <1>3, Statements DEF Extract!Uses
<1> QED
  BY <1>1, <1>2, <1>3 DEF Extract!Exports

LEMMA DefaultIsExported ==
    ASSUME Extract!TypeOK, NEW q \in 1 .. Len(source), NEW d, Extract!IsDefault(q, d)
    PROVE  Extract!ValueOf(d) \in Extract!DefaultExports
<1>1. Extract!ValueOf(d) \in Extract!DefaultBy(q)
  BY DEF Extract!IsDefault, Extract!DefaultBy, Extract!Declares
<1> QED
  BY <1>1, SourceIsASequence DEF Extract!DefaultExports

LEMMA NamedByDeclaration ==
    ASSUME NEW i, Extract!Declares(source[i])
    PROVE  Extract!NamedBy(i) = IF source[i].modifiers = {"export"}
                                THEN {<<source[i].name, Extract!ValueOf(source[i].name)>>} ELSE {}
  BY DEF Extract!NamedBy, Extract!Declares

\* module.exports = n agrees with whatever else is exported as n.
LEMMA ModuleAgrees ==
    ASSUME Extract!TypeOK, Extract!Plain, NEW q \in 1 .. Len(source), source[q].kind = "module",
           NEW n, source[q].right = n, NEW f, <<n, f>> \in Extract!Named
    PROVE  Extract!ValueOf(n) = f
<1>1. \A e \in Extract!Named :
         (\E i \in DOMAIN source : source[i].kind = "module" /\ source[i].right = e[1])
           => Extract!ValueOf(e[1]) = e[2]
  BY DEF Extract!Plain
<1> QED
  BY <1>1, SourceIsASequence

\* A listed function is what an importer of that name, or of the default, gets.
LEMMA ListedIsExported ==
    ASSUME Extract!TypeOK, Extract!Loads(source), Extract!Plain, NEW found,
           Extract!FoundSoFar(found, Len(source)),
           NEW n \in DOMAIN found.exported, found.exported[n] \in DOMAIN found.locals
    PROVE  LET v == found.exported[n]
           IN IF {n, v} \intersect found.defaults # {}
              THEN found.locals[v] \in Extract!DefaultExports
              ELSE <<n, found.locals[v]>> \in Extract!Named
<1> DEFINE v == found.exported[n]
<1>1. PICK j \in 1 .. Len(source) : Extract!Exports(j, n, v)
  BY DEF Extract!FoundSoFar
<1>2. \A d \in found.defaults : \E q \in 1 .. Len(source) : Extract!IsDefault(q, d)
  BY DEF Extract!FoundSoFar
<1>3. CASE /\ Extract!Declares(source[j]) /\ "export" \in source[j].modifiers
           /\ source[j].name = n /\ Extract!Writes(j, n) /\ v = n
  <2>1. found.locals[v] = Extract!ValueOf(n)
    BY <1>3, LocalIsTheValue
  <2>2. CASE n \in found.defaults
    BY <1>2, <1>3, <2>1, <2>2, DefaultIsExported
  <2>3. CASE n \notin found.defaults
    <3>1. "default" \notin source[j].modifiers
      <4>1. n \in Names /\ ("default" \in source[j].modifiers => Extract!IsDefault(j, n))
        BY <1>3, Statements DEF Extract!IsDefault
      <4> QED
        BY <2>3, <4>1 DEF Extract!FoundSoFar
    <3>2. source[j].modifiers = {"export"}
      BY <1>3, <3>1, Statements
    <3>3. <<n, Extract!ValueOf(n)>> \in Extract!Named
      BY <1>3, <3>2, SourceIsASequence, NamedByDeclaration DEF Extract!Named
    <3> QED
      BY <1>3, <2>1, <2>3, <3>3
  <2> QED
    BY <2>2, <2>3
<1>4. CASE ~Extract!Declares(source[j]) /\ Extract!Writes(j, n) /\ v = n
  <2>1. found.locals[v] = <<j, n>> /\ <<n, <<j, n>>>> \in Extract!Named
    BY <1>4, LocalIsTheProperty, WrittenForAProperty
  <2>2. n \notin found.defaults
    <3> SUFFICES ASSUME NEW q \in 1 .. Len(source), Extract!IsDefault(q, n) PROVE FALSE
      BY <1>2
    <3>1. /\ Extract!Declares(source[q]) => source[q].name # n
          /\ n \notin Extract!Uses(source[q])
      BY <1>4, WrittenForAProperty
    <3>2. CASE source[q].kind = "function" /\ source[q].name = n
      BY <3>1, <3>2 DEF Extract!Declares
    <3>3. CASE source[q].kind = "module" /\ source[q].right = n
      <4>1. n \in Names
        BY DEF Extract!FoundSoFar
      <4> QED
        BY <3>1, <3>3, <4>1 DEF Extract!Uses
    <3> QED
      BY <3>2, <3>3 DEF Extract!IsDefault
  <2> QED
    BY <1>4, <2>1, <2>2
<1>5. CASE /\ source[j].kind \in {"property", "object"} /\ v \in Extract!Uses(source[j])
           /\ <<n, Extract!ValueOf(v)>> \in Extract!Named
  <2>1. found.locals[v] = Extract!ValueOf(v)
    BY <1>5, LocalIsTheValue
  <2>2. CASE v \in found.defaults
    BY <1>2, <2>1, <2>2, DefaultIsExported
  <2>3. CASE n \in found.defaults
    <3>1. PICK q \in 1 .. Len(source) : Extract!IsDefault(q, n)
      BY <1>2, <2>3
    <3>2. source[q].kind = "module" /\ source[q].right = n
      <4>1. source[q].kind = "function" /\ {"export", "default"} \subseteq source[q].modifiers
              => Extract!Declares(source[q]) /\ source[q].modifiers # {}
        BY DEF Extract!Declares
      <4> QED
        BY <1>5, <3>1, <4>1, OneLanguage DEF Extract!IsDefault
    <3>3. Extract!ValueOf(n) = Extract!ValueOf(v)
      BY <1>5, <3>2, ModuleAgrees
    <3> QED
      BY <2>1, <2>3, <3>1, <3>3, DefaultIsExported
  <2> QED
    BY <1>5, <2>1, <2>2, <2>3
<1>6. CASE source[j].kind = "module" /\ v = n /\ source[j].right = n /\ n \in Extract!Uses(source[j])
  <2>1. found.locals[v] = Extract!ValueOf(n)
    BY <1>6, LocalIsTheValue
  <2>2. Extract!IsDefault(j, n) /\ n \in Names
    <3>1. n \in Names
      BY DEF Extract!FoundSoFar
    <3> QED
      BY <1>6, <3>1 DEF Extract!IsDefault
  <2>3. n \in found.defaults
    BY <2>2 DEF Extract!FoundSoFar
  <2> QED
    BY <2>1, <2>2, <2>3, DefaultIsExported
<1> QED
  BY <1>1, <1>3, <1>4, <1>5, <1>6, WaysToExport

\* A function of the file that is exported under a name is listed under it.
LEMMA NamedIsListed ==
    ASSUME Extract!TypeOK, Extract!Loads(source), Extract!Plain, NEW found,
           Extract!FoundSoFar(found, Len(source)),
           NEW i \in 1 .. Len(source), Extract!Handled(i),
           NEW n, NEW f, <<n, f>> \in Extract!NamedBy(i), Extract!Readable(f)
    PROVE  /\ n \in DOMAIN found.exported /\ found.exported[n] \in DOMAIN found.locals
           /\ found.locals[found.exported[n]] = f
<1>1. <<n, f>> \in Extract!Named
  BY SourceIsASequence DEF Extract!Named
<1>2. n \in DOMAIN found.exported
  <2>1. CASE Extract!Declares(source[i])
    <3>1. source[i].modifiers = {"export"} /\ source[i].name = n /\ f = Extract!ValueOf(n)
      BY <2>1, NamedByDeclaration
    <3>2. n \in Names
      BY <2>1, <3>1, Statements
    <3>3. PICK d \in 1 .. Len(source) : Extract!Declares(source[d]) /\ Extract!Writes(d, n)
      BY <3>1, ReadableValue
    <3>4. source[d].name = n
      BY <3>3 DEF Extract!Writes, Extract!Declares
    <3>5. d = i
      BY <2>1, <3>1, <3>3, <3>4, SourceIsASequence DEF Extract!Loads
    <3>6. Extract!Exports(i, n, n)
      BY <2>1, <3>1, <3>3, <3>5 DEF Extract!Exports
    <3> QED
      BY <3>2, <3>6 DEF Extract!FoundSoFar
  <2>2. CASE ~Extract!Declares(source[i])
    <3>1. source[i].kind \in {"property", "object"} /\ n \in DOMAIN Extract!PropertiesOf(source[i])
      BY <2>2 DEF Extract!NamedBy, Extract!Handled
    <3>4. Extract!PropertiesOf(source[i])[n] # Extract!Unread
      <4>1. SUFFICES ASSUME Extract!PropertiesOf(source[i])[n] = Extract!Unread PROVE FALSE
        OBVIOUS
      <4>2. f = <<i, n>>
        BY <2>2, <3>1, <4>1, Expressions DEF Extract!NamedBy
      <4>3. Extract!Writes(i, n)
        BY <4>2 DEF Extract!Readable
      <4>4. ~Extract!callableIn(Extract!PropertiesOf(source[i])[n])
        BY <4>1, Expressions DEF Extract!callableIn
      <4> QED
        BY <3>1, <4>3, <4>4 DEF Extract!Writes
    <3> DEFINE local == IF Extract!callableIn(Extract!PropertiesOf(source[i])[n])
                        THEN n ELSE Extract!PropertiesOf(source[i])[n]
    <3>2. Extract!Exports(i, n, local)
      BY <3>1, <3>4 DEF Extract!Exports
    <3>3. n \in Names /\ local \in Names
      BY <3>1, <3>4, Statements DEF Extract!callableIn
    <3> HIDE DEF local
    <3> QED
      BY <3>2, <3>3 DEF Extract!FoundSoFar
  <2> QED
    BY <2>1, <2>2
<1> DEFINE v == found.exported[n]
<1>3. PICK j \in 1 .. Len(source) : Extract!Exports(j, n, v)
  BY <1>2 DEF Extract!FoundSoFar
<1>4. v \in DOMAIN found.locals /\ found.locals[v] = f
  <2>1. CASE /\ Extract!Declares(source[j]) /\ "export" \in source[j].modifiers
             /\ source[j].name = n /\ Extract!Writes(j, n) /\ v = n
    <3>1. Extract!Declares(source[i])
      BY <2>1, OneLanguage, Statements DEF Extract!Handled, Extract!Declares
    <3>2. f = Extract!ValueOf(n)
      BY <3>1, NamedByDeclaration
    <3> QED
      BY <2>1, <3>2, ValueIsLocal, LocalIsTheValue
  <2>2. CASE ~Extract!Declares(source[j]) /\ Extract!Writes(j, n) /\ v = n
    <3>1. f = <<j, n>>
      BY <1>1, <2>2, WrittenForAProperty, NamedOnce
    <3>2. n \in Names
      BY <1>2 DEF Extract!FoundSoFar
    <3>3. n \in DOMAIN found.locals
      BY <2>2, <3>2 DEF Extract!FoundSoFar
    <3> QED
      BY <2>2, <3>1, <3>3, LocalIsTheProperty
  <2>3. CASE /\ source[j].kind \in {"property", "object"} /\ v \in Extract!Uses(source[j])
             /\ <<n, Extract!ValueOf(v)>> \in Extract!Named
    <3>1. f = Extract!ValueOf(v)
      BY <1>1, <2>3, NamedOnce
    <3> QED
      BY <2>3, <3>1, ValueIsLocal, LocalIsTheValue
  <2>4. CASE source[j].kind = "module" /\ v = n /\ source[j].right = n /\ n \in Extract!Uses(source[j])
    <3>1. f = Extract!ValueOf(n)
      BY <1>1, <2>4, ModuleAgrees
    <3> QED
      BY <2>4, <3>1, ValueIsLocal, LocalIsTheValue
  <2> QED
    BY <1>3, <2>1, <2>2, <2>3, <2>4, WaysToExport
<1> QED
  BY <1>2, <1>4

\* A function of the file that is the default export is listed as such.
LEMMA DefaultIsListed ==
    ASSUME Extract!TypeOK, Extract!Loads(source), Extract!Plain, NEW found,
           Extract!FoundSoFar(found, Len(source)),
           NEW q \in 1 .. Len(source), Extract!Handled(q),
           NEW f \in Extract!DefaultBy(q), Extract!Readable(f)
    PROVE  \E d \in DOMAIN found.exported :
             /\ found.exported[d] \in DOMAIN found.locals /\ found.locals[found.exported[d]] = f
             /\ d \in found.defaults
<1>1. PICK d \in Names : f = Extract!ValueOf(d) /\ Extract!IsDefault(q, d)
  <2>1. CASE Extract!Declares(source[q])
    <3>1. "default" \in source[q].modifiers /\ f = Extract!ValueOf(source[q].name)
      <4>1. source[q].kind \notin {"module", "default"}
        BY <2>1 DEF Extract!Declares
      <4>2. Extract!DefaultBy(q) = IF "default" \in source[q].modifiers
                                   THEN {Extract!ValueOf(source[q].name)} ELSE {}
        BY <2>1, <4>1 DEF Extract!DefaultBy
      <4> QED
        BY <4>2
    <3>2. source[q].kind = "function" /\ "export" \in source[q].modifiers /\ source[q].name \in Names
      BY <2>1, <3>1, Statements
    <3> QED
      BY <3>1, <3>2 DEF Extract!IsDefault
  <2>2. CASE source[q].kind = "module"
    <3>1. source[q].right \in Names
      <4> SUFFICES ASSUME source[q].right \notin Names PROVE FALSE
        OBVIOUS
      <4>1. f = <<q, Extract!Callable>>
        BY <2>2 DEF Extract!DefaultBy, Extract!Declares
      <4>2. Extract!Writes(q, Extract!Callable)
        BY <4>1 DEF Extract!Readable
      <4> QED
        BY <2>2, <4>2 DEF Extract!Writes
    <3> QED
      BY <2>2, <3>1 DEF Extract!IsDefault, Extract!DefaultBy, Extract!Declares
  <2> QED
    BY <2>1, <2>2 DEF Extract!DefaultBy, Extract!Handled
<1>2. d \in DOMAIN found.locals
  BY <1>1, ValueIsLocal
<1>3. d \in found.defaults
  BY <1>1 DEF Extract!FoundSoFar
<1>4. Extract!Exports(q, d, d)
  BY <1>1, Statements DEF Extract!IsDefault, Extract!Exports, Extract!Declares, Extract!Writes
<1>5. d \in DOMAIN found.exported
  BY <1>4 DEF Extract!FoundSoFar
<1>6. (Extract!Declares(source[q]) /\ source[q].name = d) \/ d \in Extract!Uses(source[q])
  BY <1>1, Statements DEF Extract!IsDefault, Extract!Declares, Extract!Uses
<1> DEFINE v == found.exported[d]
<1>7. PICK j \in 1 .. Len(source) : Extract!Exports(j, d, v)
  BY <1>5 DEF Extract!FoundSoFar
<1>8. v = d
  <2>1. CASE /\ source[j].kind \in {"property", "object"} /\ v \in Extract!Uses(source[j])
             /\ <<d, Extract!ValueOf(v)>> \in Extract!Named
    <3>1. source[q].kind = "module" /\ source[q].right = d
      <4>1. source[q].kind = "function" /\ {"export", "default"} \subseteq source[q].modifiers
              => Extract!Declares(source[q]) /\ source[q].modifiers # {}
        BY DEF Extract!Declares
      <4> QED
        BY <1>1, <2>1, <4>1, OneLanguage DEF Extract!IsDefault
    <3>2. Extract!ValueOf(d) = Extract!ValueOf(v)
      BY <2>1, <3>1, ModuleAgrees
    <3> QED
      BY <3>2, ValueNamesItself
  <2> QED
    BY <1>7, <2>1, WaysToExport
<1>9. found.locals[d] = f
  BY <1>1, <1>2, <1>6, LocalIsTheValue
<1> QED
  BY <1>2, <1>3, <1>5, <1>8, <1>9

\* What is returned is made of names, functions and flags.
LEMMA SignaturesTyped ==
    ASSUME Extract!TypeOK, Len(source) <= MaxStatements, NEW found,
           Extract!FoundSoFar(found, Len(source))
    PROVE  Extract!Signatures(found) \subseteq
             [name : Names, function : (1 .. MaxStatements) \X Names, isDefaultExport : BOOLEAN]
<1> SUFFICES ASSUME NEW s \in Extract!Signatures(found)
             PROVE  s \in [name : Names, function : (1 .. MaxStatements) \X Names, isDefaultExport : BOOLEAN]
  OBVIOUS
<1>0. PICK n \in DOMAIN found.exported :
         /\ found.exported[n] \in DOMAIN found.locals
         /\ s = [name |-> n, function |-> found.locals[found.exported[n]],
                 isDefaultExport |-> {n, found.exported[n]} \intersect found.defaults # {}]
  BY DEF Extract!Signatures
<1> DEFINE v == found.exported[n]
<1>1. PICK i \in 1 .. Len(source) : Extract!Writes(i, v) /\ found.locals[v] = <<i, v>>
  BY <1>0 DEF Extract!FoundSoFar
<1>2. n \in Names
  BY DEF Extract!FoundSoFar
<1>3. v \in Names
  BY <1>1, Statements DEF Extract!Writes, Extract!Declares
<1>4. i \in 1 .. MaxStatements
  BY SourceIsASequence, IdentifiersAssumption DEF Extract!NamesAssumption
<1>5. found.locals[v] \in (1 .. MaxStatements) \X Names
  BY <1>1, <1>3, <1>4
<1> QED
  BY <1>0, <1>2, <1>5

\* What extractExportedFunctions returns for a plain file.
LEMMA SignaturesOfTheWalk ==
    ASSUME Extract!TypeOK, Extract!Loads(source), Extract!Plain
    PROVE  LET listed == Extract!Signatures(Extract!Walk)
           IN /\ \A s \in listed : IF s.isDefaultExport THEN s.function \in Extract!DefaultExports
                                    ELSE <<s.name, s.function>> \in Extract!Named
              /\ \A i \in DOMAIN source : Extract!Handled(i) =>
                   /\ \A e \in Extract!NamedBy(i) : Extract!Readable(e[2]) =>
                        \E s \in listed : s.name = e[1] /\ s.function = e[2]
                   /\ \A f \in Extract!DefaultBy(i) : Extract!Readable(f) =>
                        \E s \in listed : s.isDefaultExport /\ s.function = f
<1> DEFINE found == Extract!Walk
           listed == Extract!Signatures(found)
           Listed(n) == [name |-> n, function |-> found.locals[found.exported[n]],
                         isDefaultExport |-> {n, found.exported[n]} \intersect found.defaults # {}]
<1>1. Extract!FoundSoFar(found, Len(source))
  BY WalkFinds, SourceIsASequence DEF Extract!Walk
<1> HIDE DEF found
<1>2. \A n \in DOMAIN found.exported : found.exported[n] \in DOMAIN found.locals => Listed(n) \in listed
  BY DEF Extract!Signatures
<1>3. ASSUME NEW s \in listed
      PROVE  IF s.isDefaultExport THEN s.function \in Extract!DefaultExports
             ELSE <<s.name, s.function>> \in Extract!Named
  <2>1. PICK n \in DOMAIN found.exported : found.exported[n] \in DOMAIN found.locals /\ s = Listed(n)
    BY DEF Extract!Signatures
  <2> QED
    BY <1>1, <2>1, ListedIsExported
<1>4. ASSUME NEW i \in DOMAIN source, Extract!Handled(i),
             NEW e \in Extract!NamedBy(i), Extract!Readable(e[2])
      PROVE  \E s \in listed : s.name = e[1] /\ s.function = e[2]
  <2>1. e = <<e[1], e[2]>>
    BY DEF Extract!NamedBy
  <2>2. /\ e[1] \in DOMAIN found.exported /\ found.exported[e[1]] \in DOMAIN found.locals
        /\ found.locals[found.exported[e[1]]] = e[2]
    BY <1>1, <1>4, <2>1, NamedIsListed, SourceIsASequence
  <2> QED
    BY <1>2, <2>2
<1>5. ASSUME NEW i \in DOMAIN source, Extract!Handled(i),
             NEW f \in Extract!DefaultBy(i), Extract!Readable(f)
      PROVE  \E s \in listed : s.isDefaultExport /\ s.function = f
  <2>1. PICK d \in DOMAIN found.exported :
           /\ found.exported[d] \in DOMAIN found.locals /\ found.locals[found.exported[d]] = f
           /\ d \in found.defaults
    BY <1>1, <1>5, DefaultIsListed, SourceIsASequence
  <2> QED
    BY <1>2, <2>1
<1> QED
  BY <1>3, <1>4, <1>5 DEF found

\* The file does not change while it is read.
LEMMA SameSource ==
    ASSUME source' = source
    PROVE  /\ Extract!Plain' <=> Extract!Plain
           /\ Extract!Named' = Extract!Named
           /\ Extract!DefaultExports' = Extract!DefaultExports
<1>1. ASSUME NEW n PROVE Extract!ValueOf(n)' = Extract!ValueOf(n)
  BY DEF Extract!ValueOf
<1>2. ASSUME NEW i PROVE Extract!NamedBy(i)' = Extract!NamedBy(i)
  BY <1>1 DEF Extract!NamedBy
<1>3. Extract!Named' = Extract!Named
  BY <1>2 DEF Extract!Named
<1>4. ASSUME NEW i PROVE Extract!DefaultBy(i)' = Extract!DefaultBy(i)
  BY <1>1 DEF Extract!DefaultBy
<1>5. Extract!DefaultExports' = Extract!DefaultExports
  BY <1>4 DEF Extract!DefaultExports
<1>6. ASSUME NEW f PROVE Extract!Readable(f)' <=> Extract!Readable(f)
  BY DEF Extract!Readable, Extract!Writes
<1>7. Extract!Plain' <=> Extract!Plain
  BY <1>1, <1>3, <1>6 DEF Extract!Plain, Extract!Replaces
<1> QED
  BY <1>3, <1>5, <1>7

\* ... so what is listed of it is still what it exports.
LEMMA ListedOfTheSame ==
    ASSUME source' = source,
           /\ \A s \in signatures' : IF s.isDefaultExport THEN s.function \in Extract!DefaultExports
                                         ELSE <<s.name, s.function>> \in Extract!Named
           /\ \A i \in DOMAIN source : Extract!Handled(i) =>
                /\ \A e \in Extract!NamedBy(i) : Extract!Readable(e[2]) =>
                     \E s \in signatures' : s.name = e[1] /\ s.function = e[2]
                /\ \A f \in Extract!DefaultBy(i) : Extract!Readable(f) =>
                     \E s \in signatures' : s.isDefaultExport /\ s.function = f
    PROVE  Extract!SignaturesAreTheExports'
<1>1. ASSUME NEW s \in signatures'
      PROVE  IF s.isDefaultExport THEN s.function \in Extract!DefaultExports'
             ELSE <<s.name, s.function>> \in Extract!Named'
  BY SameSource
<1>2. ASSUME NEW i \in DOMAIN source', Extract!Handled(i)', NEW e \in Extract!NamedBy(i)',
             Extract!Readable(e[2])'
      PROVE  \E s \in signatures' : s.name = e[1] /\ s.function = e[2]
  <2>1. i \in DOMAIN source
    OBVIOUS
  <2>2. Extract!Handled(i)
    BY <1>2 DEF Extract!Handled
  <2>3. e \in Extract!NamedBy(i)
    <3>1. Extract!NamedBy(i)' = Extract!NamedBy(i)
      BY DEF Extract!NamedBy, Extract!ValueOf
    <3> QED
      BY <3>1, Zenon
  <2>4. Extract!Readable(e[2])
    <3>1. Extract!Readable(e[2])' => Extract!Readable(e[2])
      BY DEF Extract!Readable, Extract!Writes
    <3> QED
      BY <1>2, <3>1, Zenon
  <2> QED
    BY <2>1, <2>2, <2>3, <2>4
<1>3. ASSUME NEW i \in DOMAIN source', Extract!Handled(i)', NEW f \in Extract!DefaultBy(i)',
             Extract!Readable(f)'
      PROVE  \E s \in signatures' : s.isDefaultExport /\ s.function = f
  <2>1. i \in DOMAIN source
    OBVIOUS
  <2>2. Extract!Handled(i)
    BY <1>3 DEF Extract!Handled
  <2>3. f \in Extract!DefaultBy(i)
    <3>1. Extract!DefaultBy(i)' = Extract!DefaultBy(i)
      BY DEF Extract!DefaultBy, Extract!ValueOf
    <3> QED
      BY <3>1, Zenon
  <2>4. Extract!Readable(f)
    <3>1. Extract!Readable(f)' => Extract!Readable(f)
      BY DEF Extract!Readable, Extract!Writes
    <3> QED
      BY <1>3, <3>1, Zenon
  <2> QED
    BY <2>1, <2>2, <2>3, <2>4
<1> QED
  BY <1>1, <1>2, <1>3, Zenon DEF Extract!SignaturesAreTheExports

LEMMA ExtractStart == Extract!ExtractInit => Extract!ExtractInv
<1> SUFFICES ASSUME Extract!ExtractInit PROVE Extract!ExtractInv
  OBVIOUS
<1>1. PICK language \in {Extract!EsModule, Extract!CommonJs}, n \in 0 .. MaxStatements :
         source \in [1 .. n -> language] /\ Extract!Loads(source)
  BY DEF Extract!ExtractInit
<1>2. n \in Nat /\ source \in Seq(language) /\ Len(source) = n /\ n <= MaxStatements
  BY <1>1, IdentifiersAssumption DEF Extract!NamesAssumption
<1>3. Extract!TypeOK
  BY <1>2 DEF Extract!ExtractInit, Extract!TypeOK
<1> QED
  BY <1>1, <1>2, <1>3 DEF Extract!ExtractInit, Extract!ExtractInv, Extract!SignaturesAreTheExports

LEMMA ExtractStep ==
    Extract!ExtractInv /\ [Extract!ExtractExportedFunctions]_(Extract!extraction) => Extract!ExtractInv'
<1> SUFFICES ASSUME Extract!ExtractInv, [Extract!ExtractExportedFunctions]_(Extract!extraction)
             PROVE  Extract!ExtractInv'
  OBVIOUS
<1>1. source' = source
  BY DEF Extract!ExtractExportedFunctions, Extract!extraction
<1>2. Extract!Loads(source)' /\ Len(source)' <= MaxStatements
  BY <1>1 DEF Extract!ExtractInv
<1>3. CASE Extract!ExtractExportedFunctions
  <2>1. extracted' = TRUE /\ signatures' = Extract!Signatures(Extract!Walk)
    BY <1>3 DEF Extract!ExtractExportedFunctions
  <2>2. Extract!FoundSoFar(Extract!Walk, Len(source))
    BY WalkFinds, SourceIsASequence DEF Extract!Walk, Extract!ExtractInv
  <2>3. Extract!TypeOK'
    BY <1>1, <2>1, <2>2, SignaturesTyped DEF Extract!ExtractInv, Extract!TypeOK
  <2>4. Extract!SignaturesAreTheExports'
    <3> SUFFICES ASSUME Extract!Plain PROVE Extract!SignaturesAreTheExports'
      BY <1>1, SameSource DEF Extract!SignaturesAreTheExports
    <3>1. /\ \A s \in signatures' : IF s.isDefaultExport THEN s.function \in Extract!DefaultExports
                                    ELSE <<s.name, s.function>> \in Extract!Named
          /\ \A i \in DOMAIN source : Extract!Handled(i) =>
               /\ \A e \in Extract!NamedBy(i) : Extract!Readable(e[2]) =>
                    \E s \in signatures' : s.name = e[1] /\ s.function = e[2]
               /\ \A f \in Extract!DefaultBy(i) : Extract!Readable(f) =>
                    \E s \in signatures' : s.isDefaultExport /\ s.function = f
      BY <2>1, SignaturesOfTheWalk DEF Extract!ExtractInv
    <3> QED
      BY <1>1, <3>1, ListedOfTheSame, Zenon
  <2> QED
    BY <1>2, <2>1, <2>3, <2>4 DEF Extract!ExtractInv
<1>4. CASE UNCHANGED Extract!extraction
  <2>1. extracted' = extracted /\ signatures' = signatures
    BY <1>4 DEF Extract!extraction
  <2>2. Extract!TypeOK'
    BY <1>1, <2>1 DEF Extract!ExtractInv, Extract!TypeOK
  <2>3. Extract!SignaturesAreTheExports'
    <3> SUFFICES ASSUME extracted, Extract!Plain PROVE Extract!SignaturesAreTheExports'
      BY <1>1, <2>1, SameSource DEF Extract!SignaturesAreTheExports
    <3>1. /\ \A s \in signatures' : IF s.isDefaultExport THEN s.function \in Extract!DefaultExports
                                    ELSE <<s.name, s.function>> \in Extract!Named
          /\ \A i \in DOMAIN source : Extract!Handled(i) =>
               /\ \A e \in Extract!NamedBy(i) : Extract!Readable(e[2]) =>
                    \E s \in signatures' : s.name = e[1] /\ s.function = e[2]
               /\ \A f \in Extract!DefaultBy(i) : Extract!Readable(f) =>
                    \E s \in signatures' : s.isDefaultExport /\ s.function = f
      BY <2>1, Zenon DEF Extract!ExtractInv, Extract!SignaturesAreTheExports
    <3> QED
      BY <1>1, <3>1, ListedOfTheSame, Zenon
  <2> QED
    BY <1>2, <2>1, <2>2, <2>3 DEF Extract!ExtractInv
<1> QED
  BY <1>3, <1>4

\* Of any file that says each thing once, in whatever order it declares and exports and however
\* many statements it has: the functions listed are those an importer gets, under their names,
\* and none is left out that is written and exported in the forms the extractor reads; what the
\* other forms export is not listed (extractExportedFunctions).
THEOREM ListedAsExported == Extract!ExtractSpec => []SignaturesAreTheExports
<1>1. Extract!ExtractInv => SignaturesAreTheExports
  BY DEF Extract!ExtractInv, SignaturesAreTheExports
<1> QED
  BY <1>1, ExtractStart, ExtractStep, PTL DEF Extract!ExtractSpec
=============================================================================
