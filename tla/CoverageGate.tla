---------------------------- MODULE CoverageGate ----------------------------
(* runCoverageGate over a working tree: the hunks of git's diff, the lines read  *)
(* off them, the repository's own jest suite with --coverage, and the verdict.   *)
(* A file is the sequence of its lines; the developer may edit it while jest runs.*)
(* Its path is the sequence of its directories and its name.                     *)
EXTENDS Naturals, Sequences, FiniteSets

CONSTANTS Paths,      \* files of the checkout, from repoRoot
          Prefixes,   \* where repoRoot may lie below the top of git's working tree
          MaxLines    \* bound: lines of a file

VARIABLES prefix,     \* getGitPathPrefix: from the top of git's working tree to repoRoot
          tracked,    \* the files git knows: committed, or added
          eligible,   \* the names of source files that are not tests
          content,    \* content[f]: [new, code] for each line, new against baseRef
          removed,    \* removed[f]: at the end of f, lines of baseRef are gone
          step,       \* "diff", "jest", "cross", then "passed", "failed" or "threw"
          changed,    \* changedLinesByFile
          hits,       \* coverage-final.json: hits[f], the executed lines of a file it knows
          suite,      \* what the suite did: "passed", "failed", "unloaded" (in part)
          moved,      \* the tree was edited after the diff
          stop        \* options.signal.aborted

workingTree == <<prefix, tracked, eligible, content, removed>>
gateVars == <<workingTree, step, changed, hits, suite, moved, stop>>

PathsAssumption == /\ Paths \subseteq Seq(STRING) /\ <<>> \notin Paths
                   /\ Prefixes \subseteq Seq(STRING)

Line == [new : BOOLEAN, code : BOOLEAN]
Contents == UNION {[1 .. n -> Line] : n \in 0 .. MaxLines}
NoEntry == {0}        \* the coverage map does not know the file
CodeLines(f) == {l \in DOMAIN content[f] : content[f][l].code}

isEligibleSourceFile(path) == path[Len(path)] \in eligible
Unchanged == [f \in {} |-> {}]

GateInit == /\ prefix \in Prefixes /\ tracked \in SUBSET Paths
            /\ eligible \in SUBSET {f[Len(f)] : f \in Paths}
            /\ content \in [Paths -> Contents] /\ removed \in [Paths -> BOOLEAN]
            /\ \A f \in Paths \ tracked :          \* all of it is new
                 ~removed[f] /\ \A l \in DOMAIN content[f] : content[f][l].new
            /\ step = "diff" /\ changed = Unchanged
            /\ hits = [f \in Paths |-> NoEntry] /\ suite = "passed"
            /\ moved = FALSE /\ stop = FALSE

-----------------------------------------------------------------------------
(* git diff --unified=0 baseRef -- . (external): of the files it tracks, a hunk   *)
(* <<c, d>> for d new lines from line c, <<c>> when there is one, <<c, 0>> where  *)
(* lines were only removed; it names a file from the top of its working tree      *)

gitPath(f) == prefix \o f

FirstOfHunk(f) == {c \in DOMAIN content[f] :
                     content[f][c].new /\ (c > 1 => ~content[f][c - 1].new)}
InHunk(f, c) == {l \in DOMAIN content[f] : l >= c /\ \A k \in c .. l : content[f][k].new}

Hunks(f) == IF f \notin tracked THEN {} ELSE
            {IF Cardinality(InHunk(f, c)) = 1 THEN <<c>> ELSE <<c, Cardinality(InHunk(f, c))>> :
               c \in FirstOfHunk(f)}
            \union (IF removed[f] THEN {<<Len(content[f]), 0>>} ELSE {})

HunkLinesUncounted(h) ==              \* Mutant: a count that is left out is taken for none
    IF Len(h) = 1 THEN {} ELSE h[1] .. h[1] + h[2] - 1

HunkLines(h) == LET count == IF Len(h) = 1 THEN 1 ELSE h[2] IN
                  IF count = 0 THEN {} ELSE h[1] .. h[1] + count - 1

stripGitPrefix(path) ==
    IF Len(prefix) > 0 /\ Len(prefix) <= Len(path) /\ SubSeq(path, 1, Len(prefix)) = prefix
    THEN SubSeq(path, Len(prefix) + 1, Len(path)) ELSE path

\* of each path that has any, the new lines
parseUnifiedDiffHunks ==
    LET lines(f) == UNION {HunkLines(h) : h \in Hunks(f)}
        named(path) == {f \in Paths : lines(f) # {} /\ stripGitPrefix(gitPath(f)) = path}
    IN [path \in {stripGitPrefix(gitPath(f)) : f \in {g \in Paths : lines(g) # {}}} |->
          UNION {lines(f) : f \in named(path)}]

\* computeChangedLinesFromWorkingTree; git may fail
Diff(ok) ==
    /\ step = "diff"
    /\ step' = IF ok THEN "jest" ELSE "threw"
    /\ changed' = IF ok THEN parseUnifiedDiffHunks ELSE changed
    /\ UNCHANGED <<workingTree, hits, suite, moved, stop>>

-----------------------------------------------------------------------------
Cancel ==
    /\ step \in {"diff", "jest", "cross"} /\ ~stop /\ stop' = TRUE
    /\ UNCHANGED <<workingTree, step, changed, hits, suite, moved>>

\* a line typed in at the top moves the others
Edit(f) ==
    /\ step = "jest" /\ ~moved /\ moved' = TRUE
    /\ content' = [content EXCEPT ![f] = <<[new |-> TRUE, code |-> TRUE]>> \o @]
    /\ UNCHANGED <<prefix, tracked, eligible, removed, step, changed, hits, suite, stop>>

\* both places where the signal is looked at throw AbortedError
Aborted ==
    /\ step \in {"jest", "cross"} /\ stop /\ step' = "threw"
    /\ UNCHANGED <<workingTree, changed, hits, suite, moved, stop>>

\* runJestWithCoverage: without a report it throws; a repository without tests reports
\* nothing executed and no failure; a suite that cannot be loaded is no failed test
Jest(report, executed, outcome) ==
    /\ step = "jest" /\ ~stop
    /\ step' = IF report THEN "cross" ELSE "threw"
    /\ hits' = IF report THEN executed ELSE hits
    /\ suite' = IF report THEN outcome ELSE suite
    /\ UNCHANGED <<workingTree, changed, moved, stop>>

-----------------------------------------------------------------------------
(* computeCoverageFileResults                                                  *)

\* all changed lines of a file no test executed; else those that are statements with no hit
Uncovered(path) ==
    IF path \notin Paths \/ hits[path] = NoEntry THEN changed[path]
    ELSE {l \in changed[path] : l \in CodeLines(path) \ hits[path]}

CrossReference ==
    /\ step = "cross" /\ ~stop
    /\ step' = IF /\ \A path \in DOMAIN changed : isEligibleSourceFile(path) => Uncovered(path) = {}
                  /\ suite # "failed"
               THEN "passed" ELSE "failed"
    /\ UNCHANGED <<workingTree, changed, hits, suite, moved, stop>>

Executions == {h \in [Paths -> {NoEntry} \union SUBSET (1 .. MaxLines + 1)] :
                 \A f \in Paths : h[f] = NoEntry \/ h[f] \subseteq CodeLines(f)}

GateNext ==
    \/ \E ok \in BOOLEAN : Diff(ok)
    \/ Cancel \/ Aborted \/ CrossReference
    \/ \E f \in Paths : Edit(f)
    \/ \E report \in BOOLEAN, executed \in Executions,
          outcome \in {"passed", "failed", "unloaded"} : Jest(report, executed, outcome)

-----------------------------------------------------------------------------
NewLines(f) == {l \in DOMAIN content[f] : content[f][l].new}

\* A verdict is right in both directions, unless the files were edited under it: the gate
\* passes exactly when no test failed and every new statement of every source file git tracks
\* was executed, with every line of one no test executed, wherever repoRoot lies. Of what git
\* tracks, the diff loses no line on its way; a new file nobody has added is not in the diff,
\* and the gate passes without a test for it.
GateIsHonest ==
    step \in {"passed", "failed"} /\ ~moved =>
      (step = "passed" <=>
         /\ suite # "failed"
         /\ \A f \in tracked : isEligibleSourceFile(f) =>
              IF hits[f] = NoEntry THEN NewLines(f) = {}
              ELSE NewLines(f) \intersect CodeLines(f) \subseteq hits[f])

GateSpec == GateInit /\ [][GateNext]_gateVars

-----------------------------------------------------------------------------
(* The inductive invariant                                                     *)

GateTypeOK == /\ prefix \in Seq(STRING) /\ tracked \subseteq Paths /\ content \in [Paths -> Seq(Line)]
              /\ step \in {"diff", "jest", "cross", "passed", "failed", "threw"}
              /\ moved \in BOOLEAN

\* until somebody edits a file, what was read off the diff is what is new
DiffIsExact == step \in {"jest", "cross"} /\ ~moved =>
                 changed = [f \in {g \in tracked : NewLines(g) # {}} |-> NewLines(f)]

GateInv == GateTypeOK /\ DiffIsExact /\ GateIsHonest
=============================================================================
