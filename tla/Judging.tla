------------------------------- MODULE Judging -------------------------------
(* What one submission is worth: services/checker.service.js,
   services/verdict.service.js and the marking of codeExecution.service.js, on
   the test cases and the problem that the worker reads in two queries while the
   teacher goes on editing both.

   A text is a sequence of characters; " " stands for a space or tab and "nl" for
   a line ending of either kind.  How a program is run is Execution's: here it
   has printed one text for every test case and has exited.  V8's regular
   expressions are outside: "engine" is what every match comes to.  A checker
   stands for itself with its config, which travels with it. *)
EXTENDS Integers, Sequences, SequencesExt, FiniteSetsExt

CONSTANTS
  Texts,        \* what may be printed, and expected
  LaterTexts,   \* what test cases posted meanwhile expect
  CheckersUsed, \* the checkers that problems and test cases name
  Weights,      \* what test cases are worth
  Tolerance,    \* checker_config.tolerance, as [num, den]
  MaxCasesKept, \* bound: test cases of the problem
  MaxChanges    \* bound: what the teacher changes meanwhile

(* schema.sql:128-155 names the checkers and keeps a weight from being negative.
   A tolerance may be: neither the form nor the route refuses it. *)
ASSUME JudgingAssumption ==
  /\ Texts \cup LaterTexts \subseteq Seq(STRING)
  /\ CheckersUsed \subseteq {"exact", "case_insensitive", "float", "unordered_lines",
                            "unordered_tokens", "regex"}
  /\ Weights \subseteq Nat
  /\ Tolerance.num \in Int /\ Tolerance.den \in Nat \ {0}
  /\ MaxCasesKept \in Nat \ {0} /\ MaxChanges \in Nat

VARIABLES
  printed, exit, compiles, engine, \* what the program does, and the pattern
  kept,      \* test_cases, ORDER BY ord
  checker,   \* problems.checker
  asked,     \* the test cases the worker has read
  stage,     \* "queued", "cases", "problem" (both read), "judged"
  report,    \* what runTestCases returns
  changes,   \* bound
  emptied    \* history: the test cases were all gone at some time

programVars == <<printed, exit, compiles, engine>>
judgingVars == <<programVars, kept, checker, asked, stage, report, changes, emptied>>

-----------------------------------------------------------------------------
(* checker.service.js *)

split(text, separator) ==
  FoldLeft(LAMBDA ps, c : IF c = separator THEN Append(ps, <<>>)
                          ELSE [ps EXCEPT ![Len(ps)] = Append(@, c)], << <<>> >>, text)

splitLines(text) == split(text, "nl")

UpTo(s, Keep) == SubSeq(s, 1, Max({0} \cup Keep))

withoutTail(line) == UpTo(line, {k \in DOMAIN line : line[k] # " "})

(* As the list of its lines; the empty lines at the end go, too. *)
normalize(text) ==
  LET stripped == [k \in DOMAIN splitLines(text) |-> withoutTail(splitLines(text)[k])]
  IN  UpTo(stripped, {k \in DOMAIN stripped : stripped[k] # <<>>})

words(line) ==
  FoldLeft(LAMBDA ws, w : IF w = <<>> THEN ws ELSE Append(ws, w), <<>>, split(line, " "))

tokens(text) == FoldLeft(LAMBDA ts, line : ts \o words(line), <<>>, normalize(text))

trim(line) ==
  LET ink == {k \in DOMAIN line : line[k] # " "}
  IN  IF ink = {} THEN <<>> ELSE SubSeq(line, Min(ink), Max(ink))

(* The blank text is no line here, and one empty line there. *)
lines(text) == [k \in DOMAIN normalize(text) |-> trim(normalize(text)[k])]

Occurs(x, s) == Cardinality({k \in DOMAIN s : s[k] = x})

(* Mutant: how often forgotten. *)
sameElements(a, b) == ToSet(a) = ToSet(b)

(* One count per item of a, taken down by the items of b. *)
sameMultiset(a, b) ==
  /\ Len(a) = Len(b)
  /\ \A k \in DOMAIN b : Occurs(b[k], SubSeq(b, 1, k)) =< Occurs(b[k], a)

(* Number(token); NaN is -1, which no token denotes. *)
Digits == {"0", "1", "2"}
NaN    == -1
Number(token) ==
  IF \A k \in DOMAIN token : token[k] \in Digits
  THEN FoldLeft(LAMBDA n, c : 10 * n + (IF c = "0" THEN 0 ELSE IF c = "1" THEN 1 ELSE 2),
                0, token)
  ELSE NaN

numbersClose(a, b) ==
  LET diff  == IF a > b THEN a - b ELSE b - a
      scale == IF a > b THEN a ELSE b
  IN  \/ diff * Tolerance.den =< Tolerance.num
      \/ scale > 0 /\ diff * Tolerance.den =< Tolerance.num * scale

checkFloat(actual, expected) ==
  LET a == tokens(actual)
      e == tokens(expected)
  IN  /\ Len(a) = Len(e)
      /\ \A k \in DOMAIN e :
           IF Number(e[k]) = NaN THEN a[k] = e[k]
           ELSE Number(a[k]) # NaN /\ numbersClose(Number(a[k]), Number(e[k]))

(* A malformed pattern and one that is stopped after 250 ms fail closed. *)
checkRegex == engine = "matched"

Lower(c) == IF c = "X" THEN "x" ELSE c
toLowerCase(ls) == [k \in DOMAIN ls |-> [j \in DOMAIN ls[k] |-> Lower(ls[k][j])]]

check(actual, expected, judge) ==
  CASE judge = "case_insensitive" -> toLowerCase(normalize(actual)) = toLowerCase(normalize(expected))
    [] judge = "float"            -> checkFloat(actual, expected)
    [] judge = "unordered_lines"  -> sameMultiset(lines(actual), lines(expected))
    [] judge = "unordered_tokens" -> sameMultiset(tokens(actual), tokens(expected))
    [] judge = "regex"            -> checkRegex
    [] OTHER                      -> normalize(actual) = normalize(expected)

-----------------------------------------------------------------------------
(* verdict.service.js, and the marking of codeExecution.service.js. *)

checkerFor(row) == IF row.checker = "" THEN checker ELSE row.checker

verdictOf(row) ==
  IF exit # 0 THEN "runtime_error"
  ELSE IF check(printed, row.expected, checkerFor(row)) THEN "accepted" ELSE "wrong_answer"

summarize(results) ==
  IF ~compiles THEN "compile_error"
  ELSE LET failing == {k \in DOMAIN results : results[k].verdict # "accepted"}
       IN  IF failing = {} THEN "accepted" ELSE results[Min(failing)].verdict

(* What those results are worth that count. *)
Total(results, Counted) ==
  FoldLeft(LAMBDA n, r : IF r \in Counted THEN n + r.weight ELSE n, 0, results)

(* weigh: the whole, and the same for each section. *)
weigh(results) ==
  LET all    == ToSet(results)
      passed == {r \in all : r.verdict = "accepted"}
      In(g)  == {r \in all : r.group = g}
  IN  [earned |-> Total(results, passed), total |-> Total(results, all),
       groups |-> {[label |-> g, earned |-> Total(results, passed \cap In(g)),
                    total |-> Total(results, In(g))] : g \in {r.group : r \in all}}]

Result(row, verdict) == [verdict |-> verdict, weight |-> row.weight, group |-> row.group]

runTestCases ==
  LET results == [k \in DOMAIN asked |->
                    Result(asked[k], IF compiles THEN verdictOf(asked[k]) ELSE "compile_error")]
      marked  == weigh(results)
  IN  [results |-> results, verdict |-> summarize(results), earned |-> marked.earned,
       total |-> marked.total, groups |-> IF compiles THEN marked.groups ELSE {}]

-----------------------------------------------------------------------------
(* The worker's two queries, and the teacher. *)

ReadsCases ==
  /\ stage = "queued"
  /\ asked' = kept
  /\ stage' = "cases"
  /\ UNCHANGED <<programVars, kept, checker, report, changes, emptied>>

(* The checker that is read is the problem's at that moment; every change after
   it is stopped here, since the worker reads nothing else. *)
ReadsProblem ==
  /\ stage = "cases"
  /\ stage' = "problem"
  /\ UNCHANGED <<programVars, kept, checker, asked, report, changes, emptied>>

Grades ==
  /\ stage = "problem"
  /\ report' = runTestCases
  /\ stage' = "judged"
  /\ UNCHANGED <<programVars, kept, checker, asked, changes, emptied>>

Changes ==
  /\ stage \in {"queued", "cases"}
  /\ changes < MaxChanges
  /\ changes' = changes + 1

TestCases == [expected : Texts \cup LaterTexts, checker : {""} \cup CheckersUsed, weight : Weights,
              group : {"", "edge"}]

(* POST and DELETE /problems/:id/testcases, and PUT /problems/:id.  The page
   refuses to delete the last test case; the route does not. *)
PostTestCase ==
  /\ Changes
  /\ Len(kept) < MaxCasesKept
  /\ \E row \in [expected : LaterTexts, checker : {""} \cup CheckersUsed,
                 weight : Weights, group : {"", "edge"}] : kept' = Append(kept, row)
  /\ UNCHANGED <<programVars, checker, asked, stage, report, emptied>>

DeleteTestCase ==
  /\ Changes
  /\ \E k \in DOMAIN kept : kept' = RemoveAt(kept, k)
  /\ emptied' = (emptied \/ kept' = <<>>)
  /\ UNCHANGED <<programVars, checker, asked, stage, report>>

PutChecker ==
  /\ Changes
  /\ checker' \in CheckersUsed \ {checker}
  /\ UNCHANGED <<programVars, kept, asked, stage, report, emptied>>

NotYet == [results |-> <<>>, verdict |-> "none", earned |-> 0, total |-> 0, groups |-> {}]

(* A submission waits; POST /submissions has found at least one test case. *)
JudgingInit ==
  /\ printed \in Texts /\ exit \in {0, 1} /\ compiles \in BOOLEAN
  /\ engine \in {"matched", "different", "malformed", "stopped"}
  /\ kept \in Seq(TestCases) /\ Len(kept) \in 1..MaxCasesKept
  /\ checker \in CheckersUsed
  /\ asked = <<>> /\ stage = "queued" /\ report = NotYet
  /\ changes \in {0, MaxChanges} /\ emptied = FALSE

JudgingNext ==
  \/ ReadsCases \/ ReadsProblem \/ Grades
  \/ PostTestCase \/ DeleteTestCase \/ PutChecker

JudgingSpec == JudgingInit /\ [][JudgingNext]_judgingVars

-----------------------------------------------------------------------------
(* A report has one result for each test case that was read. *)
JudgingTypeOK ==
  /\ stage \in {"queued", "cases", "problem", "judged"}
  /\ Len(kept) =< MaxCasesKept /\ ToSet(kept) \subseteq TestCases
  /\ checker \in CheckersUsed /\ changes \in 0..MaxChanges
  /\ Len(report.results) = IF stage = "judged" THEN Len(asked) ELSE 0

(* The right answers, said without the service's steps: line by line up to what
   cannot be seen at the ends, or the same things in some order. *)
LineOf(text, k) == LET ls == splitLines(text)
                   IN  IF k \in DOMAIN ls THEN withoutTail(ls[k]) ELSE <<>>

LooksLike(a, e) == \A k \in 1 .. Len(a) + Len(e) + 1 : LineOf(a, k) = LineOf(e, k)

Reordered(a, e) ==
  /\ Len(a) = Len(e)
  /\ \E f \in [DOMAIN a -> DOMAIN e] :
       /\ \A i, j \in DOMAIN a : f[i] = f[j] => i = j
       /\ \A i \in DOMAIN a : a[i] = e[f[i]]

RightAnswer(a, e, judge) ==
  CASE judge = "exact"            -> LooksLike(a, e)
    [] judge = "case_insensitive" -> LooksLike([k \in DOMAIN a |-> Lower(a[k])],
                                               [k \in DOMAIN e |-> Lower(e[k])])
    [] judge = "unordered_lines"  -> Reordered(lines(a), lines(e))
    [] judge = "unordered_tokens" -> Reordered(tokens(a), tokens(e))
    [] judge = "float"            -> \/ tokens(a) = tokens(e) /\ Tolerance.num >= 0
                                     \/ checkFloat(a, e) /\ checkFloat(e, a)
    [] judge = "regex"            -> engine = "matched"

(* A pattern need not match itself, and under a negative tolerance no number is
   close even to itself. *)
Accommodating == {c \in CheckersUsed \ {"regex"} : c = "float" => Tolerance.num >= 0}

(* Every test case is passed by the right answers of its own checker and no
   others, whoever wins the races with the teacher's edits; what looks right is
   right to every accommodating checker, "exact" being the strictest; the marks
   are those of the cases passed, in the whole and section by section; and a
   submission is accepted with nothing passed only if its test cases were all
   deleted while it waited (checker.service.js:6-18, problems.routes.js:275). *)
JudgedAsWritten ==
  stage = "judged" =>
    LET rs == report.results
        passed == {k \in DOMAIN rs : rs[k].verdict = "accepted"}
    IN
    /\ \A k \in DOMAIN rs :
         /\ k \in passed <=>
              /\ compiles /\ exit = 0
              /\ RightAnswer(printed, asked[k].expected, checkerFor(asked[k]))
         /\ LooksLike(printed, asked[k].expected) =>
              \A c \in Accommodating : check(printed, asked[k].expected, c)
    /\ report.earned = MapThenSumSet(LAMBDA k : asked[k].weight, passed)
    /\ report.earned =< report.total
    /\ report.groups # {} =>
         /\ MapThenSumSet(LAMBDA g : g.earned, report.groups) = report.earned
         /\ MapThenSumSet(LAMBDA g : g.total, report.groups) = report.total
    /\ report.verdict = "accepted" => passed = DOMAIN rs /\ (passed = {} => emptied)
=============================================================================
