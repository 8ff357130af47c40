----------------------------- MODULE MCGrading -----------------------------
(* Small instances of Execution, Judging and Similarity, side by side: a
   behaviour is one of the three modules', the other two stay as they start.
   Only Execution has fairness. *)
EXTENDS Execution, Judging, Similarity

VARIABLE part

-----------------------------------------------------------------------------
(* Texts of up to three characters: letters of both cases, a digit, a space and a
   line ending reach every branch of every checker. *)
Chars == {"x", "X", "1", " ", "nl"}
UpToLength(n, C) == UNION {[1..m -> C] : m \in 0..n}

ShortTexts    == UpToLength(2, Chars) \cup UpToLength(3, Chars \ {"X"})
PostedTexts   == {<<"X">>}
EveryChecker  == {"exact", "case_insensitive", "float", "unordered_lines", "unordered_tokens", "regex"}
HalfTolerance == [num |-> 1, den |-> 2]

(* Either every pair of texts and no edits, or one text and every edit. *)
TextsOrEdits ==
  /\ engine = "matched"
  /\ \/ /\ changes = MaxChanges
        /\ exit = 0 /\ compiles = TRUE
        /\ kept \in [1..1 -> [expected : Texts, checker : {""}, weight : {1}, group : {""}]]
     \/ /\ changes = 0
        /\ printed = <<"x">>
        /\ kept \in [1..1 -> [expected : {<<"x">>, <<"X">>}, checker : {"", "unordered_tokens"},
                              weight : {1}, group : {""}]]
        /\ checker \in {"exact", "case_insensitive"}

NothingToJudge ==
  /\ changes = MaxChanges /\ engine = "matched" /\ exit = 0 /\ compiles = TRUE
  /\ printed = <<>> /\ checker = "exact"
  /\ kept = <<[expected |-> <<>>, checker |-> "", weight |-> 1, group |-> ""]>>

(* Two documents under hashes that may collide, or three under one hash. *)
PairsOrClasses ==
  \/ hashString \in [Grams -> 0..1] /\ latestCode \in [1..2 -> Documents]
  \/ /\ hashString = [g \in Grams |-> g[1] + 2 * g[2]]
     /\ latestCode \in [1..3 -> UpToLength(4, Tokens)]

NothingToRun ==
  mode = "host" /\ daemon = TRUE /\ cached = FALSE /\ program = [r \in Runs |-> "right"]

NothingToScreen == hashString = [g \in Grams |-> 0] /\ latestCode = <<>>

-----------------------------------------------------------------------------
GradingInit ==
  /\ part \in {"execution", "judging", "screening"}
  /\ IF part = "judging" THEN TextsOrEdits ELSE NothingToJudge
  /\ JudgingInit
  /\ IF part = "screening" THEN PairsOrClasses ELSE NothingToScreen
  /\ ScreenInit
  /\ IF part = "execution" THEN TRUE ELSE NothingToRun
  /\ Init

GradingNext ==
  /\ UNCHANGED part
  /\ \/ part = "execution" /\ Next /\ UNCHANGED <<judgingVars, screenVars>>
     \/ part = "judging" /\ JudgingNext /\ UNCHANGED <<vars, screenVars>>
     \/ part = "screening" /\ ScreenNext /\ UNCHANGED <<vars, judgingVars>>

(* FairSpec of Execution, for its part. *)
Steps(A) == part = "execution" /\ A /\ UNCHANGED <<part, judgingVars, screenVars>>

GradingSpec ==
  /\ GradingInit /\ [][GradingNext]_<<part, vars, judgingVars, screenVars>>
  /\ WF_vars(Steps(Grader))
  /\ WF_vars(Steps(Overflow)) /\ WF_vars(Steps(HardTimeout /\ UNCHANGED faults))
  /\ \A r \in Runs : WF_vars(Steps(Machine(r) /\ UNCHANGED faults))

-----------------------------------------------------------------------------
(* Every variable of the three has its type. *)
GradingTypeOK == TypeOK /\ JudgingTypeOK /\ ScreenTypeOK

(* GradingEnds, of the behaviours that are gradings. *)
GradingsEnd == part = "execution" => GradingEnds
=============================================================================
