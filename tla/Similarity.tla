----------------------------- MODULE Similarity -----------------------------
(* Screening for copied code: services/similarity.service.js, and the report
   and the comparison that routes/integrity.routes.js makes of it.

   A submission is the sequence of its tokens as tokenize leaves them, so that
   renamed variables and moved comments are gone already.  The 32-bit hash of
   K tokens is an arbitrary function: two different grams may collide.  Scores
   are in tenths of a percent, as the routes round them. *)
EXTENDS Integers, Sequences, FiniteSets

CONSTANTS
  Tokens,    \* what tokenize can emit
  K,         \* K_GRAM_SIZE, tokens per gram
  W,         \* WINDOW_SIZE, grams per window
  MinPrints, \* ARCHIVE_MIN_FINGERPRINT
  MaxLength  \* bound: tokens of one submission

ASSUME SizesAssumption ==
  K \in Nat \ {0} /\ W \in Nat \ {0} /\ MinPrints \in Nat /\ MaxLength \in Nat

VARIABLES
  hashString, \* what each gram hashes to
  latestCode, \* the latest submission of each student, in one language
  screened    \* what the teacher has been shown

screenVars == <<hashString, latestCode, screened>>

Grams == [1..K -> Tokens]
Documents == UNION {[1..n -> Tokens] : n \in 0..MaxLength}

-----------------------------------------------------------------------------
(* winnow *)

(* The hashes of a document's grams, in order. *)
grams(tokens) ==
  [i \in 1 .. (Len(tokens) - K + 1) |-> hashString[[j \in 1..K |-> tokens[i + j - 1]]]]

Window(i) == i .. (i + W - 1)

(* <= keeps the rightmost minimum. *)
IsRightmostMinimum(g, i, j) ==
  /\ j \in Window(i)
  /\ \A m \in Window(i) : g[j] =< g[m] /\ (m > j => g[j] < g[m])

rightmostMinimum(g, i) == CHOOSE j \in Window(i) : IsRightmostMinimum(g, i, j)

(* Mutant: the last window left out. *)
winnowEarlyEnd(g) ==
  IF Len(g) =< W THEN DOMAIN g
  ELSE {rightmostMinimum(g, i) : i \in 1 .. (Len(g) - W)}

(* The places of the fingerprints.  The minimum moves to the right with the
   window, so skipping the one selected last skips every repetition. *)
winnow(g) ==
  IF Len(g) =< W THEN DOMAIN g
  ELSE {rightmostMinimum(g, i) : i \in 1 .. (Len(g) - W + 1)}

computeFingerprint(tokens) == {grams(tokens)[i] : i \in winnow(grams(tokens))}

-----------------------------------------------------------------------------
(* compareFingerprints, getMatchedSpans, computeClassReport *)

shared(a, b) == computeFingerprint(a) \cap computeFingerprint(b)

(* Math.round(1000 * part / whole); an empty document is like nothing. *)
Tenths(part, whole) == (2000 * Cardinality(part) + Cardinality(whole)) \div (2 * Cardinality(whole))

Larger(x, y)  == IF x > y THEN x ELSE y
Smaller(x, y) == IF x > y THEN y ELSE x

BothSigned(a, b) == computeFingerprint(a) # {} /\ computeFingerprint(b) # {}

similarity(a, b) ==
  IF BothSigned(a, b)
  THEN Larger(Tenths(shared(a, b), computeFingerprint(a)), Tenths(shared(a, b), computeFingerprint(b)))
  ELSE 0

(* Of both, not of the shorter one: the archive has no class to compare with. *)
archiveSimilarity(a, b) ==
  IF /\ BothSigned(a, b)
     /\ Cardinality(winnow(grams(a))) >= MinPrints /\ Cardinality(winnow(grams(b))) >= MinPrints
  THEN Smaller(Tenths(shared(a, b), computeFingerprint(a)), Tenths(shared(a, b), computeFingerprint(b)))
  ELSE 0

(* The tokens that are highlighted; overlapping spans are one. *)
getMatchedSpans(tokens, hashes) ==
  UNION {i .. (i + K - 1) : i \in {p \in winnow(grams(tokens)) : grams(tokens)[p] \in hashes}}

Pairs == {p \in (DOMAIN latestCode) \X (DOMAIN latestCode) : p[1] < p[2]}

KthSmallest(f, k) ==
  CHOOSE v \in {f[p] : p \in DOMAIN f} :
    /\ Cardinality({p \in DOMAIN f : f[p] < v}) < k
    /\ k =< Cardinality({p \in DOMAIN f : f[p] =< v})

(* Mutant: the least instead of the median. *)
TwiceMinimum(f) == IF DOMAIN f = {} THEN 0 ELSE 2 * KthSmallest(f, 1)

(* Twice the median, so that the mean of the two in the middle is whole. *)
TwiceMedian(f) ==
  LET n == Cardinality(DOMAIN f)
  IN  IF n = 0 THEN 0 ELSE KthSmallest(f, (n + 1) \div 2) + KthSmallest(f, (n \div 2) + 1)

ABSOLUTE_FLOOR       == 600
MARGIN_OVER_BASELINE == 200

computeClassReport ==
  LET score == [p \in Pairs |-> similarity(latestCode[p[1]], latestCode[p[2]])]
  IN  [similarity |-> score,
       notable |-> {p \in Pairs : /\ score[p] >= ABSOLUTE_FLOOR
                                  /\ 2 * score[p] >= TwiceMedian(score) + 2 * MARGIN_OVER_BASELINE}]

-----------------------------------------------------------------------------
Nothing == [view |-> "none"]

(* GET /integrity/problem/:id/similarity; a group of one is not shown. *)
GetSimilarity ==
  /\ Len(latestCode) >= 2 /\ screened = Nothing
  /\ screened' = [view |-> "class", report |-> computeClassReport]
  /\ UNCHANGED <<hashString, latestCode>>

(* GET /integrity/compare/:a/:b *)
GetCompare ==
  /\ screened = Nothing
  /\ \E p \in Pairs :
       LET a == latestCode[p[1]]
           b == latestCode[p[2]]
       IN  screened' = [view |-> "pair", of |-> p, similarity |-> similarity(a, b),
                        spansA |-> getMatchedSpans(a, shared(a, b)),
                        spansB |-> getMatchedSpans(b, shared(a, b))]
  /\ UNCHANGED <<hashString, latestCode>>

ScreenInit ==
  /\ hashString \in [Grams -> Nat]
  /\ latestCode \in Seq(Documents)
  /\ screened = Nothing

ScreenNext == GetSimilarity \/ GetCompare

ScreenSpec == ScreenInit /\ [][ScreenNext]_screenVars

-----------------------------------------------------------------------------
(* Scores are percentages, and what is highlighted is there. *)
ScreenTypeOK ==
  /\ screened.view = "pair" =>
       /\ screened.similarity \in 0..1000
       /\ screened.spansA \subseteq DOMAIN latestCode[screened.of[1]]
       /\ screened.spansB \subseteq DOMAIN latestCode[screened.of[2]]
  /\ screened.view = "class" => screened.report.notable \subseteq Pairs

(* "Guarantees detection of matches >= K_GRAM_SIZE + WINDOW_SIZE - 1 tokens"
   (similarity.service.js:24): when two submissions have that many tokens in a
   row in common, wherever they stand and whatever collides, the comparison
   highlights a part of that run in both, and the score is not zero, unless both
   have so many fingerprints that one of them rounds to no tenth of a percent. *)
SharedRunIsSeen ==
  screened.view = "pair" =>
    LET a == latestCode[screened.of[1]]
        b == latestCode[screened.of[2]]
        run == K + W - 1
    IN  \A i \in 1 .. (Len(a) - run + 1), j \in 1 .. (Len(b) - run + 1) :
          (\A n \in 0 .. (run - 1) : a[i + n] = b[j + n]) =>
            /\ (\E tokens \in {a, b} : Cardinality(computeFingerprint(tokens)) =< 2000) =>
                 screened.similarity > 0
            /\ screened.spansA \cap (i .. (i + run - 1)) # {}
            /\ screened.spansB \cap (j .. (j + run - 1)) # {}

(* A class in which everyone writes the same is not reported as a class of
   copies (:217-224): at most half of the pairs are notable, so that two
   students alone never are; the archive accuses no one whom the class report
   would score lower. *)
HalfTheClassAtMost ==
  screened.view = "class" =>
    /\ 2 * Cardinality(screened.report.notable) =< Cardinality(Pairs)
    /\ \A p \in Pairs : archiveSimilarity(latestCode[p[1]], latestCode[p[2]]) =< screened.report.similarity[p]

(* Neither a copied run is missed nor a class accused. *)
ScreeningIsSound == SharedRunIsSeen /\ HalfTheClassAtMost
=============================================================================
