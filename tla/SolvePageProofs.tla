-------------------------- MODULE SolvePageProofs --------------------------
(***************************************************************************)
(* Proofs about SolvePage for any number of visits, edits, clicks, calls   *)
(* in flight and failures.                                                 *)
(***************************************************************************)
EXTENDS SolvePage, SequenceTheorems, FiniteInduction

(***************************************************************************)
(* Sequences: a call leaves, or a page's reads do.                         *)
(***************************************************************************)

LEMMA RemoveAtProperties ==
  ASSUME NEW S, NEW s \in Seq(S), NEW i \in DOMAIN s
  PROVE  /\ RemoveAt(s, i) \in Seq(S)
         /\ Len(RemoveAt(s, i)) = Len(s) - 1
         /\ \A j \in 1 .. Len(s) - 1 : RemoveAt(s, i)[j] = IF j < i THEN s[j] ELSE s[j + 1]
  <1> DEFINE a == SubSeq(s, 1, i - 1)
             b == SubSeq(s, i + 1, Len(s))
  <1>1. /\ Len(s) \in Nat /\ i \in 1 .. Len(s)
        /\ \A j \in 1 .. Len(s) : s[j] \in S
    OBVIOUS
  <1>2. a \in Seq(S) /\ Len(a) = i - 1 /\ \A j \in 1 .. i - 1 : a[j] = s[j]
    BY <1>1
  <1>3. b \in Seq(S) /\ Len(b) = Len(s) - i /\ \A j \in 1 .. Len(s) - i : b[j] = s[i + j]
    BY <1>1
  <1>4. RemoveAt(s, i) = a \o b
    BY DEF RemoveAt
  <1> HIDE DEF a, b
  <1>5. a \o b \in Seq(S) /\ Len(a \o b) = Len(s) - 1
    BY <1>1, <1>2, <1>3
  <1>6. ASSUME NEW j \in 1 .. Len(s) - 1
        PROVE  (a \o b)[j] = IF j < i THEN s[j] ELSE s[j + 1]
    <2>1. j \in 1 .. Len(a) + Len(b)
      BY <1>1, <1>2, <1>3
    <2>2. (a \o b)[j] = IF j <= Len(a) THEN a[j] ELSE b[j - Len(a)]
      BY <1>2, <1>3, <2>1, ConcatProperties
    <2>3. CASE j < i
      BY <1>1, <1>2, <2>2, <2>3
    <2>4. CASE ~(j < i)
      <3>1. j - Len(a) \in 1 .. Len(s) - i /\ i + (j - Len(a)) = j + 1 /\ ~(j <= Len(a))
        BY <1>1, <1>2, <2>4
      <3> QED
        BY <1>3, <2>2, <2>4, <3>1
    <2> QED
      BY <2>3, <2>4
  <1> QED
    BY <1>4, <1>5, <1>6

Replies == Nat \cup {"queued", "completed", "error"} \cup {Waiting, Failed}
CallRecords == [op : {"put", "post", "delete", "restore", "poll"}, arg : Nat,
                from : Anywhere, reply : Replies]

(* Of a sequence of calls some are left, in their order; a page's calls may *)
(* cease to be its own.  f tells where each was.                           *)
Thins(s, t, f) ==
  /\ f \in [DOMAIN t -> DOMAIN s]
  /\ \A m, n \in DOMAIN t : m < n => f[m] < f[n]
  /\ \A n \in DOMAIN t : /\ t[n].op = s[f[n]].op /\ t[n].arg = s[f[n]].arg
                         /\ t[n].reply = s[f[n]].reply
                         /\ t[n].from = "here" => s[f[n]].from = "here"

(* One is taken out. *)
LEMMA RemovalThins ==
  ASSUME NEW s \in Seq(CallRecords), NEW i \in DOMAIN s
  PROVE  /\ RemoveAt(s, i) \in Seq(CallRecords)
         /\ \E f : /\ Thins(s, RemoveAt(s, i), f)
                   /\ \A n \in DOMAIN RemoveAt(s, i) : f[n] # i /\ RemoveAt(s, i)[n] = s[f[n]]
                   /\ \A k \in DOMAIN s : k # i => \E n \in DOMAIN RemoveAt(s, i) : f[n] = k
  <1> DEFINE t == RemoveAt(s, i)
             f == [n \in DOMAIN t |-> IF n < i THEN n ELSE n + 1]
  <1>1. /\ t \in Seq(CallRecords) /\ Len(t) = Len(s) - 1
        /\ \A j \in 1 .. Len(s) - 1 : t[j] = IF j < i THEN s[j] ELSE s[j + 1]
    BY RemoveAtProperties
  <1>2. Len(s) \in Nat /\ DOMAIN s = 1 .. Len(s) /\ DOMAIN t = 1 .. Len(s) - 1
    BY <1>1
  <1> HIDE DEF t
  <1>3. f \in [DOMAIN t -> DOMAIN s]
    BY <1>2
  <1>4. \A n \in DOMAIN t : f[n] # i /\ t[n] = s[f[n]]
    BY <1>1, <1>2
  <1>5. \A m, n \in DOMAIN t : m < n => f[m] < f[n]
    BY <1>2
  <1>6. ASSUME NEW k \in DOMAIN s, k # i PROVE \E n \in DOMAIN t : f[n] = k
    <2>1. CASE k < i
      <3>1. k \in DOMAIN t /\ f[k] = k
        BY <1>2, <2>1
      <3> QED
        BY <3>1
    <2>2. CASE k > i
      <3>1. k - 1 \in DOMAIN t /\ f[k - 1] = k
        BY <1>2, <2>2
      <3> QED
        BY <3>1
    <2> QED
      BY <1>2, <1>6, <2>1, <2>2
  <1> HIDE DEF f
  <1>7. Thins(s, t, f)
    BY <1>3, <1>4, <1>5 DEF Thins
  <1> QED
    BY <1>1, <1>4, <1>6, <1>7 DEF t

(* How Rank counts. *)
LEMMA RankCounts ==
  ASSUME calls \in Seq(CallRecords)
  PROVE  /\ Rank(0) = 0
         /\ \A i \in 0 .. Len(calls) : Rank(i) \in Nat
         /\ \A i \in DOMAIN calls :
              Rank(i) = IF Outlives(calls[i]) THEN Rank(i - 1) + 1 ELSE Rank(i - 1)
         /\ \A i, j \in 0 .. Len(calls) : i <= j => Rank(i) <= Rank(j)
  <1> DEFINE R(i) == {j \in 1 .. i : Outlives(calls[j])}
  <1>0. Len(calls) \in Nat /\ DOMAIN calls = 1 .. Len(calls)
    OBVIOUS
  <1>1. \A i \in 0 .. Len(calls) : IsFiniteSet(R(i))
    <2> TAKE i \in 0 .. Len(calls)
    <2>1. IsFiniteSet(1 .. i) /\ R(i) \subseteq 1 .. i
      BY <1>0, FS_Interval
    <2> QED
      BY <2>1, FS_Subset
  <1>2. \A i \in 0 .. Len(calls) : Rank(i) \in Nat
    BY <1>1, FS_CardinalityType DEF Rank
  <1>3. Rank(0) = 0
    <2>1. R(0) = {}
      OBVIOUS
    <2> QED
      BY <2>1, FS_EmptySet DEF Rank
  <1>4. \A i, j \in 0 .. Len(calls) : i <= j => Rank(i) <= Rank(j)
    <2> SUFFICES ASSUME NEW i \in 0 .. Len(calls), NEW j \in 0 .. Len(calls), i <= j
                 PROVE  Rank(i) <= Rank(j)
      OBVIOUS
    <2>1. R(i) \subseteq R(j)
      BY <1>0
    <2> QED
      BY <1>1, <2>1, FS_Subset DEF Rank
  <1>5. ASSUME NEW i \in DOMAIN calls
        PROVE  Rank(i) = IF Outlives(calls[i]) THEN Rank(i - 1) + 1 ELSE Rank(i - 1)
    <2>1. i - 1 \in 0 .. Len(calls) /\ i \notin R(i - 1)
      BY <1>0
    <2>2. CASE Outlives(calls[i])
      <3>1. R(i) = R(i - 1) \cup {i}
        BY <1>0, <2>2
      <3> QED
        BY <1>1, <2>1, <2>2, <3>1, FS_AddElement DEF Rank
    <2>3. CASE ~Outlives(calls[i])
      <3>1. R(i) = R(i - 1)
        BY <1>0, <2>3
      <3> QED
        BY <2>3, <3>1 DEF Rank
    <2> QED
      BY <2>2, <2>3
  <1> QED
    BY <1>2, <1>3, <1>4, <1>5

(* Every rank is some call's: the first position that has it. *)
LEMMA SurvivorIs ==
  ASSUME calls \in Seq(CallRecords), NEW n \in 1 .. Rank(Len(calls))
  PROVE  Survivor(n) \in DOMAIN calls /\ Outlives(calls[Survivor(n)]) /\ Rank(Survivor(n)) = n
  <1> DEFINE T == {i \in 1 .. Len(calls) : Rank(i) >= n}
  <1>1. Len(calls) \in Nat /\ DOMAIN calls = 1 .. Len(calls) /\ n \in Nat /\ n >= 1
    BY RankCounts
  <1>2. Rank(Len(calls)) >= n /\ Rank(Len(calls)) \in Nat
    BY <1>1, RankCounts
  <1>3. Len(calls) # 0
    BY <1>1, <1>2, RankCounts
  <1>4. T \in SUBSET Nat /\ T # {}
    BY <1>1, <1>2, <1>3
  <1>5. PICK i \in T : \A j \in T : i <= j
    BY <1>4, LeastNumber
  <1>6. i \in DOMAIN calls /\ Rank(i) >= n /\ Rank(i) \in Nat
    BY <1>1, <1>5, RankCounts
  <1>7. Rank(i - 1) < n /\ Rank(i - 1) \in Nat
    <2>1. CASE i = 1
      BY <1>1, <2>1, RankCounts
    <2>2. CASE i # 1
      <3>1. i - 1 \in 1 .. Len(calls) /\ i - 1 \notin T
        BY <1>1, <1>5, <1>6, <2>2
      <3>2. Rank(i - 1) \in Nat
        BY <1>1, <3>1, RankCounts
      <3> QED
        BY <1>1, <3>1, <3>2
    <2> QED
      BY <2>1, <2>2
  <1>8. Outlives(calls[i]) /\ Rank(i) = n
    <2>1. Rank(i) = IF Outlives(calls[i]) THEN Rank(i - 1) + 1 ELSE Rank(i - 1)
      BY <1>6, RankCounts
    <2> QED
      BY <1>1, <1>6, <1>7, <2>1
  <1>9. \E k \in DOMAIN calls : Outlives(calls[k]) /\ Rank(k) = n
    BY <1>6, <1>8
  <1> QED
    BY <1>9 DEF Survivor

(* A page goes away. *)
LEMMA AbandonedThins ==
  ASSUME calls \in Seq(CallRecords), NEW where \in {"left", "gone"}
  PROVE  /\ Abandoned(where) \in Seq(CallRecords)
         /\ \E f : /\ Thins(calls, Abandoned(where), f)
                   /\ \A n \in DOMAIN Abandoned(where) :
                        /\ Outlives(Abandoned(where)[n])
                        /\ Abandoned(where)[n].from \in {"left", "gone"}
                   /\ \A k \in DOMAIN calls :
                        Outlives(calls[k]) => \E n \in DOMAIN Abandoned(where) : f[n] = k
  <1> DEFINE t == Abandoned(where)
             N == Rank(Len(calls))
             f == [n \in 1 .. N |-> Survivor(n)]
  <1>0. Len(calls) \in Nat /\ DOMAIN calls = 1 .. Len(calls) /\ N \in Nat
    BY RankCounts
  <1>1. t = [n \in 1 .. N |-> [calls[Survivor(n)] EXCEPT !.from =
               IF where = "gone" \/ @ = "gone" THEN "gone" ELSE "left"]]
    BY DEF Abandoned
  <1>2. \A n \in 1 .. N : /\ f[n] \in DOMAIN calls /\ Outlives(calls[f[n]]) /\ Rank(f[n]) = n
                          /\ calls[f[n]] \in CallRecords
    BY SurvivorIs
  <1>3. \A n \in 1 .. N :
          t[n] = [calls[f[n]] EXCEPT !.from = IF where = "gone" \/ @ = "gone" THEN "gone" ELSE "left"]
    BY <1>1
  <1>a. DOMAIN t = 1 .. N /\ f \in [1 .. N -> DOMAIN calls]
    BY <1>1, <1>2
  <1> HIDE DEF t, f, N
  <1>4. ASSUME NEW n \in 1 .. N
        PROVE  /\ t[n] \in CallRecords
               /\ t[n].op = calls[f[n]].op /\ t[n].arg = calls[f[n]].arg
               /\ t[n].reply = calls[f[n]].reply /\ t[n].from \in {"left", "gone"}
    BY <1>2, <1>3 DEF CallRecords, Anywhere
  <1>5. t \in Seq(CallRecords)
    <2>1. t = [n \in 1 .. N |-> t[n]]
      BY <1>1, <1>a DEF t, N
    <2>2. \A n \in 1 .. N : t[n] \in CallRecords
      BY <1>4
    <2> QED
      BY <1>0, <2>1, <2>2
  <1>6. \A m, n \in 1 .. N : m < n => f[m] < f[n]
    <2> SUFFICES ASSUME NEW m \in 1 .. N, NEW n \in 1 .. N, m < n, ~(f[m] < f[n]) PROVE FALSE
      OBVIOUS
    <2>1. f[n] <= f[m] /\ f[n] \in 0 .. Len(calls) /\ f[m] \in 0 .. Len(calls)
      BY <1>0, <1>2
    <2>2. Rank(f[n]) <= Rank(f[m])
      BY <2>1, RankCounts
    <2> QED
      BY <1>0, <1>2, <2>2
  <1>7. ASSUME NEW k \in DOMAIN calls, Outlives(calls[k]) PROVE \E n \in 1 .. N : f[n] = k
    <2>1. /\ Rank(k) = Rank(k - 1) + 1 /\ Rank(k - 1) \in Nat /\ Rank(k) <= N /\ Rank(k) \in Nat
      BY <1>0, <1>7, RankCounts DEF N
    <2>2. Rank(k) \in 1 .. N
      BY <1>0, <2>1
    <2>3. f[Rank(k)] = k
      <3> DEFINE q == f[Rank(k)]
      <3>1. q \in DOMAIN calls /\ Outlives(calls[q]) /\ Rank(q) = Rank(k)
        BY <1>2, <2>2
      <3> HIDE DEF q
      <3>2. Rank(q) = Rank(q - 1) + 1 /\ Rank(q - 1) \in Nat
        BY <1>0, <3>1, RankCounts
      <3>3. ASSUME q < k PROVE FALSE
        <4>1. Rank(q) <= Rank(k - 1)
          BY <1>0, <3>1, <3>3, RankCounts
        <4> QED
          BY <2>1, <3>1, <4>1
      <3>4. ASSUME k < q PROVE FALSE
        <4>1. Rank(k) <= Rank(q - 1)
          BY <1>0, <3>1, <3>4, RankCounts
        <4> QED
          BY <2>1, <3>1, <3>2, <4>1
      <3>5. q = k
        BY <1>0, <3>1, <3>3, <3>4
      <3> QED
        BY <3>5 DEF q
    <2> QED
      BY <2>2, <2>3
  <1>8. Thins(calls, t, f)
    BY <1>a, <1>4, <1>6 DEF Thins
  <1>9. \A n \in DOMAIN t : Outlives(t[n]) /\ t[n].from \in {"left", "gone"}
    BY <1>a, <1>2, <1>4 DEF Outlives
  <1> QED
    BY <1>a, <1>5, <1>7, <1>8, <1>9 DEF t

-----------------------------------------------------------------------------
(***************************************************************************)
(* The inductive invariant.                                                *)
(***************************************************************************)

RowRecords == [click : Nat, status : {"queued", "completed", "error"}]

(* What a call may ask and be told, with versions up to v, clicks k and rows r. *)
RightCall(c, v, k, r) ==
  /\ c.op = "put" => c.arg \in 1 .. v /\ c.reply = Waiting
  /\ c.op = "post" =>
       /\ c.arg \in DOMAIN k
       /\ c.reply \notin {Waiting, Failed} => c.reply \in DOMAIN r /\ r[c.reply].click = c.arg
  /\ c.op = "delete" =>
       /\ c.arg \in DOMAIN k /\ c.reply = Waiting
       /\ \E id \in DOMAIN r : r[id].click = c.arg
  /\ c.op = "restore" => c.arg = 0 /\ c.reply \in {Waiting, Failed} \cup 0 .. v
  /\ c.op = "poll" =>
       /\ c.arg \in DOMAIN r
       /\ c.reply \notin {Waiting, Failed, "queued"} =>
            c.reply \in Settled /\ r[c.arg].status = c.reply

RightCalls(s, v, k, r) == \A i \in DOMAIN s : RightCall(s[i], v, k, r)

(* Rows come of clicks that sent a program, and only completed ones are pushed. *)
RightRows(r, k) == \A id \in DOMAIN r : r[id].click \in DOMAIN k /\ k[r[id].click] # Empty
RightPushes(q, r) == \A id \in q : id \in DOMAIN r /\ r[id].status = "completed"

(* The one click that waits for its answer is the last, and only while phase says so. *)
HerePost(c) == c.op = "post" /\ c.from = "here"
OnePost(s, ph, n) ==
  /\ \A i \in DOMAIN s : HerePost(s[i]) => ph = "queued" /\ s[i].arg = n
  /\ \A i, j \in DOMAIN s : HerePost(s[i]) /\ HerePost(s[j]) => i = j

(* The draft is fetched once, by the page that is restoring it. *)
OneRestore(s, p) ==
  /\ \A i \in DOMAIN s : s[i].op = "restore" => p = "restoring"
  /\ \A i, j \in DOMAIN s : s[i].op = "restore" /\ s[j].op = "restore" => i = j

(* Saves of w come last; with w already stored, the others have been served. *)
SavesInOrder(s, w, d) ==
  /\ d = w => \A i \in DOMAIN s : s[i].op = "put" => s[i].arg = w
  /\ \A i, j \in DOMAIN s :
       s[i].op = "put" /\ s[j].op = "put" /\ s[i].arg = w /\ i < j => s[j].arg = w

(* The fetch comes after the saves, and brings w. *)
FetchIsLast(s, w) ==
  \A i \in DOMAIN s : s[i].op = "restore" =>
    /\ s[i].reply \in {Waiting, w}
    /\ \A j \in DOMAIN s : s[j].op = "put" => j < i

InFlight(s, w) == \E i \in DOMAIN s : s[i].op = "put" /\ s[i].arg = w
Submitted(r, k, w) == \E id \in DOMAIN r : k[r[id].click] = w

Typing ==
  /\ page \in {"away", "loading", "restoring", "ready"}
  /\ phase \in {"idle", "queued", "grading", "done"}
  /\ code \in 0 .. typed /\ timer \in {Empty, code}
  /\ pending \in 0 .. Len(rows) /\ polling = pending
  /\ shown \in [id : 0 .. Len(rows), status : Settled \cup {"none"}]
  /\ calls \in Seq(CallRecords)
  /\ draft \in 0 .. typed /\ rows \in Seq(RowRecords)
  /\ typed \in 1 .. acts + 1 /\ work \in {Empty, typed}
  /\ clicked \in Seq(Nat) /\ \A n \in DOMAIN clicked : clicked[n] \in 0 .. typed
  /\ mishap \in Mishaps /\ acts \in 0 .. MaxActs

Server == RightRows(rows, clicked) /\ RightPushes(pushes, rows)

Answers ==
  /\ pending # 0 => phase = "grading" /\ rows[pending].click = Len(clicked)
  /\ phase = "done" => /\ shown.id \in DOMAIN rows
                       /\ rows[shown.id].click = Len(clicked)
                       /\ rows[shown.id].status = shown.status
                       /\ shown.status \in Settled

Editor ==
  /\ page \in {"away", "loading"} => code = Empty
  /\ page = "restoring" /\ mishap = "none" => code = Empty

(* Where w is: in the editor of a page that is ready, and in the timer, saved or on its way. *)
Drafted(w, p, c, t, s, d) ==
  /\ p = "ready" => c = w
  /\ SavesInOrder(s, w, d) /\ FetchIsLast(s, w)
  /\ t = w \/ d = w \/ InFlight(s, w)

(* The newest work, neither lost by a mishap nor submitted. *)
WorkHeld ==
  mishap = "none" /\ work # Empty /\ ~Submitted(rows, clicked, work) =>
    Drafted(work, page, code, timer, calls, draft)

IInv ==
  /\ Typing /\ Server /\ RightCalls(calls, typed, clicked, rows)
  /\ OnePost(calls, phase, Len(clicked)) /\ OneRestore(calls, page)
  /\ Answers /\ Editor /\ WorkHeld

-----------------------------------------------------------------------------
(***************************************************************************)
(* What keeps it: a call leaves, is sent, is answered; rows are added.     *)
(***************************************************************************)

(* Fewer calls. *)
LEMMA ThinKeeps ==
  ASSUME NEW s \in Seq(CallRecords), NEW t \in Seq(CallRecords), NEW f, Thins(s, t, f)
  PROVE  /\ \A v, k, r : RightCalls(s, v, k, r) => RightCalls(t, v, k, r)
         /\ \A ph, n : OnePost(s, ph, n) => OnePost(t, ph, n)
         /\ \A p : OneRestore(s, p) => OneRestore(t, p)
         /\ \A w, d : SavesInOrder(s, w, d) => SavesInOrder(t, w, d)
         /\ \A w : FetchIsLast(s, w) => FetchIsLast(t, w)
  <1>1. /\ \A m \in DOMAIN t : f[m] \in DOMAIN s
        /\ \A m, j \in DOMAIN t : m < j => f[m] < f[j]
        /\ \A m \in DOMAIN t : /\ t[m].op = s[f[m]].op /\ t[m].arg = s[f[m]].arg
                               /\ t[m].reply = s[f[m]].reply
                               /\ t[m].from = "here" => s[f[m]].from = "here"
    BY DEF Thins
  <1>2. \A m \in DOMAIN t : m \in Nat
    OBVIOUS
  <1>3. \A m \in DOMAIN s : m \in Nat
    OBVIOUS
  <1>4. \A m, j \in DOMAIN t : f[m] = f[j] => m = j
    BY <1>1, <1>2, <1>3
  <1>5. \A m, j \in DOMAIN t : f[m] < f[j] => m < j
    BY <1>1, <1>2, <1>3
  <1>6. \A v, k, r : RightCalls(s, v, k, r) => RightCalls(t, v, k, r)
    BY <1>1 DEF RightCalls, RightCall
  <1>7. \A ph, n : OnePost(s, ph, n) => OnePost(t, ph, n)
    BY <1>1, <1>4 DEF OnePost, HerePost
  <1>8. \A p : OneRestore(s, p) => OneRestore(t, p)
    <2> SUFFICES ASSUME NEW p, OneRestore(s, p) PROVE OneRestore(t, p)
      OBVIOUS
    <2>1. \A m \in DOMAIN t : t[m].op = "restore" => p = "restoring"
      BY <1>1 DEF OneRestore
    <2>2. ASSUME NEW m \in DOMAIN t, NEW j \in DOMAIN t, t[m].op = "restore", t[j].op = "restore"
          PROVE  m = j
      <3>1. f[m] = f[j]
        BY <1>1, <2>2 DEF OneRestore
      <3> QED
        BY <1>4, <3>1
    <2> QED
      BY <2>1, <2>2 DEF OneRestore
  <1>9. \A w, d : SavesInOrder(s, w, d) => SavesInOrder(t, w, d)
    BY <1>1 DEF SavesInOrder
  <1>10. \A w : FetchIsLast(s, w) => FetchIsLast(t, w)
    BY <1>1, <1>5 DEF FetchIsLast
  <1> QED
    BY <1>6, <1>7, <1>8, <1>9, <1>10

(* A call is sent. *)
LEMMA SendKeeps ==
  ASSUME NEW s \in Seq(CallRecords), NEW c \in CallRecords
  PROVE  /\ Append(s, c) \in Seq(CallRecords)
         /\ \A v, k, r : RightCalls(s, v, k, r) /\ RightCall(c, v, k, r) =>
              RightCalls(Append(s, c), v, k, r)
         /\ \A ph, n : OnePost(s, ph, n) /\ ~HerePost(c) => OnePost(Append(s, c), ph, n)
         /\ \A p : OneRestore(s, p) /\ c.op # "restore" => OneRestore(Append(s, c), p)
         /\ \A w, d : SavesInOrder(s, w, d) /\ (c.op = "put" => c.arg = w) =>
              SavesInOrder(Append(s, c), w, d)
         /\ \A w : FetchIsLast(s, w) /\ c.op \notin {"put", "restore"} => FetchIsLast(Append(s, c), w)
         /\ \A w : InFlight(s, w) => InFlight(Append(s, c), w)
         /\ \A w : c.op = "put" /\ c.arg = w => InFlight(Append(s, c), w)
  <1> DEFINE t == Append(s, c)
  <1>1. /\ t \in Seq(CallRecords) /\ Len(s) \in Nat
        /\ DOMAIN s = 1 .. Len(s) /\ DOMAIN t = 1 .. Len(s) + 1
        /\ \A i \in 1 .. Len(s) : t[i] = s[i]
        /\ t[Len(s) + 1] = c
    OBVIOUS
  <1> HIDE DEF t
  <1>2. /\ \A i \in DOMAIN t : (i \in DOMAIN s /\ t[i] = s[i]) \/ (i = Len(s) + 1 /\ t[i] = c)
        /\ \A i \in DOMAIN s : i \in DOMAIN t /\ t[i] = s[i] /\ i \in Nat /\ i < Len(s) + 1
        /\ Len(s) + 1 \in DOMAIN t
    BY <1>1
  <1>3. \A v, k, r : RightCalls(s, v, k, r) /\ RightCall(c, v, k, r) => RightCalls(t, v, k, r)
    BY <1>2 DEF RightCalls
  <1>4. \A ph, n : OnePost(s, ph, n) /\ ~HerePost(c) => OnePost(t, ph, n)
    BY <1>2 DEF OnePost
  <1>5. \A p : OneRestore(s, p) /\ c.op # "restore" => OneRestore(t, p)
    BY <1>2 DEF OneRestore
  <1>6. \A w, d : SavesInOrder(s, w, d) /\ (c.op = "put" => c.arg = w) => SavesInOrder(t, w, d)
    <2> SUFFICES ASSUME NEW w, NEW d, SavesInOrder(s, w, d), c.op = "put" => c.arg = w
                 PROVE  SavesInOrder(t, w, d)
      OBVIOUS
    <2>1. d = w => \A i \in DOMAIN t : t[i].op = "put" => t[i].arg = w
      BY <1>2 DEF SavesInOrder
    <2>2. ASSUME NEW i \in DOMAIN t, NEW j \in DOMAIN t, t[i].op = "put", t[j].op = "put",
                 t[i].arg = w, i < j
          PROVE  t[j].arg = w
      <3>1. CASE j = Len(s) + 1
        BY <1>1, <2>2, <3>1
      <3>2. CASE j # Len(s) + 1
        <4>1. i \in DOMAIN s /\ j \in DOMAIN s /\ t[i] = s[i] /\ t[j] = s[j]
          BY <1>1, <2>2, <3>2
        <4> QED
          BY <2>2, <4>1 DEF SavesInOrder
      <3> QED
        BY <3>1, <3>2
    <2> QED
      BY <2>1, <2>2 DEF SavesInOrder
  <1>7. \A w : FetchIsLast(s, w) /\ c.op \notin {"put", "restore"} => FetchIsLast(t, w)
    BY <1>2 DEF FetchIsLast
  <1>8. /\ \A w : InFlight(s, w) => InFlight(t, w)
        /\ \A w : c.op = "put" /\ c.arg = w => InFlight(t, w)
    BY <1>1, <1>2 DEF InFlight
  <1> QED
    BY <1>1, <1>3, <1>4, <1>5, <1>6, <1>7, <1>8 DEF t

(* A call is answered. *)
WithReply(s, i, q) == [s EXCEPT ![i].reply = q]

LEMMA ReplyKeeps ==
  ASSUME NEW s \in Seq(CallRecords), NEW i \in DOMAIN s, NEW q \in Replies
  PROVE  /\ WithReply(s, i, q) \in Seq(CallRecords)
         /\ WithReply(s, i, q)[i].op = s[i].op /\ WithReply(s, i, q)[i].arg = s[i].arg
         /\ WithReply(s, i, q)[i].reply = q
         /\ \A v, k, r : RightCalls(s, v, k, r) /\ RightCall(WithReply(s, i, q)[i], v, k, r) =>
              RightCalls(WithReply(s, i, q), v, k, r)
         /\ \A ph, n : OnePost(s, ph, n) => OnePost(WithReply(s, i, q), ph, n)
         /\ \A p : OneRestore(s, p) => OneRestore(WithReply(s, i, q), p)
         /\ \A w, d : SavesInOrder(s, w, d) => SavesInOrder(WithReply(s, i, q), w, d)
         /\ \A w : FetchIsLast(s, w) /\ (s[i].op = "restore" => q \in {Waiting, w}) =>
              FetchIsLast(WithReply(s, i, q), w)
         /\ \A w : InFlight(s, w) => InFlight(WithReply(s, i, q), w)
  <1> DEFINE t == WithReply(s, i, q)
  <1>0. s[i] \in CallRecords
    OBVIOUS
  <1>1. /\ DOMAIN t = DOMAIN s
        /\ t[i] = [s[i] EXCEPT !.reply = q]
        /\ \A j \in DOMAIN s : j # i => t[j] = s[j]
    BY DEF WithReply
  <1>a. t = [j \in 1 .. Len(s) |-> t[j]] /\ Len(s) \in Nat
    BY DEF WithReply
  <1> HIDE DEF t
  <1>2. /\ t[i] \in CallRecords
        /\ t[i].op = s[i].op /\ t[i].arg = s[i].arg /\ t[i].from = s[i].from /\ t[i].reply = q
    BY <1>0, <1>1 DEF CallRecords
  <1>3. t \in Seq(CallRecords)
    <2>1. \A j \in 1 .. Len(s) : t[j] \in CallRecords
      BY <1>1, <1>2
    <2> QED
      BY <1>a, <2>1
  <1>4. \A j \in DOMAIN t : /\ j \in DOMAIN s
                            /\ t[j].op = s[j].op /\ t[j].arg = s[j].arg /\ t[j].from = s[j].from
                            /\ j # i => t[j] = s[j]
    BY <1>1, <1>2
  <1>5. \A v, k, r : RightCalls(s, v, k, r) /\ RightCall(t[i], v, k, r) => RightCalls(t, v, k, r)
    BY <1>4 DEF RightCalls
  <1>6. \A ph, n : OnePost(s, ph, n) => OnePost(t, ph, n)
    BY <1>4 DEF OnePost, HerePost
  <1>7. \A p : OneRestore(s, p) => OneRestore(t, p)
    BY <1>4 DEF OneRestore
  <1>8. \A w, d : SavesInOrder(s, w, d) => SavesInOrder(t, w, d)
    BY <1>4 DEF SavesInOrder
  <1>9. \A w : FetchIsLast(s, w) /\ (s[i].op = "restore" => q \in {Waiting, w}) => FetchIsLast(t, w)
    BY <1>2, <1>4 DEF FetchIsLast
  <1>10. \A w : InFlight(s, w) => InFlight(t, w)
    BY <1>1, <1>4 DEF InFlight
  <1> QED
    BY <1>1, <1>2, <1>3, <1>5, <1>6, <1>7, <1>8, <1>9, <1>10 DEF t

(* Versions, clicks and rows are added; a settled row stays as it is. *)
RowsGrow(r, x) ==
  /\ DOMAIN r \subseteq DOMAIN x
  /\ \A id \in DOMAIN r : /\ x[id].click = r[id].click
                          /\ r[id].status \in Settled => x[id].status = r[id].status

LEMMA RowsGrowthKeeps ==
  ASSUME NEW s, NEW v, NEW k, NEW r, NEW x, RowsGrow(r, x), RightCalls(s, v, k, r)
  PROVE  RightCalls(s, v, k, x)
  BY DEF RightCalls, RightCall, RowsGrow

LEMMA GrowthKeeps ==
  ASSUME NEW s, NEW v \in Nat, NEW u \in Nat, v <= u,
         NEW k, NEW h, DOMAIN k \subseteq DOMAIN h, \A n \in DOMAIN k : h[n] = k[n],
         NEW r, RightCalls(s, v, k, r)
  PROVE  RightCalls(s, u, h, r)
  BY DEF RightCalls, RightCall

-----------------------------------------------------------------------------
(***************************************************************************)
(* Every step keeps it: first the steps of the student and of the page     *)
(* that send nothing.                                                      *)
(***************************************************************************)

LEMMA InitHolds == Init => IInv
  <1> SUFFICES ASSUME Init PROVE IInv
    OBVIOUS
  <1> USE DEF Init, Empty, Starter, NoResult, Settled
  <1>1. Typing
    BY PageAssumption DEF Typing, Mishaps
  <1>2. Server /\ RightCalls(calls, typed, clicked, rows)
    BY DEF Server, RightRows, RightPushes, RightCalls
  <1>3. OnePost(calls, phase, Len(clicked)) /\ OneRestore(calls, page)
    BY DEF OnePost, OneRestore
  <1>4. Answers /\ Editor /\ WorkHeld
    BY DEF Answers, Editor, WorkHeld
  <1> QED
    BY <1>1, <1>2, <1>3, <1>4 DEF IInv

LEMMA OpenKeeps == IInv /\ Open => IInv'
  <1> SUFFICES ASSUME IInv, Open PROVE IInv'
    OBVIOUS
  <1> USE DEF Open, Act, serverVars, history
  <1>1. Typing'
    BY PageAssumption DEF IInv, Typing
  <1>2. Server' /\ RightCalls(calls', typed', clicked', rows')
    BY DEF IInv, Server
  <1>3. OnePost(calls', phase', Len(clicked'))
    BY DEF IInv
  <1>4. OneRestore(calls', page')
    BY DEF IInv, OneRestore
  <1>5. Answers' /\ Editor'
    BY DEF IInv, Answers, Editor
  <1>6. WorkHeld'
    BY DEF IInv, WorkHeld, Drafted
  <1> QED
    BY <1>1, <1>2, <1>3, <1>4, <1>5, <1>6 DEF IInv

LEMMA TypeKeeps == IInv /\ Type => IInv'
  <1> SUFFICES ASSUME IInv, Type PROVE IInv'
    OBVIOUS
  <1> USE DEF Type, Act, SetCode, serverVars
  <1>0. /\ typed \in Nat /\ typed' = typed + 1 /\ typed' \in Nat /\ typed <= typed' /\ typed' # Empty
        /\ calls \in Seq(CallRecords) /\ draft # typed'
    BY DEF IInv, Typing, Empty
  <1>1. Typing'
    <2>1. \A n \in DOMAIN clicked : clicked[n] \in 0 .. typed'
      BY <1>0 DEF IInv, Typing
    <2>2. mishap' \in Mishaps
      BY DEF IInv, Typing, Note, Mishaps
    <2> QED
      BY <1>0, <2>1, <2>2, PageAssumption DEF IInv, Typing, Empty
  <1>2. Server'
    BY DEF IInv, Server
  <1>3. RightCalls(calls, typed', clicked, rows)
    BY <1>0, GrowthKeeps DEF IInv
  <1>4. OnePost(calls', phase', Len(clicked')) /\ OneRestore(calls', page')
    BY DEF IInv
  <1>5. Answers'
    BY DEF IInv, Answers
  <1>6. mishap' = "none" => page = "ready" /\ mishap = "none"
    BY DEF Editing, Note
  <1>7. Editor'
    BY <1>6 DEF IInv, Editor, Editing
  <1>8. WorkHeld'
    <2> SUFFICES ASSUME mishap' = "none" PROVE Drafted(typed', page, typed', typed', calls, draft)
      BY DEF WorkHeld
    <2>1. \A i \in DOMAIN calls : /\ calls[i].op = "put" => calls[i].arg # typed'
                                  /\ calls[i].op # "restore"
      BY <1>0, <1>6 DEF IInv, RightCalls, RightCall, OneRestore
    <2> QED
      BY <1>0, <2>1 DEF Drafted, SavesInOrder, FetchIsLast
  <1> QED
    BY <1>1, <1>2, <1>3, <1>4, <1>5, <1>7, <1>8 DEF IInv

LEMMA HandleLanguageChangeKeeps == IInv /\ HandleLanguageChange => IInv'
  <1> SUFFICES ASSUME IInv, HandleLanguageChange PROVE IInv'
    OBVIOUS
  <1>0. PICK v \in {Empty, Starter} : SetCode(v)
    BY DEF HandleLanguageChange
  <1> USE DEF HandleLanguageChange, Act, serverVars
  <1>1. Typing'
    <2>1. mishap' \in Mishaps
      BY DEF IInv, Typing, Note, Mishaps
    <2> QED
      BY <1>0, <2>1, PageAssumption DEF IInv, Typing, SetCode, Empty, Starter
  <1>2. Server' /\ RightCalls(calls', typed', clicked', rows')
    BY DEF IInv, Server
  <1>3. OnePost(calls', phase', Len(clicked')) /\ OneRestore(calls', page')
    BY DEF IInv
  <1>4. Answers'
    BY DEF IInv, Answers
  <1>5. Editor'
    BY DEF IInv, Editor, Editing, Note
  <1>6. WorkHeld'
    BY DEF WorkHeld
  <1> QED
    BY <1>1, <1>2, <1>3, <1>4, <1>5, <1>6 DEF IInv

LEMMA HandleRunKeeps == IInv /\ HandleRun => IInv'
  <1> SUFFICES ASSUME IInv, HandleRun PROVE IInv'
    OBVIOUS
  <1> USE DEF HandleRun, Submitting, serverVars, history
  <1>1. Typing'
    BY DEF IInv, Typing, NoResult
  <1>2. Server' /\ RightCalls(calls', typed', clicked', rows') /\ OneRestore(calls', page')
    BY DEF IInv, Server
  <1>3. OnePost(calls', phase', Len(clicked'))
    BY DEF IInv, OnePost
  <1>4. Answers'
    BY DEF IInv, Answers
  <1>5. Editor' /\ WorkHeld'
    BY DEF IInv, Editor, WorkHeld
  <1> QED
    BY <1>1, <1>2, <1>3, <1>4, <1>5 DEF IInv

(* A result that was waited for, or any other. *)
LEMMA ResultKeeps ==
  ASSUME Typing, Answers, NEW id \in DOMAIN rows, NEW status \in Settled,
         rows[id].status = status, HandleGradingResult(id, status),
         UNCHANGED <<page, code, timer, serverVars, history, acts>>, calls' \in Seq(CallRecords)
  PROVE  Typing' /\ Answers' /\ (phase' = phase \/ phase = "grading")
  <1> USE DEF HandleGradingResult, serverVars, history
  <1>1. Typing'
    BY DEF Typing
  <1>2. Answers'
    BY DEF Answers, Typing
  <1> QED
    BY <1>1, <1>2 DEF Answers

LEMMA PushArrivesKeeps == IInv /\ PushArrives => IInv'
  <1> SUFFICES ASSUME IInv, NEW id \in pushes,
                      HandleGradingResult(id, "completed"), pushes' = pushes \ {id},
                      UNCHANGED <<page, code, timer, calls, serverVars, history, acts>>
               PROVE  IInv'
    BY DEF PushArrives
  <1> USE DEF serverVars, history
  <1>1. id \in DOMAIN rows /\ rows[id].status = "completed" /\ "completed" \in Settled
    BY DEF IInv, Server, RightPushes, Settled
  <1>2. Typing' /\ Answers' /\ (phase' = phase \/ phase = "grading")
    BY <1>1, ResultKeeps DEF IInv, Typing
  <1>3. Server' /\ RightCalls(calls', typed', clicked', rows') /\ OneRestore(calls', page')
    BY DEF IInv, Server, RightPushes
  <1>4. OnePost(calls', phase', Len(clicked'))
    BY <1>2 DEF IInv, OnePost
  <1>5. Editor' /\ WorkHeld'
    BY DEF IInv, Editor, WorkHeld
  <1> QED
    BY <1>2, <1>3, <1>4, <1>5 DEF IInv

-----------------------------------------------------------------------------
(***************************************************************************)
(* The steps of the page that send a call or take an answer.               *)
(***************************************************************************)

(* The first of its kind. *)
LEMMA FirstOfItsKind ==
  ASSUME NEW s \in Seq(CallRecords), NEW c \in CallRecords, NEW n, NEW w
  PROVE  /\ (\A i \in DOMAIN s : ~HerePost(s[i])) /\ c.arg = n => OnePost(Append(s, c), "queued", n)
         /\ (\A i \in DOMAIN s : s[i].op # "restore") /\ c.op = "restore" /\ c.reply = Waiting =>
              OneRestore(Append(s, c), "restoring") /\ FetchIsLast(Append(s, c), w)
  <1> DEFINE t == Append(s, c)
  <1>1. /\ Len(s) \in Nat /\ DOMAIN s = 1 .. Len(s) /\ DOMAIN t = 1 .. Len(s) + 1
        /\ \A i \in 1 .. Len(s) : t[i] = s[i]
        /\ t[Len(s) + 1] = c
    OBVIOUS
  <1> HIDE DEF t
  <1>2. /\ \A i \in DOMAIN t : (i \in DOMAIN s /\ t[i] = s[i]) \/ (i = Len(s) + 1 /\ t[i] = c)
        /\ \A i \in DOMAIN s : i < Len(s) + 1
    BY <1>1
  <1>3. (\A i \in DOMAIN s : ~HerePost(s[i])) /\ c.arg = n => OnePost(t, "queued", n)
    BY <1>2 DEF OnePost
  <1>4. (\A i \in DOMAIN s : s[i].op # "restore") /\ c.op = "restore" /\ c.reply = Waiting =>
          OneRestore(t, "restoring") /\ FetchIsLast(t, w)
    BY <1>2 DEF OneRestore, FetchIsLast
  <1> QED
    BY <1>3, <1>4 DEF t

LEMMA HandleSubmitKeeps == IInv /\ HandleSubmit => IInv'
  <1> SUFFICES ASSUME IInv, HandleSubmit PROVE IInv'
    OBVIOUS
  <1> DEFINE c == Call("post", Len(clicked'))
  <1> USE DEF HandleSubmit, Act, serverVars
  <1>1. /\ code \in 0 .. typed /\ clicked \in Seq(Nat) /\ typed \in Nat /\ code \in Nat
        /\ clicked' = Append(clicked, code) /\ calls' = Append(calls, c)
        /\ calls \in Seq(CallRecords)
    BY DEF IInv, Typing
  <1>2. /\ clicked' \in Seq(Nat) /\ Len(clicked) \in Nat /\ Len(clicked') = Len(clicked) + 1
        /\ DOMAIN clicked = 1 .. Len(clicked) /\ DOMAIN clicked' = 1 .. Len(clicked')
        /\ \A n \in DOMAIN clicked : n \in DOMAIN clicked' /\ clicked'[n] = clicked[n]
        /\ \A n \in DOMAIN clicked' : n \in DOMAIN clicked \/ clicked'[n] = code
    BY <1>1
  <1>3. /\ c \in CallRecords /\ c.op = "post" /\ c.reply = Waiting /\ c.arg = Len(clicked')
    BY <1>2 DEF Call, CallRecords, Anywhere, Replies
  <1> HIDE DEF c
  <1>4. Typing'
    <2>1. calls' \in Seq(CallRecords)
      BY <1>1, <1>3, SendKeeps
    <2>2. \A n \in DOMAIN clicked' : clicked'[n] \in 0 .. typed
      BY <1>1, <1>2 DEF IInv, Typing
    <2> QED
      BY <1>2, <2>1, <2>2, PageAssumption DEF IInv, Typing, NoResult
  <1>5. Server'
    BY <1>2 DEF IInv, Server, RightRows
  <1>6. RightCalls(calls', typed, clicked', rows)
    <2>0. typed <= typed /\ DOMAIN clicked \subseteq DOMAIN clicked'
      BY <1>1, <1>2
    <2>1. RightCalls(calls, typed, clicked', rows)
      BY <1>1, <1>2, <2>0, GrowthKeeps DEF IInv
    <2>2. RightCall(c, typed, clicked', rows)
      BY <1>2, <1>3 DEF RightCall
    <2> QED
      BY <1>1, <1>3, <2>1, <2>2, SendKeeps
  <1>7. OnePost(calls', "queued", Len(clicked'))
    <2>1. \A i \in DOMAIN calls : ~HerePost(calls[i])
      BY DEF IInv, OnePost, Submitting
    <2> QED
      BY <1>1, <1>3, <2>1, FirstOfItsKind
  <1>8. OneRestore(calls', page)
    BY <1>1, <1>3, SendKeeps DEF IInv
  <1>9. Answers' /\ Editor'
    BY DEF IInv, Answers, Editor, Submitting
  <1>10. WorkHeld'
    <2> SUFFICES ASSUME mishap = "none", work # Empty, ~Submitted(rows, clicked', work)
                 PROVE  Drafted(work, page, code, timer, calls', draft)
      BY DEF WorkHeld
    <2>1. ~Submitted(rows, clicked, work)
      BY <1>2 DEF Submitted, IInv, Server, RightRows
    <2>2. Drafted(work, page, code, timer, calls, draft)
      BY <2>1 DEF IInv, WorkHeld
    <2> QED
      BY <1>1, <1>3, <2>2, SendKeeps DEF Drafted
  <1> QED
    BY <1>4, <1>5, <1>6, <1>7, <1>8, <1>9, <1>10 DEF IInv

LEMMA ProblemLoadsKeeps == IInv /\ ProblemLoads => IInv'
  <1> SUFFICES ASSUME IInv, ProblemLoads PROVE IInv'
    OBVIOUS
  <1> DEFINE c == Call("restore", 0)
  <1> USE DEF ProblemLoads, serverVars, history
  <1>1. /\ c \in CallRecords /\ c.op = "restore" /\ c.reply = Waiting /\ c.arg = 0
        /\ ~HerePost(c)
    BY DEF Call, CallRecords, Anywhere, Replies, HerePost
  <1>2. calls' = Append(calls, c) /\ calls \in Seq(CallRecords)
    BY DEF IInv, Typing
  <1> HIDE DEF c
  <1>3. Typing'
    BY <1>1, <1>2, SendKeeps DEF IInv, Typing
  <1>4. Server' /\ Answers' /\ Editor'
    BY DEF IInv, Server, Answers, Editor
  <1>5. RightCalls(calls', typed, clicked, rows)
    <2>1. RightCall(c, typed, clicked, rows)
      BY <1>1 DEF RightCall
    <2> QED
      BY <1>1, <1>2, <2>1, SendKeeps DEF IInv
  <1>6. OnePost(calls', phase, Len(clicked))
    BY <1>1, <1>2, SendKeeps DEF IInv
  <1>7. OneRestore(calls', "restoring") /\ FetchIsLast(calls', work)
    <2>1. \A i \in DOMAIN calls : calls[i].op # "restore"
      BY DEF IInv, OneRestore
    <2> QED
      BY <1>1, <1>2, <2>1, FirstOfItsKind
  <1>8. WorkHeld'
    <2> SUFFICES ASSUME mishap = "none", work # Empty, ~Submitted(rows, clicked, work)
                 PROVE  Drafted(work, "restoring", code, timer, calls', draft)
      BY DEF WorkHeld
    <2>1. Drafted(work, page, code, timer, calls, draft)
      BY DEF IInv, WorkHeld
    <2> QED
      BY <1>1, <1>2, <1>7, <2>1, SendKeeps DEF Drafted
  <1> QED
    BY <1>3, <1>4, <1>5, <1>6, <1>7, <1>8 DEF IInv

LEMMA TimerFiresKeeps == IInv /\ TimerFires => IInv'
  <1> SUFFICES ASSUME IInv, TimerFires PROVE IInv'
    OBVIOUS
  <1> DEFINE c == Call("put", timer)
  <1> USE DEF TimerFires, serverVars, history
  <1>0. timer = code /\ timer \in 1 .. typed /\ typed \in Nat /\ timer \in Nat
    BY DEF IInv, Typing, Empty
  <1>1. /\ c \in CallRecords /\ c.op = "put" /\ c.reply = Waiting /\ c.arg = timer
        /\ ~HerePost(c)
    BY <1>0 DEF Call, CallRecords, Anywhere, Replies, HerePost
  <1>2. calls' = Append(calls, c) /\ calls \in Seq(CallRecords)
    BY DEF IInv, Typing
  <1> HIDE DEF c
  <1>3. Typing'
    BY <1>1, <1>2, SendKeeps DEF IInv, Typing
  <1>4. Server' /\ Answers' /\ Editor'
    BY DEF IInv, Server, Answers, Editor
  <1>5. RightCalls(calls', typed, clicked, rows)
    <2>1. RightCall(c, typed, clicked, rows)
      BY <1>0, <1>1 DEF RightCall
    <2> QED
      BY <1>1, <1>2, <2>1, SendKeeps DEF IInv
  <1>6. OnePost(calls', phase, Len(clicked)) /\ OneRestore(calls', page)
    BY <1>1, <1>2, SendKeeps DEF IInv
  <1>7. WorkHeld'
    <2> SUFFICES ASSUME mishap = "none", work # Empty, ~Submitted(rows, clicked, work)
                 PROVE  Drafted(work, page, code, Empty, calls', draft)
      BY DEF WorkHeld
    <2>1. Drafted(work, page, code, timer, calls, draft)
      BY DEF IInv, WorkHeld
    <2>2. page = "ready"
      BY <1>0 DEF IInv, Editor, Typing, Empty
    <2>3. timer = work
      BY <1>0, <2>1, <2>2 DEF Drafted
    <2>4. SavesInOrder(calls', work, draft) /\ InFlight(calls', work)
      BY <1>1, <1>2, <2>1, <2>3, SendKeeps DEF Drafted
    <2>5. \A i \in DOMAIN calls' : calls'[i].op # "restore"
      BY <1>1, <1>2, <1>6, <2>2 DEF OneRestore
    <2>6. FetchIsLast(calls', work)
      BY <2>5 DEF FetchIsLast
    <2> QED
      BY <2>1, <2>4, <2>6 DEF Drafted
  <1> QED
    BY <1>3, <1>4, <1>5, <1>6, <1>7 DEF IInv

LEMMA PollTickKeeps == IInv /\ PollTick => IInv'
  <1> SUFFICES ASSUME IInv, PollTick PROVE IInv'
    OBVIOUS
  <1> DEFINE c == Call("poll", polling)
  <1> USE DEF PollTick, pageVars, serverVars, history
  <1>0. polling \in DOMAIN rows /\ polling \in Nat
    BY DEF IInv, Typing
  <1>1. /\ c \in CallRecords /\ c.op = "poll" /\ c.reply = Waiting /\ c.arg = polling
        /\ ~HerePost(c)
    BY <1>0 DEF Call, CallRecords, Anywhere, Replies, HerePost
  <1>2. calls' = Append(calls, c) /\ calls \in Seq(CallRecords)
    BY DEF IInv, Typing
  <1> HIDE DEF c
  <1>3. Typing'
    BY <1>1, <1>2, SendKeeps DEF IInv, Typing
  <1>4. Server' /\ Answers' /\ Editor'
    BY DEF IInv, Server, Answers, Editor
  <1>5. RightCalls(calls', typed, clicked, rows)
    <2>1. RightCall(c, typed, clicked, rows)
      BY <1>0, <1>1 DEF RightCall
    <2> QED
      BY <1>1, <1>2, <2>1, SendKeeps DEF IInv
  <1>6. OnePost(calls', phase, Len(clicked)) /\ OneRestore(calls', page)
    BY <1>1, <1>2, SendKeeps DEF IInv
  <1>7. WorkHeld'
    <2> SUFFICES ASSUME mishap = "none", work # Empty, ~Submitted(rows, clicked, work)
                 PROVE  Drafted(work, page, code, timer, calls', draft)
      BY DEF WorkHeld
    <2>1. Drafted(work, page, code, timer, calls, draft)
      BY DEF IInv, WorkHeld
    <2> QED
      BY <1>1, <1>2, <2>1, SendKeeps DEF Drafted
  <1> QED
    BY <1>3, <1>4, <1>5, <1>6, <1>7 DEF IInv

(* The page goes away: its timer's text with it, its saves not. *)
LEMMA CloseKeeps ==
  ASSUME NEW where \in {"left", "gone"}, IInv, Close(where)
  PROVE  IInv'
  <1> USE DEF Close, serverVars
  <1>0. calls \in Seq(CallRecords) /\ calls' = Abandoned(where)
    BY DEF IInv, Typing
  <1>1. calls' \in Seq(CallRecords)
    BY <1>0, AbandonedThins
  <1>2. PICK f : /\ Thins(calls, calls', f)
                 /\ \A n \in DOMAIN calls' :
                      Outlives(calls'[n]) /\ calls'[n].from \in {"left", "gone"}
                 /\ \A k \in DOMAIN calls :
                      Outlives(calls[k]) => \E n \in DOMAIN calls' : f[n] = k
    BY <1>0, AbandonedThins
  <1>3. Typing'
    BY <1>1 DEF IInv, Typing, Empty, NoResult
  <1>4. Server' /\ Answers' /\ Editor'
    BY DEF IInv, Server, RightPushes, Answers, Editor
  <1>5. RightCalls(calls', typed, clicked, rows)
    BY <1>0, <1>1, <1>2, ThinKeeps DEF IInv
  <1>6. OnePost(calls', phase', Len(clicked)) /\ OneRestore(calls', page')
    BY <1>2 DEF OnePost, OneRestore, HerePost, Outlives
  <1>7. WorkHeld'
    <2> SUFFICES ASSUME mishap = "none", work' # Empty, ~Submitted(rows, clicked, work')
                 PROVE  Drafted(work', "away", Empty, Empty, calls', draft)
      BY DEF WorkHeld
    <2>1. work' = work /\ (timer # work \/ draft = work)
      OBVIOUS
    <2>2. Drafted(work, page, code, timer, calls, draft)
      BY <2>1 DEF IInv, WorkHeld
    <2>3. SavesInOrder(calls', work, draft) /\ FetchIsLast(calls', work)
      BY <1>0, <1>1, <1>2, <2>2, ThinKeeps DEF Drafted
    <2>4. InFlight(calls, work) => InFlight(calls', work)
      <3> SUFFICES ASSUME NEW i \in DOMAIN calls, calls[i].op = "put", calls[i].arg = work
                   PROVE  InFlight(calls', work)
        BY DEF InFlight
      <3>1. PICK n \in DOMAIN calls' : f[n] = i
        BY <1>2 DEF Outlives
      <3>2. calls'[n].op = "put" /\ calls'[n].arg = work
        BY <1>2, <3>1 DEF Thins
      <3> QED
        BY <3>2 DEF InFlight
    <2> QED
      BY <2>1, <2>2, <2>3, <2>4 DEF Drafted
  <1> QED
    BY <1>3, <1>4, <1>5, <1>6, <1>7 DEF IInv

(* A call is taken out. *)
LEMMA RemoveKeeps ==
  ASSUME NEW s \in Seq(CallRecords), NEW i \in DOMAIN s
  PROVE  LET t == RemoveAt(s, i) IN
         /\ t \in Seq(CallRecords)
         /\ \A n \in DOMAIN t : \E k \in DOMAIN s : k # i /\ t[n] = s[k]
         /\ \A v, k, r : RightCalls(s, v, k, r) => RightCalls(t, v, k, r)
         /\ \A ph, n : OnePost(s, ph, n) => OnePost(t, ph, n)
         /\ \A p : OneRestore(s, p) => OneRestore(t, p)
         /\ \A w, d : SavesInOrder(s, w, d) => SavesInOrder(t, w, d)
         /\ \A w : FetchIsLast(s, w) => FetchIsLast(t, w)
         /\ \A w : InFlight(s, w) /\ ~(s[i].op = "put" /\ s[i].arg = w) => InFlight(t, w)
  <1> DEFINE t == RemoveAt(s, i)
  <1>1. t \in Seq(CallRecords)
    BY RemovalThins
  <1>2. PICK f : /\ Thins(s, t, f)
                 /\ \A n \in DOMAIN t : f[n] # i /\ t[n] = s[f[n]]
                 /\ \A k \in DOMAIN s : k # i => \E n \in DOMAIN t : f[n] = k
    BY RemovalThins
  <1> HIDE DEF t
  <1>3. \A n \in DOMAIN t : \E k \in DOMAIN s : k # i /\ t[n] = s[k]
    BY <1>2 DEF Thins
  <1>4. \A w : InFlight(s, w) /\ ~(s[i].op = "put" /\ s[i].arg = w) => InFlight(t, w)
    BY <1>2 DEF InFlight
  <1>5. /\ \A v, k, r : RightCalls(s, v, k, r) => RightCalls(t, v, k, r)
        /\ \A ph, n : OnePost(s, ph, n) => OnePost(t, ph, n)
        /\ \A p : OneRestore(s, p) => OneRestore(t, p)
        /\ \A w, d : SavesInOrder(s, w, d) => SavesInOrder(t, w, d)
        /\ \A w : FetchIsLast(s, w) => FetchIsLast(t, w)
    BY <1>1, <1>2, ThinKeeps
  <1> QED
    BY <1>1, <1>3, <1>4, <1>5 DEF t

LEMMA HandleRestoreKeeps == IInv /\ HandleRestore => IInv'
  <1> SUFFICES ASSUME IInv, HandleRestore PROVE IInv'
    OBVIOUS
  <1>0. PICK i \in DOMAIN calls :
          /\ Answered(i, "restore")
          /\ SetCode(IF calls[i].reply \in Versions \ {Empty} THEN calls[i].reply ELSE Starter)
          /\ page' = "ready"
          /\ calls' = RemoveAt(calls, i)
          /\ UNCHANGED <<phase, pending, polling, shown, pushes, serverVars, history, acts>>
    BY DEF HandleRestore
  <1> USE DEF serverVars, history
  <1>1. /\ calls \in Seq(CallRecords) /\ typed \in Nat /\ typed >= 1
        /\ calls[i].op = "restore" /\ calls[i].reply # Waiting
        /\ RightCall(calls[i], typed, clicked, rows)
    BY <1>0 DEF IInv, Typing, Answered, Is, RightCalls
  <1>2. code' \in 1 .. typed /\ timer' = code'
    BY <1>0, <1>1, PageAssumption DEF RightCall, SetCode, Versions, Empty, Starter
  <1>3. Typing'
    BY <1>0, <1>1, <1>2, RemoveKeeps DEF IInv, Typing
  <1>4. Server' /\ Answers' /\ Editor'
    BY <1>0 DEF IInv, Server, Answers, Editor
  <1>5. RightCalls(calls', typed, clicked, rows) /\ OnePost(calls', phase, Len(clicked))
    BY <1>0, <1>1, RemoveKeeps DEF IInv
  <1>6. \A n \in DOMAIN calls' : calls'[n].op # "restore"
    <2>1. \A k \in DOMAIN calls : k # i => calls[k].op # "restore"
      BY <1>0, <1>1 DEF IInv, OneRestore
    <2> QED
      BY <1>0, <1>1, <2>1, RemoveKeeps
  <1>7. OneRestore(calls', page') /\ FetchIsLast(calls', work)
    BY <1>6 DEF OneRestore, FetchIsLast
  <1>8. WorkHeld'
    <2> SUFFICES ASSUME mishap = "none", work # Empty, ~Submitted(rows, clicked, work)
                 PROVE  Drafted(work, "ready", code', timer', calls', draft)
      BY <1>0 DEF WorkHeld
    <2>1. Drafted(work, page, code, timer, calls, draft)
      BY DEF IInv, WorkHeld
    <2>2. calls[i].reply = work
      BY <1>0, <1>1, <2>1 DEF Drafted, FetchIsLast
    <2>3. work \in Versions \ {Empty}
      BY PageAssumption DEF IInv, Typing, Versions, Empty
    <2>4. code' = work /\ timer' = work
      BY <1>0, <2>2, <2>3 DEF SetCode
    <2>5. SavesInOrder(calls', work, draft)
      BY <1>0, <1>1, <2>1, RemoveKeeps DEF Drafted
    <2> QED
      BY <1>7, <2>4, <2>5 DEF Drafted
  <1> QED
    BY <1>0, <1>3, <1>4, <1>5, <1>7, <1>8 DEF IInv

LEMMA HandlePostKeeps == IInv /\ HandlePost => IInv'
  <1> SUFFICES ASSUME IInv, NEW i \in DOMAIN calls, Answered(i, "post"),
                      IF calls[i].reply = Failed
                        THEN /\ calls' = RemoveAt(calls, i)
                             /\ phase' = IF Is(i, "post", {"here"}) THEN "idle" ELSE phase
                             /\ UNCHANGED <<pending, polling>>
                        ELSE /\ calls' = Append(RemoveAt(calls, i),
                                                [Call("delete", calls[i].arg) EXCEPT !.from = calls[i].from])
                             /\ IF Is(i, "post", {"here"})
                                  THEN /\ phase' = "grading"
                                       /\ pending' = calls[i].reply
                                       /\ polling' = calls[i].reply
                                  ELSE UNCHANGED <<phase, pending, polling>>,
                      UNCHANGED <<page, code, timer, shown, pushes, serverVars, history, acts>>
               PROVE  IInv'
    BY DEF HandlePost
  <1> DEFINE t == RemoveAt(calls, i)
             c == [Call("delete", calls[i].arg) EXCEPT !.from = calls[i].from]
  <1> USE DEF serverVars, history
  <1>1. /\ calls \in Seq(CallRecords) /\ calls[i] \in CallRecords
        /\ calls[i].op = "post" /\ calls[i].reply # Waiting
        /\ calls[i].arg \in DOMAIN clicked
        /\ calls[i].reply # Failed =>
             calls[i].reply \in DOMAIN rows /\ rows[calls[i].reply].click = calls[i].arg
    BY DEF IInv, Typing, Answered, Is, RightCalls, RightCall
  <1>2. /\ c \in CallRecords /\ c.op = "delete" /\ c.arg = calls[i].arg /\ c.reply = Waiting
        /\ ~HerePost(c)
    BY <1>1 DEF Call, CallRecords, Replies, HerePost
  <1>3. /\ t \in Seq(CallRecords)
        /\ RightCalls(t, typed, clicked, rows) /\ OnePost(t, phase, Len(clicked))
        /\ OneRestore(t, page)
    BY <1>1, RemoveKeeps DEF IInv
  <1>4. Is(i, "post", {"here"}) =>
          /\ phase = "queued" /\ calls[i].arg = Len(clicked) /\ pending = 0
          /\ \A n \in DOMAIN t : ~HerePost(t[n])
    <2> SUFFICES ASSUME Is(i, "post", {"here"})
                 PROVE  /\ phase = "queued" /\ calls[i].arg = Len(clicked) /\ pending = 0
                        /\ \A n \in DOMAIN t : ~HerePost(t[n])
      OBVIOUS
    <2>1. HerePost(calls[i])
      BY DEF Is, HerePost
    <2>2. phase = "queued" /\ calls[i].arg = Len(clicked)
      BY <2>1 DEF IInv, OnePost
    <2>3. \A k \in DOMAIN calls : k # i => ~HerePost(calls[k])
      BY <2>1 DEF IInv, OnePost
    <2>4. \A n \in DOMAIN t : \E k \in DOMAIN calls : k # i /\ t[n] = calls[k]
      BY <1>1, RemoveKeeps
    <2> QED
      BY <2>2, <2>3, <2>4 DEF IInv, Answers
  <1>5. RightCall(c, typed, clicked, rows) \/ calls[i].reply = Failed
    BY <1>1, <1>2 DEF RightCall
  <1>6. calls' = t \/ (calls' = Append(t, c) /\ calls[i].reply # Failed)
    OBVIOUS
  <1> HIDE DEF t, c
  <1>7. /\ calls' \in Seq(CallRecords)
        /\ RightCalls(calls', typed, clicked, rows) /\ OneRestore(calls', page)
    <2>1. /\ Append(t, c) \in Seq(CallRecords) /\ OneRestore(Append(t, c), page)
          /\ calls[i].reply # Failed => RightCalls(Append(t, c), typed, clicked, rows)
      BY <1>2, <1>3, <1>5, SendKeeps
    <2> QED
      BY <1>3, <1>6, <2>1
  <1>8. OnePost(calls', phase', Len(clicked))
    <2>1. OnePost(t, phase', Len(clicked))
      <3>1. CASE Is(i, "post", {"here"})
        BY <1>4, <3>1 DEF OnePost
      <3>2. CASE ~Is(i, "post", {"here"})
        BY <1>3, <3>2
      <3> QED
        BY <3>1, <3>2
    <2>2. OnePost(Append(t, c), phase', Len(clicked))
      BY <1>2, <1>3, <2>1, SendKeeps
    <2> QED
      BY <1>6, <2>1, <2>2
  <1>9. Typing'
    <2>1. pending' \in 0 .. Len(rows) /\ polling' = pending' /\ phase' \in {"idle", "queued", "grading", "done"}
      <3>1. pending \in 0 .. Len(rows) /\ polling = pending /\ phase \in {"idle", "queued", "grading", "done"}
        BY DEF IInv, Typing
      <3>2. CASE calls[i].reply = Failed
        <4>1. pending' = pending /\ polling' = polling /\ (phase' = "idle" \/ phase' = phase)
          BY <3>2
        <4> QED
          BY ONLY <3>1, <4>1
      <3>3. CASE calls[i].reply # Failed /\ ~Is(i, "post", {"here"})
        <4>1. pending' = pending /\ polling' = polling /\ phase' = phase
          BY <3>3
        <4> QED
          BY ONLY <3>1, <4>1
      <3>4. CASE calls[i].reply # Failed /\ Is(i, "post", {"here"})
        <4>1. pending' = calls[i].reply /\ polling' = calls[i].reply /\ phase' = "grading"
          BY <3>4
        <4>2. calls[i].reply \in 1 .. Len(rows) /\ Len(rows) \in Nat
          BY <1>1, <3>4 DEF IInv, Typing
        <4>3. calls[i].reply \in 0 .. Len(rows)
          BY ONLY <4>2
        <4> QED
          BY ONLY <4>1, <4>3
      <3> QED
        BY <3>2, <3>3, <3>4
    <2> QED
      BY <1>7, <2>1 DEF IInv, Typing
  <1>10. Server' /\ Editor'
    BY DEF IInv, Server, Editor
  <1>11. Answers'
    <2>1. CASE Is(i, "post", {"here"})
      BY <1>1, <1>4, <2>1 DEF IInv, Answers
    <2>2. CASE ~Is(i, "post", {"here"})
      BY <2>2 DEF IInv, Answers
    <2> QED
      BY <2>1, <2>2
  <1>12. WorkHeld'
    <2> SUFFICES ASSUME mishap = "none", work # Empty, ~Submitted(rows, clicked, work)
                 PROVE  Drafted(work, page, code, timer, calls', draft)
      BY DEF WorkHeld
    <2>1. Drafted(work, page, code, timer, calls, draft)
      BY DEF IInv, WorkHeld
    <2>2. Drafted(work, page, code, timer, t, draft)
      BY <1>1, <2>1, RemoveKeeps DEF Drafted, t
    <2>3. Drafted(work, page, code, timer, Append(t, c), draft)
      BY <1>2, <1>3, <2>2, SendKeeps DEF Drafted
    <2> QED
      BY <1>6, <2>2, <2>3
  <1> QED
    BY <1>7, <1>8, <1>9, <1>10, <1>11, <1>12 DEF IInv

LEMMA HandlePollKeeps == IInv /\ HandlePoll => IInv'
  <1> SUFFICES ASSUME IInv, NEW i \in DOMAIN calls, Answered(i, "poll"),
                      IF calls[i].reply \notin {Failed, "queued"}
                        THEN HandleGradingResult(calls[i].arg, calls[i].reply)
                        ELSE UNCHANGED <<phase, pending, polling, shown>>,
                      calls' = RemoveAt(calls, i),
                      UNCHANGED <<page, code, timer, pushes, serverVars, history, acts>>
               PROVE  IInv'
    BY DEF HandlePoll
  <1> USE DEF serverVars, history
  <1>1. /\ calls \in Seq(CallRecords) /\ calls[i].op = "poll"
        /\ calls[i].arg \in DOMAIN rows
        /\ calls[i].reply \notin {Failed, "queued"} =>
             calls[i].reply \in Settled /\ rows[calls[i].arg].status = calls[i].reply
    BY DEF IInv, Typing, Answered, Is, RightCalls, RightCall
  <1>2. /\ calls' \in Seq(CallRecords)
        /\ RightCalls(calls', typed, clicked, rows) /\ OnePost(calls', phase, Len(clicked))
        /\ OneRestore(calls', page)
    BY <1>1, RemoveKeeps DEF IInv
  <1>3. Typing' /\ Answers' /\ (phase' = phase \/ phase = "grading")
    <2>1. CASE calls[i].reply \notin {Failed, "queued"}
      BY <1>1, <1>2, <2>1, ResultKeeps DEF IInv
    <2>2. CASE calls[i].reply \in {Failed, "queued"}
      BY <1>2, <2>2 DEF IInv, Typing, Answers
    <2> QED
      BY <2>1, <2>2
  <1>4. OnePost(calls', phase', Len(clicked))
    BY <1>2, <1>3 DEF OnePost
  <1>5. Server' /\ Editor'
    BY DEF IInv, Server, Editor
  <1>6. WorkHeld'
    <2> SUFFICES ASSUME mishap = "none", work # Empty, ~Submitted(rows, clicked, work)
                 PROVE  Drafted(work, page, code, timer, calls', draft)
      BY DEF WorkHeld
    <2>1. Drafted(work, page, code, timer, calls, draft)
      BY DEF IInv, WorkHeld
    <2> QED
      BY <1>1, <2>1, RemoveKeeps DEF Drafted
  <1> QED
    BY <1>2, <1>3, <1>4, <1>5, <1>6 DEF IInv

-----------------------------------------------------------------------------
(***************************************************************************)
(* The steps of the server, and calls that fail.                           *)
(***************************************************************************)

(* Without a mishap, no save or DELETE that was sent earlier waits. *)
LEMMA NotOvertaken ==
  ASSUME NEW i \in DOMAIN calls, calls \in Seq(CallRecords), ~Overtakes(i),
         RightCalls(calls, typed, clicked, rows)
  PROVE  \A j \in DOMAIN calls : j < i => calls[j].op # "put"
  BY DEF Overtakes, RightCalls, RightCall

LEMMA ServePutKeeps == IInv /\ ServePut => IInv'
  <1> SUFFICES ASSUME IInv, NEW i \in DOMAIN calls, Unserved(i, "put"),
                      draft' = calls[i].arg, calls' = RemoveAt(calls, i),
                      Note("overtaken", Overtakes(i)),
                      UNCHANGED <<pageVars, pushes, rows, typed, work, clicked, acts>>
               PROVE  IInv'
    BY DEF ServePut
  <1> USE DEF pageVars
  <1>1. /\ calls \in Seq(CallRecords) /\ calls[i].op = "put" /\ calls[i].arg \in 1 .. typed
    BY DEF IInv, Typing, Unserved, RightCalls, RightCall
  <1>2. /\ calls' \in Seq(CallRecords)
        /\ RightCalls(calls', typed, clicked, rows) /\ OnePost(calls', phase, Len(clicked))
        /\ OneRestore(calls', page)
    BY <1>1, RemoveKeeps DEF IInv
  <1>3. mishap' = "none" => mishap = "none" /\ ~Overtakes(i)
    BY DEF Note
  <1>4. Typing'
    <2>1. mishap' \in Mishaps
      BY DEF IInv, Typing, Note, Mishaps
    <2> QED
      BY <1>1, <1>2, <2>1 DEF IInv, Typing
  <1>5. Server' /\ Answers' /\ Editor'
    BY <1>3 DEF IInv, Server, Answers, Editor
  <1>6. WorkHeld'
    <2> SUFFICES ASSUME mishap' = "none", work # Empty, ~Submitted(rows, clicked, work)
                 PROVE  Drafted(work, page, code, timer, calls', calls[i].arg)
      BY DEF WorkHeld
    <2>1. Drafted(work, page, code, timer, calls, draft)
      BY <1>3 DEF IInv, WorkHeld
    <2>2. \A n \in DOMAIN calls' : \E k \in DOMAIN calls : k # i /\ calls'[n] = calls[k]
      BY <1>1, RemoveKeeps
    <2>3. CASE calls[i].arg = work
      <3>1. \A k \in DOMAIN calls : k # i /\ calls[k].op = "put" => calls[k].arg = work
        <4> SUFFICES ASSUME NEW k \in DOMAIN calls, k # i, calls[k].op = "put"
                     PROVE  calls[k].arg = work
          OBVIOUS
        <4>1. ~(k < i)
          BY <1>1, <1>3, NotOvertaken DEF IInv
        <4>2. i < k
          BY <1>1, <4>1
        <4> QED
          BY <1>1, <2>1, <2>3, <4>2 DEF Drafted, SavesInOrder
      <3>2. \A n \in DOMAIN calls' : calls'[n].op = "put" => calls'[n].arg = work
        BY <2>2, <3>1
      <3>3. SavesInOrder(calls', work, work)
        BY <3>2 DEF SavesInOrder
      <3>4. FetchIsLast(calls', work)
        BY <1>1, <2>1, RemoveKeeps DEF Drafted
      <3> QED
        BY <2>1, <2>3, <3>3, <3>4 DEF Drafted
    <2>4. CASE calls[i].arg # work
      <3>1. draft # work
        BY <1>1, <2>1, <2>4 DEF Drafted, SavesInOrder
      <3>2. SavesInOrder(calls', work, draft) /\ FetchIsLast(calls', work)
        BY <1>1, <2>1, RemoveKeeps DEF Drafted
      <3>3. SavesInOrder(calls', work, calls[i].arg)
        BY <2>4, <3>2 DEF SavesInOrder
      <3>4. timer = work \/ InFlight(calls', work)
        BY <1>1, <2>1, <2>4, <3>1, RemoveKeeps DEF Drafted
      <3> QED
        BY <2>1, <3>2, <3>3, <3>4 DEF Drafted
    <2> QED
      BY <2>3, <2>4
  <1> QED
    BY <1>2, <1>4, <1>5, <1>6 DEF IInv

(* The DELETE of a submitted version does not take work that was not submitted. *)
LEMMA ServeDeleteKeeps == IInv /\ ServeDelete => IInv'
  <1> SUFFICES ASSUME IInv, NEW i \in DOMAIN calls, Unserved(i, "delete"),
                      draft' = Empty, calls' = RemoveAt(calls, i),
                      IF Overtakes(i) THEN Note("overtaken", TRUE)
                                      ELSE Note("ahead", draft > clicked[calls[i].arg]),
                      UNCHANGED <<pageVars, pushes, rows, typed, work, clicked, acts>>
               PROVE  IInv'
    BY DEF ServeDelete
  <1> USE DEF pageVars
  <1>1. /\ calls \in Seq(CallRecords) /\ calls[i].op = "delete"
        /\ calls[i].arg \in DOMAIN clicked /\ clicked[calls[i].arg] \in 0 .. typed
        /\ \E id \in DOMAIN rows : rows[id].click = calls[i].arg
    BY DEF IInv, Typing, Unserved, RightCalls, RightCall
  <1>2. /\ calls' \in Seq(CallRecords)
        /\ RightCalls(calls', typed, clicked, rows) /\ OnePost(calls', phase, Len(clicked))
        /\ OneRestore(calls', page)
    BY <1>1, RemoveKeeps DEF IInv
  <1>3. mishap' = "none" => mishap = "none" /\ ~(draft > clicked[calls[i].arg])
    BY DEF Note
  <1>4. Typing'
    <2>1. mishap' \in Mishaps
      BY DEF IInv, Typing, Note, Mishaps
    <2> QED
      BY <1>2, <2>1 DEF IInv, Typing, Empty
  <1>5. Server' /\ Answers' /\ Editor'
    BY <1>3 DEF IInv, Server, Answers, Editor
  <1>6. WorkHeld'
    <2> SUFFICES ASSUME mishap' = "none", work # Empty, ~Submitted(rows, clicked, work)
                 PROVE  Drafted(work, page, code, timer, calls', Empty)
      BY DEF WorkHeld
    <2>1. Drafted(work, page, code, timer, calls, draft)
      BY <1>3 DEF IInv, WorkHeld
    <2>2. clicked[calls[i].arg] # work
      BY <1>1 DEF Submitted
    <2>3. draft # work
      BY <1>1, <1>3, <2>2 DEF IInv, Typing
    <2>4. SavesInOrder(calls', work, draft) /\ FetchIsLast(calls', work)
      BY <1>1, <2>1, RemoveKeeps DEF Drafted
    <2>5. SavesInOrder(calls', work, Empty)
      BY <2>4 DEF SavesInOrder
    <2>6. timer = work \/ InFlight(calls', work)
      BY <1>1, <2>1, <2>3, RemoveKeeps DEF Drafted
    <2> QED
      BY <2>1, <2>4, <2>5, <2>6 DEF Drafted
  <1> QED
    BY <1>2, <1>4, <1>5, <1>6 DEF IInv

LEMMA ServeRestoreKeeps == IInv /\ ServeRestore => IInv'
  <1> SUFFICES ASSUME IInv, NEW i \in DOMAIN calls, Unserved(i, "restore"),
                      calls' = WithReply(calls, i, draft),
                      Note("overtaken", Overtakes(i)),
                      UNCHANGED <<pageVars, pushes, serverVars, typed, work, clicked, acts>>
               PROVE  IInv'
    BY DEF ServeRestore, WithReply
  <1> USE DEF pageVars, serverVars
  <1>1. /\ calls \in Seq(CallRecords) /\ calls[i].op = "restore" /\ calls[i].arg = 0
        /\ draft \in 0 .. typed /\ draft \in Replies
    BY DEF IInv, Typing, Unserved, RightCalls, RightCall, Replies
  <1>2. /\ calls' \in Seq(CallRecords)
        /\ calls'[i].op = "restore" /\ calls'[i].arg = 0 /\ calls'[i].reply = draft
        /\ OnePost(calls', phase, Len(clicked)) /\ OneRestore(calls', page)
    BY <1>1, ReplyKeeps DEF IInv
  <1>3. RightCalls(calls', typed, clicked, rows)
    <2>1. RightCall(calls'[i], typed, clicked, rows)
      BY <1>1, <1>2 DEF RightCall
    <2> QED
      BY <1>1, <2>1, ReplyKeeps DEF IInv
  <1>4. mishap' = "none" => mishap = "none" /\ ~Overtakes(i)
    BY DEF Note
  <1>5. Typing'
    <2>1. mishap' \in Mishaps
      BY DEF IInv, Typing, Note, Mishaps
    <2> QED
      BY <1>2, <2>1 DEF IInv, Typing
  <1>6. Server' /\ Answers' /\ Editor'
    BY <1>4 DEF IInv, Server, Answers, Editor
  <1>7. WorkHeld'
    <2> SUFFICES ASSUME mishap' = "none", work # Empty, ~Submitted(rows, clicked, work)
                 PROVE  Drafted(work, page, code, timer, calls', draft)
      BY DEF WorkHeld
    <2>1. Drafted(work, page, code, timer, calls, draft)
      BY <1>4 DEF IInv, WorkHeld
    <2>2. \A j \in DOMAIN calls : calls[j].op # "put"
      BY <1>1, <1>4, <2>1, NotOvertaken DEF Drafted, FetchIsLast, IInv
    <2>3. page = "restoring" /\ timer # work
      BY <1>1, <1>4 DEF IInv, OneRestore, Editor, Typing, Empty
    <2>4. draft = work
      BY <2>1, <2>2, <2>3 DEF Drafted, InFlight
    <2>5. SavesInOrder(calls', work, draft) /\ FetchIsLast(calls', work)
      BY <1>1, <2>1, <2>4, ReplyKeeps DEF Drafted
    <2> QED
      BY <2>1, <2>4, <2>5 DEF Drafted
  <1> QED
    BY <1>2, <1>3, <1>5, <1>6, <1>7 DEF IInv

LEMMA ServePollKeeps == IInv /\ ServePoll => IInv'
  <1> SUFFICES ASSUME IInv, NEW i \in DOMAIN calls, Unserved(i, "poll"),
                      calls' = WithReply(calls, i, rows[calls[i].arg].status),
                      UNCHANGED <<pageVars, pushes, serverVars, history, acts>>
               PROVE  IInv'
    BY DEF ServePoll, WithReply
  <1> DEFINE q == rows[calls[i].arg].status
  <1> USE DEF pageVars, serverVars, history
  <1>1. /\ calls \in Seq(CallRecords) /\ calls[i].op = "poll" /\ calls[i].arg \in DOMAIN rows
        /\ rows[calls[i].arg] \in RowRecords
    BY DEF IInv, Typing, Unserved, RightCalls, RightCall
  <1>a. q \in {"queued", "completed", "error"}
    BY <1>1 DEF RowRecords
  <1>b. q \in Replies /\ calls' = WithReply(calls, i, q) /\ q = rows[calls[i].arg].status
    BY <1>a DEF Replies
  <1> HIDE DEF q
  <1>2. /\ calls' \in Seq(CallRecords)
        /\ calls'[i].op = "poll" /\ calls'[i].arg = calls[i].arg /\ calls'[i].reply = q
        /\ OnePost(calls', phase, Len(clicked)) /\ OneRestore(calls', page)
    BY <1>1, <1>b, ReplyKeeps DEF IInv
  <1>3. RightCalls(calls', typed, clicked, rows)
    <2>1. RightCall(calls'[i], typed, clicked, rows)
      BY <1>1, <1>2, <1>a, <1>b DEF RightCall, Settled
    <2> QED
      BY <1>1, <1>b, <2>1, ReplyKeeps DEF IInv
  <1>4. Typing'
    BY <1>2 DEF IInv, Typing
  <1>5. Server' /\ Answers' /\ Editor'
    BY DEF IInv, Server, Answers, Editor
  <1>6. WorkHeld'
    <2> SUFFICES ASSUME mishap = "none", work # Empty, ~Submitted(rows, clicked, work)
                 PROVE  Drafted(work, page, code, timer, calls', draft)
      BY DEF WorkHeld
    <2>1. Drafted(work, page, code, timer, calls, draft)
      BY DEF IInv, WorkHeld
    <2> QED
      BY <1>1, <1>b, <2>1, ReplyKeeps DEF Drafted
  <1> QED
    BY <1>2, <1>3, <1>4, <1>5, <1>6 DEF IInv

(* What grows keeps what was read of it. *)
LEMMA ServePostKeeps == IInv /\ ServePost => IInv'
  <1> SUFFICES ASSUME IInv, NEW i \in DOMAIN calls, Unserved(i, "post"),
                      rows' = IF clicked[calls[i].arg] = Empty THEN rows
                              ELSE Append(rows, [click |-> calls[i].arg, status |-> "queued"]),
                      calls' = IF calls[i].from = "gone" THEN RemoveAt(calls, i)
                               ELSE WithReply(calls, i,
                                      IF clicked[calls[i].arg] = Empty THEN Failed ELSE Len(rows')),
                      UNCHANGED <<pageVars, pushes, draft, history, acts>>
               PROVE  IInv'
    BY DEF ServePost, WithReply
  <1> DEFINE q == IF clicked[calls[i].arg] = Empty THEN Failed ELSE Len(rows')
             x == [click |-> calls[i].arg, status |-> "queued"]
  <1> USE DEF pageVars, history
  <1>1. /\ calls \in Seq(CallRecords) /\ calls[i].op = "post" /\ calls[i].arg \in DOMAIN clicked
        /\ rows \in Seq(RowRecords) /\ clicked \in Seq(Nat) /\ typed \in Nat
    BY DEF IInv, Typing, Unserved, RightCalls, RightCall
  <1>2. x \in RowRecords /\ x.click = calls[i].arg /\ x.status = "queued"
    BY <1>1 DEF RowRecords
  <1>3. CASE clicked[calls[i].arg] = Empty
    <2>1. rows' = rows /\ q = Failed /\ q \in Replies
      BY <1>3 DEF Replies
    <2>2. /\ calls' \in Seq(CallRecords)
          /\ RightCalls(calls', typed, clicked, rows) /\ OnePost(calls', phase, Len(clicked))
          /\ OneRestore(calls', page)
          /\ \A w, d : SavesInOrder(calls, w, d) => SavesInOrder(calls', w, d)
          /\ \A w : FetchIsLast(calls, w) => FetchIsLast(calls', w)
          /\ \A w : InFlight(calls, w) => InFlight(calls', w)
      <3>1. CASE calls[i].from = "gone"
        BY <1>1, <3>1, RemoveKeeps DEF IInv
      <3>2. CASE calls[i].from # "gone"
        <4>1. calls' = WithReply(calls, i, Failed)
          BY <1>3, <3>2
        <4>2. Failed \in Replies
          BY DEF Replies
        <4>3. /\ calls'[i].op = "post" /\ calls'[i].arg = calls[i].arg /\ calls'[i].reply = Failed
          BY <1>1, <4>1, <4>2, ReplyKeeps
        <4>4. RightCall(calls'[i], typed, clicked, rows)
          BY <1>1, <4>3 DEF RightCall
        <4> QED
          BY <1>1, <4>1, <4>2, <4>4, ReplyKeeps DEF IInv
      <3> QED
        BY <3>1, <3>2
    <2>3. Typing'
      BY <2>1, <2>2 DEF IInv, Typing
    <2>4. Server' /\ Answers' /\ Editor'
      BY <2>1 DEF IInv, Server, Answers, Editor
    <2>5. WorkHeld'
      BY <2>1, <2>2 DEF IInv, WorkHeld, Drafted
    <2> QED
      BY <2>1, <2>2, <2>3, <2>4, <2>5 DEF IInv
  <1>4. CASE clicked[calls[i].arg] # Empty
    <2>1. rows' = Append(rows, x) /\ q = Len(rows')
      BY <1>4
    <2>2. /\ rows' \in Seq(RowRecords) /\ Len(rows) \in Nat /\ Len(rows') = Len(rows) + 1
          /\ DOMAIN rows = 1 .. Len(rows) /\ DOMAIN rows' = 1 .. Len(rows')
          /\ \A id \in DOMAIN rows : rows'[id] = rows[id]
          /\ rows'[Len(rows')] = x
      BY <1>1, <1>2, <2>1
    <2>3. /\ DOMAIN rows \subseteq DOMAIN rows' /\ q \in DOMAIN rows' /\ q \in Replies /\ q \in Nat
          /\ \A id \in DOMAIN rows' : id \in DOMAIN rows \/ rows'[id] = x
      BY <2>1, <2>2 DEF Replies
    <2>a. calls' = IF calls[i].from = "gone" THEN RemoveAt(calls, i)
                   ELSE WithReply(calls, i, q)
      OBVIOUS
    <2> HIDE DEF q, x
    <2>4. RightCalls(calls, typed, clicked, rows')
      <3>1. RowsGrow(rows, rows')
        BY <2>2, <2>3 DEF RowsGrow
      <3> QED
        BY <3>1, RowsGrowthKeeps DEF IInv
    <2>5. /\ calls' \in Seq(CallRecords)
          /\ RightCalls(calls', typed, clicked, rows') /\ OnePost(calls', phase, Len(clicked))
          /\ OneRestore(calls', page)
          /\ \A w, d : SavesInOrder(calls, w, d) => SavesInOrder(calls', w, d)
          /\ \A w : FetchIsLast(calls, w) => FetchIsLast(calls', w)
          /\ \A w : InFlight(calls, w) => InFlight(calls', w)
      <3>1. CASE calls[i].from = "gone"
        BY <1>1, <2>4, <2>a, <3>1, RemoveKeeps DEF IInv
      <3>2. CASE calls[i].from # "gone"
        <4>1. calls' = WithReply(calls, i, q)
          BY <2>a, <3>2
        <4>2. calls'[i].op = "post" /\ calls'[i].arg = calls[i].arg /\ calls'[i].reply = q
          BY <1>1, <2>3, <4>1, ReplyKeeps, SMTT(40)
        <4>3. rows'[q].click = calls[i].arg
          BY <1>2, <2>1, <2>2
        <4>4. RightCall(calls'[i], typed, clicked, rows')
          BY <1>1, <2>3, <4>2, <4>3 DEF RightCall
        <4> QED
          BY <1>1, <2>3, <2>4, <4>1, <4>4, ReplyKeeps, SMTT(40) DEF IInv
      <3> QED
        BY <3>1, <3>2
    <2>6. Typing'
      <3>1. pending \in 0 .. Len(rows') /\ shown \in [id : 0 .. Len(rows'), status : Settled \cup {"none"}]
        BY <2>2 DEF IInv, Typing
      <3> QED
        BY <2>2, <2>5, <3>1 DEF IInv, Typing
    <2>7. Server'
      <3>1. RightRows(rows', clicked)
        BY <1>1, <1>2, <1>4, <2>2, <2>3 DEF IInv, Server, RightRows
      <3>2. RightPushes(pushes, rows')
        BY <2>2, <2>3 DEF IInv, Server, RightPushes
      <3> QED
        BY <3>1, <3>2 DEF Server
    <2>8. Answers' /\ Editor'
      BY <2>2, <2>3 DEF IInv, Answers, Editor, Typing
    <2>9. WorkHeld'
      <3> SUFFICES ASSUME mishap = "none", work # Empty, ~Submitted(rows', clicked, work)
                   PROVE  Drafted(work, page, code, timer, calls', draft)
        BY DEF WorkHeld
      <3>1. ~Submitted(rows, clicked, work)
        BY <2>2, <2>3 DEF Submitted
      <3> QED
        BY <2>5, <3>1 DEF IInv, WorkHeld, Drafted
    <2> QED
      BY <2>5, <2>6, <2>7, <2>8, <2>9 DEF IInv
  <1> QED
    BY <1>3, <1>4

WithStatus(r, id, st) == [r EXCEPT ![id].status = st]

LEMMA WithStatusIs ==
  ASSUME NEW r \in Seq(RowRecords), NEW id \in DOMAIN r, NEW st \in Settled
  PROVE  LET x == WithStatus(r, id, st) IN
         /\ x \in Seq(RowRecords) /\ Len(x) = Len(r) /\ DOMAIN x = DOMAIN r
         /\ \A k \in DOMAIN r : k # id => x[k] = r[k]
         /\ x[id].click = r[id].click /\ x[id].status = st
  <1> DEFINE x == WithStatus(r, id, st)
  <1>0. r[id] \in RowRecords
    OBVIOUS
  <1>1. /\ DOMAIN x = DOMAIN r /\ x[id] = [r[id] EXCEPT !.status = st]
        /\ \A k \in DOMAIN r : k # id => x[k] = r[k]
    BY DEF WithStatus
  <1>2. x = [k \in 1 .. Len(r) |-> x[k]] /\ Len(r) \in Nat /\ DOMAIN r = 1 .. Len(r)
    BY DEF WithStatus
  <1> HIDE DEF x
  <1>3. x[id] \in RowRecords /\ x[id].click = r[id].click /\ x[id].status = st
    BY <1>0, <1>1 DEF RowRecords, Settled
  <1>4. \A k \in 1 .. Len(r) : x[k] \in RowRecords
    BY <1>1, <1>3
  <1>5. x \in Seq(RowRecords) /\ Len(x) = Len(r)
    BY <1>2, <1>4
  <1> QED
    BY <1>1, <1>3, <1>5 DEF x

LEMMA GradeKeeps == IInv /\ Grade => IInv'
  <1> SUFFICES ASSUME IInv, NEW id \in DOMAIN rows, NEW status \in Settled,
                      rows[id].status = "queued",
                      rows' = WithStatus(rows, id, status),
                      UNCHANGED pushes \/ (status = "completed" /\ SendToUser(id)),
                      UNCHANGED <<pageVars, calls, draft, history, acts>>
               PROVE  IInv'
    BY DEF Grade, WithStatus
  <1> USE DEF pageVars, history
  <1>1. /\ rows \in Seq(RowRecords) /\ rows[id] \in RowRecords /\ clicked \in Seq(Nat) /\ typed \in Nat
    BY DEF IInv, Typing
  <1>2. /\ Len(rows') = Len(rows) /\ DOMAIN rows' = DOMAIN rows /\ DOMAIN rows = 1 .. Len(rows)
        /\ Len(rows) \in Nat
        /\ \A k \in DOMAIN rows : k # id => rows'[k] = rows[k]
        /\ rows'[id].click = rows[id].click /\ rows'[id].status = status
    BY <1>1, WithStatusIs
  <1>3. rows' \in Seq(RowRecords)
    BY <1>1, WithStatusIs
  <1>5. \A k \in DOMAIN rows : /\ rows'[k].click = rows[k].click
                               /\ rows[k].status \in Settled => rows'[k].status = rows[k].status
    BY <1>2 DEF Settled
  <1>6. Typing'
    BY <1>2, <1>3 DEF IInv, Typing
  <1>7. Server'
    <2>1. RightRows(rows', clicked)
      BY <1>2, <1>5 DEF IInv, Server, RightRows
    <2>2. RightPushes(pushes', rows')
      BY <1>2, <1>5 DEF IInv, Server, RightPushes, SendToUser, Settled
    <2> QED
      BY <2>1, <2>2 DEF Server
  <1>8. RightCalls(calls, typed, clicked, rows')
    <2>1. RowsGrow(rows, rows')
      BY <1>2, <1>5 DEF RowsGrow
    <2> QED
      BY <2>1, RowsGrowthKeeps DEF IInv
  <1>9. OnePost(calls', phase', Len(clicked')) /\ OneRestore(calls', page')
    BY DEF IInv
  <1>10. Answers' /\ Editor'
    <2>1. pending # 0 => pending \in DOMAIN rows
      BY <1>2 DEF IInv, Typing
    <2>2. pending # 0 => phase = "grading" /\ rows'[pending].click = Len(clicked)
      BY <1>5, <2>1 DEF IInv, Answers
    <2>3. phase = "done" => /\ shown.id \in DOMAIN rows'
                            /\ rows'[shown.id].click = Len(clicked)
                            /\ rows'[shown.id].status = shown.status
                            /\ shown.status \in Settled
      BY <1>2, <1>5 DEF IInv, Answers
    <2> QED
      BY <2>2, <2>3 DEF IInv, Answers, Editor
  <1>11. WorkHeld'
    <2>1. Submitted(rows', clicked, work) <=> Submitted(rows, clicked, work)
      BY <1>2, <1>5 DEF Submitted
    <2> QED
      BY <2>1 DEF IInv, WorkHeld
  <1> QED
    BY <1>6, <1>7, <1>8, <1>9, <1>10, <1>11 DEF IInv

LEMMA CallFailsKeeps == IInv /\ CallFails => IInv'
  <1> SUFFICES ASSUME IInv, NEW i \in DOMAIN calls,
                      calls' = (IF calls[i].op \in {"put", "delete"} \/ calls[i].from = "gone"
                                  THEN RemoveAt(calls, i)
                                  ELSE WithReply(calls, i, Failed)),
                      acts' = acts \/ Act,
                      Note("lost", calls[i].op \in {"put", "restore"}),
                      UNCHANGED <<pageVars, pushes, serverVars, typed, work, clicked>>
               PROVE  IInv'
    BY DEF CallFails, WithReply
  <1> USE DEF pageVars, serverVars
  <1>1. /\ calls \in Seq(CallRecords) /\ RightCall(calls[i], typed, clicked, rows)
        /\ Failed \in Replies
    BY DEF IInv, Typing, RightCalls, Replies
  <1>2. mishap' = "none" => mishap = "none" /\ calls[i].op \notin {"put", "restore"}
    BY DEF Note
  <1>3. /\ calls' \in Seq(CallRecords)
        /\ RightCalls(calls', typed, clicked, rows) /\ OnePost(calls', phase, Len(clicked))
        /\ OneRestore(calls', page)
        /\ calls[i].op \notin {"put", "restore"} =>
             /\ \A w, d : SavesInOrder(calls, w, d) => SavesInOrder(calls', w, d)
             /\ \A w : FetchIsLast(calls, w) => FetchIsLast(calls', w)
             /\ \A w : InFlight(calls, w) => InFlight(calls', w)
    <2>1. CASE calls' = RemoveAt(calls, i)
      <3>1. /\ calls' \in Seq(CallRecords)
            /\ RightCalls(calls', typed, clicked, rows) /\ OnePost(calls', phase, Len(clicked))
            /\ OneRestore(calls', page)
        BY <1>1, <2>1, RemoveKeeps DEF IInv
      <3>2. calls[i].op \notin {"put", "restore"} =>
              /\ \A w, d : SavesInOrder(calls, w, d) => SavesInOrder(calls', w, d)
              /\ \A w : FetchIsLast(calls, w) => FetchIsLast(calls', w)
              /\ \A w : InFlight(calls, w) => InFlight(calls', w)
        BY <1>1, <2>1, RemoveKeeps
      <3> QED
        BY <3>1, <3>2
    <2>2. CASE calls' = WithReply(calls, i, Failed) /\ calls[i].op \notin {"put", "delete"}
      <3>1. calls'[i].op = calls[i].op /\ calls'[i].arg = calls[i].arg /\ calls'[i].reply = Failed
        BY <1>1, <2>2, ReplyKeeps
      <3>2. RightCall(calls'[i], typed, clicked, rows)
        BY <1>1, <2>2, <3>1 DEF RightCall
      <3> QED
        BY <1>1, <2>2, <3>2, ReplyKeeps DEF IInv
    <2> QED
      BY <2>1, <2>2
  <1>4. Typing'
    <2>1. mishap' \in Mishaps
      BY DEF IInv, Typing, Note, Mishaps
    <2>2. acts' \in 0 .. MaxActs /\ typed \in 1 .. acts' + 1
      BY PageAssumption DEF IInv, Typing, Act
    <2> QED
      BY <1>3, <2>1, <2>2 DEF IInv, Typing
  <1>5. Server' /\ Answers' /\ Editor'
    BY <1>2 DEF IInv, Server, Answers, Editor
  <1>6. WorkHeld'
    BY <1>2, <1>3 DEF IInv, WorkHeld, Drafted
  <1> QED
    BY <1>3, <1>4, <1>5, <1>6 DEF IInv

-----------------------------------------------------------------------------
(***************************************************************************)
(* The theorems.                                                           *)
(***************************************************************************)

LEMMA StepHolds == IInv /\ [Next]_vars => IInv'
  <1> SUFFICES ASSUME IInv, [Next]_vars PROVE IInv'
    OBVIOUS
  <1>1. CASE Student
    BY <1>1, OpenKeeps, TypeKeeps, HandleLanguageChangeKeeps, HandleRunKeeps, HandleSubmitKeeps,
       CloseKeeps DEF Student, Leave, Reload
  <1>2. CASE ProblemLoads \/ TimerFires \/ PollTick \/ PushArrives
    BY <1>2, ProblemLoadsKeeps, TimerFiresKeeps, PollTickKeeps, PushArrivesKeeps
  <1>3. CASE Handle
    BY <1>3, HandleRestoreKeeps, HandlePostKeeps, HandlePollKeeps DEF Handle
  <1>4. CASE Serve
    BY <1>4, ServePutKeeps, ServeDeleteKeeps, ServeRestoreKeeps, ServePostKeeps, ServePollKeeps
       DEF Serve
  <1>5. CASE Grade \/ CallFails
    BY <1>5, GradeKeeps, CallFailsKeeps
  <1>6. CASE UNCHANGED vars
    BY <1>6 DEF vars, pageVars, serverVars, history, IInv, Typing, Server, Answers, Editor, WorkHeld
  <1> QED
    BY <1>1, <1>2, <1>3, <1>4, <1>5, <1>6 DEF Next

LEMMA Invariant == Spec => []IInv
  BY InitHolds, StepHolds, PTL DEF Spec

LEMMA TypesFollow == IInv => TypeOK
  <1> SUFFICES ASSUME IInv PROVE TypeOK
    OBVIOUS
  <1>1. \A i \in DOMAIN calls :
          /\ calls[i].from \in Anywhere
          /\ CASE calls[i].op = "put" -> calls[i].arg \in 1 .. typed
               [] calls[i].op \in {"post", "delete"} -> calls[i].arg \in DOMAIN clicked
               [] calls[i].op = "restore" -> calls[i].arg = 0
               [] calls[i].op = "poll"    -> calls[i].arg \in DOMAIN rows
    <2> TAKE i \in DOMAIN calls
    <2>1. calls[i] \in CallRecords
      BY DEF IInv, Typing
    <2>2. /\ calls[i].from \in Anywhere
          /\ calls[i].op \in {"put", "post", "delete", "restore", "poll"}
      BY <2>1 DEF CallRecords
    <2>3. RightCall(calls[i], typed, clicked, rows)
      BY DEF IInv, RightCalls
    <2> QED
      BY <2>2, <2>3 DEF RightCall
  <1>2. \A id \in DOMAIN rows : clicked[rows[id].click] # Empty
    BY DEF IInv, Server, RightRows
  <1>3. pushes \subseteq DOMAIN rows
    BY DEF IInv, Server, RightPushes
  <1>4. /\ typed \in Versions /\ work \in 0 .. typed
    BY PageAssumption DEF IInv, Typing, Versions, Empty
  <1>5. shown.id \in 0 .. Len(rows) /\ shown.status \in Settled \cup {"none"}
    BY DEF IInv, Typing
  <1>6. /\ page \in {"away", "loading", "restoring", "ready"}
        /\ code \in 0 .. typed /\ timer \in {Empty, code}
        /\ phase \in {"idle", "queued", "grading", "done"}
        /\ pending \in 0 .. Len(rows) /\ polling \in 0 .. Len(rows)
        /\ draft \in 0 .. typed /\ mishap \in Mishaps /\ acts \in 0 .. MaxActs
        /\ \A n \in DOMAIN clicked : clicked[n] \in 0 .. typed
    BY DEF IInv, Typing
  <1> QED
    BY <1>1, <1>2, <1>3, <1>4, <1>5, <1>6 DEF TypeOK

(* Every call, row, version and id of the page and the server stays within its type: a call  *)
(* names a click, a row or a version that exists, and a draft is never newer than the work.  *)
THEOREM SolveTyping == Spec => []TypeOK
  BY Invariant, TypesFollow, PTL

(* The result on screen is the stored result of the last click on Submit, however late pushes, *)
(* polls and answers to earlier clicks come, and nothing polls any more.                       *)
THEOREM TheAnswerIsTheLastOnes == Spec => []ShownIsStored
  <1>1. IInv => ShownIsStored
    BY DEF IInv, Typing, Answers, ShownIsStored
  <1> QED
    BY <1>1, Invariant, PTL

(* Without a mishap, the newest work is in the editor, in the draft, on its way there, or submitted. *)
THEOREM WorkIsNotLost == Spec => []WorkIsKept
  <1>1. IInv => WorkIsKept
    <2> SUFFICES ASSUME IInv, mishap = "none", work # Empty PROVE Kept(work)
      BY DEF WorkIsKept
    <2>1. CASE Submitted(rows, clicked, work)
      BY <2>1 DEF Submitted, Kept
    <2>2. CASE ~Submitted(rows, clicked, work)
      <3>1. timer = work \/ draft = work \/ InFlight(calls, work)
        BY <2>2 DEF IInv, WorkHeld, Drafted
      <3>2. timer = work => page # "away" /\ code = work
        BY DEF IInv, Typing, Editor, Empty
      <3> QED
        BY <3>1, <3>2 DEF InFlight, Kept
    <2> QED
      BY <2>1, <2>2
  <1> QED
    BY <1>1, Invariant, PTL
=============================================================================
