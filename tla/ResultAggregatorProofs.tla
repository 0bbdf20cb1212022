------------------------- MODULE ResultAggregatorProofs -------------------------
(***************************************************************************)
(* Theorems of ResultAggregator, for any frames, workers, labels, findings *)
(* and caps.                                                               *)
(***************************************************************************)
EXTENDS ResultAggregator, SumTheorems

Sightings == [Label -> [n : Nat, confidence : Nat]]

Result == [frame_id : Frame, origin : Seq(Worker), found : Sightings, ms : Latency]

\* The part of the state the theorems need: the table holds at most
\* MAX_STORED_FRAMES results, and one of a frame.
OneEach ==
  \A i, k \in DOMAIN results : results[i].frame_id = results[k].frame_id => i = k

TableInv == results \in Seq(Result) /\ OneEach /\ Len(results) <= MAX_STORED_FRAMES

-----------------------------------------------------------------------------
\* The merge.

LEMMA ReportIsResult == ASSUME NEW r \in Report PROVE r \in Result
<1>1. r.origin \in Seq(Worker)
  <2>1. r.origin \in {<<w>> : w \in Worker} BY DEF Report
  <2>2. PICK w \in Worker : r.origin = <<w>> BY <2>1
  <2> QED BY <2>2
<1>2. r.found \in Sightings BY ResultAggregatorAssumption DEF Report, Sightings
<1> QED BY <1>1, <1>2 DEF Report, Result

\* A merge keeps the frame and its type.
LEMMA MergeFacts ==
  ASSUME NEW a \in Result, NEW b \in Result, a.frame_id = b.frame_id
  PROVE  Merged(a, b) \in Result /\ Merged(a, b).frame_id = a.frame_id
<1> DEFINE m == Merged(a, b)
<1>1. \A l \in Label : /\ a.found[l].n \in Nat /\ b.found[l].n \in Nat
                       /\ a.found[l].confidence \in Nat /\ b.found[l].confidence \in Nat
  BY DEF Result, Sightings
<1>2. m.origin \in Seq(Worker)
  <2>1. a.origin \in Seq(Worker) /\ b.origin \in Seq(Worker) BY DEF Result
  <2>2. m.origin = a.origin \o b.origin BY DEF Merged
  <2> QED BY <2>1, <2>2
<1>3. m.ms \in Latency BY DEF Merged, Smaller, Result
<1>4. m.found = [l \in Label |->
                   [ n          |-> IF a.found[l].n + b.found[l].n = 0 THEN 0 ELSE 1,
                     confidence |-> Larger(a.found[l].confidence, b.found[l].confidence) ]]
  BY DEF Merged
<1>5. ASSUME NEW l \in Label
      PROVE  m.found[l] \in [n : Nat, confidence : Nat]
  <2>1. Larger(a.found[l].confidence, b.found[l].confidence) \in Nat BY <1>1 DEF Larger
  <2>2. (IF a.found[l].n + b.found[l].n = 0 THEN 0 ELSE 1) \in Nat OBVIOUS
  <2> QED BY <1>4, <2>1, <2>2
<1>6. m.found \in Sightings BY <1>4, <1>5 DEF Sightings
<1>7. m.frame_id = a.frame_id /\ a.frame_id \in Frame BY DEF Merged, Result
<1>8. m \in Result
  <2>1. m = [frame_id |-> m.frame_id, origin |-> m.origin, found |-> m.found, ms |-> m.ms]
    BY DEF Merged
  <2> HIDE DEF m
  <2> QED BY <1>2, <1>3, <1>6, <1>7, <2>1 DEF Result
<1> QED BY <1>7, <1>8

LEMMA ConsensusFacts ==
  ASSUME NEW a \in Result, NEW b \in Result, a.frame_id = b.frame_id
  PROVE  Consensus(a, b) \in Result /\ Consensus(a, b).frame_id = a.frame_id
BY MergeFacts DEF Consensus

-----------------------------------------------------------------------------
\* The steps.

LEMMA OverwriteTable ==
  ASSUME TableInv, NEW r \in Report, Overwrite(r)
  PROVE  TableInv'
<1>1. PICK i \in Entries(r.frame_id) : results' = [results EXCEPT ![i] = Consensus(results[i], r)]
  BY DEF Overwrite
<1>2. /\ i \in DOMAIN results /\ results[i] \in Result /\ r \in Result
      /\ results[i].frame_id = r.frame_id
  BY <1>1, ReportIsResult DEF Entries, TableInv
<1> DEFINE new == Consensus(results[i], r)
<1>3. new \in Result /\ new.frame_id = results[i].frame_id
  BY <1>2, ConsensusFacts
<1>4. results' = [results EXCEPT ![i] = new] BY <1>1
<1> HIDE DEF new
<1>5. /\ results' \in Seq(Result) /\ Len(results') = Len(results)
      /\ DOMAIN results' = DOMAIN results /\ results'[i] = new
      /\ \A k \in DOMAIN results \ {i} : results'[k] = results[k]
  BY <1>2, <1>3, <1>4 DEF TableInv
<1>6. \A k \in DOMAIN results : results'[k].frame_id = results[k].frame_id BY <1>3, <1>5
<1> QED BY <1>5, <1>6 DEF TableInv, OneEach

\* A result of a new frame comes after those that stay.
LEMMA NewEntryTable ==
  ASSUME TableInv, NEW rest \in Seq(Result), NEW r \in Report, Entries(r.frame_id) = {},
         NEW d \in Nat, Len(rest) < MAX_STORED_FRAMES,
         \A k \in DOMAIN rest : k + d \in DOMAIN results /\ rest[k] = results[k + d],
         results' = Append(rest, r)
  PROVE  TableInv'
<1>1. r \in Result BY ReportIsResult
<1>2. /\ Len(rest) \in Nat /\ DOMAIN rest = 1 .. Len(rest)
      /\ results' \in Seq(Result) /\ DOMAIN results' = 1 .. Len(rest) + 1
      /\ results'[Len(rest) + 1] = r
      /\ \A k \in DOMAIN rest : results'[k] = rest[k]
      /\ Len(results') = Len(rest) + 1
  BY <1>1
<1>3. \A k \in DOMAIN results : results[k].frame_id # r.frame_id BY DEF Entries
<1>4. \A j \in DOMAIN results' :
        j = Len(rest) + 1 \/ (j \in DOMAIN rest /\ results'[j] = results[j + d])
  BY <1>2
<1>5. Len(results') <= MAX_STORED_FRAMES BY <1>2, ResultAggregatorAssumption
<1>6. OneEach'
  <2> SUFFICES ASSUME NEW i \in DOMAIN results', NEW k \in DOMAIN results',
                      results'[i].frame_id = results'[k].frame_id
               PROVE  i = k
    BY DEF OneEach
  <2>1. CASE i \in DOMAIN rest /\ k \in DOMAIN rest
    <3>1. i + d = k + d BY <1>2, <2>1 DEF TableInv, OneEach
    <3> QED BY <1>2, <2>1, <3>1
  <2>2. CASE i = Len(rest) + 1 /\ k \in DOMAIN rest BY <1>2, <1>3, <2>2
  <2>3. CASE k = Len(rest) + 1 /\ i \in DOMAIN rest BY <1>2, <1>3, <2>3
  <2> QED BY <1>4, <2>1, <2>2, <2>3
<1> QED BY <1>2, <1>5, <1>6 DEF TableInv

LEMMA TableStep == TableInv /\ [Next]_vars => TableInv'
<1> SUFFICES ASSUME TableInv, [Next]_vars PROVE TableInv'
  OBVIOUS
<1>1. CASE UNCHANGED vars BY <1>1 DEF vars, TableInv, OneEach
<1>2. ASSUME NEW r \in Report, Store(r) PROVE TableInv'
  <2>1. CASE Overwrite(r) BY <2>1, OverwriteTable
  <2>2. CASE Insert(r)
    <3>1. /\ results \in Seq(Result) /\ Len(results) < MAX_STORED_FRAMES
          /\ Entries(r.frame_id) = {} /\ results' = Append(results, r)
      BY <2>2 DEF Insert, TableInv
    <3>2. \A k \in DOMAIN results : k + 0 \in DOMAIN results /\ results[k] = results[k + 0]
      BY <3>1
    <3> QED BY <3>1, <3>2, NewEntryTable
  <2>3. CASE InsertEvicting(r)
    <3>1. /\ results \in Seq(Result) /\ Len(results) <= MAX_STORED_FRAMES
          /\ Len(results) >= MAX_STORED_FRAMES /\ MAX_STORED_FRAMES \in Nat \ {0}
          /\ Entries(r.frame_id) = {} /\ results' = Append(Tail(results), r)
      BY <2>3, ResultAggregatorAssumption DEF InsertEvicting, TableInv
    <3>2. /\ Tail(results) \in Seq(Result) /\ Len(Tail(results)) < MAX_STORED_FRAMES
          /\ \A k \in DOMAIN Tail(results) :
               k + 1 \in DOMAIN results /\ Tail(results)[k] = results[k + 1]
      BY <3>1
    <3> QED BY <3>1, <3>2, NewEntryTable
  <2> QED BY <1>2, <2>1, <2>2, <2>3 DEF Store
<1>3. ASSUME NEW a \in Alert, AddAlert(a) PROVE TableInv'
  <2>1. results' = results BY <1>3 DEF AddAlert
  <2> QED BY <2>1 DEF TableInv, OneEach
<1> QED BY <1>1, <1>2, <1>3 DEF Next

LEMMA InitTable == Init => TableInv
BY ResultAggregatorAssumption DEF Init, TableInv, OneEach

\* The table holds one result of a frame and no more than its cap (_store).
THEOREM OneResultPerFrame == Spec => [](OneEach /\ Len(results) <= MAX_STORED_FRAMES)
<1>1. TableInv => OneEach /\ Len(results) <= MAX_STORED_FRAMES BY DEF TableInv
<1> QED BY <1>1, InitTable, TableStep, PTL DEF Spec

-----------------------------------------------------------------------------
\* Sums over a sequence of results: of W[r] for every result r in it.

SeqSum(s, W) == SumFunctionOnSet([i \in DOMAIN s |-> W[s[i]]], DOMAIN s)

LEMMA SeqTerms ==
  ASSUME NEW s \in Seq(Result), NEW W \in [Result -> Nat]
  PROVE  /\ DOMAIN s = 1 .. Len(s) /\ IsFiniteSet(DOMAIN s) /\ Len(s) \in Nat
         /\ \A i \in DOMAIN s : W[s[i]] \in Nat
         /\ SeqSum(s, W) \in Nat
<1>1. DOMAIN s = 1 .. Len(s) /\ Len(s) \in Nat OBVIOUS
<1>2. IsFiniteSet(DOMAIN s) BY <1>1, FS_Interval
<1>3. \A i \in DOMAIN s : W[s[i]] \in Nat OBVIOUS
<1> DEFINE g == [i \in DOMAIN s |-> W[s[i]]]
<1>4. \A i \in DOMAIN s : g[i] \in Nat BY <1>3
<1>5. SeqSum(s, W) = SumFunctionOnSet(g, DOMAIN s) BY DEF SeqSum
<1> HIDE DEF g
<1>6. SumFunctionOnSet(g, DOMAIN s) \in Nat BY <1>2, <1>4, SumType
<1> QED BY <1>1, <1>2, <1>3, <1>5, <1>6

\* One result more at the end.
LEMMA SeqSumAppend ==
  ASSUME NEW s \in Seq(Result), NEW W \in [Result -> Nat], NEW r \in Result
  PROVE  SeqSum(Append(s, r), W) = SeqSum(s, W) + W[r]
<1> DEFINE t == Append(s, r)
           n == Len(s)
           g == [i \in DOMAIN s |-> W[s[i]]]
           h == [i \in DOMAIN t |-> W[t[i]]]
<1>1. t \in Seq(Result) OBVIOUS
<1>2. /\ n \in Nat /\ DOMAIN s = 1 .. n /\ IsFiniteSet(1 .. n) /\ SeqSum(s, W) \in Nat
      /\ DOMAIN t = 1 .. n + 1 /\ \A i \in DOMAIN t : W[t[i]] \in Nat
  <2>1. DOMAIN t = 1 .. n + 1 OBVIOUS
  <2> QED BY <1>1, <2>1, SeqTerms
<1>3. h[n + 1] = W[r] /\ \A i \in 1 .. n : h[i] = g[i] BY <1>2
<1>4. \A i \in 1 .. n + 1 : h[i] \in Nat BY <1>2
<1>5. 1 .. n + 1 = (1 .. n) \cup {n + 1} /\ n + 1 \notin 1 .. n BY <1>2
<1>6. SeqSum(t, W) = SumFunctionOnSet(h, 1 .. n + 1) /\ SeqSum(s, W) = SumFunctionOnSet(g, 1 .. n)
  BY <1>2 DEF SeqSum
<1> HIDE DEF g, h, n, t
<1>7. SumFunctionOnSet(h, (1 .. n) \cup {n + 1}) = h[n + 1] + SumFunctionOnSet(h, 1 .. n)
  <2>1. \A i \in (1 .. n) \cup {n + 1} : h[i] \in Int BY <1>4, <1>5
  <2> QED BY <1>2, <1>5, <2>1, SumAdd
<1>8. SumFunctionOnSet(h, 1 .. n) = SumFunctionOnSet(g, 1 .. n)
  <2>1. \A i \in 1 .. n : g[i] \in Nat /\ h[i] = g[i] BY <1>3, <1>4, <1>5
  <2> QED BY <1>2, <2>1, SumSame
<1>9. SeqSum(t, W) = W[r] + SeqSum(s, W) BY <1>3, <1>5, <1>6, <1>7, <1>8
<1> QED BY <1>2, <1>9 DEF t

\* The first result apart.
LEMMA SeqSumTail ==
  ASSUME NEW s \in Seq(Result), NEW W \in [Result -> Nat], s # <<>>
  PROVE  /\ Tail(s) \in Seq(Result)
         /\ SeqSum(s, W) = W[Head(s)] + SeqSum(Tail(s), W)
<1> DEFINE t == Tail(s)
           n == Len(s)
           g == [i \in DOMAIN s |-> W[s[i]]]
           h == [i \in DOMAIN t |-> W[t[i]]]
           m == [i \in DOMAIN t |-> i + 1]
           rest == (1 .. n) \ {1}
<1>1. /\ t \in Seq(Result) /\ n \in Nat \ {0} /\ DOMAIN s = 1 .. n /\ DOMAIN t = 1 .. n - 1
      /\ Head(s) = s[1] /\ \A i \in 1 .. n - 1 : t[i] = s[i + 1]
  OBVIOUS
<1>2. IsFiniteSet(1 .. n) /\ \A i \in 1 .. n : W[s[i]] \in Nat BY <1>1, SeqTerms
<1>3. \A i \in 1 .. n : g[i] \in Nat /\ g[i] = W[s[i]] BY <1>1, <1>2
<1>4. /\ m \in [1 .. n - 1 -> rest]
      /\ \A x, y \in 1 .. n - 1 : m[x] = m[y] => x = y
      /\ \A x \in 1 .. n - 1 : h[x] = g[m[x]]
  BY <1>1
<1>5. \A y \in rest : \E x \in 1 .. n - 1 : m[x] = y
  <2> SUFFICES ASSUME NEW y \in rest PROVE \E x \in 1 .. n - 1 : m[x] = y
    OBVIOUS
  <2>1. y - 1 \in 1 .. n - 1 /\ m[y - 1] = y BY <1>1
  <2> QED BY <2>1
<1>6. IsFiniteSet(rest) /\ rest \subseteq 1 .. n /\ 1 \in 1 .. n
  <2>1. 1 \in 1 .. n /\ rest \subseteq 1 .. n BY <1>1
  <2> QED BY <1>2, <2>1, FS_Subset
<1>7. SeqSum(s, W) = SumFunctionOnSet(g, 1 .. n) /\ SeqSum(t, W) = SumFunctionOnSet(h, 1 .. n - 1)
  BY <1>1 DEF SeqSum
<1> HIDE DEF g, h, m
<1>8. SumFunctionOnSet(g, 1 .. n) = g[1] + SumFunctionOnSet(g, rest)
  <2>1. \A i \in 1 .. n : g[i] \in Int BY <1>3
  <2> QED BY <1>2, <1>6, <2>1, SumRemove
<1>9. SumFunctionOnSet(h, 1 .. n - 1) = SumFunctionOnSet(g, rest)
  <2>1. \A y \in rest : g[y] \in Nat BY <1>3, <1>6
  <2> DEFINE S == 1 .. n - 1
  <2>2. /\ m \in [S -> rest] /\ \A x, y \in S : m[x] = m[y] => x = y
        /\ \A y \in rest : \E x \in S : m[x] = y
        /\ \A x \in S : h[x] = g[m[x]]
    BY <1>4, <1>5
  <2> HIDE DEF rest, S
  <2>3. SumFunctionOnSet(h, S) = SumFunctionOnSet(g, rest)
    BY <1>6, <2>1, <2>2, SumRenamed
  <2> QED BY <2>3 DEF S
<1> QED BY <1>1, <1>3, <1>6, <1>7, <1>8, <1>9

\* Another result in place of one.
LEMMA SeqSumReplace ==
  ASSUME NEW s \in Seq(Result), NEW W \in [Result -> Nat], NEW i \in DOMAIN s, NEW r \in Result
  PROVE  /\ SeqSum([s EXCEPT ![i] = r], W) = SeqSum(s, W) - W[s[i]] + W[r]
         /\ W[s[i]] <= SeqSum(s, W)
<1> DEFINE t == [s EXCEPT ![i] = r]
           g == [k \in DOMAIN s |-> W[s[k]]]
           h == [k \in DOMAIN t |-> W[t[k]]]
<1>1. t \in Seq(Result) /\ DOMAIN t = DOMAIN s /\ t[i] = r /\ \A k \in DOMAIN s \ {i} : t[k] = s[k]
  OBVIOUS
<1>2. /\ IsFiniteSet(DOMAIN s) /\ \A k \in DOMAIN s : W[s[k]] \in Nat /\ W[t[k]] \in Nat
  BY <1>1, SeqTerms
<1>3. /\ \A k \in DOMAIN s : g[k] \in Nat /\ h[k] \in Nat
      /\ g[i] = W[s[i]] /\ h[i] = W[r] /\ \A k \in DOMAIN s \ {i} : h[k] = g[k]
  BY <1>1, <1>2
<1> DEFINE D == DOMAIN s
<1>4. SeqSum(t, W) = SumFunctionOnSet(h, D) /\ SeqSum(s, W) = SumFunctionOnSet(g, D)
  BY <1>1 DEF SeqSum
<1>5. /\ IsFiniteSet(D) /\ i \in D /\ \A k \in D : g[k] \in Nat /\ h[k] \in Nat
      /\ \A k \in D \ {i} : h[k] = g[k]
  BY <1>2, <1>3
<1> HIDE DEF g, h, t, D
<1>6. SumFunctionOnSet(h, D) = SumFunctionOnSet(g, D) - g[i] + h[i]
  BY <1>5, SumChange
<1>7. g[i] <= SumFunctionOnSet(g, D)
  <2>1. \A k \in D : g[k] \in Int BY <1>5
  <2>2. SumFunctionOnSet(g, D) = g[i] + SumFunctionOnSet(g, D \ {i})
    BY <1>5, <2>1, SumRemove
  <2>3. SumFunctionOnSet(g, D \ {i}) \in Nat
    <3>1. IsFiniteSet(D \ {i}) BY <1>5, FS_RemoveElement
    <3> QED BY <1>5, <3>1, SumType
  <2> QED BY <1>5, <2>2, <2>3
<1> QED BY <1>3, <1>4, <1>6, <1>7 DEF t

LEMMA SeqSumEmpty == ASSUME NEW W PROVE SeqSum(<<>>, W) = 0
<1>1. DOMAIN <<>> = {} OBVIOUS
<1> QED BY <1>1, SumEmpty DEF SeqSum

\* With weights 0 and 1, the sum counts.
LEMMA SeqSumCounts ==
  ASSUME NEW s \in Seq(Result), NEW W \in [Result -> {0, 1}]
  PROVE  SeqSum(s, W) = Cardinality({i \in DOMAIN s : W[s[i]] = 1})
<1> DEFINE g == [i \in DOMAIN s |-> W[s[i]]]
<1>1. IsFiniteSet(DOMAIN s) BY FS_Interval
<1>2. \A i \in DOMAIN s : g[i] \in {0, 1} OBVIOUS
<1>3. {i \in DOMAIN s : W[s[i]] = 1} = {i \in DOMAIN s : g[i] = 1} OBVIOUS
<1>4. SeqSum(s, W) = SumFunctionOnSet(g, DOMAIN s) BY DEF SeqSum
<1> HIDE DEF g
<1> QED BY <1>1, <1>2, <1>3, <1>4, SumCounts

-----------------------------------------------------------------------------
\* The totals.  Each is the sum of a weight of the stored results.

Detected    == [r \in Result |-> Found(r)]
Sighted(l)  == [r \in Result |-> r.found[l].n]
MadeBy(o)   == [r \in Result |-> IF r.origin = o THEN 1 ELSE 0]

\* A worker id without a key has been counted for nothing.
CountOf(s, o) == IF o \in DOMAIN s THEN s[o] ELSE 0

TotalsInv ==
  /\ detections = SeqSum(results, Detected)
  /\ counts \in [Label -> Nat]
  /\ \A l \in Label : counts[l] = SeqSum(results, Sighted(l))
  /\ summary = [o \in DOMAIN summary |-> summary[o]]
  /\ \A o : CountOf(summary, o) = SeqSum(results, MadeBy(o))
  /\ \A i \in DOMAIN results : results[i].origin \in DOMAIN summary

LEMMA WeightsTyped ==
  /\ Detected \in [Result -> Nat]
  /\ \A l \in Label : Sighted(l) \in [Result -> Nat]
  /\ \A o : MadeBy(o) \in [Result -> Nat] /\ MadeBy(o) \in [Result -> {0, 1}]
<1>1. ASSUME NEW r \in Result PROVE Found(r) \in Nat
  <2> DEFINE g == [l \in Label |-> r.found[l].n]
  <2>1. IsFiniteSet(Label) BY ResultAggregatorAssumption
  <2>2. \A l \in Label : g[l] \in Nat BY DEF Result, Sightings
  <2>3. Found(r) = SumFunctionOnSet(g, Label) BY DEF Found
  <2> HIDE DEF g
  <2> QED BY <2>1, <2>2, <2>3, SumType
<1>2. \A r \in Result, l \in Label : r.found[l].n \in Nat BY DEF Result, Sightings
<1> QED BY <1>1, <1>2 DEF Detected, Sighted, MadeBy

\* A result that no total counted yet comes in.
LEMMA AddedTotals ==
  ASSUME TableInv, TotalsInv, NEW r \in Result, Added(r), results' \in Seq(Result),
         \A W \in [Result -> Nat] : SeqSum(results', W) = SeqSum(results, W) + W[r],
         \A i \in DOMAIN results' :
           results'[i].origin = r.origin \/ \E k \in DOMAIN results : results'[i] = results[k]
  PROVE  TotalsInv'
<1>1. detections' = SeqSum(results', Detected)
  BY WeightsTyped DEF Added, TotalsInv, Detected
<1>2. /\ counts' \in [Label -> Nat]
      /\ \A l \in Label : counts'[l] = SeqSum(results', Sighted(l))
  <2>1. counts' = [l \in Label |-> counts[l] + r.found[l].n] BY DEF Added
  <2>2. \A l \in Label : Sighted(l)[r] = r.found[l].n /\ r.found[l].n \in Nat
    BY DEF Sighted, Result, Sightings
  <2>3. counts' \in [Label -> Nat] BY <2>1, <2>2 DEF TotalsInv
  <2>4. ASSUME NEW l \in Label PROVE counts'[l] = SeqSum(results', Sighted(l))
    BY <2>1, <2>2, WeightsTyped DEF TotalsInv
  <2> QED BY <2>3, <2>4
<1>3. summary' = [p \in DOMAIN summary \cup {r.origin} |->
                    CountOf(summary, p) + (IF p = r.origin THEN 1 ELSE 0)]
  BY DEF Added, More, CountOf
<1>4. ASSUME NEW o PROVE CountOf(summary', o) = SeqSum(results', MadeBy(o))
  <2>1. SeqSum(results', MadeBy(o)) = CountOf(summary, o) + MadeBy(o)[r]
    BY WeightsTyped DEF TotalsInv
  <2>2. MadeBy(o)[r] = IF o = r.origin THEN 1 ELSE 0 BY DEF MadeBy
  <2>3. CASE o \in DOMAIN summary \cup {r.origin} BY <1>3, <2>1, <2>2, <2>3 DEF CountOf
  <2>4. CASE o \notin DOMAIN summary \cup {r.origin} BY <1>3, <2>1, <2>2, <2>4 DEF CountOf
  <2> QED BY <2>3, <2>4
<1>5. \A i \in DOMAIN results' : results'[i].origin \in DOMAIN summary'
  BY <1>3 DEF TotalsInv
<1>6. summary' = [o \in DOMAIN summary' |-> summary'[o]] BY <1>3
<1> QED BY <1>1, <1>2, <1>4, <1>5, <1>6 DEF TotalsInv

\* What Exchanged does to a total that has old in it.
LEMMA ExchangedTotals ==
  ASSUME TableInv, TotalsInv, NEW k \in DOMAIN results, NEW new \in Result,
         Exchanged(results[k], new), results' \in Seq(Result),
         \A W \in [Result -> Nat] :
           /\ W[results[k]] <= SeqSum(results, W)
           /\ SeqSum(results', W) = SeqSum(results, W) - W[results[k]] + W[new],
         \A i \in DOMAIN results' :
           results'[i].origin = new.origin \/ \E j \in DOMAIN results : results'[i] = results[j]
  PROVE  TotalsInv'
<1> DEFINE old == results[k]
<1>1. /\ old \in Result
      /\ \A W \in [Result -> Nat] : /\ W[old] <= SeqSum(results, W)
                                    /\ SeqSum(results', W) = SeqSum(results, W) - W[old] + W[new]
                                    /\ SeqSum(results, W) \in Nat /\ W[old] \in Nat /\ W[new] \in Nat
  BY SeqTerms DEF TableInv
<1>2. /\ detections' = detections - Found(old) + Found(new)
      /\ counts' = [l \in Label |-> NotBelow0(counts[l] - old.found[l].n) + new.found[l].n]
      /\ summary' = More(Less(old.origin), new.origin)
  BY DEF Exchanged
<1>3. old.origin \in DOMAIN summary BY DEF TotalsInv
<1> HIDE DEF old
<1>4. detections' = SeqSum(results', Detected)
  <2>1. Detected[old] = Found(old) /\ Detected[new] = Found(new) BY <1>1 DEF Detected
  <2> QED BY <1>1, <1>2, <2>1, WeightsTyped DEF TotalsInv
<1>5. /\ counts' \in [Label -> Nat]
      /\ \A l \in Label : counts'[l] = SeqSum(results', Sighted(l))
  <2>1. ASSUME NEW l \in Label
        PROVE  counts'[l] \in Nat /\ counts'[l] = SeqSum(results', Sighted(l))
    <3>1. /\ Sighted(l)[old] = old.found[l].n /\ Sighted(l)[new] = new.found[l].n
          /\ Sighted(l) \in [Result -> Nat]
      BY <1>1, WeightsTyped DEF Sighted
    <3>2. /\ counts[l] = SeqSum(results, Sighted(l)) /\ counts[l] \in Nat
          /\ old.found[l].n <= counts[l] /\ old.found[l].n \in Nat /\ new.found[l].n \in Nat
          /\ SeqSum(results', Sighted(l)) = counts[l] - old.found[l].n + new.found[l].n
      BY <1>1, <3>1 DEF TotalsInv
    <3>3. NotBelow0(counts[l] - old.found[l].n) = counts[l] - old.found[l].n
      BY <3>2 DEF NotBelow0, Larger
    <3>4. counts'[l] = counts[l] - old.found[l].n + new.found[l].n BY <1>2, <3>3
    <3> QED BY <3>2, <3>4
  <2>2. counts' = [l \in Label |-> counts'[l]] BY <1>2
  <2> QED BY <2>1, <2>2
<1>6. /\ DOMAIN summary' = DOMAIN summary \cup {new.origin}
      /\ summary' = [o \in DOMAIN summary' |-> summary'[o]]
      /\ \A o \in DOMAIN summary' :
           summary'[o] = CountOf(Less(old.origin), o) + (IF o = new.origin THEN 1 ELSE 0)
      /\ \A o : CountOf(Less(old.origin), o)
                  = IF o = old.origin THEN NotBelow0(summary[o] - 1) ELSE CountOf(summary, o)
  BY <1>2, <1>3 DEF More, Less, CountOf
<1>7. ASSUME NEW o PROVE CountOf(summary', o) = SeqSum(results', MadeBy(o))
  <2>1. /\ MadeBy(o) \in [Result -> Nat]
        /\ MadeBy(o)[old] = IF o = old.origin THEN 1 ELSE 0
        /\ MadeBy(o)[new] = IF o = new.origin THEN 1 ELSE 0
    BY <1>1, WeightsTyped DEF MadeBy
  <2>2. CountOf(summary, o) = SeqSum(results, MadeBy(o)) BY DEF TotalsInv
  <2>3. SeqSum(results, MadeBy(o)) \in Nat /\ MadeBy(o)[old] <= SeqSum(results, MadeBy(o))
    BY <1>1, <2>1
  <2>4. CountOf(Less(old.origin), o) = CountOf(summary, o) - MadeBy(o)[old]
    <3>1. CASE o = old.origin
      <4>1. summary[o] = CountOf(summary, o) BY <1>3, <3>1 DEF CountOf
      <4>2. NotBelow0(summary[o] - 1) = summary[o] - 1
        BY <2>1, <2>2, <2>3, <3>1, <4>1 DEF NotBelow0, Larger
      <4> QED BY <1>6, <2>1, <3>1, <4>1, <4>2
    <3>2. CASE o # old.origin BY <1>6, <2>1, <2>2, <2>3, <3>2
    <3> QED BY <3>1, <3>2
  <2>5. SeqSum(results', MadeBy(o)) = CountOf(Less(old.origin), o) + MadeBy(o)[new]
    BY <1>1, <2>1, <2>2, <2>4
  <2>6. CASE o \in DOMAIN summary' BY <1>6, <2>1, <2>5, <2>6 DEF CountOf
  <2>7. CASE o \notin DOMAIN summary'
    <3>1. /\ o \notin DOMAIN summary /\ o # new.origin /\ o # old.origin
      BY <1>3, <1>6, <2>7
    <3>2. CountOf(Less(old.origin), o) = 0 BY <1>6, <3>1 DEF CountOf
    <3> QED BY <2>1, <2>5, <2>7, <3>1, <3>2 DEF CountOf
  <2> QED BY <2>6, <2>7
<1>8. \A i \in DOMAIN results' : results'[i].origin \in DOMAIN summary'
  BY <1>6 DEF TotalsInv
<1> QED BY <1>4, <1>5, <1>6, <1>7, <1>8 DEF TotalsInv

LEMMA StoreTotals ==
  ASSUME TableInv, TotalsInv, NEW r \in Report, Store(r)
  PROVE  TotalsInv'
<1>1. results \in Seq(Result) /\ r \in Result BY ReportIsResult DEF TableInv
<1>2. CASE Overwrite(r)
  <2>1. PICK i \in Entries(r.frame_id) :
          /\ results' = [results EXCEPT ![i] = Consensus(results[i], r)]
          /\ Exchanged(results[i], Consensus(results[i], r))
    BY <1>2 DEF Overwrite
  <2>2. i \in DOMAIN results /\ results[i] \in Result /\ results[i].frame_id = r.frame_id
    BY <1>1, <2>1 DEF Entries
  <2> DEFINE new == Consensus(results[i], r)
  <2>3. new \in Result BY <1>1, <2>2, ConsensusFacts
  <2>4. results' = [results EXCEPT ![i] = new] /\ Exchanged(results[i], new) BY <2>1
  <2> HIDE DEF new
  <2>5. results' \in Seq(Result) BY <1>1, <2>2, <2>3, <2>4
  <2>6. \A W \in [Result -> Nat] :
           /\ W[results[i]] <= SeqSum(results, W)
           /\ SeqSum(results', W) = SeqSum(results, W) - W[results[i]] + W[new]
    BY <1>1, <2>2, <2>3, <2>4, SeqSumReplace
  <2>7. \A k \in DOMAIN results' :
          results'[k].origin = new.origin \/ \E j \in DOMAIN results : results'[k] = results[j]
    BY <1>1, <2>2, <2>4
  <2> QED BY <2>2, <2>3, <2>4, <2>5, <2>6, <2>7, ExchangedTotals
<1>3. CASE Insert(r)
  <2>1. results' = Append(results, r) /\ Added(r) BY <1>3 DEF Insert
  <2>2. results' \in Seq(Result) BY <1>1, <2>1
  <2>3. \A W \in [Result -> Nat] : SeqSum(results', W) = SeqSum(results, W) + W[r]
    BY <1>1, <2>1, SeqSumAppend
  <2>4. \A i \in DOMAIN results' :
          results'[i].origin = r.origin \/ \E k \in DOMAIN results : results'[i] = results[k]
    BY <1>1, <2>1
  <2> QED BY <1>1, <2>1, <2>2, <2>3, <2>4, AddedTotals
<1>4. CASE InsertEvicting(r)
  <2>1. /\ results' = Append(Tail(results), r) /\ Exchanged(Head(results), r)
        /\ Len(results) >= MAX_STORED_FRAMES
    BY <1>4 DEF InsertEvicting
  <2>2. results # <<>> /\ 1 \in DOMAIN results /\ Head(results) = results[1]
    BY <1>1, <2>1, ResultAggregatorAssumption
  <2>3. Tail(results) \in Seq(Result) /\ results' \in Seq(Result) BY <1>1, <2>1, <2>2
  <2>4. ASSUME NEW W \in [Result -> Nat]
        PROVE  /\ W[results[1]] <= SeqSum(results, W)
               /\ SeqSum(results', W) = SeqSum(results, W) - W[results[1]] + W[r]
    <3>1. SeqSum(results, W) = W[results[1]] + SeqSum(Tail(results), W)
      BY <1>1, <2>2, SeqSumTail
    <3>2. SeqSum(results', W) = SeqSum(Tail(results), W) + W[r]
      BY <1>1, <2>1, <2>3, SeqSumAppend
    <3>3. SeqSum(Tail(results), W) \in Nat /\ W[results[1]] \in Nat /\ W[r] \in Nat
      <4>1. SeqSum(Tail(results), W) \in Nat BY <2>3, SeqTerms
      <4> QED BY <1>1, <2>2, <4>1
    <3> QED BY <3>1, <3>2, <3>3
  <2>5. \A i \in DOMAIN results' :
          results'[i].origin = r.origin \/ \E k \in DOMAIN results : results'[i] = results[k]
    <3> SUFFICES ASSUME NEW i \in DOMAIN results'
                 PROVE  results'[i] = r \/ \E k \in DOMAIN results : results'[i] = results[k]
      OBVIOUS
    <3>1. CASE i = Len(results) BY <1>1, <2>1, <2>2, <3>1
    <3>2. CASE i # Len(results)
      <4>1. i + 1 \in DOMAIN results /\ results'[i] = results[i + 1]
        BY <1>1, <2>1, <2>2, <3>2
      <4> QED BY <4>1
    <3> QED BY <3>1, <3>2
  <2>6. Exchanged(results[1], r) BY <2>1, <2>2
  <2> QED BY <1>1, <2>2, <2>3, <2>4, <2>5, <2>6, ExchangedTotals
<1> QED BY <1>2, <1>3, <1>4 DEF Store

LEMMA TotalsStep == TableInv /\ TotalsInv /\ [Next]_vars => TotalsInv'
<1> SUFFICES ASSUME TableInv, TotalsInv, [Next]_vars PROVE TotalsInv'
  OBVIOUS
<1>1. CASE UNCHANGED <<results, totals>> BY <1>1 DEF totals, TotalsInv
<1>2. ASSUME NEW r \in Report, Store(r) PROVE TotalsInv' BY <1>2, StoreTotals
<1>3. ASSUME NEW a \in Alert, AddAlert(a) PROVE TotalsInv' BY <1>1, <1>3 DEF AddAlert
<1> QED BY <1>1, <1>2, <1>3 DEF Next, vars, totals

LEMMA InitTotals == Init => TotalsInv
<1> SUFFICES ASSUME Init PROVE TotalsInv
  OBVIOUS
<1>1. results = <<>> /\ summary = <<>> /\ DOMAIN <<>> = {} BY DEF Init
<1>2. \A o : CountOf(summary, o) = 0 BY <1>1 DEF CountOf
<1> QED BY <1>1, <1>2, SeqSumEmpty DEF Init, TotalsInv

\* The running totals are what a recomputation over the stored results gives, for any
\* table size and any labels, through every overwrite, merge and eviction (_store).
THEOREM TotalsCorrect == Spec => []TotalsAreSums
<1>1. TableInv /\ TotalsInv => TotalsAreSums
  <2> SUFFICES ASSUME TableInv, TotalsInv PROVE TotalsAreSums
    OBVIOUS
  <2>1. results \in Seq(Result) BY DEF TableInv
  <2>2. \A i \in DOMAIN results : results[i] \in Result BY <2>1
  <2>3. SeqSum(results, Detected)
          = SumFunctionOnSet([i \in DOMAIN results |-> Found(results[i])], DOMAIN results)
    <3>1. [i \in DOMAIN results |-> Found(results[i])]
            = [i \in DOMAIN results |-> Detected[results[i]]]
      BY <2>2 DEF Detected
    <3> QED BY <3>1 DEF SeqSum
  <2>4. ASSUME NEW l \in Label
        PROVE  SeqSum(results, Sighted(l))
                 = SumFunctionOnSet([i \in DOMAIN results |-> results[i].found[l].n], DOMAIN results)
    <3>1. [i \in DOMAIN results |-> results[i].found[l].n]
            = [i \in DOMAIN results |-> Sighted(l)[results[i]]]
      BY <2>2 DEF Sighted
    <3> QED BY <3>1 DEF SeqSum
  <2>5. ASSUME NEW o
        PROVE  SeqSum(results, MadeBy(o)) = Cardinality({i \in DOMAIN results : results[i].origin = o})
    <3>1. {i \in DOMAIN results : MadeBy(o)[results[i]] = 1}
            = {i \in DOMAIN results : results[i].origin = o}
      BY <2>2 DEF MadeBy
    <3>2. SeqSum(results, MadeBy(o)) = Cardinality({i \in DOMAIN results : MadeBy(o)[results[i]] = 1})
      BY <2>1, WeightsTyped, SeqSumCounts
    <3> QED BY <3>1, <3>2
  <2>6. \A o \in DOMAIN summary : summary[o] = SeqSum(results, MadeBy(o))
    BY DEF TotalsInv, CountOf
  <2> QED BY <2>3, <2>4, <2>5, <2>6 DEF TotalsAreSums, TotalsInv
<1> QED BY <1>1, InitTable, TableStep, InitTotals, TotalsStep, PTL DEF Spec

-----------------------------------------------------------------------------
\* A result delivered twice.

\* Exchanging a stored result for itself gives back the totals as they are.
LEMMA ExchangedForItself ==
  ASSUME TableInv, TotalsInv, NEW k \in DOMAIN results, Exchanged(results[k], results[k])
  PROVE  UNCHANGED totals
<1> DEFINE r == results[k]
<1>1. r \in Result /\ results \in Seq(Result) BY DEF TableInv
<1>2. ASSUME NEW W \in [Result -> Nat]
      PROVE  W[r] \in Nat /\ SeqSum(results, W) \in Nat /\ W[r] <= SeqSum(results, W)
  BY <1>1, <1>2, SeqTerms, SeqSumReplace
<1>3. /\ detections' = detections - Found(r) + Found(r)
      /\ counts' = [l \in Label |-> NotBelow0(counts[l] - r.found[l].n) + r.found[l].n]
      /\ summary' = More(Less(r.origin), r.origin)
  BY DEF Exchanged
<1>4. r.origin \in DOMAIN summary BY DEF TotalsInv
<1> HIDE DEF r
<1>5. detections' = detections
  <2>1. Detected[r] = Found(r) /\ Detected \in [Result -> Nat]
    BY <1>1, WeightsTyped DEF Detected
  <2>2. Found(r) \in Nat /\ detections \in Nat BY <1>2, <2>1 DEF TotalsInv
  <2> QED BY <1>3, <2>2
<1>6. counts' = counts
  <2>1. ASSUME NEW l \in Label
        PROVE  NotBelow0(counts[l] - r.found[l].n) + r.found[l].n = counts[l]
    <3>1. Sighted(l)[r] = r.found[l].n /\ Sighted(l) \in [Result -> Nat]
      BY <1>1, WeightsTyped DEF Sighted
    <3>2. r.found[l].n \in Nat /\ counts[l] \in Nat /\ r.found[l].n <= counts[l]
      BY <1>2, <3>1 DEF TotalsInv
    <3> QED BY <3>2 DEF NotBelow0, Larger
  <2>2. counts \in [Label -> Nat] BY DEF TotalsInv
  <2> QED BY <1>3, <2>1, <2>2
<1>7. summary' = summary
  <2>1. MadeBy(r.origin)[r] = 1 /\ MadeBy(r.origin) \in [Result -> Nat]
    BY <1>1, WeightsTyped DEF MadeBy
  <2>2. summary[r.origin] = SeqSum(results, MadeBy(r.origin))
    BY <1>4 DEF TotalsInv, CountOf
  <2>3. summary[r.origin] \in Nat /\ 1 <= summary[r.origin] BY <1>2, <2>1, <2>2
  <2>4. NotBelow0(summary[r.origin] - 1) + 1 = summary[r.origin]
    BY <2>3 DEF NotBelow0, Larger
  <2> DEFINE o == r.origin
  <2>5. \A p \in DOMAIN summary : SeqSum(results, MadeBy(p)) \in Nat BY <1>2, WeightsTyped
  <2>6. \A p \in DOMAIN summary : summary[p] \in Nat BY <2>5 DEF TotalsInv, CountOf
  <2>7. Less(o) = [p \in DOMAIN summary |-> IF p = o THEN NotBelow0(summary[o] - 1) ELSE summary[p]]
    BY <1>4 DEF Less
  <2>8. More(Less(o), o) = [p \in DOMAIN summary |-> summary[p]]
    <3>1. DOMAIN Less(o) \cup {o} = DOMAIN summary BY <1>4, <2>7
    <3>2. More(Less(o), o) = [p \in DOMAIN summary |-> Less(o)[p] + (IF p = o THEN 1 ELSE 0)]
      BY <2>7, <3>1 DEF More
    <3>3. \A p \in DOMAIN summary : Less(o)[p] + (IF p = o THEN 1 ELSE 0) = summary[p]
      BY <2>4, <2>6, <2>7
    <3> QED BY <3>2, <3>3
  <2> QED BY <1>3, <2>8 DEF TotalsInv
<1> QED BY <1>5, <1>6, <1>7 DEF totals

Harmless ==
  \A r \in Report : r \in {results[i] : i \in DOMAIN results} /\ Store(r)
    => UNCHANGED <<results, totals>>

LEMMA RedeliveryStep == TableInv /\ TotalsInv => Harmless
<1> SUFFICES ASSUME TableInv, TotalsInv, NEW r \in Report, NEW k \in DOMAIN results,
                    r = results[k], Store(r)
             PROVE  UNCHANGED <<results, totals>>
  BY DEF Harmless
<1>1. Overwrite(r)
  <2>1. k \in Entries(r.frame_id) BY DEF Entries
  <2> QED BY <2>1 DEF Store, Insert, InsertEvicting
<1>2. PICK i \in Entries(r.frame_id) :
        /\ results' = [results EXCEPT ![i] = Consensus(results[i], r)]
        /\ Exchanged(results[i], Consensus(results[i], r))
  BY <1>1 DEF Overwrite
<1>3. i = k BY <1>2 DEF Entries, TableInv, OneEach
<1>4. Consensus(results[i], r) = results[i] BY <1>3 DEF Consensus
<1>5. results' = results BY <1>2, <1>4 DEF TableInv
<1>6. Exchanged(results[k], results[k]) BY <1>2, <1>3, <1>4
<1> QED BY <1>5, <1>6, ExchangedForItself

\* A result that the frame queue delivers a second time, while the first is stored, changes
\* nothing: neither the table nor a total counts the frame twice (_store).
THEOREM RedeliveryHarmless == Spec => RedeliveryIsHarmless
<1>1. Harmless => [\A r \in Report : r \in {results[i] : i \in DOMAIN results} /\ Store(r)
                     => UNCHANGED <<results, totals>>]_vars
  BY DEF Harmless
<1> QED BY <1>1, InitTable, TableStep, InitTotals, TotalsStep, RedeliveryStep, PTL
        DEF Spec, RedeliveryIsHarmless

-----------------------------------------------------------------------------
\* The merged worker ids stay within the bound, the rings within their caps.

RingsInv ==
  /\ \A i \in DOMAIN results : Len(results[i].origin) \in 1 .. MaxOrigin
  /\ latency \in Seq(Latency \ {0}) /\ Len(latency) <= MAX_LATENCY_SAMPLES
  /\ alerts \in Seq(Alert) /\ Len(alerts) <= MAX_STORED_ALERTS

LEMMA PushedFacts ==
  ASSUME NEW S, NEW ring \in Seq(S), NEW x \in S, NEW cap \in Nat \ {0}, Len(ring) <= cap
  PROVE  Pushed(ring, x, cap) \in Seq(S) /\ Len(Pushed(ring, x, cap)) <= cap
<1>1. CASE Len(ring) >= cap
  <2>1. Tail(ring) \in Seq(S) /\ Len(Tail(ring)) = Len(ring) - 1 /\ Len(ring) \in Nat BY <1>1
  <2> QED BY <1>1, <2>1 DEF Pushed
<1>2. CASE ~(Len(ring) >= cap) BY <1>2 DEF Pushed
<1> QED BY <1>1, <1>2

LEMMA JoinedLength ==
  ASSUME NEW S, NEW a \in Seq(S), NEW b \in Seq(S)
  PROVE  Len(a \o b) = Len(a) + Len(b) /\ Len(a) \in Nat
OBVIOUS

LEMMA SampledRing ==
  ASSUME RingsInv, NEW r \in Result, Sampled(r)
  PROVE  latency' \in Seq(Latency \ {0}) /\ Len(latency') <= MAX_LATENCY_SAMPLES
<1>1. CASE r.ms > 0
  <2>1. r.ms \in Latency \ {0} BY <1>1 DEF Result
  <2> QED BY <1>1, <2>1, PushedFacts, ResultAggregatorAssumption DEF RingsInv, Sampled
<1>2. CASE ~(r.ms > 0) BY <1>2 DEF RingsInv, Sampled
<1> QED BY <1>1, <1>2

LEMMA StoreRings ==
  ASSUME TableInv, RingsInv, NEW r \in Report, Store(r)
  PROVE  RingsInv'
<1>1. results \in Seq(Result) /\ r \in Result /\ Len(r.origin) = 1
  BY ReportIsResult DEF TableInv, Report
<1>2. alerts' = alerts BY DEF Store
<1>3. 1 \in 1 .. MaxOrigin BY ResultAggregatorAssumption
<1>4. CASE Overwrite(r)
  <2>1. PICK i \in Entries(r.frame_id) :
          /\ Len(Consensus(results[i], r).origin) <= MaxOrigin
          /\ results' = [results EXCEPT ![i] = Consensus(results[i], r)]
          /\ Sampled(Consensus(results[i], r))
    BY <1>4 DEF Overwrite
  <2>2. i \in DOMAIN results /\ results[i] \in Result /\ results[i].frame_id = r.frame_id
    BY <1>1, <2>1 DEF Entries
  <2> DEFINE new == Consensus(results[i], r)
  <2>3. new \in Result BY <1>1, <2>2, ConsensusFacts
  <2>4. Len(new.origin) \in 1 .. MaxOrigin
    <3>1. CASE results[i].origin = r.origin BY <1>1, <1>3, <3>1 DEF Consensus
    <3>2. CASE results[i].origin # r.origin
      <4>1. new.origin = results[i].origin \o r.origin BY <3>2 DEF Consensus, Merged
      <4>2. results[i].origin \in Seq(Worker) /\ r.origin \in Seq(Worker)
        BY <1>1, <2>2 DEF Result
      <4>3. /\ Len(new.origin) = Len(results[i].origin) + Len(r.origin)
            /\ Len(results[i].origin) \in Nat
        BY <4>1, <4>2, JoinedLength
      <4>4. Len(new.origin) <= MaxOrigin BY <2>1
      <4> HIDE DEF new
      <4> QED BY <1>1, <4>3, <4>4, ResultAggregatorAssumption
    <3> QED BY <3>1, <3>2
  <2>5. results' = [results EXCEPT ![i] = new] /\ Sampled(new) BY <2>1
  <2> HIDE DEF new
  <2>6. \A k \in DOMAIN results' : Len(results'[k].origin) \in 1 .. MaxOrigin
    BY <1>1, <2>2, <2>4, <2>5 DEF RingsInv
  <2> QED BY <1>2, <2>3, <2>5, <2>6, SampledRing DEF RingsInv
<1>5. ASSUME NEW rest \in Seq(Result), results' = Append(rest, r), Sampled(r),
             \A k \in DOMAIN rest : \E i \in DOMAIN results : rest[k] = results[i]
      PROVE  RingsInv'
  <2>1. \A k \in DOMAIN results' : results'[k] = r \/ \E i \in DOMAIN results : results'[k] = results[i]
    BY <1>5
  <2>2. \A k \in DOMAIN results' : Len(results'[k].origin) \in 1 .. MaxOrigin
    BY <1>1, <1>3, <2>1 DEF RingsInv
  <2> QED BY <1>1, <1>2, <1>5, <2>2, SampledRing DEF RingsInv
<1>6. CASE Insert(r)
  <2>1. results' = Append(results, r) /\ Sampled(r) BY <1>6 DEF Insert
  <2> QED BY <1>1, <1>5, <2>1
<1>7. CASE InsertEvicting(r)
  <2>1. results' = Append(Tail(results), r) /\ Sampled(r) BY <1>7 DEF InsertEvicting
  <2>2. Len(results) \in Nat \ {0} BY <1>1, <1>7, ResultAggregatorAssumption DEF InsertEvicting
  <2>3. Tail(results) \in Seq(Result) BY <1>1, <2>2
  <2>4. \A k \in DOMAIN Tail(results) : k + 1 \in DOMAIN results /\ Tail(results)[k] = results[k + 1]
    BY <1>1, <2>2
  <2> QED BY <1>5, <2>1, <2>3, <2>4
<1> QED BY <1>4, <1>6, <1>7 DEF Store

LEMMA RingsStep == TableInv /\ RingsInv /\ [Next]_vars => RingsInv'
<1> SUFFICES ASSUME TableInv, RingsInv, [Next]_vars PROVE RingsInv'
  OBVIOUS
<1>1. CASE UNCHANGED vars BY <1>1 DEF vars, RingsInv
<1>2. ASSUME NEW r \in Report, Store(r) PROVE RingsInv' BY <1>2, StoreRings
<1>3. ASSUME NEW a \in Alert, AddAlert(a) PROVE RingsInv'
  <2>1. alerts' = Pushed(alerts, a, MAX_STORED_ALERTS) /\ UNCHANGED <<results, latency>>
    BY <1>3 DEF AddAlert
  <2>2. alerts' \in Seq(Alert) /\ Len(alerts') <= MAX_STORED_ALERTS
    BY <2>1, PushedFacts, ResultAggregatorAssumption DEF RingsInv
  <2> QED BY <2>1, <2>2 DEF RingsInv
<1> QED BY <1>1, <1>2, <1>3 DEF Next

-----------------------------------------------------------------------------
\* What an entry keeps of the reports that were merged into it.

\* Result r is the consensus of the findings vs.
Agrees(r, vs) ==
  \A l \in Label :
    /\ \A v \in vs : v[l].confidence <= r.found[l].confidence
    /\ \E v \in vs : v[l].confidence = r.found[l].confidence
    /\ Len(r.origin) = 1 => {v[l] : v \in vs} = {r.found[l]}
    /\ Len(r.origin) # 1 => r.found[l].n = IF \E v \in vs : v[l].n > 0 THEN 1 ELSE 0

ViewsInv ==
  /\ views \in [Frame -> SUBSET Findings]
  /\ \A i \in DOMAIN results : Agrees(results[i], views[results[i].frame_id])

LEMMA OwnAgrees == ASSUME NEW r \in Result, Len(r.origin) = 1 PROVE Agrees(r, {r.found})
<1> SUFFICES ASSUME NEW l \in Label
             PROVE  /\ r.found[l].confidence <= r.found[l].confidence
                    /\ {v[l] : v \in {r.found}} = {r.found[l]}
  BY DEF Agrees
<1>1. r.found[l].confidence \in Nat BY DEF Result, Sightings
<1> QED BY <1>1

\* One report more is merged into a result that agrees with those before it.
LEMMA MergedAgrees ==
  ASSUME NEW a \in Result, NEW b \in Result, NEW vs \in SUBSET Sightings,
         Len(a.origin) \in Nat \ {0}, Len(b.origin) = 1, Agrees(a, vs)
  PROVE  Agrees(Merged(a, b), {b.found} \cup vs) /\ Len(Merged(a, b).origin) # 1
<1> DEFINE m == Merged(a, b)
<1>1. Len(m.origin) # 1
  <2>1. a.origin \in Seq(Worker) /\ b.origin \in Seq(Worker) BY DEF Result
  <2>2. m.origin = a.origin \o b.origin BY DEF Merged
  <2>3. Len(m.origin) = Len(a.origin) + Len(b.origin) BY <2>1, <2>2, JoinedLength
  <2> HIDE DEF m
  <2> QED BY <2>3
<1>2. \A l \in Label :
        m.found[l] = [ n |-> IF a.found[l].n + b.found[l].n = 0 THEN 0 ELSE 1,
                       confidence |-> Larger(a.found[l].confidence, b.found[l].confidence) ]
  BY DEF Merged
<1> HIDE DEF m
<1> SUFFICES ASSUME NEW l \in Label
             PROVE  /\ \A v \in {b.found} \cup vs : v[l].confidence <= m.found[l].confidence
                    /\ \E v \in {b.found} \cup vs : v[l].confidence = m.found[l].confidence
                    /\ m.found[l].n = IF \E v \in {b.found} \cup vs : v[l].n > 0 THEN 1 ELSE 0
  BY <1>1 DEF Agrees, m
<1>3. /\ a.found[l].n \in Nat /\ b.found[l].n \in Nat
      /\ a.found[l].confidence \in Nat /\ b.found[l].confidence \in Nat
  BY DEF Result, Sightings
<1>4. \A v \in vs : v[l].n \in Nat /\ v[l].confidence \in Nat BY DEF Sightings
<1> DEFINE n == IF a.found[l].n + b.found[l].n = 0 THEN 0 ELSE 1
           c == Larger(a.found[l].confidence, b.found[l].confidence)
<1>5. m.found[l].n = n /\ m.found[l].confidence = c
  <2>1. m.found[l] = [n |-> n, confidence |-> c] BY <1>2
  <2> HIDE DEF n, c
  <2> QED BY <2>1
<1>6. /\ \A v \in vs : v[l].confidence <= a.found[l].confidence
      /\ \E v \in vs : v[l].confidence = a.found[l].confidence
  BY DEF Agrees
<1>7. (\E v \in vs : v[l].n > 0) <=> a.found[l].n > 0
  <2>1. CASE Len(a.origin) = 1
    <3>1. {v[l] : v \in vs} = {a.found[l]} BY <2>1 DEF Agrees
    <3>2. \A v \in vs : v[l] = a.found[l] BY <3>1
    <3> QED BY <1>6, <3>2
  <2>2. CASE Len(a.origin) # 1
    <3>1. a.found[l].n = IF \E v \in vs : v[l].n > 0 THEN 1 ELSE 0 BY <2>2 DEF Agrees
    <3> QED BY <3>1
  <2> QED BY <2>1, <2>2
<1>8. \A v \in {b.found} \cup vs : v[l].confidence <= m.found[l].confidence
  BY <1>3, <1>4, <1>5, <1>6 DEF Larger
<1>9. \E v \in {b.found} \cup vs : v[l].confidence = m.found[l].confidence
  BY <1>3, <1>5, <1>6 DEF Larger
<1>10. (\E v \in {b.found} \cup vs : v[l].n > 0) <=> b.found[l].n > 0 \/ a.found[l].n > 0
  BY <1>7
<1>11. m.found[l].n = IF \E v \in {b.found} \cup vs : v[l].n > 0 THEN 1 ELSE 0
  <2>1. CASE \E v \in {b.found} \cup vs : v[l].n > 0 BY <1>3, <1>5, <1>10, <2>1
  <2>2. CASE ~\E v \in {b.found} \cup vs : v[l].n > 0 BY <1>3, <1>5, <1>10, <2>2
  <2> QED BY <2>1, <2>2
<1> QED BY <1>8, <1>9, <1>11

LEMMA OverwriteViews ==
  ASSUME TableInv, RingsInv, ViewsInv, NEW r \in Report, Overwrite(r)
  PROVE  ViewsInv'
<1>1. PICK i \in Entries(r.frame_id) :
        /\ results' = [results EXCEPT ![i] = Consensus(results[i], r)]
        /\ views' = [views EXCEPT ![r.frame_id] =
                       {r.found} \cup IF Consensus(results[i], r) = r THEN {} ELSE @]
  BY DEF Overwrite
<1> DEFINE old == results[i]
           new == Consensus(old, r)
           vs  == {r.found} \cup IF new = r THEN {} ELSE views[r.frame_id]
<1>2. /\ i \in DOMAIN results /\ old \in Result /\ old.frame_id = r.frame_id
      /\ r \in Result /\ r.found \in Findings /\ r.frame_id \in Frame /\ Len(r.origin) = 1
      /\ Len(old.origin) \in Nat \ {0}
  BY <1>1, ReportIsResult, ResultAggregatorAssumption DEF Entries, TableInv, Report, RingsInv
<1>3. /\ views \in [Frame -> SUBSET Findings] /\ Findings \subseteq Sightings
      /\ \A k \in DOMAIN results : Agrees(results[k], views[results[k].frame_id])
      /\ Agrees(old, views[r.frame_id])
  BY <1>2, ResultAggregatorAssumption DEF ViewsInv, Sightings
<1>4. new.frame_id = r.frame_id BY <1>2, ConsensusFacts
<1>5. Agrees(new, vs)
  <2>1. CASE old.origin = r.origin
    <3>1. new = r BY <2>1 DEF Consensus
    <3> QED BY <1>2, <3>1, OwnAgrees
  <2>2. CASE old.origin # r.origin
    <3>1. new = Merged(old, r) BY <2>2 DEF Consensus
    <3>2. views[r.frame_id] \in SUBSET Sightings BY <1>2, <1>3
    <3>3. /\ Agrees(Merged(old, r), {r.found} \cup views[r.frame_id])
          /\ Len(Merged(old, r).origin) # 1
      BY <1>2, <1>3, <3>2, MergedAgrees
    <3>4. new # r BY <1>2, <3>1, <3>3
    <3>5. vs = {r.found} \cup views[r.frame_id] BY <3>4
    <3> HIDE DEF vs, new, old
    <3> QED BY <3>1, <3>3, <3>5
  <2> QED BY <2>1, <2>2
<1>6. views' = [views EXCEPT ![r.frame_id] = vs] /\ results' = [results EXCEPT ![i] = new]
  BY <1>1
<1>7. vs \in SUBSET Findings BY <1>2, <1>3
<1>8. \A k \in DOMAIN results \ {i} : results[k].frame_id # r.frame_id
  BY <1>2 DEF TableInv, OneEach
<1>9. \A k \in DOMAIN results : results[k].frame_id \in Frame
  <2>1. \A k \in DOMAIN results : results[k] \in Result BY DEF TableInv
  <2> QED BY <2>1 DEF Result
<1> HIDE DEF vs, new, old
<1>10. views' \in [Frame -> SUBSET Findings] BY <1>3, <1>6, <1>7
<1>11. ASSUME NEW k \in DOMAIN results' PROVE Agrees(results'[k], views'[results'[k].frame_id])
  <2>1. k \in DOMAIN results BY <1>6
  <2>2. CASE k = i
    <3>1. results'[k] = new /\ views'[new.frame_id] = vs BY <1>2, <1>3, <1>4, <1>6, <2>2
    <3> QED BY <1>5, <3>1
  <2>3. CASE k # i
    <3>1. /\ results'[k] = results[k]
          /\ views'[results[k].frame_id] = views[results[k].frame_id]
      BY <1>3, <1>6, <1>8, <1>9, <2>1, <2>3
    <3> QED BY <1>3, <2>1, <3>1
  <2> QED BY <2>2, <2>3
<1> QED BY <1>10, <1>11 DEF ViewsInv, Agrees

\* A new entry agrees with its one report, and takes no views from those that stay.
LEMMA NewEntryViews ==
  ASSUME TableInv, ViewsInv, NEW rest \in Seq(Result), NEW r \in Report,
         \A k \in DOMAIN rest : \E i \in DOMAIN results :
           /\ rest[k] = results[i] /\ results[i].frame_id # r.frame_id
           /\ views'[results[i].frame_id] = views[results[i].frame_id],
         results' = Append(rest, r), views' \in [Frame -> SUBSET Findings],
         views'[r.frame_id] = {r.found}
  PROVE  ViewsInv'
<1>1. r \in Result /\ Len(r.origin) = 1 BY ReportIsResult DEF Report
<1>2. \A k \in DOMAIN results' : results'[k] = r \/ \E i \in DOMAIN rest : results'[k] = rest[i]
  BY <1>1
<1>3. Agrees(r, views'[r.frame_id]) BY <1>1, OwnAgrees
<1>4. ASSUME NEW i \in DOMAIN rest PROVE Agrees(rest[i], views'[rest[i].frame_id])
  BY DEF ViewsInv
<1>5. \A k \in DOMAIN results' : Agrees(results'[k], views'[results'[k].frame_id])
  BY <1>2, <1>3, <1>4
<1> QED BY <1>5 DEF ViewsInv, Agrees

LEMMA StoreViews ==
  ASSUME TableInv, RingsInv, ViewsInv, NEW r \in Report, Store(r)
  PROVE  ViewsInv'
<1>1. /\ r.found \in Findings /\ r.frame_id \in Frame /\ results \in Seq(Result)
      /\ views \in [Frame -> SUBSET Findings]
      /\ \A i \in DOMAIN results : results[i].frame_id \in Frame
  <2>1. results \in Seq(Result) /\ \A i \in DOMAIN results : results[i] \in Result
    BY DEF TableInv
  <2> QED BY <2>1 DEF Report, ViewsInv, Result
<1>2. CASE Overwrite(r) BY <1>2, OverwriteViews
<1>3. CASE Insert(r)
  <2>1. /\ Entries(r.frame_id) = {} /\ results' = Append(results, r)
        /\ views' = [views EXCEPT ![r.frame_id] = {r.found}]
    BY <1>3 DEF Insert
  <2>2. \A k \in DOMAIN results : results[k].frame_id # r.frame_id BY <2>1 DEF Entries
  <2>3. /\ views' \in [Frame -> SUBSET Findings] /\ views'[r.frame_id] = {r.found}
        /\ \A k \in DOMAIN results :
             views'[results[k].frame_id] = views[results[k].frame_id]
    BY <1>1, <2>1, <2>2
  <2> QED BY <1>1, <2>1, <2>2, <2>3, NewEntryViews
<1>4. CASE InsertEvicting(r)
  <2>1. /\ Entries(r.frame_id) = {} /\ results' = Append(Tail(results), r)
        /\ views' = [views EXCEPT ![Head(results).frame_id] = {}, ![r.frame_id] = {r.found}]
        /\ Len(results) >= MAX_STORED_FRAMES
    BY <1>4 DEF InsertEvicting
  <2>2. /\ Len(results) \in Nat \ {0} /\ Tail(results) \in Seq(Result)
        /\ Head(results) = results[1] /\ 1 \in DOMAIN results
        /\ \A k \in DOMAIN Tail(results) :
             /\ k + 1 \in DOMAIN results /\ Tail(results)[k] = results[k + 1]
             /\ k + 1 # 1
    BY <1>1, <2>1, ResultAggregatorAssumption
  <2>3. \A k \in DOMAIN results : results[k].frame_id # r.frame_id BY <2>1 DEF Entries
  <2>4. \A k \in DOMAIN results : k # 1 => results[k].frame_id # results[1].frame_id
    BY <2>2 DEF TableInv, OneEach
  <2>5. /\ views' \in [Frame -> SUBSET Findings] /\ views'[r.frame_id] = {r.found}
        /\ \A k \in DOMAIN results :
             k # 1 => views'[results[k].frame_id] = views[results[k].frame_id]
    BY <1>1, <2>1, <2>2, <2>3, <2>4
  <2>6. \A k \in DOMAIN Tail(results) : \E i \in DOMAIN results :
          /\ Tail(results)[k] = results[i] /\ results[i].frame_id # r.frame_id
          /\ views'[results[i].frame_id] = views[results[i].frame_id]
    BY <2>2, <2>3, <2>5
  <2> DEFINE rest == Tail(results)
  <2>7. /\ rest \in Seq(Result) /\ results' = Append(rest, r)
        /\ \A k \in DOMAIN rest : \E i \in DOMAIN results :
             /\ rest[k] = results[i] /\ results[i].frame_id # r.frame_id
             /\ views'[results[i].frame_id] = views[results[i].frame_id]
    BY <2>1, <2>2, <2>6
  <2> HIDE DEF rest
  <2> QED BY <2>5, <2>7, NewEntryViews
<1> QED BY <1>2, <1>3, <1>4 DEF Store

LEMMA ViewsStep == TableInv /\ RingsInv /\ ViewsInv /\ [Next]_vars => ViewsInv'
<1> SUFFICES ASSUME TableInv, RingsInv, ViewsInv, [Next]_vars PROVE ViewsInv'
  OBVIOUS
<1>1. CASE UNCHANGED <<results, views>> BY <1>1 DEF ViewsInv, Agrees
<1>2. ASSUME NEW r \in Report, Store(r) PROVE ViewsInv' BY <1>2, StoreViews
<1>3. ASSUME NEW a \in Alert, AddAlert(a) PROVE ViewsInv' BY <1>1, <1>3 DEF AddAlert
<1> QED BY <1>1, <1>2, <1>3 DEF Next, vars

LEMMA InitViews == Init => ViewsInv
BY DEF Init, ViewsInv

LEMMA InitRings == Init => RingsInv
BY ResultAggregatorAssumption DEF Init, RingsInv

\* Whatever the labels, workers and caps are, and in whatever order reports of a frame
\* come, its entry is their consensus: no class is forgotten and no confidence lost, and a
\* merge leaves one object of each class (_merge_results, _store).
THEOREM EntriesAreConsensus == Spec => []EntryIsConsensus
<1>1. TableInv /\ RingsInv /\ ViewsInv => EntryIsConsensus
  <2> SUFFICES ASSUME TableInv, RingsInv, ViewsInv, NEW i \in DOMAIN results, NEW l \in Label
               PROVE  LET entry == results[i].found[l]
                          seen  == {v[l] : v \in views[results[i].frame_id]}
                      IN  /\ \A o \in seen : o.confidence <= entry.confidence
                          /\ \E o \in seen : o.confidence = entry.confidence
                          /\ IF Len(results[i].origin) = 1 THEN seen = {entry}
                             ELSE entry.n = IF \E o \in seen : o.n > 0 THEN 1 ELSE 0
    BY DEF EntryIsConsensus
  <2> DEFINE vs == views[results[i].frame_id]
  <2>1. Agrees(results[i], vs) BY DEF ViewsInv
  <2>2. (\E o \in {v[l] : v \in vs} : o.n > 0) <=> \E v \in vs : v[l].n > 0 OBVIOUS
  <2> QED BY <2>1, <2>2 DEF Agrees
<1> QED BY <1>1, InitTable, TableStep, InitRings, RingsStep, InitViews, ViewsStep, PTL DEF Spec

-----------------------------------------------------------------------------
\* Types.

\* Every variable keeps its type, for any caps: no total goes negative, the table and both
\* rings stay within their limits (_store, add_alert).
THEOREM TypeCorrect == Spec => []TypeOK
<1>1. ASSUME TableInv, TotalsInv, RingsInv, ViewsInv PROVE TypeOK
  <2>1. results \in Seq(Result) /\ \A i \in DOMAIN results : results[i] \in Result
    BY <1>1 DEF TableInv
  <2>2. \A i \in DOMAIN results :
          /\ results[i].frame_id \in Frame /\ results[i].ms \in Latency
          /\ results[i].found \in [Label -> [n : Nat, confidence : Nat]]
    BY <2>1 DEF Result, Sightings
  <2>3. ASSUME NEW i \in DOMAIN results
        PROVE  results[i].origin \in UNION {[1 .. k -> Worker] : k \in 1 .. MaxOrigin}
    <3>1. results[i].origin \in Seq(Worker) /\ Len(results[i].origin) \in 1 .. MaxOrigin
      BY <1>1, <2>1 DEF Result, RingsInv
    <3>2. results[i].origin \in [1 .. Len(results[i].origin) -> Worker] BY <3>1
    <3> QED BY <3>1, <3>2
  <2>4. detections \in Nat BY <1>1, <2>1, WeightsTyped, SeqTerms DEF TotalsInv
  <2>5. ASSUME NEW o \in DOMAIN summary PROVE summary[o] \in Nat
    <3>1. summary[o] = SeqSum(results, MadeBy(o)) BY <1>1 DEF TotalsInv, CountOf
    <3> QED BY <2>1, <3>1, WeightsTyped, SeqTerms
  <2>6. latency \in UNION {[1 .. k -> Latency \ {0}] : k \in 0 .. MAX_LATENCY_SAMPLES}
    <3>1. /\ Len(latency) \in 0 .. MAX_LATENCY_SAMPLES
          /\ latency \in [1 .. Len(latency) -> Latency \ {0}]
      BY <1>1, ResultAggregatorAssumption DEF RingsInv
    <3> QED BY <3>1
  <2>7. alerts \in UNION {[1 .. k -> Alert] : k \in 0 .. MAX_STORED_ALERTS}
    <3>1. /\ Len(alerts) \in 0 .. MAX_STORED_ALERTS
          /\ alerts \in [1 .. Len(alerts) -> Alert]
      BY <1>1, ResultAggregatorAssumption DEF RingsInv
    <3> QED BY <3>1
  <2> QED BY <1>1, <2>2, <2>3, <2>4, <2>5, <2>6, <2>7
     DEF TypeOK, TableInv, TotalsInv, ViewsInv
<1> QED BY <1>1, InitTable, TableStep, InitTotals, TotalsStep, InitRings, RingsStep, InitViews,
           ViewsStep, PTL DEF Spec

-----------------------------------------------------------------------------
\* The nearest rank: the least position with 95 % of the samples at or before it.
NearestRank(n) == (19 * n + 19) \div 20

\* The reported P95 is one of the n samples, for every n, and at most one position below
\* the nearest rank: never above it (latency_stats, result_aggregator.py:153-156).
THEOREM P95IsOneRankLow ==
  ASSUME NEW n \in Nat \ {0}
  PROVE  /\ P95Index(n) \in 1 .. n
         /\ P95Index(n) <= NearestRank(n) /\ NearestRank(n) <= P95Index(n) + 1
<1> DEFINE low == (19 * n) \div 20
           up  == (19 * n + 19) \div 20
<1>1. /\ low \in Nat /\ 20 * low <= 19 * n /\ 19 * n < 20 * low + 20
      /\ up \in Nat /\ 20 * up <= 19 * n + 19 /\ 19 * n + 19 < 20 * up + 20
  OBVIOUS
<1>2. P95Index(n) = IF 1 < low THEN low ELSE 1 BY <1>1 DEF P95Index, Larger
<1>3. NearestRank(n) = up BY DEF NearestRank
<1> HIDE DEF low, up
<1>4. low <= n /\ 1 <= up /\ low <= up /\ up <= low + 1 BY <1>1
<1> QED BY <1>1, <1>2, <1>3, <1>4
================================================================================
