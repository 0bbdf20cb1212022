---------------------------- MODULE ResultAggregator ----------------------------
(***************************************************************************)
(* The coordinator's store of per-frame results (ResultAggregator): the    *)
(* capped, insertion-ordered table of results, the running totals kept     *)
(* beside it, the consensus merge of two workers' results for one frame,   *)
(* and the two rings, of latency samples and of alerts.                    *)
(*                                                                         *)
(* Every write holds the totals lock from its first read to its last       *)
(* write, so it is one step.  A merged result's worker id "a+b" is the     *)
(* sequence of its workers.                                                *)
(***************************************************************************)
EXTENDS Integers, Sequences, FiniteSets, Functions

CONSTANTS
  Frame,               \* frame ids
  Worker,
  Label,               \* object classes
  Findings,            \* what a worker may report of a frame
  Latency,             \* processing times in ms, 0 for unknown
  Alert,
  MAX_STORED_FRAMES,
  MAX_STORED_ALERTS,
  MAX_LATENCY_SAMPLES,
  MaxOrigin            \* bound: results merged into one frame's

\* A finding gives each label how often it was detected and the best confidence; the
\* labels are the classes a model was trained on.
ASSUME ResultAggregatorAssumption ==
  /\ IsFiniteSet(Label)
  /\ Findings \subseteq [Label -> [n : Nat, confidence : Nat]]
  /\ Latency \subseteq Nat
  /\ {MAX_STORED_FRAMES, MAX_STORED_ALERTS, MAX_LATENCY_SAMPLES} \subseteq Nat \ {0}
  /\ MaxOrigin \in Nat \ {0}

VARIABLES
  results,    \* _results, oldest first
  detections, \* _total_detections
  counts,     \* _total_counts; 0 stands for a missing key
  summary,    \* _worker_summary, by worker id
  latency,    \* _latency_samples
  alerts,     \* _alerts
  views       \* history: the findings that went into the stored result of a frame

totals == <<detections, counts, summary>>
vars == <<results, detections, counts, summary, latency, alerts, views>>

Init ==
  /\ results = <<>>
  /\ detections = 0 /\ counts = [l \in Label |-> 0] /\ summary = <<>>
  /\ latency = <<>> /\ alerts = <<>>
  /\ views = [f \in Frame |-> {}]

-----------------------------------------------------------------------------
Larger(a, b)  == IF a < b THEN b ELSE a
Smaller(a, b) == IF a < b THEN a ELSE b

\* len(detections) of a result
Found(r) == SumFunctionOnSet([l \in Label |-> r.found[l].n], Label)

\* Two workers saw the frame: one detection per label, the more confident one.
LatestOnly(a, b) ==                           \* a mutant of the next
  [b EXCEPT !.origin = a.origin \o b.origin]
Merged(a, b) ==
  [ frame_id |-> a.frame_id,
    origin   |-> a.origin \o b.origin,
    found    |-> [l \in Label |->
                    [ n          |-> IF a.found[l].n + b.found[l].n = 0 THEN 0 ELSE 1,
                      confidence |-> Larger(a.found[l].confidence, b.found[l].confidence) ]],
    ms       |-> Smaller(a.ms, b.ms) ]

MergedAlways(old, r) == Merged(old, r)        \* a mutant of the next
Consensus(old, r) == IF old.origin = r.origin THEN r ELSE Merged(old, r)

\* The summary with one frame less for worker id o, and one more; a key stays.
NotBelow0(n) == Larger(0, n)
Less(o) == [summary EXCEPT ![o] = NotBelow0(@ - 1)]
More(s, o) ==
  [p \in DOMAIN s \cup {o} |->
     (IF p \in DOMAIN s THEN s[p] ELSE 0) + (IF p = o THEN 1 ELSE 0)]

\* Running totals when r replaces old, which was stored under its id or evicted.
AddedOnly(old, r) ==                          \* a mutant of the next
  /\ detections' = detections + Found(r)
  /\ counts' = [l \in Label |-> counts[l] + r.found[l].n]
  /\ summary' = More(summary, r.origin)
Exchanged(old, r) ==
  /\ detections' = detections - Found(old) + Found(r)
  /\ counts' = [l \in Label |-> NotBelow0(counts[l] - old.found[l].n) + r.found[l].n]
  /\ summary' = More(Less(old.origin), r.origin)

AddedUncounted(r) ==                          \* a mutant of the next
  /\ summary' = More(summary, r.origin)
  /\ UNCHANGED <<detections, counts>>
Added(r) ==
  /\ detections' = detections + Found(r)
  /\ counts' = [l \in Label |-> counts[l] + r.found[l].n]
  /\ summary' = More(summary, r.origin)

Pushed(ring, x, cap) ==
  IF Len(ring) >= cap THEN Append(Tail(ring), x) ELSE Append(ring, x)

Sampled(r) ==
  latency' = IF r.ms > 0 THEN Pushed(latency, r.ms, MAX_LATENCY_SAMPLES) ELSE latency

\* Where latency_stats looks for the P95 in n sorted samples.
P95Index(n) == Larger(1, (19 * n) \div 20)

Entries(f) == {i \in DOMAIN results : results[i].frame_id = f}

\* The three ways _store goes: over the frame's entry, into free space, or in
\* place of the oldest entry.
Overwrite(r) ==
  \E i \in Entries(r.frame_id) :
    LET new == Consensus(results[i], r)
    IN  /\ Len(new.origin) <= MaxOrigin
        /\ results' = [results EXCEPT ![i] = new]
        /\ Exchanged(results[i], new)
        /\ Sampled(new)
        /\ views' = [views EXCEPT ![r.frame_id] =
                       {r.found} \cup IF new = r THEN {} ELSE @]

Insert(r) ==
  /\ Entries(r.frame_id) = {} /\ Len(results) < MAX_STORED_FRAMES
  /\ results' = Append(results, r)
  /\ Added(r)
  /\ Sampled(r)
  /\ views' = [views EXCEPT ![r.frame_id] = {r.found}]

InsertEvicting(r) ==
  /\ Entries(r.frame_id) = {} /\ Len(results) >= MAX_STORED_FRAMES
  /\ results' = Append(Tail(results), r)
  /\ Exchanged(Head(results), r)
  /\ Sampled(r)
  /\ views' = [views EXCEPT ![Head(results).frame_id] = {}, ![r.frame_id] = {r.found}]

Store(r) ==
  /\ Overwrite(r) \/ Insert(r) \/ InsertEvicting(r)
  /\ UNCHANGED alerts

AddAlert(a) ==
  /\ alerts' = Pushed(alerts, a, MAX_STORED_ALERTS)
  /\ UNCHANGED <<results, totals, latency, views>>

\* What add_result, add_frame_result and store_frame_result hand to _store.
Report == [frame_id : Frame, origin : {<<w>> : w \in Worker}, found : Findings, ms : Latency]

Next ==
  \/ \E r \in Report : Store(r)
  \/ \E a \in Alert : AddAlert(a)

Spec == Init /\ [][Next]_vars

-----------------------------------------------------------------------------
\* Properties.

TypeOK ==
  /\ Len(results) <= MAX_STORED_FRAMES
  /\ \A i \in DOMAIN results :
       /\ results[i].frame_id \in Frame
       /\ results[i].origin \in UNION {[1 .. k -> Worker] : k \in 1 .. MaxOrigin}
       /\ results[i].found \in [Label -> [n : Nat, confidence : Nat]]
       /\ results[i].ms \in Latency
  /\ detections \in Nat
  /\ counts \in [Label -> Nat]
  /\ \A o \in DOMAIN summary : summary[o] \in Nat
  /\ latency \in UNION {[1 .. k -> Latency \ {0}] : k \in 0 .. MAX_LATENCY_SAMPLES}
  /\ alerts \in UNION {[1 .. k -> Alert] : k \in 0 .. MAX_STORED_ALERTS}
  /\ views \in [Frame -> SUBSET Findings]

\* The O(1) totals are what a recomputation over the stored results would give,
\* after every sequence of overwrites, merges and evictions (result_aggregator.py:
\* 214-244, "Running totals ... instead of O(n) on every GET").
TotalsAreSums ==
  LET Total(g) == SumFunctionOnSet(g, DOMAIN results)
  IN  /\ detections = Total([i \in DOMAIN results |-> Found(results[i])])
      /\ \A l \in Label : counts[l] = Total([i \in DOMAIN results |-> results[i].found[l].n])
      /\ \A o \in DOMAIN summary :
           summary[o] = Cardinality({i \in DOMAIN results : results[i].origin = o})
      /\ \A i \in DOMAIN results : results[i].origin \in DOMAIN summary

\* A frame's entry is the consensus of the reports merged into it since it was last
\* inserted or overwritten, in whatever order and however often they came: of each class
\* the best confidence any of them had, and as many objects as the only one of them saw,
\* or one if several workers' were merged and any saw one.  So a merge forgets no class
\* and weakens none, but it keeps one object of each (result_aggregator.py:175-194).
EntryIsConsensus ==
  \A i \in DOMAIN results, l \in Label :
    LET entry == results[i].found[l]
        seen  == {v[l] : v \in views[results[i].frame_id]}
    IN  /\ \A o \in seen : o.confidence <= entry.confidence
        /\ \E o \in seen : o.confidence = entry.confidence
        /\ IF Len(results[i].origin) = 1 THEN seen = {entry}
           ELSE entry.n = IF \E o \in seen : o.n > 0 THEN 1 ELSE 0

\* The frame queue may deliver a result twice: the second time changes no total.
RedeliveryIsHarmless ==
  [][\A r \in Report : r \in {results[i] : i \in DOMAIN results} /\ Store(r)
       => UNCHANGED <<results, totals>>]_vars

================================================================================
