------------------------------ MODULE Metrics -------------------------------
(***************************************************************************)
(* Aggregation in internal/metrics: what collector.go, counter.go,         *)
(* gauge.go and histogram.go make of the families of several workers that  *)
(* scraper.go has merged under one name.                                   *)
(*                                                                         *)
(* The value of a label is the sequence of its parts between commas, since *)
(* a key is the values joined with commas, and taken apart again at every  *)
(* comma: <<"a">> is "a", <<"a", "b">> is "a,b", <<"">> the empty value.   *)
(* The numbers are floats and unsigned 64-bit integers in the code;        *)
(* rounding and overflow are left out.                                     *)
(***************************************************************************)
EXTENDS Integers, Sequences, SequencesExt

CONSTANTS Name,       \* the names of metric families
          TypeOf,     \* the type of a family, the same in every worker
          Helped,     \* the families with a HELP line, the same in every worker
          Refused,    \* families with label names that NewDesc refuses
          Inf,        \* the bound of a histogram's last bucket
          LabelName,  \* the names of labels
          LabelPart   \* what a label value may have between two commas

ASSUME MetricsAssumption ==
  /\ TypeOf \in [Name -> {"counter", "gauge", "histogram", "other"}]
  /\ Helped \subseteq Name
  /\ Refused \subseteq Name \X Seq(LabelName)
  /\ Inf \notin Nat
  /\ "" \in LabelPart

-----------------------------------------------------------------------------
(* Labels.                                                                 *)

\* The label names of a family are those of its first metric.
LabelNames(ms) == [i \in DOMAIN ms[1].label |-> ms[1].label[i].name]

Empty == <<"">>

\* The first label of the name, or the zero value of a string.
LabelValue(m, name) ==
  LET at == {i \in DOMAIN m.label : m.label[i].name = name}
  IN  IF at = {} THEN Empty ELSE m.label[Min(at)].value

\* A mutant of Key: the values in the order in which the metric itself has them.
KeyAsGiven(m, names) ==
  IF m.label = <<>> THEN Empty
                    ELSE FlattenSeq([i \in DOMAIN m.label |-> m.label[i].value])

\* strings.Join and strings.Split at commas; no values at all join to "".
Key(m, names) ==
  IF names = <<>> THEN Empty
                  ELSE FlattenSeq([i \in DOMAIN names |-> LabelValue(m, names[i])])

\* The keys under which the metrics of a family are added up.
Keys(ms) == {Key(m, LabelNames(ms)) : m \in Range(ms)}

\* A mutant of getLabelValues: the parts of the key, also for a metric without labels.
KeyParts(key) == key

getLabelValues(key) == IF \A i \in DOMAIN key : key[i] = "" THEN <<>> ELSE key

-----------------------------------------------------------------------------
(* Counters and gauges.                                                    *)

GaugeValue(current, new) == new

CounterValue(current, new) == current + new

aggregateFn(type, current, new) ==
  IF type = "counter" THEN CounterValue(current, new) ELSE GaugeValue(current, new)

\* What the metrics of one key add up to, from the zero value of a Go map.
Aggregated(type, ms, key) ==
  FoldLeft(LAMBDA current, m : IF Key(m, LabelNames(ms)) = key
                                 THEN aggregateFn(type, current, m.value) ELSE current,
           0, ms)

collectGeneric(type, ms) == [key \in Keys(ms) |-> Aggregated(type, ms, key)]

-----------------------------------------------------------------------------
(* Histograms.                                                             *)

\* |x - y| < 1e-10.  The difference of two infinite bounds is NaN, which is not less.
SameBound(x, y) == x # Inf /\ y # Inf /\ x = y

\* At most one bucket has the bound: a second one is only appended for +Inf.
aggregateBucket(buckets, b) ==
  IF \E i \in DOMAIN buckets : SameBound(buckets[i].bound, b.bound)
    THEN [i \in DOMAIN buckets |->
            IF SameBound(buckets[i].bound, b.bound)
              THEN [buckets[i] EXCEPT !.n = @ + b.n]
              ELSE buckets[i]]
    ELSE Append(buckets, b)

aggregateHistogramData(hist, m) ==
  [count |-> hist.count + m.count, sum |-> hist.sum + m.sum,
   bucket |-> FoldLeft(aggregateBucket, hist.bucket, m.bucket)]

NoHistogram == [count |-> 0, sum |-> 0, bucket |-> <<>>]

AggregatedHistogram(ms, key) ==
  FoldLeft(LAMBDA hist, m : IF Key(m, LabelNames(ms)) = key
                              THEN aggregateHistogramData(hist, m) ELSE hist,
           NoHistogram, ms)

aggregateHistograms(ms) == [key \in Keys(ms) |-> AggregatedHistogram(ms, key)]

\* The buckets are sent as a map from bounds: of two with one bound the last one stays.
SentBuckets(buckets) ==
  [bound \in {buckets[i].bound : i \in DOMAIN buckets} |->
     buckets[Max({i \in DOMAIN buckets : buckets[i].bound = bound})].n]

sendHistograms(hists) ==
  [key \in DOMAIN hists |-> [hists[key] EXCEPT !.bucket = SentBuckets(@)]]

-----------------------------------------------------------------------------
(* The collector.                                                          *)

\* Summaries and untyped metrics are logged and skipped.
Converted(families) == {n \in DOMAIN families : TypeOf[n] # "other"}

\* What a family exposes, by key.
Samples(n, ms) ==
  IF TypeOf[n] = "histogram" THEN sendHistograms(aggregateHistograms(ms))
                             ELSE collectGeneric(TypeOf[n], ms)

\* The constructor of the family's collector dereferences Help, which the decoder leaves nil
\* without a HELP line; what NewDesc refuses, such as a label name that begins with "__",
\* makes MustNewConstMetric and MustNewConstHistogram panic.
Undescribed(n, ms) == n \notin Helped \/ <<n, LabelNames(ms)>> \in Refused

\* They also panic when a metric has not as many label values as its family has label names.
Panics(families) ==
  \E n \in Converted(families) :
    \/ Undescribed(n, families[n])
    \/ \E key \in DOMAIN Samples(n, families[n]) :
         Len(getLabelValues(key)) # Len(LabelNames(families[n]))
=============================================================================
