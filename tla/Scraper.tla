------------------------------ MODULE Scraper -------------------------------
(***************************************************************************)
(* internal/metrics/scraper.go and the collector it feeds: Serve scrapes   *)
(* all workers on every tick, one goroutine each, merges their answers     *)
(* under mapMu and publishes the result when the last goroutine is over;   *)
(* requests to the metrics server collect what is published at any time.   *)
(*                                                                         *)
(* IsRunning() may answer either way: nothing else depends on it here.  It *)
(* waits for the worker's mutex, which shutdown holds for some seconds.    *)
(* The start and the failure of the server's listener are in Relay.        *)
(***************************************************************************)
EXTENDS Metrics

CONSTANTS Worker,  \* the workers of the manager
          Metric,  \* the metrics a worker may expose
          Answer   \* what a worker may answer: metrics by name of family

\* What decoding yields for a metric, by the type of its family.
HasType(m, type) ==
  /\ type \in {"counter", "gauge"} => m.value \in Int
  /\ type = "histogram" =>
       m.count \in Int /\ m.sum \in Int /\ m.bucket \in Seq([bound : Nat \cup {Inf}, n : Int])

\* Decoding yields each family once, with at least one metric; a label has a name and a
\* value, which may be empty but has at least one part.
ASSUME AnswerAssumption ==
  /\ \A a \in Answer : /\ DOMAIN a \subseteq Name
                       /\ \A n \in DOMAIN a : a[n] \in Seq(Metric) \ {<<>>}
  /\ \A m \in Metric :
       m.label \in Seq([name : LabelName, value : Seq(LabelPart) \ {<<>>}])
  /\ \A a \in Answer : \A n \in DOMAIN a : \A i \in DOMAIN a[n] : HasType(a[n][i], TypeOf[n])

VARIABLES
  cancelled,   \* the relay's context is done
  ticked,      \* a tick waits in ticker.C, which holds one
  serve,       \* Serve: in its select, in scrapeAndAggregate, or returned
  todo,        \* the workers the loop of scrapeAndAggregate has still to look at
  job,         \* the goroutine of each worker
  answered,    \* the decoded answers (mfList) of the round, by worker
  metricsMap,  \* the families merged so far in the round
  metrics,     \* the collector's families, guarded by its mu
  source,      \* history: the answers of the round that metrics is the result of
  crashed      \* a collection has panicked, which ends the process

roundVars == <<todo, job, answered, metricsMap>>
collectorVars == <<metrics, source>>
vars == <<cancelled, ticked, serve, roundVars, collectorVars, crashed>>

Init ==
  /\ cancelled = FALSE /\ ticked = FALSE /\ crashed = FALSE
  /\ serve = "select"
  /\ todo = {} /\ job = [w \in Worker |-> "none"]
  /\ answered = <<>> /\ metricsMap = <<>>
  /\ metrics = <<>> /\ source = <<>>

-----------------------------------------------------------------------------
Cancel ==
  /\ ~cancelled
  /\ cancelled' = TRUE
  /\ UNCHANGED <<ticked, serve, roundVars, collectorVars, crashed>>

\* A tick that finds the last one still in the channel is dropped.
Tick ==
  /\ serve # "stopped" /\ ~ticked
  /\ ticked' = TRUE
  /\ UNCHANGED <<cancelled, serve, roundVars, collectorVars, crashed>>

\* The select of Serve takes the tick, even if the context is done as well.
RoundBegins ==
  /\ serve = "select" /\ ticked
  /\ ticked' = FALSE
  /\ serve' = "round"
  /\ todo' = Worker
  /\ UNCHANGED <<cancelled, job, answered, metricsMap, collectorVars, crashed>>

\* Shutdown of the metrics server waits for the collections in flight, which end.
ServeStops ==
  /\ serve = "select" /\ cancelled
  /\ serve' = "stopped"
  /\ UNCHANGED <<cancelled, ticked, roundVars, collectorVars, crashed>>

\* The loop looks at the workers in the random order of a Go map.
Visit(w) ==
  /\ serve = "round" /\ w \in todo
  /\ todo' = todo \ {w}
  /\ job' \in {job, [job EXCEPT ![w] = "scrape"]}
  /\ UNCHANGED <<cancelled, ticked, serve, answered, metricsMap, collectorVars, crashed>>

\* A mutant of ScrapeFails: the goroutine returns without wg.Done().
ScrapeFailsSilently(w) ==
  /\ job[w] = "scrape"
  /\ job' = [job EXCEPT ![w] = "failed"]
  /\ UNCHANGED <<cancelled, ticked, serve, todo, answered, metricsMap, collectorVars, crashed>>

\* No connection, the client's timeout, a status other than 200, or an error while
\* decoding, which drops the families decoded before it.
ScrapeFails(w) ==
  /\ job[w] = "scrape"
  /\ job' = [job EXCEPT ![w] = "none"]
  /\ UNCHANGED <<cancelled, ticked, serve, todo, answered, metricsMap, collectorVars, crashed>>

ScrapeDone(w) ==
  /\ job[w] = "scrape"
  /\ \E a \in Answer :
       answered' = [v \in DOMAIN answered \cup {w} |-> IF v = w THEN a ELSE answered[v]]
  /\ job' = [job EXCEPT ![w] = "merge"]
  /\ UNCHANGED <<cancelled, ticked, serve, todo, metricsMap, collectorVars, crashed>>

\* A mutant of Merged: the family of the worker before is replaced.
MergedLast(families, a) == a @@ families

\* A family that is there already gets the metrics of the new one behind its own.
Merged(families, a) ==
  [n \in DOMAIN families \cup DOMAIN a |->
     IF n \notin DOMAIN a THEN families[n]
     ELSE IF n \in DOMAIN families THEN families[n] \o a[n] ELSE a[n]]

\* All families of a worker are merged while its goroutine holds mapMu.
Merge(w) ==
  /\ job[w] = "merge"
  /\ metricsMap' = Merged(metricsMap, answered[w])
  /\ job' = [job EXCEPT ![w] = "none"]
  /\ UNCHANGED <<cancelled, ticked, serve, todo, answered, collectorVars, crashed>>

\* A mutant of Publish: updateMetrics before wg.Wait().
PublishEarly ==
  /\ serve = "round" /\ todo = {}
  /\ metrics' = metricsMap /\ source' = answered
  /\ serve' = "select"
  /\ answered' = <<>> /\ metricsMap' = <<>> /\ job' = [w \in Worker |-> "none"]
  /\ UNCHANGED <<cancelled, ticked, todo, crashed>>

\* wg.Wait() and updateMetrics, after which the round's variables are gone.
Publish ==
  /\ serve = "round" /\ todo = {} /\ \A w \in Worker : job[w] = "none"
  /\ metrics' = metricsMap /\ source' = answered
  /\ serve' = "select"
  /\ answered' = <<>> /\ metricsMap' = <<>>
  /\ UNCHANGED <<cancelled, ticked, todo, job, crashed>>

\* A request to the metrics server.  It changes nothing, unless it panics, in a goroutine
\* of the registry, where nothing recovers.
Collect ==
  /\ serve # "stopped"
  /\ crashed' = Panics(metrics)
  /\ UNCHANGED <<cancelled, ticked, serve, roundVars, collectorVars>>

Goroutine(w) == ScrapeFails(w) \/ ScrapeDone(w) \/ Merge(w)

Next ==
  /\ ~crashed
  /\ \/ Cancel \/ Tick \/ RoundBegins \/ ServeStops \/ Publish \/ Collect
     \/ \E w \in Worker : Visit(w) \/ Goroutine(w)

Spec == Init /\ [][Next]_vars

\* Goroutines run on and the client's timeout ends every scrape.  A select that finds
\* ctx.Done() ready again and again takes it in the end, although a tick is ready, too.
Fairness ==
  /\ WF_vars(~crashed /\ Publish)
  /\ SF_vars(~crashed /\ ServeStops)
  /\ \A w \in Worker : /\ WF_vars(~crashed /\ Visit(w))
                       /\ WF_vars(~crashed /\ Goroutine(w))

FairSpec == Spec /\ Fairness

-----------------------------------------------------------------------------
(* Properties.                                                             *)

\* What merged families are made of.
IsFamilies(families) ==
  DOMAIN families \subseteq Name /\ \A n \in DOMAIN families : families[n] \in Seq(Metric)

IsAnswers(answers) ==
  DOMAIN answers \subseteq Worker /\ \A w \in DOMAIN answers : answers[w] \in Answer

TypeOK ==
  /\ cancelled \in BOOLEAN /\ ticked \in BOOLEAN /\ crashed \in BOOLEAN
  /\ serve \in {"select", "round", "stopped"}
  /\ todo \subseteq Worker
  /\ job \in [Worker -> {"none", "scrape", "merge"}]
  /\ IsAnswers(answered) /\ IsAnswers(source)
  /\ IsFamilies(metricsMap) /\ IsFamilies(metrics)

\* The metrics of family n in the answers of the workers ws: whose, and which of them.
Entries(answers, ws, n) ==
  UNION {{w} \X (1..Len(answers[w][n])) : w \in {v \in ws : n \in DOMAIN answers[v]}}

Entry(answers, n, e) == answers[e[1]][n][e[2]]

\* The families hold every metric of the answers of ws once, and nothing else.
Rearranged(families, answers, ws) ==
  /\ DOMAIN families = UNION {DOMAIN answers[w] : w \in ws}
  /\ \A n \in DOMAIN families :
       \E f \in Bijection(1..Len(families[n]), Entries(answers, ws, n)) :
         \A i \in 1..Len(families[n]) : families[n][i] = Entry(answers, n, f[i])

\* What is published is the result of one round: each metric that a worker answered in that
\* round exactly once, none of a round before or of an answer that failed, whatever the
\* order in which the goroutines end.
OneRound == Rearranged(metrics, source, DOMAIN source)

\* The workers whose answers have been merged.
Done == {w \in DOMAIN answered : job[w] # "merge"}

\* Where the goroutines of a round are, and what they have merged.
RoundInv ==
  /\ \A w \in Worker :
       /\ w \in todo => job[w] = "none"
       /\ w \in todo \/ job[w] = "scrape" => w \notin DOMAIN answered
       /\ job[w] = "merge" => w \in DOMAIN answered
       /\ serve # "round" => job[w] = "none"
  /\ serve # "round" => todo = {} /\ answered = <<>>
  /\ Rearranged(metricsMap, answered, Done)

\* The inductive invariant of the proofs.
ScraperInv == TypeOK /\ OneRound /\ RoundInv

-----------------------------------------------------------------------------
(* What is exposed, computed from the answers without the merge.           *)

LabelMap(m) ==
  [l \in {m.label[i].name : i \in DOMAIN m.label} |-> LabelValue(m, l)]

Exposed(n) == Entries(source, DOMAIN source, n)

Series(n) == {LabelMap(Entry(source, n, e)) : e \in Exposed(n)}

\* The metrics of the family have the same label names, and values that are neither empty
\* nor have a comma in them.
Regular(n) ==
  /\ \A s, t \in Series(n) : DOMAIN s = DOMAIN t
  /\ \A s \in Series(n) : \A l \in DOMAIN s : Len(s[l]) = 1 /\ s[l] # Empty

Bounds(m) == {m.bucket[i].bound : i \in DOMAIN m.bucket}

BucketCount(m, bound) ==
  LET at == {i \in DOMAIN m.bucket : m.bucket[i].bound = bound}
  IN  SumFunction([i \in at |-> m.bucket[i].n])

\* The sample got of a series is what the metrics es of that series add up to.
Summed(n, got, es) ==
  CASE TypeOf[n] = "counter" -> got = SumFunction([e \in es |-> Entry(source, n, e).value])
    [] TypeOf[n] = "gauge"   -> \E e \in es : got = Entry(source, n, e).value
    [] TypeOf[n] = "histogram" ->
         /\ got.count = SumFunction([e \in es |-> Entry(source, n, e).count])
         /\ got.sum = SumFunction([e \in es |-> Entry(source, n, e).sum])
         /\ DOMAIN got.bucket = UNION {Bounds(Entry(source, n, e)) : e \in es}
         /\ \A b \in DOMAIN got.bucket \ {Inf} :
              got.bucket[b] = SumFunction([e \in es |-> BucketCount(Entry(source, n, e), b)])
         /\ Inf \in DOMAIN got.bucket =>
              \E e \in es : \E i \in DOMAIN Entry(source, n, e).bucket :
                Entry(source, n, e).bucket[i] = [bound |-> Inf, n |-> got.bucket[Inf]]

\* The label map of a key: the names of the family with the parts of the key.
KeyMap(key, names) ==
  [l \in {names[i] : i \in DOMAIN names} |-> <<key[CHOOSE i \in DOMAIN names : names[i] = l]>>]

\* Unless it panics, a collection exposes each series of the answers, and each only once, in
\* whatever order the workers name their labels.
SeriesOnce ==
  \A n \in Converted(metrics) : Regular(n) =>
    LET names == LabelNames(metrics[n])
        keys  == DOMAIN Samples(n, metrics[n])
    IN  /\ {KeyMap(key, names) : key \in keys} = Series(n)
        /\ \A k1, k2 \in keys : KeyMap(k1, names) = KeyMap(k2, names) => k1 = k2

\* Unless a collection panics, counters, counts, sums and finite buckets of a series are the
\* totals over the workers of one round, a gauge is the value of one of them.  So is the +Inf bucket, which is
\* therefore less than the count (see README).
SumsAreRight ==
  \A n \in Converted(metrics) : Regular(n) =>
    LET got == Samples(n, metrics[n])
        Of(s) == {e \in Exposed(n) : LabelMap(Entry(source, n, e)) = s}
    IN  \A key \in DOMAIN got : Summed(n, got[key], Of(KeyMap(key, LabelNames(metrics[n]))))

\* The workers give the family a help text, and none of its metrics label names that NewDesc
\* refuses.
Describable(n) ==
  /\ n \in Helped
  /\ \A e \in Exposed(n) : <<n, LabelNames(<<Entry(source, n, e)>>)>> \notin Refused

\* A collection panics only on a converted family without a help text, with label names that
\* NewDesc refuses, or with irregular labels: not on families without labels, with several,
\* or with the same labels in another order, and never on one that is skipped.
PanicNeedsOddFamily ==
  crashed => \E n \in Converted(metrics) : ~Describable(n) \/ ~Regular(n)

\* Once the context is done Serve returns, although it looks at the context only between
\* two rounds and a tick may be ready each time.
ScraperStops == cancelled ~> serve = "stopped" \/ crashed
=============================================================================
