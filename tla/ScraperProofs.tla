--------------------------- MODULE ScraperProofs ----------------------------
(***************************************************************************)
(* What the scraper publishes is the result of one round (OneRound), for   *)
(* any workers and any answers.  The merged families are compared with the *)
(* answers through a bijection between their positions and the metrics of  *)
(* the answers, which every merge extends.                                 *)
(***************************************************************************)
EXTENDS Scraper, SequenceTheorems, FiniteSetTheorems, WellFoundedInduction, TLAPS

\* f takes the positions of ms to the metrics of family n in the answers of ws, one to one.
Places(f, ms, answers, ws, n) ==
  /\ f \in [1..Len(ms) -> Entries(answers, ws, n)]
  /\ \A i, j \in 1..Len(ms) : f[i] = f[j] => i = j
  /\ \A e \in Entries(answers, ws, n) : \E i \in 1..Len(ms) : f[i] = e
  /\ \A i \in 1..Len(ms) : ms[i] = Entry(answers, n, f[i])

\* Rearranged says that each family has such an f.
LEMMA RearrangedPlaces ==
  ASSUME NEW families, NEW answers, NEW ws
  PROVE  Rearranged(families, answers, ws) <=>
           /\ DOMAIN families = UNION {DOMAIN answers[w] : w \in ws}
           /\ \A n \in DOMAIN families : \E f : Places(f, families[n], answers, ws, n)
<1>1. ASSUME NEW ms, NEW n, NEW f
      PROVE  Places(f, ms, answers, ws, n) <=>
               /\ f \in Bijection(1..Len(ms), Entries(answers, ws, n))
               /\ \A i \in 1..Len(ms) : ms[i] = Entry(answers, n, f[i])
  BY DEF Places, Bijection, Injection, Surjection, IsInjective
<1> QED
  BY <1>1 DEF Rearranged

\* The metrics of a family in the answers.
LEMMA EntriesOf ==
  ASSUME NEW answers, NEW ws, NEW n
  PROVE  /\ \A w \in ws : \A i \in 1..Len(answers[w][n]) :
              n \in DOMAIN answers[w] => <<w, i>> \in Entries(answers, ws, n)
         /\ \A e \in Entries(answers, ws, n) :
              \E w \in ws : \E i \in 1..Len(answers[w][n]) :
                n \in DOMAIN answers[w] /\ e = <<w, i>>
  BY DEF Entries

\* No answers and no families.
LEMMA NothingRearranged == ASSUME NEW answers PROVE Rearranged(<<>>, answers, {})
<1>1. DOMAIN <<>> = {}
  OBVIOUS
<1>2. UNION {DOMAIN answers[w] : w \in {}} = {}
  OBVIOUS
<1> QED
  BY <1>1, <1>2 DEF Rearranged

\* Only the answers of the workers in question count.
LEMMA SameAnswers ==
  ASSUME NEW families, NEW ans, NEW others, NEW ws, \A w \in ws : ans[w] = others[w],
         Rearranged(families, ans, ws)
  PROVE  Rearranged(families, others, ws)
<1>1. DOMAIN families = UNION {DOMAIN others[w] : w \in ws}
  <2>1. {DOMAIN ans[w] : w \in ws} = {DOMAIN others[w] : w \in ws}
    OBVIOUS
  <2> QED
    BY <2>1, RearrangedPlaces
<1>2. ASSUME NEW n \in DOMAIN families, NEW f, Places(f, families[n], ans, ws, n)
      PROVE  Places(f, families[n], others, ws, n)
  <2>1. Entries(ans, ws, n) = Entries(others, ws, n)
    BY DEF Entries
  <2>2. \A w \in ws : \A i \in 1..Len(ans[w][n]) :
          Entry(ans, n, <<w, i>>) = Entry(others, n, <<w, i>>)
    BY DEF Entry
  <2>3. \A e \in Entries(ans, ws, n) : Entry(ans, n, e) = Entry(others, n, e)
    BY <2>2, EntriesOf
  <2> QED
    BY <1>2, <2>1, <2>3 DEF Places
<1> QED
  BY <1>1, <1>2, RearrangedPlaces

\* A family that only one side of a merge has is taken over as it is.
LEMMA KeptFamily ==
  ASSUME NEW answers, NEW ws, NEW w, NEW n, NEW ms, NEW f,
         n \notin DOMAIN answers[w], Places(f, ms, answers, ws, n)
  PROVE  Places(f, ms, answers, ws \cup {w}, n)
<1>1. Entries(answers, ws \cup {w}, n) = Entries(answers, ws, n)
  BY DEF Entries
<1> QED
  BY <1>1 DEF Places

LEMMA NewFamily ==
  ASSUME NEW answers, NEW ws, NEW w, NEW n, n \in DOMAIN answers[w],
         answers[w][n] \in Seq(Metric),
         \A v \in ws : n \notin DOMAIN answers[v]
  PROVE  \E f : Places(f, answers[w][n], answers, ws \cup {w}, n)
<1> DEFINE ms == answers[w][n]
           f == [i \in 1..Len(ms) |-> <<w, i>>]
<1>1. Entries(answers, ws \cup {w}, n) = {w} \X (1..Len(ms))
  BY DEF Entries
<1>2. \A i \in 1..Len(ms) : f[i] = <<w, i>> /\ ms[i] = Entry(answers, n, f[i])
  BY DEF Entry
<1>3. f \in [1..Len(ms) -> {w} \X (1..Len(ms))]
  OBVIOUS
<1> HIDE DEF f
<1>4. \A i, j \in 1..Len(ms) : f[i] = f[j] => i = j
  BY <1>2
<1>5. \A e \in {w} \X (1..Len(ms)) : \E i \in 1..Len(ms) : f[i] = e
  BY <1>2
<1> QED
  BY <1>1, <1>2, <1>3, <1>4, <1>5 DEF Places

\* A family that both have gets the new metrics behind the old ones.
LEMMA LongerFamily ==
  ASSUME NEW answers, NEW ws, NEW w, w \notin ws, NEW n, n \in DOMAIN answers[w],
         NEW old \in Seq(Metric), answers[w][n] \in Seq(Metric),
         NEW f, Places(f, old, answers, ws, n)
  PROVE  \E g : Places(g, old \o answers[w][n], answers, ws \cup {w}, n)
<1> DEFINE new == answers[w][n]
           all == old \o new
           E == Entries(answers, ws, n)
           g == [i \in 1..Len(all) |-> IF i <= Len(old) THEN f[i] ELSE <<w, i - Len(old)>>]
<1>1. /\ Len(old) \in Nat /\ Len(new) \in Nat /\ Len(all) = Len(old) + Len(new)
      /\ \A i \in 1..Len(all) : all[i] = IF i <= Len(old) THEN old[i] ELSE new[i - Len(old)]
  BY ConcatProperties, LenProperties
<1>2. Entries(answers, ws \cup {w}, n) = E \cup ({w} \X (1..Len(new)))
  BY DEF Entries
<1>3. \A e \in E : \A i \in 1..Len(new) : e # <<w, i>>
  BY EntriesOf
<1> HIDE DEF new, all, E
<1>4. /\ \A i \in 1..Len(old) : i \in 1..Len(all) /\ g[i] = f[i] /\ f[i] \in E
      /\ \A i \in 1..Len(new) : Len(old) + i \in 1..Len(all) /\ g[Len(old) + i] = <<w, i>>
  BY <1>1 DEF Places, E
<1>5. ASSUME NEW i \in 1..Len(all)
      PROVE  \/ i \in 1..Len(old)
             \/ i - Len(old) \in 1..Len(new) /\ i = Len(old) + (i - Len(old))
  BY <1>1
<1>6. g \in [1..Len(all) -> Entries(answers, ws \cup {w}, n)]
  <2> SUFFICES ASSUME NEW i \in 1..Len(all)
               PROVE  g[i] \in E \/ g[i] \in {w} \X (1..Len(new))
    BY <1>2
  <2> HIDE DEF g
  <2>1. CASE i \in 1..Len(old)
    BY <1>4, <2>1
  <2>2. CASE i \notin 1..Len(old)
    <3>1. PICK k \in 1..Len(new) : i = Len(old) + k
      BY <1>5, <2>2
    <3>2. g[i] = <<w, k>>
      BY <1>4, <3>1
    <3> QED
      BY <3>2
  <2> QED
    BY <2>1, <2>2
<1> HIDE DEF g
<1>7. ASSUME NEW i \in 1..Len(all), NEW j \in 1..Len(all), g[i] = g[j] PROVE i = j
  <2>1. CASE i \in 1..Len(old) /\ j \in 1..Len(old)
    BY <1>4, <1>7, <2>1 DEF Places
  <2>2. CASE i \notin 1..Len(old) /\ j \notin 1..Len(old)
    <3>1. g[i] = <<w, i - Len(old)>> /\ g[j] = <<w, j - Len(old)>>
      BY <1>4, <1>5, <2>2
    <3>2. g[i][2] = i - Len(old) /\ g[j][2] = j - Len(old)
      BY <3>1
    <3> QED
      BY <1>1, <1>7, <3>2
  <2>3. CASE i \in 1..Len(old) /\ j \notin 1..Len(old)
    BY <1>3, <1>4, <1>5, <1>7, <2>3
  <2>4. CASE i \notin 1..Len(old) /\ j \in 1..Len(old)
    BY <1>3, <1>4, <1>5, <1>7, <2>4
  <2> QED
    BY <2>1, <2>2, <2>3, <2>4
<1>8. ASSUME NEW e \in Entries(answers, ws \cup {w}, n) PROVE \E i \in 1..Len(all) : g[i] = e
  <2>1. CASE e \in E
    <3>1. PICK i \in 1..Len(old) : f[i] = e
      BY <2>1 DEF Places, E
    <3> QED
      BY <1>4, <3>1
  <2>2. CASE e \in {w} \X (1..Len(new))
    <3>1. PICK i \in 1..Len(new) : e = <<w, i>>
      BY <2>2
    <3> QED
      BY <1>4, <3>1
  <2> QED
    BY <1>2, <2>1, <2>2
<1>9. ASSUME NEW i \in 1..Len(all) PROVE all[i] = Entry(answers, n, g[i])
  <2>1. CASE i \in 1..Len(old)
    BY <1>1, <1>4, <2>1 DEF Places
  <2>2. CASE i \notin 1..Len(old)
    <3>1. g[i] = <<w, i - Len(old)>> /\ all[i] = new[i - Len(old)]
      BY <1>1, <1>4, <1>5, <2>2
    <3> QED
      BY <3>1 DEF Entry, new
  <2> QED
    BY <2>1, <2>2
<1> QED
  BY <1>6, <1>7, <1>8, <1>9 DEF Places, all, new
\* What a merge makes of families that hold the metrics of the workers ws.
LEMMA MergeRearranged ==
  ASSUME NEW families, IsFamilies(families), NEW answers, IsAnswers(answers),
         NEW ws, NEW w \in DOMAIN answers, w \notin ws, Rearranged(families, answers, ws)
  PROVE  /\ IsFamilies(Merged(families, answers[w]))
         /\ Rearranged(Merged(families, answers[w]), answers, ws \cup {w})
<1> DEFINE a == answers[w]
           merged == Merged(families, a)
<1>1. DOMAIN a \subseteq Name /\ \A n \in DOMAIN a : a[n] \in Seq(Metric)
  BY AnswerAssumption DEF IsAnswers
<1>2. DOMAIN families \subseteq Name /\ \A n \in DOMAIN families : families[n] \in Seq(Metric)
  BY DEF IsFamilies
<1>3. /\ DOMAIN merged = DOMAIN families \cup DOMAIN a
      /\ \A n \in DOMAIN merged :
           merged[n] = IF n \notin DOMAIN a THEN families[n]
                       ELSE IF n \in DOMAIN families THEN families[n] \o a[n] ELSE a[n]
  BY DEF Merged
<1>4. /\ DOMAIN families = UNION {DOMAIN answers[v] : v \in ws}
      /\ \A n \in DOMAIN families : \E f : Places(f, families[n], answers, ws, n)
  BY RearrangedPlaces
<1> HIDE DEF merged
<1>5. ASSUME NEW n \in DOMAIN merged
      PROVE  /\ merged[n] \in Seq(Metric)
             /\ \E f : Places(f, merged[n], answers, ws \cup {w}, n)
  <2>1. CASE n \notin DOMAIN a
    <3>1. n \in DOMAIN families /\ merged[n] = families[n]
      BY <1>3, <2>1
    <3>2. PICK f : Places(f, families[n], answers, ws, n)
      BY <1>4, <3>1
    <3>3. Places(f, families[n], answers, ws \cup {w}, n)
      BY <2>1, <3>2, KeptFamily
    <3> QED
      BY <1>2, <3>1, <3>3
  <2>2. CASE n \in DOMAIN a /\ n \notin DOMAIN families
    <3>1. merged[n] = a[n] /\ a[n] \in Seq(Metric)
      BY <1>1, <1>3, <2>2
    <3>2. \A v \in ws : n \notin DOMAIN answers[v]
      BY <1>4, <2>2
    <3>3. \E f : Places(f, a[n], answers, ws \cup {w}, n)
      BY <2>2, <3>1, <3>2, NewFamily
    <3> QED
      BY <3>1, <3>3
  <2>3. CASE n \in DOMAIN a /\ n \in DOMAIN families
    <3>1. /\ merged[n] = families[n] \o a[n]
          /\ a[n] \in Seq(Metric) /\ families[n] \in Seq(Metric)
      BY <1>1, <1>2, <1>3, <2>3
    <3>2. PICK f : Places(f, families[n], answers, ws, n)
      BY <1>4, <2>3
    <3>3. \E g : Places(g, families[n] \o a[n], answers, ws \cup {w}, n)
      BY <2>3, <3>1, <3>2, LongerFamily
    <3>4. families[n] \o a[n] \in Seq(Metric)
      BY <3>1, ConcatProperties
    <3> QED
      BY <3>1, <3>3, <3>4
  <2> QED
    BY <2>1, <2>2, <2>3
<1>6. DOMAIN merged = UNION {DOMAIN answers[v] : v \in ws \cup {w}}
  BY <1>3, <1>4
<1>7. Rearranged(merged, answers, ws \cup {w})
  BY <1>5, <1>6, RearrangedPlaces
<1>8. IsFamilies(merged)
  BY <1>1, <1>2, <1>3, <1>5 DEF IsFamilies
<1> QED
  BY <1>7, <1>8 DEF merged

-----------------------------------------------------------------------------
(* The invariant.                                                          *)

LEMMA InitInv == ASSUME Init PROVE ScraperInv
<1>1. /\ IsAnswers(<<>>) /\ IsFamilies(<<>>)
      /\ DOMAIN <<>> = {}
  BY DEF IsAnswers, IsFamilies
<1>2. Done = {}
  BY <1>1 DEF Init, Done
<1>3. OneRound /\ Rearranged(metricsMap, answered, Done)
  BY <1>1, <1>2, NothingRearranged DEF Init, OneRound
<1>4. TypeOK
  BY <1>1 DEF Init, TypeOK
<1> QED
  BY <1>1, <1>3, <1>4 DEF Init, RoundInv, ScraperInv

\* The part of the invariant about the goroutines.
Jobs ==
  /\ \A w \in Worker :
       /\ w \in todo => job[w] = "none"
       /\ w \in todo \/ job[w] = "scrape" => w \notin DOMAIN answered
       /\ job[w] = "merge" => w \in DOMAIN answered
       /\ serve # "round" => job[w] = "none"
  /\ serve # "round" => todo = {} /\ answered = <<>>

LEMMA InvParts ==
  /\ ScraperInv <=> TypeOK /\ OneRound /\ Jobs /\ Rearranged(metricsMap, answered, Done)
  /\ ScraperInv' <=>
       /\ TypeOK' /\ OneRound' /\ Jobs' /\ Rearranged(metricsMap, answered, Done)'
BY DEF ScraperInv, RoundInv, Jobs

\* Steps that leave what has been answered, merged and published alone.
LEMMA SameRound ==
  ASSUME ScraperInv, TypeOK', Jobs', UNCHANGED <<answered, metricsMap, collectorVars>>,
         Done' = Done
  PROVE  ScraperInv'
<1>1. /\ answered' = answered /\ metricsMap' = metricsMap
      /\ metrics' = metrics /\ source' = source
  BY DEF collectorVars
<1>2. OneRound'
  BY <1>1, InvParts DEF OneRound
<1>3. Rearranged(metricsMap, answered, Done)'
  BY <1>1, InvParts
<1> QED
  BY <1>2, <1>3, InvParts

\* Steps that change neither the goroutines nor the round.
LEMMA SameJobs ==
  ASSUME ScraperInv, UNCHANGED <<todo, job, answered, metricsMap, collectorVars>>,
         TypeOK', serve' = "round" <=> serve = "round"
  PROVE  ScraperInv'
<1>1. Jobs'
  BY InvParts DEF Jobs
<1>2. Done' = Done
  BY DEF Done
<1> QED
  BY <1>1, <1>2, SameRound

LEMMA CancelInv == ASSUME ScraperInv, Cancel PROVE ScraperInv'
<1>1. TypeOK'
  BY InvParts DEF TypeOK, Cancel, roundVars, collectorVars
<1> QED
  BY <1>1, SameJobs DEF Cancel, roundVars

LEMMA TickInv == ASSUME ScraperInv, Tick PROVE ScraperInv'
<1>1. TypeOK'
  BY InvParts DEF TypeOK, Tick, roundVars, collectorVars
<1> QED
  BY <1>1, SameJobs DEF Tick, roundVars

LEMMA ServeStopsInv == ASSUME ScraperInv, ServeStops PROVE ScraperInv'
<1>1. TypeOK'
  BY InvParts DEF TypeOK, ServeStops, roundVars, collectorVars
<1> QED
  BY <1>1, SameJobs DEF ServeStops, roundVars

LEMMA CollectInv == ASSUME ScraperInv, Collect PROVE ScraperInv'
<1>1. Panics(metrics) \in BOOLEAN
  BY DEF Panics
<1>2. TypeOK'
  BY <1>1, InvParts DEF TypeOK, Collect, roundVars, collectorVars
<1> QED
  BY <1>2, SameJobs DEF Collect, roundVars

LEMMA StutterInv == ASSUME ScraperInv, UNCHANGED vars PROVE ScraperInv'
<1>1. TypeOK'
  BY InvParts DEF TypeOK, vars, roundVars, collectorVars
<1> QED
  BY <1>1, SameJobs DEF vars, roundVars

LEMMA RoundBeginsInv == ASSUME ScraperInv, RoundBegins PROVE ScraperInv'
<1>1. TypeOK'
  BY InvParts DEF TypeOK, RoundBegins, collectorVars
<1>2. Jobs'
  BY InvParts DEF Jobs, RoundBegins
<1>3. Done' = Done
  BY DEF Done, RoundBegins
<1> QED
  BY <1>1, <1>2, <1>3, SameRound DEF RoundBegins

LEMMA VisitInv == ASSUME ScraperInv, NEW w \in Worker, Visit(w) PROVE ScraperInv'
<1>1. job' \in {job, [job EXCEPT ![w] = "scrape"]}
  BY DEF Visit
<1>2. \A v \in Worker : job'[v] = job[v] \/ (v = w /\ job'[v] = "scrape")
  BY <1>1, InvParts DEF TypeOK
<1>3. job' \in [Worker -> {"none", "scrape", "merge"}]
  BY <1>1, InvParts DEF TypeOK
<1>4. TypeOK'
  BY <1>3, InvParts DEF TypeOK, Visit, collectorVars
<1>5. Jobs'
  BY <1>2, InvParts DEF TypeOK, Jobs, Visit
<1>6. Done' = Done
  BY <1>2, InvParts DEF TypeOK, Jobs, IsAnswers, Done, Visit
<1> QED
  BY <1>4, <1>5, <1>6, SameRound DEF Visit

LEMMA ScrapeFailsInv == ASSUME ScraperInv, NEW w \in Worker, ScrapeFails(w) PROVE ScraperInv'
<1>1. /\ job' \in [Worker -> {"none", "scrape", "merge"}]
      /\ \A v \in Worker : job'[v] = IF v = w THEN "none" ELSE job[v]
  BY InvParts DEF TypeOK, ScrapeFails
<1>2. TypeOK'
  BY <1>1, InvParts DEF TypeOK, ScrapeFails, collectorVars
<1>3. Jobs'
  BY <1>1, InvParts DEF Jobs, ScrapeFails
<1>4. Done' = Done
  BY <1>1, InvParts DEF TypeOK, Jobs, IsAnswers, Done, ScrapeFails
<1> QED
  BY <1>2, <1>3, <1>4, SameRound DEF ScrapeFails

\* The answer of w is not yet among those that have been merged.
LEMMA ScrapeDoneInv == ASSUME ScraperInv, NEW w \in Worker, ScrapeDone(w) PROVE ScraperInv'
<1>1. PICK a \in Answer :
        answered' = [v \in DOMAIN answered \cup {w} |-> IF v = w THEN a ELSE answered[v]]
  BY DEF ScrapeDone
<1>2. /\ job' \in [Worker -> {"none", "scrape", "merge"}]
      /\ \A v \in Worker : job'[v] = IF v = w THEN "merge" ELSE job[v]
  BY InvParts DEF TypeOK, ScrapeDone
<1>3. /\ DOMAIN answered' = DOMAIN answered \cup {w}
      /\ \A v \in DOMAIN answered' : answered'[v] = IF v = w THEN a ELSE answered[v]
  BY <1>1
<1>4. w \notin DOMAIN answered /\ job[w] = "scrape" /\ serve = "round"
  BY InvParts DEF Jobs, ScrapeDone
<1>5. IsAnswers(answered')
  BY <1>3, InvParts DEF TypeOK, IsAnswers
<1>6. TypeOK'
  BY <1>2, <1>5, InvParts DEF TypeOK, ScrapeDone, collectorVars
<1>7. Jobs'
  BY <1>2, <1>3, <1>4, InvParts DEF Jobs, ScrapeDone
<1>8. Done' = Done
  BY <1>2, <1>3, <1>4, InvParts DEF TypeOK, IsAnswers, Done
<1>9. OneRound'
  <2>1. metrics' = metrics /\ source' = source
    BY DEF ScrapeDone, collectorVars
  <2> QED
    BY <2>1, InvParts DEF OneRound
<1>10. Rearranged(metricsMap, answered, Done)'
  <2>1. metricsMap' = metricsMap
    BY DEF ScrapeDone
  <2>2. \A v \in Done : answered[v] = answered'[v]
    BY <1>3, <1>4 DEF Done
  <2>3. Rearranged(metricsMap, answered, Done)
    BY InvParts
  <2>4. Rearranged(metricsMap, answered', Done)
    BY <2>2, <2>3, SameAnswers
  <2> QED
    BY <1>8, <2>1, <2>4
<1> QED
  BY <1>6, <1>7, <1>9, <1>10, InvParts

LEMMA MergeInv == ASSUME ScraperInv, NEW w \in Worker, Merge(w) PROVE ScraperInv'
<1>1. /\ job' \in [Worker -> {"none", "scrape", "merge"}]
      /\ \A v \in Worker : job'[v] = IF v = w THEN "none" ELSE job[v]
  BY InvParts DEF TypeOK, Merge
<1>2. w \in DOMAIN answered /\ job[w] = "merge" /\ w \notin Done
  BY InvParts DEF Jobs, Merge, Done
<1>3. Done' = Done \cup {w}
  BY <1>1, <1>2, InvParts DEF TypeOK, IsAnswers, Done, Merge
<1>4. IsFamilies(metricsMap) /\ IsAnswers(answered) /\ Rearranged(metricsMap, answered, Done)
  BY InvParts DEF TypeOK
<1>5. metricsMap' = Merged(metricsMap, answered[w]) /\ answered' = answered
  BY DEF Merge
<1>6. IsFamilies(metricsMap') /\ Rearranged(metricsMap', answered, Done \cup {w})
  BY <1>2, <1>4, <1>5, MergeRearranged
<1>7. TypeOK'
  BY <1>1, <1>6, InvParts DEF TypeOK, Merge, collectorVars
<1>8. Jobs'
  BY <1>1, <1>2, InvParts DEF Jobs, Merge
<1>9. OneRound'
  <2>1. metrics' = metrics /\ source' = source
    BY DEF Merge, collectorVars
  <2> QED
    BY <2>1, InvParts DEF OneRound
<1> QED
  BY <1>3, <1>5, <1>6, <1>7, <1>8, <1>9, InvParts

\* All goroutines are over: what has been answered has been merged.
LEMMA PublishInv == ASSUME ScraperInv, Publish PROVE ScraperInv'
<1>1. IsAnswers(<<>>) /\ IsFamilies(<<>>) /\ DOMAIN <<>> = {}
  BY DEF IsAnswers, IsFamilies
<1>2. TypeOK'
  BY <1>1, InvParts DEF TypeOK, Publish
<1>3. Jobs'
  BY <1>1, InvParts DEF Jobs, Publish
<1>4. OneRound'
  <2>1. Done = DOMAIN answered
    BY InvParts DEF TypeOK, IsAnswers, Done, Publish
  <2>2. Rearranged(metricsMap, answered, DOMAIN answered)
    BY <2>1, InvParts
  <2>3. metrics' = metricsMap /\ source' = answered
    BY DEF Publish
  <2> QED
    BY <2>2, <2>3 DEF OneRound
<1>5. Rearranged(metricsMap, answered, Done)'
  <2>1. metricsMap' = <<>> /\ answered' = <<>>
    BY DEF Publish
  <2>2. Done' = {}
    BY <1>1, <2>1 DEF Done
  <2> QED
    BY <2>1, <2>2, NothingRearranged
<1> QED
  BY <1>2, <1>3, <1>4, <1>5, InvParts

LEMMA NextInv == ASSUME ScraperInv, [Next]_vars PROVE ScraperInv'
<1>1. ASSUME NEW w \in Worker, Visit(w) \/ Goroutine(w) PROVE ScraperInv'
  BY <1>1, VisitInv, ScrapeFailsInv, ScrapeDoneInv, MergeInv DEF Goroutine
<1> QED
  BY <1>1, CancelInv, TickInv, RoundBeginsInv, ServeStopsInv, PublishInv, CollectInv,
     StutterInv DEF Next

\* The invariant of the scraper: where the goroutines of a round are (scraper.go:115-188),
\* what they have merged so far, and what is published.
THEOREM ScraperInvariant == Spec => []ScraperInv
<1>1. Init => ScraperInv
  BY InitInv
<1>2. ScraperInv /\ [Next]_vars => ScraperInv'
  BY NextInv
<1> QED
  BY <1>1, <1>2, PTL DEF Spec

\* What updateMetrics publishes (scraper.go:150) has every metric that a worker answered in
\* one round exactly once, in whatever order the goroutines have merged the answers.
THEOREM PublishedIsOneRound == Spec => []OneRound
<1>1. ScraperInv => OneRound
  BY DEF ScraperInv
<1> QED
  BY <1>1, ScraperInvariant, PTL

-----------------------------------------------------------------------------
(* What a collection makes of it.                                          *)

\* Every set of numbers that is not empty has a least one.
LEMMA LeastNumber ==
  ASSUME NEW S, S \subseteq Nat, S # {}
  PROVE  \E m \in S : \A k \in S : m <= k
<1>1. PICK m \in S : \A k \in S : ~(<<k, m>> \in OpToRel(<, Nat))
  BY WFMin, NatLessThanWellFounded
<1>2. \A k \in S : k \in Nat /\ m \in Nat /\ ~(k < m)
  BY <1>1 DEF OpToRel
<1> QED
  BY <1>2

\* Min of such a set is one of its members.
LEMMA MinIsMember ==
  ASSUME NEW S, S \subseteq Nat, S # {}
  PROVE  Min(S) \in S
  BY LeastNumber DEF Min

\* Sequences of one element each, joined: the sequence of those elements.  The recursive
\* function in FlattenSeq has a value because upTo solves its equation, and upTo is the
\* only solution because there is no least number at which another one differs.
LEMMA FlattenSingles ==
  ASSUME NEW T, NEW s \in Seq(Seq(T)), s # <<>>, \A i \in 1..Len(s) : Len(s[i]) = 1
  PROVE  FlattenSeq(s) = [i \in 1..Len(s) |-> s[i][1]]
<1> DEFINE n == Len(s)
           IsFlatten(f) == f = [i \in 1..n |-> IF i = 1 THEN s[i] ELSE f[i - 1] \o s[i]]
           flatten == CHOOSE f : IsFlatten(f)
           upTo == [i \in 1..n |-> [j \in 1..i |-> s[j][1]]]
<1>1. n \in Nat \ {0} /\ \A i \in 1..n : s[i] \in Seq(T) /\ s[i][1] \in T
  BY EmptySeq, LenProperties, ElementOfSeq
<1>2. FlattenSeq(s) = flatten[n]
  BY <1>1 DEF FlattenSeq
<1>3. ASSUME NEW i \in 1..n
      PROVE  /\ upTo[i] \in Seq(T) /\ Len(upTo[i]) = i
             /\ \A j \in 1..i : upTo[i][j] = s[j][1]
  <2>1. i \in Nat /\ \A j \in 1..i : s[j][1] \in T
    BY <1>1
  <2> DEFINE start == [j \in 1..i |-> s[j][1]]
  <2>2. start \in Seq(T) /\ Len(start) = i
    BY <2>1, IsASeq
  <2> QED
    BY <2>2
<1> HIDE DEF upTo
<1>4. upTo[1] = s[1]
  BY <1>1, <1>3, SeqEqual
<1>5. ASSUME NEW i \in 2..n PROVE upTo[i] = upTo[i - 1] \o s[i]
  <2> DEFINE p == upTo[i - 1]
             c == p \o s[i]
  <2> HIDE DEF c
  <2>1. /\ i \in 1..n /\ i - 1 \in 1..n /\ i \in Nat
        /\ s[i] \in Seq(T) /\ Len(s[i]) = 1
        /\ p \in Seq(T) /\ Len(p) = i - 1
    BY <1>1, <1>3, <1>5
  <2>2. p \in Seq(T) /\ \A j \in 1..(i - 1) : p[j] = s[j][1]
    BY <1>3, <2>1
  <2> HIDE DEF p
  <2>3. /\ c \in Seq(T) /\ Len(c) = i
        /\ \A j \in 1..i : c[j] = IF j <= i - 1 THEN p[j] ELSE s[i][j - (i - 1)]
    <3>1. /\ c \in Seq(T) /\ Len(c) = Len(p) + Len(s[i])
          /\ \A j \in 1..(Len(p) + Len(s[i])) :
               c[j] = IF j <= Len(p) THEN p[j] ELSE s[i][j - Len(p)]
      BY <2>1, ConcatProperties DEF c
    <3>2. Len(p) + Len(s[i]) = i
      BY <2>1
    <3> QED
      BY <2>1, <3>1, <3>2
  <2>4. ASSUME NEW j \in 1..i PROVE c[j] = upTo[i][j]
    <3>1. upTo[i][j] = s[j][1]
      BY <1>3, <2>1
    <3>2. CASE j <= i - 1
      <4>1. j \in 1..(i - 1) /\ c[j] = p[j]
        BY <2>1, <2>3, <3>2
      <4> QED
        BY <2>2, <3>1, <4>1
    <3>3. CASE j = i
      <4>1. c[j] = s[i][j - (i - 1)]
        BY <2>1, <2>3, <3>3
      <4>2. j - (i - 1) = 1
        BY <2>1, <3>3
      <4> QED
        BY <3>1, <3>3, <4>1, <4>2
    <3>4. j <= i - 1 \/ j = i
      BY <2>1
    <3> QED
      BY <3>2, <3>3, <3>4
  <2>5. upTo[i] \in Seq(T) /\ Len(upTo[i]) = i
    BY <1>3, <2>1
  <2> QED
    BY <2>3, <2>4, <2>5, SeqEqual DEF c, p
<1>6. IsFlatten(upTo)
  <2>1. ASSUME NEW i \in 1..n PROVE upTo[i] = IF i = 1 THEN s[i] ELSE upTo[i - 1] \o s[i]
    <3>1. i # 1 => i \in 2..n
      BY <1>1
    <3> QED
      BY <1>4, <1>5, <3>1
  <2>2. upTo = [i \in 1..n |-> upTo[i]]
    BY DEF upTo
  <2> QED
    BY <2>1, <2>2
<1>7. IsFlatten(flatten)
  BY <1>6
<1>8. \A i \in 1..n : flatten[i] = upTo[i]
  <2> DEFINE S == {i \in 1..n : flatten[i] # upTo[i]}
  <2> HIDE DEF flatten
  <2> SUFFICES ASSUME S # {} PROVE FALSE
    OBVIOUS
  <2>1. PICK m \in S : \A k \in S : m <= k
    <3>1. S \subseteq Nat
      BY <1>1
    <3> HIDE DEF S
    <3> QED
      BY <3>1, LeastNumber
  <2>2. m \in 1..n /\ flatten[m] # upTo[m] /\ \A k \in 1..(m - 1) : flatten[k] = upTo[k]
    BY <1>1, <2>1
  <2>3. CASE m = 1
    BY <1>4, <1>7, <2>2, <2>3
  <2>4. CASE m # 1
    <3>1. m \in 2..n /\ m - 1 \in 1..(m - 1)
      BY <1>1, <2>2, <2>4
    <3>2. flatten[m] = flatten[m - 1] \o s[m]
      BY <1>7, <2>2, <2>4
    <3> QED
      BY <1>5, <2>2, <3>1, <3>2
  <2> QED
    BY <2>3, <2>4
<1>9. FlattenSeq(s) = upTo[n]
  <2>1. n \in 1..n
    BY <1>1
  <2> QED
    BY <1>2, <1>8, <2>1
<1> QED
  BY <1>9 DEF upTo

\* The value of a label, also of one that is missing, is a sequence of parts.
LEMMA LabelValueType ==
  ASSUME NEW m \in Metric, NEW l
  PROVE  LabelValue(m, l) \in Seq(LabelPart)
<1> DEFINE at == {i \in DOMAIN m.label : m.label[i].name = l}
<1>1. m.label \in Seq([name : LabelName, value : Seq(LabelPart) \ {<<>>}])
  BY AnswerAssumption
<1>2. DOMAIN m.label = 1..Len(m.label) /\ Len(m.label) \in Nat
  BY <1>1, LenProperties
<1>3. \A i \in DOMAIN m.label : m.label[i].value \in Seq(LabelPart)
  <2>1. \A i \in 1..Len(m.label) : m.label[i] \in [name : LabelName, value : Seq(LabelPart) \ {<<>>}]
    BY <1>1, ElementOfSeq
  <2> QED
    BY <1>2, <2>1
<1>4. Empty \in Seq(LabelPart)
  <2>1. \A part \in LabelPart : <<part>> \in Seq(LabelPart)
    OBVIOUS
  <2>2. <<"">> \in Seq(LabelPart)
    BY ONLY MetricsAssumption, <2>1, Zenon
  <2> QED
    BY <2>2 DEF Empty
<1>5. at # {} => Min(at) \in DOMAIN m.label
  <2>1. at \subseteq Nat
    BY <1>2
  <2> QED
    BY <2>1, MinIsMember
<1> QED
  BY <1>3, <1>4, <1>5 DEF LabelValue

\* The label names of a family that is not empty.
LEMMA LabelNamesType ==
  ASSUME NEW ms \in Seq(Metric), ms # <<>>
  PROVE  LabelNames(ms) \in Seq(LabelName)
         /\ {LabelNames(ms)[i] : i \in DOMAIN LabelNames(ms)} = DOMAIN LabelMap(ms[1])
<1>1. ms[1] \in Metric
  BY EmptySeq, LenProperties, ElementOfSeq
<1>2. ms[1].label \in Seq([name : LabelName, value : Seq(LabelPart) \ {<<>>}])
  BY <1>1, AnswerAssumption
<1>3. DOMAIN ms[1].label = 1..Len(ms[1].label) /\ Len(ms[1].label) \in Nat
  BY <1>2, LenProperties
<1>4. \A i \in 1..Len(ms[1].label) : ms[1].label[i].name \in LabelName
  <2> DEFINE labels == ms[1].label
  <2>1. labels \in Seq([name : LabelName, value : Seq(LabelPart) \ {<<>>}])
    BY <1>2
  <2> HIDE DEF labels
  <2>2. \A i \in 1..Len(labels) :
          labels[i] \in [name : LabelName, value : Seq(LabelPart) \ {<<>>}]
    BY <2>1, ElementOfSeq
  <2>3. \A i \in 1..Len(labels) : labels[i].name \in LabelName
    BY <2>2
  <2> QED
    BY <2>3 DEF labels
<1>5. LabelNames(ms) \in Seq(LabelName)
  BY <1>3, <1>4, IsASeq DEF LabelNames
<1> QED
  BY <1>5 DEF LabelNames, LabelMap

\* The series of the answers are the label maps of the published metrics.
LEMMA PublishedSeries ==
  ASSUME ScraperInv, NEW n \in DOMAIN metrics
  PROVE  Series(n) = {LabelMap(m) : m \in Range(metrics[n])}
<1> DEFINE ms == metrics[n]
<1>1. PICK f : Places(f, ms, source, DOMAIN source, n)
  BY RearrangedPlaces DEF ScraperInv, OneRound
<1>2. DOMAIN ms = 1..Len(ms)
  BY LenProperties DEF ScraperInv, TypeOK, IsFamilies
<1>3. \A i \in DOMAIN ms : f[i] \in Exposed(n) /\ ms[i] = Entry(source, n, f[i])
  BY <1>1, <1>2 DEF Places, Exposed
<1>4. \A e \in Exposed(n) : \E i \in DOMAIN ms : ms[i] = Entry(source, n, e)
  BY <1>1, <1>2 DEF Places, Exposed
<1> QED
  BY <1>3, <1>4 DEF Series, Range

\* Of a regular family every metric has all label names, and its key one part for each.
LEMMA RegularKey ==
  ASSUME ScraperInv, NEW n \in DOMAIN metrics, Regular(n), NEW m \in Range(metrics[n])
  PROVE  LET names == LabelNames(metrics[n])
             key   == Key(m, names)
         IN  /\ names \in Seq(LabelName)
             /\ DOMAIN LabelMap(m) = {names[i] : i \in DOMAIN names}
             /\ names = <<>> => key = Empty
             /\ names # <<>> => key \in Seq(LabelPart) /\ Len(key) = Len(names)
             /\ \A i \in DOMAIN names :
                  LabelValue(m, names[i]) = <<key[i]>> /\ key[i] # ""
<1> DEFINE ms == metrics[n]
           names == LabelNames(ms)
           key == Key(m, names)
           values == [i \in DOMAIN names |-> LabelValue(m, names[i])]
<1>1. ms \in Seq(Metric)
  BY DEF ScraperInv, TypeOK, IsFamilies
<1>2. ms # <<>> /\ m \in Metric /\ ms[1] \in Range(ms)
  <2>1. PICK i \in DOMAIN ms : m = ms[i]
    BY DEF Range
  <2>2. DOMAIN ms = 1..Len(ms) /\ Len(ms) \in Nat
    BY <1>1, LenProperties
  <2>3. 1 \in DOMAIN ms
    BY <2>1, <2>2
  <2> QED
    BY <1>1, <2>1, <2>2, <2>3, ElementOfSeq, EmptySeq DEF Range
<1>3. names \in Seq(LabelName) /\ {names[i] : i \in DOMAIN names} = DOMAIN LabelMap(ms[1])
  BY <1>1, <1>2, LabelNamesType
<1>4. LabelMap(m) \in Series(n) /\ LabelMap(ms[1]) \in Series(n)
  BY <1>2, PublishedSeries
<1>5. DOMAIN LabelMap(m) = {names[i] : i \in DOMAIN names}
  BY <1>3, <1>4 DEF Regular
<1>6. \A i \in DOMAIN names : values[i] \in Seq(LabelPart) /\ Len(values[i]) = 1 /\ values[i] # Empty
  <2> TAKE i \in DOMAIN names
  <2>1. names[i] \in DOMAIN LabelMap(m)
    BY <1>5
  <2>2. LabelMap(m)[names[i]] = values[i]
    BY <2>1 DEF LabelMap
  <2> QED
    BY <1>2, <1>4, <2>1, <2>2, LabelValueType DEF Regular
<1>7. \A i \in DOMAIN names : values[i] = <<values[i][1]>> /\ values[i][1] \in LabelPart /\ values[i][1] # ""
  <2> TAKE i \in DOMAIN names
  <2> DEFINE v == values[i]
  <2>1. v \in Seq(LabelPart) /\ Len(v) = 1 /\ v # Empty
    BY <1>6
  <2> HIDE DEF v
  <2>2. v[1] \in LabelPart
    BY <2>1, ElementOfSeq
  <2>3. v = <<v[1]>>
    BY <2>1, <2>2, SeqEqual
  <2> QED
    BY <2>1, <2>2, <2>3 DEF Empty, v
<1>8. names = <<>> => DOMAIN names = {} /\ key = Empty
  BY DEF Key
<1>9. CASE names # <<>>
  <2>1. DOMAIN names = 1..Len(names) /\ Len(names) \in Nat
    BY <1>3, LenProperties
  <2>2. Len(names) # 0
    BY <1>3, <1>9, EmptySeq
  <2>3. values \in Seq(Seq(LabelPart)) /\ Len(values) = Len(names)
    BY <1>6, <2>1, IsASeq
  <2>4. values # <<>> /\ \A i \in 1..Len(values) : Len(values[i]) = 1
    BY <1>6, <2>1, <2>2, <2>3, EmptySeq
  <2>5. key = [i \in 1..Len(values) |-> values[i][1]]
    <3>1. key = FlattenSeq(values)
      BY <1>9 DEF Key
    <3> HIDE DEF values, key
    <3> QED
      BY <2>3, <2>4, <3>1, FlattenSingles
  <2>6. \A i \in 1..Len(names) : values[i][1] \in LabelPart
    BY <1>7, <2>1
  <2> HIDE DEF key, values, names
  <2>7. key = [i \in 1..Len(names) |-> values[i][1]]
    BY <2>3, <2>5
  <2>8. key \in Seq(LabelPart) /\ Len(key) = Len(names)
    BY <2>1, <2>6, <2>7, IsASeq
  <2>9. \A i \in DOMAIN names : key[i] = values[i][1]
    BY <2>1, <2>7
  <2> QED
    BY <1>3, <1>5, <1>7, <1>9, <2>8, <2>9 DEF key, values, names
<1> QED
  BY <1>3, <1>5, <1>8, <1>9

\* The keys that a family is exposed under.
LEMMA SampleKeys == ASSUME NEW n, NEW ms PROVE DOMAIN Samples(n, ms) = Keys(ms)
BY DEF Samples, sendHistograms, aggregateHistograms, collectGeneric

\* A describable family is not refused: its label names are those of one of its metrics,
\* which the answers have, too.
LEMMA DescribableIsDescribed ==
  ASSUME ScraperInv, NEW n \in DOMAIN metrics, Describable(n)
  PROVE  ~Undescribed(n, metrics[n])
<1> DEFINE ms == metrics[n]
<1>1. PICK f : Places(f, ms, source, DOMAIN source, n)
  BY RearrangedPlaces DEF ScraperInv, OneRound
<1>2. 1 \in 1..Len(ms)
  <2>1. PICK w \in DOMAIN source : n \in DOMAIN source[w]
    BY DEF ScraperInv, OneRound, Rearranged
  <2>2. source[w] \in Answer
    BY <2>1 DEF ScraperInv, TypeOK, IsAnswers
  <2>3. source[w][n] \in Seq(Metric) /\ source[w][n] # <<>>
    BY <2>1, <2>2, AnswerAssumption
  <2>4. 1 \in 1..Len(source[w][n])
    BY <2>3, EmptySeq, LenProperties
  <2>5. <<w, 1>> \in Entries(source, DOMAIN source, n)
    BY <2>1, <2>4, EntriesOf
  <2>6. PICK i \in 1..Len(ms) : f[i] = <<w, 1>>
    BY <1>1, <2>5 DEF Places
  <2>7. Len(ms) \in Nat
    BY LenProperties DEF ScraperInv, TypeOK, IsFamilies
  <2> QED
    BY <2>6, <2>7
<1>3. f[1] \in Exposed(n) /\ ms[1] = Entry(source, n, f[1])
  BY <1>1, <1>2 DEF Places, Exposed
<1>4. LabelNames(ms) = LabelNames(<<Entry(source, n, f[1])>>)
  BY <1>3 DEF LabelNames
<1> QED
  BY <1>3, <1>4 DEF Describable, Undescribed

\* What makes a collection panic.  A family with regular labels has as many label values as
\* names under every key.
LEMMA OddFamilyPanics ==
  ASSUME ScraperInv, Panics(metrics)
  PROVE  \E n \in Converted(metrics) : ~Describable(n) \/ ~Regular(n)
<1>1. PICK n \in Converted(metrics) :
        \/ Undescribed(n, metrics[n])
        \/ \E key \in Keys(metrics[n]) :
             Len(getLabelValues(key)) # Len(LabelNames(metrics[n]))
  BY SampleKeys DEF Panics
<1>2. n \in DOMAIN metrics
  BY DEF Converted
<1> SUFFICES ASSUME Describable(n), Regular(n) PROVE FALSE
  OBVIOUS
<1>3. PICK m \in Range(metrics[n]) :
        Len(getLabelValues(Key(m, LabelNames(metrics[n])))) # Len(LabelNames(metrics[n]))
  BY <1>1, <1>2, DescribableIsDescribed DEF Keys
<1> DEFINE names == LabelNames(metrics[n])
           key == Key(m, names)
<1>4. /\ names \in Seq(LabelName)
      /\ names = <<>> => key = Empty
      /\ names # <<>> => key \in Seq(LabelPart) /\ Len(key) = Len(names)
      /\ \A i \in DOMAIN names : key[i] # ""
  BY <1>2, RegularKey
<1>5. CASE names = <<>>
  <2>1. DOMAIN Empty = {1} /\ Empty[1] = ""
    BY DEF Empty
  <2>2. getLabelValues(Empty) = <<>>
    BY <2>1 DEF getLabelValues
  <2> QED
    BY <1>3, <1>4, <1>5, <2>2
<1>6. CASE names # <<>>
  <2> HIDE DEF key, names
  <2>1. 1 \in DOMAIN names /\ 1 \in DOMAIN key
    <3>1. Len(names) \in Nat /\ Len(names) # 0
      BY <1>4, <1>6, EmptySeq, LenProperties
    <3>2. DOMAIN names = 1..Len(names) /\ DOMAIN key = 1..Len(names)
      BY <1>4, <1>6, LenProperties
    <3> QED
      BY <3>1, <3>2
  <2>2. getLabelValues(key) = key
    BY <1>4, <2>1 DEF getLabelValues
  <2> QED
    BY <1>3, <1>4, <1>6, <2>2 DEF key, names
<1> QED
  BY <1>5, <1>6

\* After a panic nothing is published any more.
CrashInv == crashed => Panics(metrics)

\* A collection panics only on a family without a help text (counter.go:24, gauge.go:24,
\* histogram.go:28), with label names that NewDesc refuses, or with irregular labels
\* (collector.go:94-107): never on one without labels, with several, or with the same labels
\* in another order.
THEOREM PanicNeedsOddFamilyHolds == Spec => []PanicNeedsOddFamily
<1>1. Init => CrashInv
  BY DEF Init, CrashInv
<1>2. CrashInv /\ [Next]_vars => CrashInv'
  <2> SUFFICES ASSUME CrashInv, [Next]_vars PROVE CrashInv'
    OBVIOUS
  <2>1. CASE crashed' # crashed
    <3>1. Collect
      BY <2>1 DEF Next, vars, Cancel, Tick, RoundBegins, ServeStops, Publish, Visit, Goroutine,
         ScrapeFails, ScrapeDone, Merge
    <3>2. metrics' = metrics /\ crashed' = Panics(metrics)
      BY <3>1 DEF Collect, collectorVars
    <3> QED
      BY <3>2 DEF CrashInv
  <2>2. CASE crashed' = crashed
    <3> SUFFICES ASSUME crashed PROVE metrics' = metrics
      BY <2>2 DEF CrashInv
    <3> QED
      BY DEF Next, vars, collectorVars
  <2> QED
    BY <2>1, <2>2
<1>3. CrashInv /\ ScraperInv => PanicNeedsOddFamily
  BY OddFamilyPanics DEF CrashInv, PanicNeedsOddFamily
<1> QED
  BY <1>1, <1>2, <1>3, ScraperInvariant, PTL DEF Spec

\* The key of a regular metric determines its label map.
LEMMA KeyMapOf ==
  ASSUME ScraperInv, NEW n \in DOMAIN metrics, Regular(n), NEW m \in Range(metrics[n])
  PROVE  KeyMap(Key(m, LabelNames(metrics[n])), LabelNames(metrics[n])) = LabelMap(m)
<1> DEFINE names == LabelNames(metrics[n])
           key == Key(m, names)
           at(l) == CHOOSE i \in DOMAIN names : names[i] = l
<1>1. /\ DOMAIN LabelMap(m) = {names[i] : i \in DOMAIN names}
      /\ \A i \in DOMAIN names : LabelValue(m, names[i]) = <<key[i]>>
  BY RegularKey
<1> HIDE DEF names, key
<1>2. \A l \in DOMAIN LabelMap(m) : at(l) \in DOMAIN names /\ names[at(l)] = l
  BY <1>1
<1>3. \A l \in DOMAIN LabelMap(m) : LabelMap(m)[l] = <<key[at(l)]>>
  BY <1>1, <1>2 DEF LabelMap
<1>4. KeyMap(key, names) = [l \in DOMAIN LabelMap(m) |-> <<key[at(l)]>>]
  BY <1>1 DEF KeyMap
<1>5. LabelMap(m) = [l \in DOMAIN LabelMap(m) |-> LabelMap(m)[l]]
  BY DEF LabelMap
<1> QED
  BY <1>3, <1>4, <1>5 DEF names, key

\* Metrics with the same labels have the same key, in whatever order they name them.
LEMMA SameKey ==
  ASSUME ScraperInv, NEW n \in DOMAIN metrics, Regular(n),
         NEW m1 \in Range(metrics[n]), NEW m2 \in Range(metrics[n]),
         LabelMap(m1) = LabelMap(m2)
  PROVE  Key(m1, LabelNames(metrics[n])) = Key(m2, LabelNames(metrics[n]))
<1> DEFINE names == LabelNames(metrics[n])
<1>1. \A i \in DOMAIN names : names[i] \in DOMAIN LabelMap(m1) /\ names[i] \in DOMAIN LabelMap(m2)
  BY RegularKey
<1> HIDE DEF names
<1>2. \A i \in DOMAIN names : LabelValue(m1, names[i]) = LabelValue(m2, names[i])
  BY <1>1 DEF LabelMap
<1>3. [i \in DOMAIN names |-> LabelValue(m1, names[i])]
        = [i \in DOMAIN names |-> LabelValue(m2, names[i])]
  BY <1>2
<1> QED
  BY <1>3 DEF Key, names

\* A collection exposes the series of the answers of one round, each once: two keys never
\* stand for the same labels, and no two series fall together (collector.go:84-107).
THEOREM SeriesOnceHolds == Spec => []SeriesOnce
<1>1. ScraperInv => SeriesOnce
  <2> SUFFICES ASSUME ScraperInv, NEW n \in Converted(metrics), Regular(n)
               PROVE  LET names == LabelNames(metrics[n])
                          keys  == DOMAIN Samples(n, metrics[n])
                      IN  /\ {KeyMap(key, names) : key \in keys} = Series(n)
                          /\ \A k1, k2 \in keys :
                               KeyMap(k1, names) = KeyMap(k2, names) => k1 = k2
    BY DEF SeriesOnce
  <2> DEFINE names == LabelNames(metrics[n])
             ms == Range(metrics[n])
             keys == DOMAIN Samples(n, metrics[n])
  <2>1. n \in DOMAIN metrics
    BY DEF Converted
  <2>2. keys = {Key(m, names) : m \in ms}
    BY SampleKeys DEF Keys
  <2>3. \A m \in ms : KeyMap(Key(m, names), names) = LabelMap(m)
    BY <2>1, KeyMapOf
  <2>4. {KeyMap(key, names) : key \in keys} = {LabelMap(m) : m \in ms}
    <3> HIDE DEF keys, names, ms
    <3> QED
      BY <2>2, <2>3
  <2>5. Series(n) = {LabelMap(m) : m \in ms}
    BY <2>1, PublishedSeries
  <2>6. ASSUME NEW k1 \in keys, NEW k2 \in keys, KeyMap(k1, names) = KeyMap(k2, names)
        PROVE  k1 = k2
    <3>1. PICK m1 \in ms : k1 = Key(m1, names)
      BY <2>2
    <3>2. PICK m2 \in ms : k2 = Key(m2, names)
      BY <2>2
    <3>3. LabelMap(m1) = LabelMap(m2)
      BY <2>3, <2>6, <3>1, <3>2
    <3> QED
      BY <2>1, <3>1, <3>2, <3>3, SameKey
  <2> QED
    BY <2>4, <2>5, <2>6
<1> QED
  BY <1>1, ScraperInvariant, PTL

-----------------------------------------------------------------------------
(* Induction, folds and sums, for the numbers that are exposed.              *)

\* Induction over the parts of a finite set, for a set of good ones.
LEMMA PartInduction ==
  ASSUME NEW S, IsFiniteSet(S), NEW Good,
         \A T \in SUBSET S : (\A U \in SUBSET T : U # T => U \in Good) => T \in Good
  PROVE  SUBSET S \subseteq Good
<1> DEFINE Bad == {k \in Nat : \E T \in SUBSET S : T \notin Good /\ Cardinality(T) = k}
<1>1. \A T \in SUBSET S : IsFiniteSet(T) /\ Cardinality(T) \in Nat
  BY FS_Subset, FS_CardinalityType
<1>2. ASSUME NEW m \in Bad, \A k \in Bad : m <= k PROVE FALSE
  <2>1. PICK T \in SUBSET S : T \notin Good /\ Cardinality(T) = m
    OBVIOUS
  <2>2. PICK U \in SUBSET T : U # T /\ U \notin Good
    BY <2>1
  <2>3. U \in SUBSET S /\ Cardinality(U) < Cardinality(T)
    <3>1. /\ Cardinality(U) \in Nat /\ Cardinality(T) \in Nat
          /\ Cardinality(U) <= Cardinality(T) /\ Cardinality(U) # Cardinality(T)
      BY <1>1, <2>2, FS_Subset
    <3> QED
      BY <2>2, <3>1
  <2>4. Cardinality(U) \in Bad
    BY <1>1, <2>2, <2>3
  <2> QED
    BY <1>1, <1>2, <2>1, <2>3, <2>4
<1>3. Bad = {}
  <2> SUFFICES ASSUME Bad # {} PROVE FALSE
    OBVIOUS
  <2> HIDE DEF Bad
  <2>1. Bad \subseteq Nat
    BY DEF Bad
  <2> QED
    BY <1>2, <2>1, LeastNumber
<1> QED
  BY <1>1, <1>3

\* f takes each part of S to what step makes of its picked element and the rest.
Iterates(f, S, base, pick, step) ==
  \A T \in SUBSET S :
    f[T] = IF T = {} THEN base ELSE step[<<pick[T], f[T \ {pick[T]}]>>]

\* Recursion over the parts of a finite set: there is no least size at which it has no
\* solution, because one for smaller parts extends to the next size.
LEMMA SetRecursion ==
  ASSUME NEW S, IsFiniteSet(S), NEW V, NEW base \in V,
         NEW pick \in [(SUBSET S) \ {{}} -> S], \A T \in (SUBSET S) \ {{}} : pick[T] \in T,
         NEW step \in [S \X V -> V]
  PROVE  \E f \in [SUBSET S -> V] : Iterates(f, S, base, pick, step)
<1> DEFINE Sized(k) == {T \in SUBSET S : Cardinality(T) <= k}
           Rest(T) == T \ {pick[T]}
           Solves(f, k) == /\ f \in [Sized(k) -> V]
                           /\ \A T \in Sized(k) :
                                f[T] = IF T = {} THEN base ELSE step[<<pick[T], f[Rest(T)]>>]
           Bad == {k \in Nat : ~\E f : Solves(f, k)}
<1>1. \A T \in SUBSET S : IsFiniteSet(T) /\ Cardinality(T) \in Nat
  BY FS_Subset, FS_CardinalityType
<1>2. \A T \in (SUBSET S) \ {{}} :
        pick[T] \in S /\ Rest(T) \in SUBSET S /\ Cardinality(Rest(T)) = Cardinality(T) - 1
  BY <1>1, FS_RemoveElement
<1>3. ASSUME NEW m \in Bad, \A k \in Bad : m <= k PROVE FALSE
  <2> HIDE DEF Solves
  <2>1. m \in Nat
    OBVIOUS
  <2>2. CASE m = 0
    <3> DEFINE f == [T \in Sized(0) |-> base]
    <3>1. \A T \in Sized(0) : T = {}
      BY <1>1, FS_EmptySet
    <3>2. Solves(f, 0)
      BY <3>1 DEF Solves
    <3> QED
      BY <2>2, <3>2
  <2>3. CASE m # 0
    <3>1. m - 1 \in Nat /\ ~(m <= m - 1)
      BY <2>1, <2>3
    <3>2. PICK f : Solves(f, m - 1)
      BY <1>3, <3>1
    <3> DEFINE g == [T \in Sized(m) |->
                       IF T = {} THEN base ELSE step[<<pick[T], f[Rest(T)]>>]]
    <3>3. \A T \in Sized(m) \ {{}} : Rest(T) \in Sized(m - 1)
      BY <1>1, <1>2, <2>1
    <3>4. \A T \in Sized(m - 1) : T \in Sized(m) /\ g[T] = f[T]
      BY <1>1, <2>1, <3>2 DEF Solves
    <3>5. g \in [Sized(m) -> V]
      <4>1. \A T \in Sized(m) \ {{}} : pick[T] \in S /\ f[Rest(T)] \in V
        BY <1>2, <3>2, <3>3 DEF Solves
      <4> QED
        BY <4>1
    <3>6. Solves(g, m)
      <4> HIDE DEF Sized
      <4>1. \A T \in Sized(m) \ {{}} : g[Rest(T)] = f[Rest(T)]
        BY <3>3, <3>4
      <4> QED
        BY <3>5, <4>1 DEF Solves
    <3> QED
      BY <3>6
  <2> QED
    BY <2>2, <2>3
<1>4. Bad = {}
  <2> SUFFICES ASSUME Bad # {} PROVE FALSE
    OBVIOUS
  <2> HIDE DEF Bad
  <2>1. Bad \subseteq Nat
    BY DEF Bad
  <2>2. \E m \in Bad : \A k \in Bad : m <= k
    BY <2>1, LeastNumber
  <2> QED
    BY <1>3, <2>2
<1>5. PICK f : Solves(f, Cardinality(S))
  <2> HIDE DEF Solves
  <2> QED
    BY <1>1, <1>4
<1>6. Sized(Cardinality(S)) = SUBSET S
  BY FS_Subset
<1> QED
  BY <1>5, <1>6 DEF Iterates

\* sum[T] is the sum of the numbers g[x] for x in T, a part of the domain of g.
IsSum(sum, g) ==
  /\ sum \in [SUBSET DOMAIN g -> Int]
  /\ \A T \in SUBSET DOMAIN g :
       sum[T] = IF T = {} THEN 0
                ELSE g[CHOOSE x \in T : TRUE] + sum[T \ {CHOOSE x \in T : TRUE}]

\* The sum of a function over its domain.
LEMMA SumIsSum ==
  ASSUME NEW S, IsFiniteSet(S), NEW g \in [S -> Int]
  PROVE  \E sum : IsSum(sum, g) /\ SumFunction(g) = sum[S]
<1> DEFINE One(T) == CHOOSE x \in T : TRUE
           Eqn(f) == f = [T \in SUBSET S |-> IF T = {} THEN 0 ELSE g[One(T)] + f[T \ {One(T)}]]
           pick == [T \in (SUBSET S) \ {{}} |-> One(T)]
           step == [p \in S \X Int |-> g[p[1]] + p[2]]
           sum == CHOOSE f : Eqn(f)
<1>1. \A T \in (SUBSET S) \ {{}} : One(T) \in T
  OBVIOUS
<1>2. PICK f \in [SUBSET S -> Int] : Iterates(f, S, 0, pick, step)
  <2>1. pick \in [(SUBSET S) \ {{}} -> S] /\ \A T \in (SUBSET S) \ {{}} : pick[T] \in T
    BY <1>1
  <2>2. step \in [S \X Int -> Int]
    OBVIOUS
  <2>3. 0 \in Int
    OBVIOUS
  <2> HIDE DEF pick, step
  <2> QED
    BY <2>1, <2>2, <2>3, SetRecursion, Zenon
<1>3. Eqn(f)
  BY <1>1, <1>2 DEF Iterates
<1>4. Eqn(sum)
  BY <1>3
<1>5. SumFunction(g) = sum[S]
  BY DEF SumFunction, SumFunctionOnSet, FoldFunctionOnSet, MapThenFoldSet
<1> HIDE DEF sum
<1>6. \A T \in SUBSET S :
        sum[T] = IF T = {} THEN 0 ELSE g[One(T)] + sum[T \ {One(T)}]
  BY <1>4
<1>7. \A T \in SUBSET S : sum[T] \in Int
  <2> DEFINE Good == {T \in SUBSET S : sum[T] \in Int}
  <2> HIDE DEF One, Eqn
  <2>1. ASSUME NEW T \in SUBSET S, \A U \in SUBSET T : U # T => U \in Good
        PROVE  T \in Good
    <3>1. CASE T # {}
      <4>1. One(T) \in T /\ T \ {One(T)} \in Good
        BY <1>1, <2>1, <3>1
      <4>2. g[One(T)] \in Int /\ sum[T \ {One(T)}] \in Int
        BY <4>1
      <4>3. sum[T] = g[One(T)] + sum[T \ {One(T)}]
        BY <1>6, <3>1
      <4> QED
        BY <4>2, <4>3
    <3>2. CASE T = {}
      <4>1. sum[T] = 0
        BY <1>6, <3>2
      <4> QED
        BY <4>1
    <3> QED
      BY <3>1, <3>2
  <2> HIDE DEF Good
  <2>2. SUBSET S \subseteq Good
    BY <2>1, PartInduction
  <2> QED
    BY <2>2 DEF Good
<1> QED
  <2>1. sum \in [SUBSET S -> Int]
    BY <1>4, <1>7
  <2> QED
    BY <1>5, <1>6, <2>1 DEF IsSum

\* In whatever order it is added up.
LEMMA SumAdds ==
  ASSUME NEW S, IsFiniteSet(S), NEW g \in [S -> Int], NEW sum, IsSum(sum, g),
         NEW T \in SUBSET S, NEW x \in T
  PROVE  sum[T] = g[x] + sum[T \ {x}]
<1> DEFINE One(U) == CHOOSE y \in U : TRUE
           Good == {U \in SUBSET S : \A y \in U : sum[U] = g[y] + sum[U \ {y}]}
<1>1. /\ \A U \in SUBSET S : sum[U] \in Int
      /\ \A U \in (SUBSET S) \ {{}} :
           One(U) \in U /\ sum[U] = g[One(U)] + sum[U \ {One(U)}]
  BY DEF IsSum
<1> HIDE DEF One
<1>2. ASSUME NEW U \in SUBSET S, \A W \in SUBSET U : W # U => W \in Good
      PROVE  U \in Good
  <2> SUFFICES ASSUME NEW y \in U, y # One(U) PROVE sum[U] = g[y] + sum[U \ {y}]
    BY <1>1
  <2> DEFINE a == One(U)
             W == U \ {a, y}
  <2>1. a \in U /\ sum[U] = g[a] + sum[U \ {a}]
    BY <1>1
  <2>2. sum[U \ {a}] = g[y] + sum[W]
    <3>1. U \ {a} \in Good /\ y \in U \ {a} /\ (U \ {a}) \ {y} = W
      BY <1>2, <2>1
    <3> QED
      BY <3>1
  <2>3. sum[U \ {y}] = g[a] + sum[W]
    <3>1. U \ {y} \in Good /\ a \in U \ {y} /\ (U \ {y}) \ {a} = W
      BY <1>2, <2>1
    <3> QED
      BY <3>1
  <2>4. g[a] \in Int /\ g[y] \in Int /\ sum[W] \in Int
    BY <1>1, <2>1
  <2> QED
    BY <2>1, <2>2, <2>3, <2>4
<1> HIDE DEF Good
<1>3. SUBSET S \subseteq Good
  BY <1>2, PartInduction
<1> QED
  BY <1>3 DEF Good

\* f takes the positions at of a loop to the elements of S, one to one.
OneToOne(f, at, S) ==
  /\ S = {f[i] : i \in at}
  /\ \A i, j \in at : f[i] = f[j] => i = j

\* The loop over the positions 1..n adds the number g[f[i]] at each position i in at.
AddsUp(loop, n, at, f, S, g) ==
  /\ n \in Nat /\ at \in SUBSET (1..n) /\ g \in [S -> Int]
  /\ OneToOne(f, at, S)
  /\ loop[0] \in Int
  /\ \A i \in 1..n : loop[i] = IF i \in at THEN loop[i - 1] + g[f[i]] ELSE loop[i - 1]

\* Such a loop adds the sum of g, whatever the order in which it comes to g's numbers.
LEMMA LoopSums ==
  ASSUME NEW loop, NEW n, NEW at, NEW f, NEW S, NEW g, AddsUp(loop, n, at, f, S, g)
  PROVE  loop[n] = loop[0] + SumFunction(g)
<1> USE DEF AddsUp, OneToOne
<1> DEFINE Upto(i) == {f[j] : j \in {k \in at : k <= i}}
<1>1. IsFiniteSet(S)
  <2>1. IsFiniteSet(at)
    <3>1. 1 \in Int /\ n \in Int
      OBVIOUS
    <3> QED
      BY <3>1, FS_Interval, FS_Subset
  <2>2. [i \in at |-> f[i]] \in Surjection(at, S)
    BY DEF Surjection
  <2> QED
    BY <2>1, <2>2, FS_Surjection
<1>2. PICK sum : IsSum(sum, g) /\ SumFunction(g) = sum[S]
  BY <1>1, SumIsSum
<1>3. sum[{}] = 0 /\ \A T \in SUBSET S : sum[T] \in Int
  BY <1>2 DEF IsSum
<1>4. ASSUME NEW i \in 1..n, i \in at
      PROVE  Upto(i) \in SUBSET S /\ f[i] \in Upto(i) /\ Upto(i) \ {f[i]} = Upto(i - 1)
  <2>1. \A k \in at : k \in Nat /\ (k <= i <=> k <= i - 1 \/ k = i)
    BY <1>4
  <2>2. \A k \in at : k <= i - 1 => f[k] # f[i]
    BY <1>4, <2>1
  <2> QED
    BY <1>4, <2>1, <2>2
<1>5. ASSUME NEW i \in 1..n, i \notin at PROVE Upto(i) = Upto(i - 1)
  <2>1. \A k \in at : k <= i <=> k <= i - 1
    BY <1>5
  <2> QED
    BY <2>1
<1> DEFINE Bad == {i \in 0..n : loop[i] # loop[0] + sum[Upto(i)]}
<1>6. ASSUME NEW m \in Bad, \A k \in Bad : m <= k PROVE FALSE
  <2>1. Upto(0) = {}
    OBVIOUS
  <2>2. m # 0
    <3>1. sum[Upto(0)] = 0
      BY <1>3, <2>1
    <3> HIDE DEF Upto
    <3>2. loop[0] = loop[0] + sum[Upto(0)]
      BY <3>1
    <3> QED
      BY <3>2
  <2>3. m \in 1..n /\ m - 1 \in 0..n /\ ~(m <= m - 1)
    BY <2>2
  <2>4. loop[m - 1] = loop[0] + sum[Upto(m - 1)]
    BY <1>6, <2>3
  <2>5. Upto(m - 1) \in SUBSET S
    OBVIOUS
  <2>6. loop[m] # loop[0] + sum[Upto(m)]
    OBVIOUS
  <2>7. CASE m \in at
    <3>1. sum[Upto(m)] = g[f[m]] + sum[Upto(m - 1)] /\ g[f[m]] \in Int
      <4> HIDE DEF Upto
      <4>1. sum[Upto(m)] = g[f[m]] + sum[Upto(m) \ {f[m]}]
        BY <1>1, <1>2, <1>4, <2>3, <2>7, SumAdds
      <4> QED
        BY <1>4, <2>3, <2>7, <4>1
    <3>2. loop[m] = loop[m - 1] + g[f[m]]
      BY <2>3, <2>7
    <3>3. sum[Upto(m - 1)] \in Int
      BY <1>3, <2>5
    <3> HIDE DEF Upto
    <3> QED
      BY <2>4, <2>6, <3>1, <3>2, <3>3
  <2>8. CASE m \notin at
    <3> HIDE DEF Upto
    <3> QED
      BY <1>5, <2>3, <2>4, <2>6, <2>8
  <2> QED
    BY <2>7, <2>8
<1>7. Bad = {}
  <2> SUFFICES ASSUME Bad # {} PROVE FALSE
    OBVIOUS
  <2> HIDE DEF Bad
  <2>1. Bad \subseteq Nat
    BY DEF Bad
  <2> QED
    BY <1>6, <2>1, LeastNumber
<1>8. Upto(n) = S
  <2>1. \A k \in at : k <= n
    OBVIOUS
  <2> QED
    BY <2>1
<1> QED
  <2>1. n \in 0..n
    OBVIOUS
  <2> QED
    BY <1>2, <1>7, <1>8, <2>1

\* The set of good numbers holds 0 and with each number below n the next one.
LEMMA Induction ==
  ASSUME NEW n \in Nat, NEW Good, 0 \in Good, \A i \in 1..n : i - 1 \in Good => i \in Good
  PROVE  \A i \in 0..n : i \in Good
<1> DEFINE Bad == {i \in 0..n : i \notin Good}
<1>1. ASSUME NEW m \in Bad, \A k \in Bad : m <= k PROVE FALSE
  <2>1. m \in 1..n /\ m - 1 \in 0..n /\ ~(m <= m - 1)
    OBVIOUS
  <2>2. m - 1 \in Good
    BY <1>1, <2>1
  <2> QED
    BY <2>1, <2>2
<1>2. Bad = {}
  <2> SUFFICES ASSUME Bad # {} PROVE FALSE
    OBVIOUS
  <2> HIDE DEF Bad
  <2>1. Bad \subseteq Nat
    BY DEF Bad
  <2> QED
    BY <1>1, <2>1, LeastNumber
<1> QED
  BY <1>2

\* A set of positions that is not empty has a last one.
LEMMA LastPosition ==
  ASSUME NEW n \in Nat, NEW T \in SUBSET (1..n), T # {}
  PROVE  Max(T) \in T /\ \A k \in T : k <= Max(T)
<1> DEFINE S == {n - k : k \in T}
<1>0. \A k \in T : k \in Int /\ 1 <= k /\ k <= n
  OBVIOUS
<1>1. PICK m \in S : \A k \in S : m <= k
  <2>1. \A k \in T : n - k \in Nat
    BY <1>0
  <2>2. S \subseteq Nat /\ S # {}
    BY <2>1
  <2> HIDE DEF S
  <2> QED
    BY <2>2, LeastNumber
<1>2. PICK x \in T : m = n - x
  OBVIOUS
<1>3. \A k \in T : x >= k
  <2> TAKE k \in T
  <2>1. n - k \in S
    OBVIOUS
  <2>2. n - x <= n - k /\ k \in Int /\ x \in Int
    BY <1>0, <1>1, <1>2, <2>1
  <2> QED
    BY <2>2
<1>4. Max(T) \in T /\ \A k \in T : Max(T) >= k
  BY <1>3 DEF Max
<1>5. \A k \in T : Max(T) \in Int /\ k \in Int
  BY <1>0, <1>4
<1> QED
  BY <1>4, <1>5

\* The first i positions.
LEMMA FirstPositions ==
  ASSUME NEW n \in Nat, NEW i \in 1..n
  PROVE  /\ 1..i \in SUBSET (1..n) /\ 1..i # {}
         /\ Max(1..i) = i /\ (1..i) \ {Max(1..i)} = 1..(i - 1)
<1>1. 1..i \in SUBSET (1..n) /\ i \in 1..i
  OBVIOUS
<1>2. Max(1..i) \in 1..i /\ i <= Max(1..i)
  BY <1>1, LastPosition
<1>3. Max(1..i) = i
  BY <1>2
<1>4. (1..i) \ {i} = 1..(i - 1)
  OBVIOUS
<1> QED
  BY <1>1, <1>3, <1>4

\* f takes each set of the positions 1..n to what step makes of the last one and the rest.
FoldsLeft(f, n, base, step) ==
  \A T \in SUBSET (1..n) : f[T] = IF T = {} THEN base ELSE step[<<Max(T), f[T \ {Max(T)}]>>]

\* The recursion of a fold from the left has a solution.
LEMMA LeftRecursion ==
  ASSUME NEW n \in Nat, NEW V, NEW base \in V, NEW step \in [(1..n) \X V -> V]
  PROVE  \E f \in [SUBSET (1..n) -> V] : FoldsLeft(f, n, base, step)
<1> DEFINE S == 1..n
           pick == [T \in (SUBSET S) \ {{}} |-> Max(T)]
<1>1. IsFiniteSet(S)
  <2>1. 1 \in Int /\ n \in Int
    OBVIOUS
  <2> QED
    BY <2>1, FS_Interval
<1>2. /\ pick \in [(SUBSET S) \ {{}} -> S]
      /\ \A T \in (SUBSET S) \ {{}} : pick[T] \in T /\ pick[T] = Max(T)
  BY LastPosition
<1> HIDE DEF S, pick
<1>3. step \in [S \X V -> V]
  BY DEF S
<1>4. PICK f \in [SUBSET S -> V] : Iterates(f, S, base, pick, step)
  BY <1>1, <1>2, <1>3, SetRecursion
<1>5. \A T \in SUBSET S : f[T] = IF T = {} THEN base ELSE step[<<Max(T), f[T \ {Max(T)}]>>]
  BY <1>2, <1>4 DEF Iterates
<1> QED
  BY <1>5 DEF S, FoldsLeft

\* What Aggregated computes, metric by metric.
LEMMA AggregatedLoop ==
  ASSUME NEW type, NEW ms \in Seq(Metric), NEW key, \A i \in 1..Len(ms) : ms[i].value \in Int
  PROVE  \E loop :
           /\ loop[0] = 0 /\ Aggregated(type, ms, key) = loop[Len(ms)]
           /\ \A i \in 0..Len(ms) : loop[i] \in Int
           /\ \A i \in 1..Len(ms) :
                loop[i] = IF Key(ms[i], LabelNames(ms)) = key
                            THEN aggregateFn(type, loop[i - 1], ms[i].value) ELSE loop[i - 1]
<1> DEFINE n == Len(ms)
           op(v, m) == IF Key(m, LabelNames(ms)) = key THEN aggregateFn(type, v, m.value) ELSE v
           Eqn(f) == f = [T \in SUBSET DOMAIN ms |->
                            IF T = {} THEN 0 ELSE op(f[T \ {Max(T)}], ms[Max(T)])]
           fold == CHOOSE f : Eqn(f)
           step == [p \in (1..n) \X Int |-> op(p[2], ms[p[1]])]
           loop == [i \in 0..n |-> fold[1..i]]
<1>1. n \in Nat /\ DOMAIN ms = 1..n
  BY LenProperties
<1>2. Aggregated(type, ms, key) = fold[DOMAIN ms]
  BY DEF Aggregated, FoldLeft, MapThenFoldSet
<1>3. \A v \in Int : \A i \in 1..n : op(v, ms[i]) \in Int
  BY DEF aggregateFn, CounterValue, GaugeValue
<1> HIDE DEF op
<1>4. \E f : Eqn(f)
  <2>1. 0 \in Int /\ step \in [(1..n) \X Int -> Int]
    BY <1>3
  <2>2. PICK f \in [SUBSET (1..n) -> Int] : FoldsLeft(f, n, 0, step)
    <3> HIDE DEF step, n
    <3> QED
      BY <1>1, <2>1, LeftRecursion, Zenon
  <2>3. \A T \in SUBSET (1..n) : T # {} =>
          step[<<Max(T), f[T \ {Max(T)}]>>] = op(f[T \ {Max(T)}], ms[Max(T)])
    <3> TAKE T \in SUBSET (1..n)
    <3> HAVE T # {}
    <3>1. Max(T) \in 1..n /\ f[T \ {Max(T)}] \in Int
      BY <1>1, LastPosition
    <3> QED
      BY <3>1
  <2> HIDE DEF step, n
  <2>4. Eqn(f)
    BY <1>1, <2>2, <2>3 DEF FoldsLeft
  <2> QED
    BY <2>4
<1>5. Eqn(fold)
  BY <1>4
<1> HIDE DEF fold, n, step
<1>6. loop[0] = 0 /\ loop[n] = fold[DOMAIN ms]
  <2>1. 1..0 = {} /\ 0 \in 0..n /\ n \in 0..n
    BY <1>1
  <2> QED
    BY <1>1, <1>5, <2>1
<1>7. ASSUME NEW i \in 1..n PROVE loop[i] = op(loop[i - 1], ms[i])
  <2>1. i \in 0..n /\ i - 1 \in 0..n
    BY <1>1
  <2>2. fold[1..i] = op(fold[1..(i - 1)], ms[i])
    <3>1. /\ 1..i \in SUBSET DOMAIN ms /\ 1..i # {}
          /\ Max(1..i) = i /\ (1..i) \ {Max(1..i)} = 1..(i - 1)
      BY <1>1, FirstPositions
    <3>2. fold[1..i] = op(fold[(1..i) \ {Max(1..i)}], ms[Max(1..i)])
      BY <1>5, <3>1
    <3> QED
      BY <3>1, <3>2
  <2> QED
    BY <2>1, <2>2
<1> HIDE DEF loop
<1>8. \A i \in 0..n : loop[i] \in Int
  <2> DEFINE Good == {i \in 0..n : loop[i] \in Int}
  <2>1. 0 \in Good
    BY <1>1, <1>6
  <2>2. ASSUME NEW i \in 1..n, i - 1 \in Good PROVE i \in Good
    <3>1. i \in 0..n /\ loop[i - 1] \in Int
      BY <1>1, <2>2
    <3>2. loop[i] \in Int
      BY <1>3, <1>7, <3>1
    <3> QED
      BY <3>1, <3>2
  <2> HIDE DEF Good
  <2>3. \A i \in 0..n : i \in Good
    BY <1>1, <2>1, <2>2, Induction
  <2> QED
    BY <2>3 DEF Good
<1> QED
  BY <1>2, <1>6, <1>7, <1>8 DEF n, op

-----------------------------------------------------------------------------
(* Buckets and histograms.                                                 *)

Bucket == [bound : Nat \cup {Inf}, n : Int]
Histogram == [count : Int, sum : Int, bucket : Seq(Bucket)]

\* The number of the bucket with a bound, if there is one.
NumberOf(buckets, bound) ==
  IF \E i \in DOMAIN buckets : buckets[i].bound = bound
    THEN buckets[CHOOSE i \in DOMAIN buckets : buckets[i].bound = bound].n ELSE 0

BoundsOf(buckets) == {buckets[i].bound : i \in DOMAIN buckets}

\* Only the infinite bound may be there more than once.
BoundsDiffer(buckets) ==
  \A i, j \in DOMAIN buckets :
    buckets[i].bound = buckets[j].bound /\ buckets[i].bound # Inf => i = j

InfBuckets(buckets) == {buckets[i] : i \in {j \in DOMAIN buckets : buckets[j].bound = Inf}}

\* new is what old becomes when the numbers more[b] are added to the buckets with bound b, and
\* the infinite buckets inf are perhaps appended.
Grows(old, new, bounds, more, inf) ==
  /\ new \in Seq(Bucket) /\ BoundsDiffer(new)
  /\ BoundsOf(new) = BoundsOf(old) \cup bounds
  /\ \A b \in Nat : NumberOf(new, b) = NumberOf(old, b) + more[b]
  /\ InfBuckets(new) \subseteq InfBuckets(old) \cup inf

LEMMA NumberType ==
  ASSUME NEW buckets \in Seq(Bucket), NEW b PROVE NumberOf(buckets, b) \in Int
<1>1. \A i \in DOMAIN buckets : buckets[i].n \in Int
  <2>1. \A i \in DOMAIN buckets : buckets[i] \in Bucket
    BY ElementOfSeq, LenProperties
  <2> QED
    BY <2>1 DEF Bucket
<1> QED
  BY <1>1 DEF NumberOf

\* In buckets whose bounds differ the number of a bound is that of its bucket.
LEMMA NumberIs ==
  ASSUME NEW buckets, BoundsDiffer(buckets), NEW i \in DOMAIN buckets, buckets[i].bound # Inf
  PROVE  NumberOf(buckets, buckets[i].bound) = buckets[i].n
<1> DEFINE b == buckets[i].bound
           at == CHOOSE j \in DOMAIN buckets : buckets[j].bound = b
<1>1. at \in DOMAIN buckets /\ buckets[at].bound = b
  OBVIOUS
<1>2. at = i
  BY <1>1 DEF BoundsDiffer
<1> QED
  BY <1>2 DEF NumberOf

\* One bucket more.
LEMMA BucketGrows ==
  ASSUME NEW old \in Seq(Bucket), BoundsDiffer(old), NEW new \in Bucket
  PROVE  Grows(old, aggregateBucket(old, new), {new.bound},
               [b \in Nat |-> IF b = new.bound THEN new.n ELSE 0], {new})
<1> DEFINE bs == aggregateBucket(old, new)
           x == new.bound
           more == [b \in Nat |-> IF b = x THEN new.n ELSE 0]
<1>0. /\ x \in Nat \cup {Inf} /\ new.n \in Int /\ Inf \notin Nat
      /\ DOMAIN old = 1..Len(old) /\ Len(old) \in Nat
      /\ \A i \in DOMAIN old : /\ old[i] \in Bucket
                               /\ old[i].bound \in Nat \cup {Inf} /\ old[i].n \in Int
  <2>1. DOMAIN old = 1..Len(old) /\ Len(old) \in Nat
    BY LenProperties
  <2>2. \A i \in DOMAIN old : old[i] \in Bucket
    BY <2>1, ElementOfSeq
  <2> QED
    BY <2>1, <2>2, MetricsAssumption DEF Bucket
<1>1. CASE \E i \in DOMAIN old : SameBound(old[i].bound, x)
  <2>1. PICK k \in DOMAIN old : old[k].bound = x /\ x # Inf
    BY <1>1 DEF SameBound
  <2>2. bs = [i \in DOMAIN old |-> IF SameBound(old[i].bound, x)
                                     THEN [old[i] EXCEPT !.n = @ + new.n] ELSE old[i]]
    BY <1>1 DEF aggregateBucket
  <2>3. \A i \in DOMAIN old : SameBound(old[i].bound, x) <=> i = k
    BY <2>1 DEF SameBound, BoundsDiffer
  <2>4. bs = [i \in DOMAIN old |-> IF i = k THEN [old[i] EXCEPT !.n = @ + new.n] ELSE old[i]]
    BY <2>2, <2>3
  <2> HIDE DEF bs
  <2>5. \A i \in DOMAIN old : /\ bs[i] \in Bucket /\ bs[i].bound = old[i].bound
                              /\ bs[i].n = IF i = k THEN old[i].n + new.n ELSE old[i].n
    BY <1>0, <2>1, <2>4 DEF Bucket
  <2>6. bs \in Seq(Bucket) /\ DOMAIN bs = DOMAIN old
    BY <1>0, <2>4, <2>5, IsASeq
  <2>7. BoundsDiffer(bs) /\ BoundsOf(bs) = BoundsOf(old) \cup {x}
    <3>1. BoundsDiffer(bs)
      BY <2>5, <2>6 DEF BoundsDiffer
    <3>2. BoundsOf(bs) = BoundsOf(old)
      BY <2>5, <2>6 DEF BoundsOf
    <3>3. x \in BoundsOf(old)
      BY <2>1 DEF BoundsOf
    <3> QED
      BY <3>1, <3>2, <3>3
  <2>8. ASSUME NEW b \in Nat PROVE NumberOf(bs, b) = NumberOf(old, b) + more[b]
    <3>1. b # Inf
      BY <1>0
    <3>2. CASE \E i \in DOMAIN old : old[i].bound = b
      <4>1. PICK i \in DOMAIN old : old[i].bound = b
        BY <3>2
      <4>2. NumberOf(old, b) = old[i].n /\ NumberOf(bs, b) = bs[i].n
        BY <2>5, <2>6, <2>7, <3>1, <4>1, NumberIs
      <4>3. i = k <=> b = x
        BY <2>1, <3>1, <4>1 DEF BoundsDiffer
      <4> QED
        BY <1>0, <2>5, <4>1, <4>2, <4>3
    <3>3. CASE ~\E i \in DOMAIN old : old[i].bound = b
      <4>1. NumberOf(old, b) = 0 /\ NumberOf(bs, b) = 0
        BY <2>5, <2>6, <3>3 DEF NumberOf
      <4>2. b # x
        BY <2>1, <3>3
      <4> QED
        BY <4>1, <4>2
    <3> QED
      BY <3>2, <3>3
  <2>9. InfBuckets(bs) \subseteq InfBuckets(old) \cup {new}
    <3> SUFFICES ASSUME NEW i \in DOMAIN bs, bs[i].bound = Inf PROVE bs[i] \in InfBuckets(old)
      BY DEF InfBuckets
    <3>1. i # k /\ bs[i] = old[i]
      BY <2>1, <2>4, <2>5, <2>6
    <3> QED
      BY <2>6, <3>1 DEF InfBuckets
  <2> HIDE DEF more
  <2> QED
    BY <2>6, <2>7, <2>8, <2>9 DEF Grows, bs, more
<1>2. CASE ~\E i \in DOMAIN old : SameBound(old[i].bound, x)
  <2>1. bs = Append(old, new)
    BY <1>2 DEF aggregateBucket
  <2>2. x # Inf => \A i \in DOMAIN old : old[i].bound # x
    BY <1>2 DEF SameBound
  <2> HIDE DEF bs
  <2> DEFINE n == Len(old) + 1
  <2>3. /\ bs \in Seq(Bucket) /\ DOMAIN bs = 1..n
        /\ bs[n] = new /\ \A i \in DOMAIN old : bs[i] = old[i]
    <3>1. /\ Append(old, new) \in Seq(Bucket) /\ Len(Append(old, new)) = Len(old) + 1
          /\ \A i \in 1..Len(old) : Append(old, new)[i] = old[i]
          /\ Append(old, new)[Len(old) + 1] = new
      BY AppendProperties
    <3> QED
      BY <1>0, <2>1, <3>1, LenProperties
  <2>4. /\ n \in DOMAIN bs /\ DOMAIN old \subseteq DOMAIN bs
        /\ \A i \in DOMAIN bs : i = n \/ i \in DOMAIN old
        /\ n \notin DOMAIN old
    BY <1>0, <2>3
  <2> HIDE DEF n
  <2>5. BoundsDiffer(bs) /\ BoundsOf(bs) = BoundsOf(old) \cup {x}
    <3>1. BoundsDiffer(bs)
      BY <2>2, <2>3, <2>4 DEF BoundsDiffer
    <3>2. BoundsOf(bs) = BoundsOf(old) \cup {x}
      BY <2>3, <2>4 DEF BoundsOf
    <3> QED
      BY <3>1, <3>2
  <2>6. ASSUME NEW b \in Nat PROVE NumberOf(bs, b) = NumberOf(old, b) + more[b]
    <3>1. b # Inf
      BY <1>0
    <3>2. CASE \E i \in DOMAIN old : old[i].bound = b
      <4>1. PICK i \in DOMAIN old : old[i].bound = b
        BY <3>2
      <4>2. bs[i] = old[i] /\ i \in DOMAIN bs
        BY <2>3, <2>4
      <4>3. NumberOf(old, b) = old[i].n /\ NumberOf(bs, b) = old[i].n
        <5>1. NumberOf(old, b) = old[i].n
          BY <3>1, <4>1, NumberIs
        <5>2. NumberOf(bs, b) = bs[i].n
          BY <2>5, <3>1, <4>1, <4>2, NumberIs
        <5> QED
          BY <4>2, <5>1, <5>2
      <4>4. b # x
        BY <2>2, <3>1, <4>1
      <4> QED
        BY <1>0, <4>3, <4>4
    <3>3. CASE /\ ~\E i \in DOMAIN old : old[i].bound = b
               /\ b = x
      <4>1. NumberOf(old, b) = 0
        BY <3>3 DEF NumberOf
      <4>2. NumberOf(bs, b) = new.n
        BY <2>3, <2>4, <2>5, <3>1, <3>3, NumberIs
      <4> QED
        BY <1>0, <3>3, <4>1, <4>2
    <3>4. CASE /\ ~\E i \in DOMAIN old : old[i].bound = b
               /\ b # x
      <4>1. ~\E i \in DOMAIN bs : bs[i].bound = b
        BY <2>3, <2>4, <3>4
      <4>2. NumberOf(old, b) = 0 /\ NumberOf(bs, b) = 0
        BY <3>4, <4>1 DEF NumberOf
      <4> QED
        BY <3>4, <4>2
    <3> QED
      BY <3>2, <3>3, <3>4
  <2>7. InfBuckets(bs) \subseteq InfBuckets(old) \cup {new}
    BY <2>3, <2>4 DEF InfBuckets
  <2> HIDE DEF more
  <2> QED
    BY <2>3, <2>5, <2>6, <2>7 DEF Grows, bs, more
<1> QED
  BY <1>1, <1>2

\* Adding a bucket keeps the type, whatever the bounds.
LEMMA BucketType ==
  ASSUME NEW old \in Seq(Bucket), NEW new \in Bucket
  PROVE  aggregateBucket(old, new) \in Seq(Bucket)
<1>1. DOMAIN old = 1..Len(old) /\ Len(old) \in Nat /\ \A i \in DOMAIN old : old[i] \in Bucket
  BY LenProperties, ElementOfSeq
<1>2. CASE \E i \in DOMAIN old : SameBound(old[i].bound, new.bound)
  <2> DEFINE bs == [i \in DOMAIN old |-> IF SameBound(old[i].bound, new.bound)
                                           THEN [old[i] EXCEPT !.n = @ + new.n] ELSE old[i]]
  <2>1. \A i \in DOMAIN old : bs[i] \in Bucket
    BY <1>1 DEF Bucket
  <2>2. aggregateBucket(old, new) = bs
    BY <1>2 DEF aggregateBucket
  <2>3. bs \in Seq(Bucket)
    BY <1>1, <2>1, IsASeq
  <2> QED
    BY <2>2, <2>3
<1>3. CASE ~\E i \in DOMAIN old : SameBound(old[i].bound, new.bound)
  BY <1>3, AppendProperties DEF aggregateBucket
<1> QED
  BY <1>2, <1>3

\* What a histogram's buckets become, bucket by bucket of a metric.
LEMMA BucketsLoop ==
  ASSUME NEW old \in Seq(Bucket), NEW bs \in Seq(Bucket)
  PROVE  \E loop :
           /\ loop[0] = old /\ FoldLeft(aggregateBucket, old, bs) = loop[Len(bs)]
           /\ \A i \in 1..Len(bs) : loop[i] = aggregateBucket(loop[i - 1], bs[i])
<1> DEFINE n == Len(bs)
           V == Seq(Bucket)
           Eqn(f) == f = [T \in SUBSET DOMAIN bs |->
                            IF T = {} THEN old ELSE aggregateBucket(f[T \ {Max(T)}], bs[Max(T)])]
           fold == CHOOSE f : Eqn(f)
           step == [p \in (1..n) \X V |-> aggregateBucket(p[2], bs[p[1]])]
           loop == [i \in 0..n |-> fold[1..i]]
<1>1. n \in Nat /\ DOMAIN bs = 1..n /\ \A i \in 1..n : bs[i] \in Bucket
  BY LenProperties, ElementOfSeq
<1>2. FoldLeft(aggregateBucket, old, bs) = fold[DOMAIN bs]
  BY DEF FoldLeft, MapThenFoldSet
<1>3. \A v \in V : \A i \in 1..n : aggregateBucket(v, bs[i]) \in V
  <2> TAKE v \in V
  <2> TAKE i \in 1..n
  <2>1. bs[i] \in Bucket
    BY <1>1
  <2> QED
    BY <2>1, BucketType
<1>4. \E f : Eqn(f)
  <2>1. step \in [(1..n) \X V -> V]
    BY <1>3
  <2>2. PICK f \in [SUBSET (1..n) -> V] : FoldsLeft(f, n, old, step)
    <3> HIDE DEF step, n
    <3> QED
      BY <1>1, <2>1, LeftRecursion, Zenon
  <2>3. \A T \in SUBSET (1..n) : T # {} =>
          step[<<Max(T), f[T \ {Max(T)}]>>] = aggregateBucket(f[T \ {Max(T)}], bs[Max(T)])
    <3> TAKE T \in SUBSET (1..n)
    <3> HAVE T # {}
    <3>1. Max(T) \in 1..n /\ f[T \ {Max(T)}] \in V
      BY <1>1, LastPosition
    <3> HIDE DEF V
    <3> QED
      BY <3>1
  <2> HIDE DEF step, n
  <2>4. Eqn(f)
    BY <1>1, <2>2, <2>3 DEF FoldsLeft
  <2> QED
    BY <2>4
<1>5. Eqn(fold)
  BY <1>4
<1> HIDE DEF fold, n, step
<1>6. loop[0] = old /\ loop[n] = fold[DOMAIN bs]
  <2>1. 1..0 = {} /\ 0 \in 0..n /\ n \in 0..n
    BY <1>1
  <2> QED
    BY <1>1, <1>5, <2>1
<1>7. ASSUME NEW i \in 1..n PROVE loop[i] = aggregateBucket(loop[i - 1], bs[i])
  <2>1. i \in 0..n /\ i - 1 \in 0..n
    BY <1>1
  <2>2. fold[1..i] = aggregateBucket(fold[1..(i - 1)], bs[i])
    <3>1. /\ 1..i \in SUBSET DOMAIN bs /\ 1..i # {}
          /\ Max(1..i) = i /\ (1..i) \ {Max(1..i)} = 1..(i - 1)
      BY <1>1, FirstPositions
    <3>2. fold[1..i] = aggregateBucket(fold[(1..i) \ {Max(1..i)}], bs[Max(1..i)])
      BY <1>5, <3>1
    <3> QED
      BY <3>1, <3>2
  <2> QED
    BY <2>1, <2>2
<1> HIDE DEF loop
<1> QED
  BY <1>2, <1>6, <1>7 DEF n

\* The buckets of a metric m more: BucketCount(m, b) for each bound b.
LEMMA BucketsGrow ==
  ASSUME NEW old \in Seq(Bucket), BoundsDiffer(old), NEW m, m.bucket \in Seq(Bucket)
  PROVE  Grows(old, FoldLeft(aggregateBucket, old, m.bucket), Bounds(m),
               [b \in Nat |-> BucketCount(m, b)], InfBuckets(m.bucket))
<1> DEFINE bs == m.bucket
           n == Len(bs)
           At(b) == {i \in DOMAIN bs : bs[i].bound = b}
           Numbers(b) == [i \in At(b) |-> bs[i].n]
<1>1. /\ n \in Nat /\ DOMAIN bs = 1..n
      /\ \A i \in 1..n : bs[i] \in Bucket /\ bs[i].n \in Int
  <2>1. n \in Nat /\ DOMAIN bs = 1..n /\ \A i \in 1..n : bs[i] \in Bucket
    BY LenProperties, ElementOfSeq
  <2> QED
    BY <2>1 DEF Bucket
<1>2. PICK loop :
        /\ loop[0] = old /\ FoldLeft(aggregateBucket, old, bs) = loop[n]
        /\ \A i \in 1..n : loop[i] = aggregateBucket(loop[i - 1], bs[i])
  BY BucketsLoop
<1> HIDE DEF bs, n
<1> DEFINE Good == {i \in 0..n :
                      /\ loop[i] \in Seq(Bucket) /\ BoundsDiffer(loop[i])
                      /\ BoundsOf(loop[i]) = BoundsOf(old) \cup {bs[j].bound : j \in 1..i}
                      /\ InfBuckets(loop[i]) \subseteq InfBuckets(old) \cup InfBuckets(bs)}
<1>3. ASSUME NEW i \in 1..n, loop[i - 1] \in Seq(Bucket), BoundsDiffer(loop[i - 1])
      PROVE  Grows(loop[i - 1], loop[i], {bs[i].bound},
                   [b \in Nat |-> IF b = bs[i].bound THEN bs[i].n ELSE 0], {bs[i]})
  <2>1. bs[i] \in Bucket /\ loop[i] = aggregateBucket(loop[i - 1], bs[i])
    BY <1>1, <1>2
  <2> QED
    BY <1>3, <2>1, BucketGrows, Zenon
<1>4. \A i \in 0..n : i \in Good
  <2>1. 0 \in Good
    <3>1. {bs[j].bound : j \in 1..0} = {}
      OBVIOUS
    <3> QED
      BY <1>1, <1>2, <3>1
  <2>2. ASSUME NEW i \in 1..n, i - 1 \in Good PROVE i \in Good
    <3>1. Grows(loop[i - 1], loop[i], {bs[i].bound},
                [b \in Nat |-> IF b = bs[i].bound THEN bs[i].n ELSE 0], {bs[i]})
      BY <1>3, <2>2
    <3>2. loop[i] \in Seq(Bucket) /\ BoundsDiffer(loop[i])
      BY <3>1 DEF Grows
    <3>3. BoundsOf(loop[i]) = BoundsOf(old) \cup {bs[j].bound : j \in 1..i}
      <4>1. BoundsOf(loop[i]) = BoundsOf(loop[i - 1]) \cup {bs[i].bound}
        BY <3>1 DEF Grows
      <4>2. BoundsOf(loop[i - 1]) = BoundsOf(old) \cup {bs[j].bound : j \in 1..(i - 1)}
        BY <2>2
      <4>3. \A j \in 1..i : j \in 1..(i - 1) \/ j = i
        BY <1>1
      <4>4. i \in 1..i /\ 1..(i - 1) \subseteq 1..i
        BY <1>1
      <4> QED
        BY <4>1, <4>2, <4>3, <4>4
    <3>4. InfBuckets(loop[i]) \subseteq InfBuckets(old) \cup InfBuckets(bs)
      <4>1. InfBuckets(loop[i]) \subseteq InfBuckets(loop[i - 1]) \cup {bs[i]}
        BY <3>1 DEF Grows
      <4>2. \A x \in InfBuckets(loop[i]) : x.bound = Inf
        BY DEF InfBuckets
      <4>3. bs[i].bound = Inf => bs[i] \in InfBuckets(bs)
        BY <1>1 DEF InfBuckets
      <4> QED
        BY <2>2, <4>1, <4>2, <4>3
    <3>5. i \in 0..n
      BY <1>1
    <3> QED
      BY <3>2, <3>3, <3>4, <3>5
  <2> HIDE DEF Good
  <2> QED
    BY <1>1, <2>1, <2>2, Induction
<1> HIDE DEF Good
<1>5. ASSUME NEW b \in Nat
      PROVE  NumberOf(loop[n], b) = NumberOf(old, b) + BucketCount(m, b)
  <2> DEFINE number == [i \in 0..n |-> NumberOf(loop[i], b)]
             id == [i \in At(b) |-> i]
  <2>1. At(b) \in SUBSET (1..n) /\ Numbers(b) \in [At(b) -> Int]
    BY <1>1
  <2>2. number[0] = NumberOf(old, b) /\ number[0] \in Int /\ number[n] = NumberOf(loop[n], b)
    BY <1>1, <1>2, NumberType
  <2>3. ASSUME NEW i \in 1..n
        PROVE  number[i] = IF i \in At(b) THEN number[i - 1] + Numbers(b)[id[i]]
                                          ELSE number[i - 1]
    <3>1. /\ i - 1 \in 0..n /\ i \in 0..n
          /\ loop[i - 1] \in Seq(Bucket) /\ BoundsDiffer(loop[i - 1])
      <4>1. i - 1 \in 0..n /\ i \in 0..n
        BY <1>1
      <4> QED
        BY <1>4, <4>1 DEF Good
    <3>2. number[i] = number[i - 1] + (IF b = bs[i].bound THEN bs[i].n ELSE 0)
      <4>1. Grows(loop[i - 1], loop[i], {bs[i].bound},
                  [c \in Nat |-> IF c = bs[i].bound THEN bs[i].n ELSE 0], {bs[i]})
        BY <1>3, <3>1
      <4> QED
        BY <3>1, <4>1 DEF Grows
    <3>3. number[i - 1] \in Int
      BY <3>1, NumberType
    <3>4. CASE i \in At(b)
      BY <3>2, <3>4
    <3>5. CASE i \notin At(b)
      <4>1. b # bs[i].bound
        BY <1>1, <3>5
      <4> HIDE DEF number
      <4> QED
        BY <3>2, <3>3, <3>5, <4>1
    <3> QED
      BY <3>4, <3>5
  <2>4. OneToOne(id, At(b), At(b))
    BY DEF OneToOne
  <2>5. BucketCount(m, b) = SumFunction(Numbers(b))
    BY DEF BucketCount, bs
  <2> HIDE DEF number, At, Numbers, id
  <2>6. AddsUp(number, n, At(b), id, At(b), Numbers(b))
    BY <1>1, <2>1, <2>2, <2>3, <2>4 DEF AddsUp
  <2>7. number[n] = number[0] + SumFunction(Numbers(b))
    BY <2>6, LoopSums, Zenon
  <2> QED
    BY <2>2, <2>5, <2>7
<1>6. n \in Good
  <2>1. n \in 0..n
    BY <1>1
  <2> QED
    BY <1>4, <2>1
<1>7. {bs[j].bound : j \in 1..n} = Bounds(m)
  BY <1>1 DEF Bounds, bs
<1> QED
  BY <1>2, <1>5, <1>6, <1>7 DEF Grows, Good, bs, n

LEMMA SumType ==
  ASSUME NEW S, IsFiniteSet(S), NEW g \in [S -> Int]
  PROVE  SumFunction(g) \in Int
<1>1. PICK sum : IsSum(sum, g) /\ SumFunction(g) = sum[S]
  BY SumIsSum
<1>2. S \in SUBSET DOMAIN g
  OBVIOUS
<1> QED
  BY <1>1, <1>2 DEF IsSum

LEMMA BucketCountType ==
  ASSUME NEW m, m.bucket \in Seq(Bucket), NEW b
  PROVE  BucketCount(m, b) \in Int
<1> DEFINE at == {i \in DOMAIN m.bucket : m.bucket[i].bound = b}
           g == [i \in at |-> m.bucket[i].n]
<1>1. IsFiniteSet(at)
  <2>1. DOMAIN m.bucket = 1..Len(m.bucket) /\ 1 \in Int /\ Len(m.bucket) \in Int
    BY LenProperties
  <2>2. IsFiniteSet(DOMAIN m.bucket)
    BY <2>1, FS_Interval
  <2> QED
    BY <2>2, FS_Subset
<1>2. g \in [at -> Int]
  <2>1. \A i \in DOMAIN m.bucket : m.bucket[i] \in Bucket
    BY LenProperties, ElementOfSeq
  <2> QED
    BY <2>1 DEF Bucket
<1> HIDE DEF at, g
<1>3. SumFunction(g) \in Int
  BY <1>1, <1>2, SumType
<1> QED
  BY <1>3 DEF BucketCount, at, g

\* A metric of a histogram.
IsHistogram(m) == m.count \in Int /\ m.sum \in Int /\ m.bucket \in Seq(Bucket)

LEMMA HistogramStep ==
  ASSUME NEW hist \in Histogram, NEW m, IsHistogram(m)
  PROVE  LET new == aggregateHistogramData(hist, m)
         IN  /\ new \in Histogram
             /\ new.count = hist.count + m.count /\ new.sum = hist.sum + m.sum
             /\ new.bucket = FoldLeft(aggregateBucket, hist.bucket, m.bucket)
<1>1. hist.count \in Int /\ hist.sum \in Int /\ hist.bucket \in Seq(Bucket)
  BY DEF Histogram
<1>2. FoldLeft(aggregateBucket, hist.bucket, m.bucket) \in Seq(Bucket)
  <2> DEFINE bs == m.bucket
             n == Len(bs)
  <2>1. bs \in Seq(Bucket)
    BY DEF IsHistogram
  <2>2. n \in Nat /\ \A i \in 1..n : bs[i] \in Bucket
    BY <2>1, LenProperties, ElementOfSeq
  <2>3. PICK loop :
          /\ loop[0] = hist.bucket /\ FoldLeft(aggregateBucket, hist.bucket, bs) = loop[n]
          /\ \A i \in 1..n : loop[i] = aggregateBucket(loop[i - 1], bs[i])
    BY <1>1, <2>1, BucketsLoop
  <2> DEFINE Good == {i \in 0..n : loop[i] \in Seq(Bucket)}
  <2> HIDE DEF bs, n
  <2>4. 0 \in Good
    BY <1>1, <2>2, <2>3
  <2>5. ASSUME NEW i \in 1..n, i - 1 \in Good PROVE i \in Good
    <3>1. loop[i - 1] \in Seq(Bucket) /\ bs[i] \in Bucket /\ i \in 0..n
      BY <2>2, <2>5
    <3>2. loop[i] \in Seq(Bucket)
      BY <2>3, <3>1, BucketType
    <3> QED
      BY <3>1, <3>2
  <2> HIDE DEF Good
  <2>6. \A i \in 0..n : i \in Good
    BY <2>2, <2>4, <2>5, Induction
  <2>7. n \in 0..n
    BY <2>2
  <2> QED
    BY <2>3, <2>6, <2>7 DEF Good, bs
<1> QED
  BY <1>1, <1>2 DEF aggregateHistogramData, Histogram, IsHistogram

\* What AggregatedHistogram computes, metric by metric.
LEMMA HistogramLoop ==
  ASSUME NEW ms \in Seq(Metric), NEW key, \A i \in 1..Len(ms) : IsHistogram(ms[i])
  PROVE  \E loop :
           /\ loop[0] = NoHistogram /\ AggregatedHistogram(ms, key) = loop[Len(ms)]
           /\ \A i \in 0..Len(ms) : loop[i] \in Histogram
           /\ \A i \in 1..Len(ms) :
                loop[i] = IF Key(ms[i], LabelNames(ms)) = key
                            THEN aggregateHistogramData(loop[i - 1], ms[i]) ELSE loop[i - 1]
<1> DEFINE n == Len(ms)
           V == Histogram
           op(v, m) == IF Key(m, LabelNames(ms)) = key THEN aggregateHistogramData(v, m) ELSE v
           Eqn(f) == f = [T \in SUBSET DOMAIN ms |->
                            IF T = {} THEN NoHistogram ELSE op(f[T \ {Max(T)}], ms[Max(T)])]
           fold == CHOOSE f : Eqn(f)
           step == [p \in (1..n) \X V |-> op(p[2], ms[p[1]])]
           loop == [i \in 0..n |-> fold[1..i]]
<1>1. n \in Nat /\ DOMAIN ms = 1..n
  BY LenProperties
<1>2. AggregatedHistogram(ms, key) = fold[DOMAIN ms]
  BY DEF AggregatedHistogram, FoldLeft, MapThenFoldSet
<1>3. \A v \in V : \A i \in 1..n : op(v, ms[i]) \in V
  BY HistogramStep
<1>4. NoHistogram \in V
  BY EmptySeq DEF NoHistogram, Histogram
<1> HIDE DEF op, V
<1>5. \E f : Eqn(f)
  <2>1. step \in [(1..n) \X V -> V]
    BY <1>3
  <2>2. PICK f \in [SUBSET (1..n) -> V] : FoldsLeft(f, n, NoHistogram, step)
    <3> HIDE DEF step, n
    <3> QED
      BY <1>1, <1>4, <2>1, LeftRecursion, Zenon
  <2>3. \A T \in SUBSET (1..n) : T # {} =>
          step[<<Max(T), f[T \ {Max(T)}]>>] = op(f[T \ {Max(T)}], ms[Max(T)])
    <3> TAKE T \in SUBSET (1..n)
    <3> HAVE T # {}
    <3>1. Max(T) \in 1..n /\ f[T \ {Max(T)}] \in V
      BY <1>1, LastPosition
    <3> QED
      BY <3>1
  <2> HIDE DEF step, n
  <2>4. Eqn(f)
    BY <1>1, <2>2, <2>3 DEF FoldsLeft
  <2> QED
    BY <2>4
<1>6. Eqn(fold)
  BY <1>5
<1> HIDE DEF fold, n, step
<1>7. loop[0] = NoHistogram /\ loop[n] = fold[DOMAIN ms]
  <2>1. 1..0 = {} /\ 0 \in 0..n /\ n \in 0..n
    BY <1>1
  <2> QED
    BY <1>1, <1>6, <2>1
<1>8. ASSUME NEW i \in 1..n PROVE loop[i] = op(loop[i - 1], ms[i])
  <2>1. i \in 0..n /\ i - 1 \in 0..n
    BY <1>1
  <2>2. fold[1..i] = op(fold[1..(i - 1)], ms[i])
    <3>1. /\ 1..i \in SUBSET DOMAIN ms /\ 1..i # {}
          /\ Max(1..i) = i /\ (1..i) \ {Max(1..i)} = 1..(i - 1)
      BY <1>1, FirstPositions
    <3>2. fold[1..i] = op(fold[(1..i) \ {Max(1..i)}], ms[Max(1..i)])
      BY <1>6, <3>1
    <3> QED
      BY <3>1, <3>2
  <2> QED
    BY <2>1, <2>2
<1> HIDE DEF loop
<1>9. \A i \in 0..n : loop[i] \in V
  <2> DEFINE Good == {i \in 0..n : loop[i] \in V}
  <2>1. 0 \in Good
    BY <1>1, <1>4, <1>7
  <2>2. ASSUME NEW i \in 1..n, i - 1 \in Good PROVE i \in Good
    <3>1. i \in 0..n /\ loop[i - 1] \in V
      BY <1>1, <2>2
    <3>2. loop[i] \in V
      BY <1>3, <1>8, <3>1
    <3> QED
      BY <3>1, <3>2
  <2> HIDE DEF Good
  <2>3. \A i \in 0..n : i \in Good
    BY <1>1, <2>1, <2>2, Induction
  <2> QED
    BY <2>3 DEF Good
<1> QED
  BY <1>2, <1>7, <1>8, <1>9 DEF n, op, V

-----------------------------------------------------------------------------
(* What is exposed adds up.                                                 *)

\* The metrics of the series of a key, and the positions of the published ones.
SeriesOf(n, key) ==
  {e \in Exposed(n) : LabelMap(Entry(source, n, e)) = KeyMap(key, LabelNames(metrics[n]))}

PositionsOf(n, key) ==
  {i \in 1..Len(metrics[n]) : Key(metrics[n][i], LabelNames(metrics[n])) = key}

\* The published metrics have the type of their family.
LEMMA PublishedTypes ==
  ASSUME ScraperInv, NEW n \in DOMAIN metrics
  PROVE  \A i \in 1..Len(metrics[n]) : HasType(metrics[n][i], TypeOf[n])
<1>1. PICK f : Places(f, metrics[n], source, DOMAIN source, n)
  BY RearrangedPlaces DEF ScraperInv, OneRound
<1>2. ASSUME NEW i \in 1..Len(metrics[n]) PROVE HasType(metrics[n][i], TypeOf[n])
  <2>1. f[i] \in Entries(source, DOMAIN source, n) /\ metrics[n][i] = Entry(source, n, f[i])
    BY <1>1 DEF Places
  <2>2. PICK w \in DOMAIN source :
          n \in DOMAIN source[w] /\ \E j \in 1..Len(source[w][n]) : f[i] = <<w, j>>
    BY <2>1, EntriesOf
  <2>3. PICK j \in 1..Len(source[w][n]) : f[i] = <<w, j>>
    BY <2>2
  <2>4. metrics[n][i] = source[w][n][j]
    BY <2>1, <2>3 DEF Entry
  <2>5. source[w] \in Answer
    BY DEF ScraperInv, TypeOK, IsAnswers
  <2>6. j \in DOMAIN source[w][n]
    <3>1. source[w][n] \in Seq(Metric)
      BY <2>2, <2>5, AnswerAssumption
    <3> QED
      BY <3>1, LenProperties
  <2> QED
    BY <2>2, <2>4, <2>5, <2>6, AnswerAssumption
<1> QED
  BY <1>2

\* A family's positions with a key stand for the metrics of the key's series, one to one.
LEMMA SeriesPositions ==
  ASSUME ScraperInv, NEW n \in DOMAIN metrics, Regular(n), NEW key \in Keys(metrics[n])
  PROVE  \E f : /\ OneToOne(f, PositionsOf(n, key), SeriesOf(n, key))
                /\ PositionsOf(n, key) # {}
                /\ \A i \in PositionsOf(n, key) : metrics[n][i] = Entry(source, n, f[i])
<1> DEFINE ms == metrics[n]
           names == LabelNames(ms)
           at == PositionsOf(n, key)
           es == SeriesOf(n, key)
<1>1. PICK f : Places(f, ms, source, DOMAIN source, n)
  BY RearrangedPlaces DEF ScraperInv, OneRound
<1>2. DOMAIN ms = 1..Len(ms)
  BY LenProperties DEF ScraperInv, TypeOK, IsFamilies
<1>3. /\ \A i \in 1..Len(ms) : /\ ms[i] \in Range(ms)
                               /\ f[i] \in Exposed(n) /\ ms[i] = Entry(source, n, f[i])
      /\ \A i, j \in 1..Len(ms) : f[i] = f[j] => i = j
      /\ \A e \in Exposed(n) : \E i \in 1..Len(ms) : f[i] = e
  BY <1>1, <1>2 DEF Places, Exposed, Range
<1>4. PICK k \in 1..Len(ms) : key = Key(ms[k], names)
  BY <1>2 DEF Keys, Range
<1>5. KeyMap(key, names) = LabelMap(ms[k])
  BY <1>3, <1>4, KeyMapOf
<1>6. \A i \in 1..Len(ms) : Key(ms[i], names) = key <=> LabelMap(ms[i]) = KeyMap(key, names)
  <2> TAKE i \in 1..Len(ms)
  <2>1. ms[i] \in Range(ms) /\ ms[k] \in Range(ms)
    BY <1>3
  <2>2. Key(ms[i], names) = key => LabelMap(ms[i]) = KeyMap(key, names)
    BY <2>1, KeyMapOf
  <2>3. LabelMap(ms[i]) = LabelMap(ms[k]) => Key(ms[i], names) = Key(ms[k], names)
    BY <2>1, SameKey
  <2> QED
    BY <1>4, <1>5, <2>2, <2>3
<1>7. k \in at
  BY <1>4 DEF PositionsOf
<1>8. es = {f[i] : i \in at}
  <2>1. \A i \in at : f[i] \in es
    BY <1>3, <1>6 DEF PositionsOf, SeriesOf
  <2>2. \A e \in es : \E i \in at : f[i] = e
    BY <1>3, <1>6 DEF PositionsOf, SeriesOf
  <2> HIDE DEF es, at
  <2> QED
    BY <2>1, <2>2
<1>9. OneToOne(f, at, es)
  BY <1>3, <1>8 DEF OneToOne, PositionsOf
<1> QED
  BY <1>3, <1>7, <1>9 DEF PositionsOf

\* Of finitely many positions.
LEMMA OneToOneFinite ==
  ASSUME NEW f, NEW at, NEW S, IsFiniteSet(at), OneToOne(f, at, S)
  PROVE  IsFiniteSet(S)
<1>1. [i \in at |-> f[i]] \in Surjection(at, S)
  BY DEF Surjection, OneToOne
<1> QED
  BY <1>1, FS_Surjection

\* The metrics of a series are published.
LEMMA SeriesEntries ==
  ASSUME ScraperInv, NEW n \in DOMAIN metrics, NEW key, NEW e \in SeriesOf(n, key)
  PROVE  Entry(source, n, e) \in Range(metrics[n])
<1>1. PICK f : Places(f, metrics[n], source, DOMAIN source, n)
  BY RearrangedPlaces DEF ScraperInv, OneRound
<1>2. DOMAIN metrics[n] = 1..Len(metrics[n])
  BY LenProperties DEF ScraperInv, TypeOK, IsFamilies
<1>3. e \in Exposed(n)
  BY DEF SeriesOf
<1> QED
  BY <1>1, <1>2, <1>3 DEF Places, Exposed, Range

\* A loop over a family that adds val[m] for the metrics m of a key finds the total of the
\* key's series.
LEMMA SeriesAdds ==
  ASSUME ScraperInv, NEW n \in DOMAIN metrics, Regular(n), NEW key \in Keys(metrics[n]),
         NEW val \in [Range(metrics[n]) -> Int], NEW loop, loop[0] = 0,
         \A i \in 1..Len(metrics[n]) :
           loop[i] = IF i \in PositionsOf(n, key) THEN loop[i - 1] + val[metrics[n][i]]
                                                  ELSE loop[i - 1]
  PROVE  loop[Len(metrics[n])]
           = SumFunction([e \in SeriesOf(n, key) |-> val[Entry(source, n, e)]])
<1> DEFINE ms == metrics[n]
           at == PositionsOf(n, key)
           es == SeriesOf(n, key)
           g == [e \in es |-> val[Entry(source, n, e)]]
<1>1. ms \in Seq(Metric) /\ Len(ms) \in Nat
  BY LenProperties DEF ScraperInv, TypeOK, IsFamilies
<1>2. PICK f : OneToOne(f, at, es) /\ \A i \in at : ms[i] = Entry(source, n, f[i])
  BY SeriesPositions
<1>3. at \in SUBSET (1..Len(ms))
  BY DEF PositionsOf
<1>4. \A i \in at : f[i] \in es /\ g[f[i]] = val[ms[i]]
  BY <1>2 DEF OneToOne
<1>5. g \in [es -> Int]
  <2>1. \A e \in es : Entry(source, n, e) \in Range(ms)
    BY SeriesEntries
  <2> QED
    BY <2>1
<1>6. \A i \in 1..Len(ms) : loop[i] = IF i \in at THEN loop[i - 1] + g[f[i]] ELSE loop[i - 1]
  BY <1>4
<1> HIDE DEF g, es, at, ms
<1>7. AddsUp(loop, Len(ms), at, f, es, g)
  BY <1>1, <1>2, <1>3, <1>5, <1>6 DEF AddsUp
<1>8. loop[Len(ms)] = 0 + SumFunction(g)
  BY <1>7, LoopSums
<1>9. SumFunction(g) \in Int
  <2>1. IsFiniteSet(at)
    <3>1. 1 \in Int /\ Len(ms) \in Int
      BY <1>1
    <3> QED
      BY <1>3, <3>1, FS_Interval, FS_Subset
  <2>2. IsFiniteSet(es)
    BY <1>2, <2>1, OneToOneFinite
  <2> QED
    BY <1>5, <2>2, SumType
<1> QED
  BY <1>8, <1>9 DEF ms, es, g

\* Counters.
LEMMA CountersAddUp ==
  ASSUME ScraperInv, NEW n \in DOMAIN metrics, Regular(n), NEW key \in Keys(metrics[n]),
         TypeOf[n] = "counter"
  PROVE  Aggregated("counter", metrics[n], key)
           = SumFunction([e \in SeriesOf(n, key) |-> Entry(source, n, e).value])
<1> DEFINE ms == metrics[n]
           val == [m \in Range(ms) |-> m.value]
<1>1. ms \in Seq(Metric) /\ Len(ms) \in Nat
  BY LenProperties DEF ScraperInv, TypeOK, IsFamilies
<1>2. \A i \in 1..Len(ms) : ms[i].value \in Int
  BY PublishedTypes DEF HasType
<1>3. PICK loop :
        /\ loop[0] = 0 /\ Aggregated("counter", ms, key) = loop[Len(ms)]
        /\ \A i \in 0..Len(ms) : loop[i] \in Int
        /\ \A i \in 1..Len(ms) :
             loop[i] = IF Key(ms[i], LabelNames(ms)) = key
                         THEN aggregateFn("counter", loop[i - 1], ms[i].value) ELSE loop[i - 1]
  BY <1>1, <1>2, AggregatedLoop
<1>4. \A i \in 1..Len(ms) : ms[i] \in Range(ms)
  BY <1>1, LenProperties DEF Range
<1>5. val \in [Range(ms) -> Int]
  BY <1>1, <1>2, LenProperties DEF Range
<1>6. \A i \in 1..Len(ms) : loop[i] = IF i \in PositionsOf(n, key) THEN loop[i - 1] + val[ms[i]]
                                                                   ELSE loop[i - 1]
  BY <1>3, <1>4 DEF PositionsOf, aggregateFn, CounterValue
<1>7. [e \in SeriesOf(n, key) |-> val[Entry(source, n, e)]]
        = [e \in SeriesOf(n, key) |-> Entry(source, n, e).value]
  BY SeriesEntries
<1> HIDE DEF val
<1>8. loop[Len(ms)] = SumFunction([e \in SeriesOf(n, key) |-> val[Entry(source, n, e)]])
  BY <1>3, <1>5, <1>6, SeriesAdds
<1> QED
  BY <1>3, <1>7, <1>8

\* Gauges.
LEMMA GaugesAreAnswered ==
  ASSUME ScraperInv, NEW n \in DOMAIN metrics, Regular(n), NEW key \in Keys(metrics[n]),
         TypeOf[n] = "gauge"
  PROVE  \E e \in SeriesOf(n, key) :
           Aggregated("gauge", metrics[n], key) = Entry(source, n, e).value
<1> DEFINE ms == metrics[n]
           at == PositionsOf(n, key)
           es == SeriesOf(n, key)
<1>1. ms \in Seq(Metric) /\ Len(ms) \in Nat
  BY LenProperties DEF ScraperInv, TypeOK, IsFamilies
<1>2. \A i \in 1..Len(ms) : ms[i].value \in Int
  BY PublishedTypes DEF HasType
<1>3. PICK f : /\ OneToOne(f, at, es) /\ at # {}
               /\ \A i \in at : ms[i] = Entry(source, n, f[i])
  BY SeriesPositions
<1>4. PICK loop :
        /\ Aggregated("gauge", ms, key) = loop[Len(ms)]
        /\ \A i \in 1..Len(ms) :
             loop[i] = IF Key(ms[i], LabelNames(ms)) = key
                         THEN aggregateFn("gauge", loop[i - 1], ms[i].value) ELSE loop[i - 1]
  BY <1>1, <1>2, AggregatedLoop
<1>5. \A i \in 1..Len(ms) : loop[i] = IF i \in at THEN ms[i].value ELSE loop[i - 1]
  BY <1>4 DEF PositionsOf, aggregateFn, GaugeValue
<1>6. at \in SUBSET (1..Len(ms))
  BY DEF PositionsOf
<1> HIDE DEF ms, at, es
<1> DEFINE Good == {i \in 0..Len(ms) : (\E j \in at : j <= i) =>
                                         \E j \in at : loop[i] = ms[j].value}
<1>7. 0 \in Good
  BY <1>1, <1>6
<1>8. ASSUME NEW i \in 1..Len(ms), i - 1 \in Good PROVE i \in Good
  <2>1. i \in 0..Len(ms) /\ i \in Int
    BY <1>1
  <2>2. CASE i \in at
    BY <1>5, <2>1, <2>2
  <2>3. CASE i \notin at
    <3>1. \A j \in at : j <= i => j <= i - 1
      BY <1>6, <2>1, <2>3
    <3> QED
      BY <1>5, <1>8, <2>1, <2>3, <3>1
  <2> QED
    BY <2>2, <2>3
<1> HIDE DEF Good
<1>9. \A i \in 0..Len(ms) : i \in Good
  BY <1>1, <1>7, <1>8, Induction
<1>10. PICK j \in at : loop[Len(ms)] = ms[j].value
  <2>1. Len(ms) \in Good
    BY <1>1, <1>9
  <2>2. \E j \in at : j <= Len(ms)
    BY <1>3, <1>6
  <2> QED
    BY <2>1, <2>2 DEF Good
<1> QED
  BY <1>3, <1>4, <1>10 DEF OneToOne, ms, es

\* Histograms.
LEMMA HistogramsAddUp ==
  ASSUME ScraperInv, NEW n \in DOMAIN metrics, Regular(n), NEW key \in Keys(metrics[n]),
         TypeOf[n] = "histogram"
  PROVE  LET hist  == AggregatedHistogram(metrics[n], key)
             of(e) == Entry(source, n, e)
             es    == SeriesOf(n, key)
         IN  /\ hist \in Histogram /\ BoundsDiffer(hist.bucket)
             /\ hist.count = SumFunction([e \in es |-> of(e).count])
             /\ hist.sum = SumFunction([e \in es |-> of(e).sum])
             /\ BoundsOf(hist.bucket) = UNION {Bounds(of(e)) : e \in es}
             /\ \A b \in Nat :
                  NumberOf(hist.bucket, b) = SumFunction([e \in es |-> BucketCount(of(e), b)])
             /\ \A x \in InfBuckets(hist.bucket) : \E e \in es : x \in InfBuckets(of(e).bucket)
<1> DEFINE ms == metrics[n]
           at == PositionsOf(n, key)
           es == SeriesOf(n, key)
           of(e) == Entry(source, n, e)
           hist == AggregatedHistogram(ms, key)
<1>1. ms \in Seq(Metric) /\ Len(ms) \in Nat /\ DOMAIN ms = 1..Len(ms)
  BY LenProperties DEF ScraperInv, TypeOK, IsFamilies
<1>2. \A i \in 1..Len(ms) : IsHistogram(ms[i])
  BY PublishedTypes DEF HasType, IsHistogram, Bucket
<1>3. \A m \in Range(ms) : m.count \in Int /\ m.sum \in Int /\ m.bucket \in Seq(Bucket)
  BY <1>1, <1>2 DEF Range, IsHistogram
<1>4. PICK loop :
        /\ loop[0] = NoHistogram /\ hist = loop[Len(ms)]
        /\ \A i \in 0..Len(ms) : loop[i] \in Histogram
        /\ \A i \in 1..Len(ms) :
             loop[i] = IF Key(ms[i], LabelNames(ms)) = key
                         THEN aggregateHistogramData(loop[i - 1], ms[i]) ELSE loop[i - 1]
  BY <1>1, <1>2, HistogramLoop
<1>5. \A i \in 1..Len(ms) : ms[i] \in Range(ms) /\ i \in 0..Len(ms) /\ i - 1 \in 0..Len(ms)
  BY <1>1 DEF Range
<1>6. ASSUME NEW i \in 1..Len(ms)
      PROVE  /\ i \notin at => loop[i] = loop[i - 1]
             /\ i \in at =>
                  /\ loop[i].count = loop[i - 1].count + ms[i].count
                  /\ loop[i].sum = loop[i - 1].sum + ms[i].sum
                  /\ loop[i].bucket = FoldLeft(aggregateBucket, loop[i - 1].bucket, ms[i].bucket)
  <2>1. i \in at <=> Key(ms[i], LabelNames(ms)) = key
    BY DEF PositionsOf
  <2>2. loop[i - 1] \in Histogram /\ IsHistogram(ms[i])
    BY <1>2, <1>4, <1>5
  <2> QED
    BY <1>4, <2>1, <2>2, HistogramStep
<1>7. loop[0].count = 0 /\ loop[0].sum = 0 /\ loop[0].bucket = <<>>
  BY <1>4 DEF NoHistogram
<1>8. \A e \in es : of(e) \in Range(ms)
  BY SeriesEntries
<1>9. PICK f : /\ OneToOne(f, at, es)
               /\ \A i \in at : ms[i] = of(f[i])
  BY SeriesPositions
<1>10. at \in SUBSET (1..Len(ms))
  BY DEF PositionsOf
<1>11. \A i \in 0..Len(ms) : loop[i].bucket \in Seq(Bucket)
  BY <1>4 DEF Histogram
<1> HIDE DEF hist
<1>12. hist.count = SumFunction([e \in es |-> of(e).count])
  <2> DEFINE val == [m \in Range(ms) |-> m.count]
             counts == [i \in 0..Len(ms) |-> loop[i].count]
  <2>1. val \in [Range(ms) -> Int]
    BY <1>3
  <2>2. counts[0] = 0 /\ counts[Len(ms)] = hist.count
    BY <1>1, <1>4, <1>7
  <2>3. \A i \in 1..Len(ms) : counts[i] = IF i \in at THEN counts[i - 1] + val[ms[i]]
                                                      ELSE counts[i - 1]
    BY <1>5, <1>6
  <2>4. [e \in es |-> val[of(e)]] = [e \in es |-> of(e).count]
    BY <1>8
  <2> HIDE DEF val, counts
  <2>5. counts[Len(ms)] = SumFunction([e \in es |-> val[of(e)]])
    BY <2>1, <2>2, <2>3, SeriesAdds
  <2> QED
    BY <2>2, <2>4, <2>5
<1>13. hist.sum = SumFunction([e \in es |-> of(e).sum])
  <2> DEFINE val == [m \in Range(ms) |-> m.sum]
             sums == [i \in 0..Len(ms) |-> loop[i].sum]
  <2>1. val \in [Range(ms) -> Int]
    BY <1>3
  <2>2. sums[0] = 0 /\ sums[Len(ms)] = hist.sum
    BY <1>1, <1>4, <1>7
  <2>3. \A i \in 1..Len(ms) : sums[i] = IF i \in at THEN sums[i - 1] + val[ms[i]]
                                                    ELSE sums[i - 1]
    BY <1>5, <1>6
  <2>4. [e \in es |-> val[of(e)]] = [e \in es |-> of(e).sum]
    BY <1>8
  <2> HIDE DEF val, sums
  <2>5. sums[Len(ms)] = SumFunction([e \in es |-> val[of(e)]])
    BY <2>1, <2>2, <2>3, SeriesAdds
  <2> QED
    BY <2>2, <2>4, <2>5
<1> DEFINE Upto(i) == {j \in at : j <= i}
           Good == {i \in 0..Len(ms) :
                      /\ BoundsDiffer(loop[i].bucket)
                      /\ BoundsOf(loop[i].bucket) = UNION {Bounds(ms[j]) : j \in Upto(i)}
                      /\ InfBuckets(loop[i].bucket)
                           \subseteq UNION {InfBuckets(ms[j].bucket) : j \in Upto(i)}}
<1>14. ASSUME NEW i \in 1..Len(ms), i \in at, BoundsDiffer(loop[i - 1].bucket)
       PROVE  Grows(loop[i - 1].bucket, loop[i].bucket, Bounds(ms[i]),
                    [b \in Nat |-> BucketCount(ms[i], b)], InfBuckets(ms[i].bucket))
  <2>1. /\ loop[i].bucket = FoldLeft(aggregateBucket, loop[i - 1].bucket, ms[i].bucket)
        /\ loop[i - 1].bucket \in Seq(Bucket) /\ ms[i].bucket \in Seq(Bucket)
    BY <1>3, <1>5, <1>6, <1>11, <1>14
  <2> QED
    BY <1>14, <2>1, BucketsGrow
<1>15. \A i \in 0..Len(ms) : i \in Good
  <2>1. 0 \in Good
    <3>1. Upto(0) = {}
      BY <1>10
    <3>2. DOMAIN loop[0].bucket = {}
      BY <1>7
    <3>3. 0 \in 0..Len(ms)
      BY <1>1
    <3> HIDE DEF Upto
    <3> QED
      BY <3>1, <3>2, <3>3 DEF BoundsDiffer, BoundsOf, InfBuckets
  <2>2. ASSUME NEW i \in 1..Len(ms), i - 1 \in Good PROVE i \in Good
    <3>1. CASE i \notin at
      <4>1. Upto(i) = Upto(i - 1)
        <5>1. \A j \in at : j <= i <=> j <= i - 1
          BY <1>10, <3>1
        <5> QED
          BY <5>1
      <4> HIDE DEF Upto
      <4> QED
        BY <1>5, <1>6, <2>2, <3>1, <4>1
    <3>2. CASE i \in at
      <4>1. Upto(i) = Upto(i - 1) \cup {i}
        <5>1. \A j \in at : j <= i <=> j <= i - 1 \/ j = i
          BY <1>10, <3>2
        <5> QED
          BY <3>2, <5>1
      <4> HIDE DEF Upto
      <4>2. Grows(loop[i - 1].bucket, loop[i].bucket, Bounds(ms[i]),
                  [b \in Nat |-> BucketCount(ms[i], b)], InfBuckets(ms[i].bucket))
        BY <1>14, <2>2, <3>2
      <4>3. BoundsDiffer(loop[i].bucket)
        BY <4>2 DEF Grows
      <4>4. BoundsOf(loop[i].bucket) = UNION {Bounds(ms[j]) : j \in Upto(i)}
        <5>1. BoundsOf(loop[i].bucket) = BoundsOf(loop[i - 1].bucket) \cup Bounds(ms[i])
          BY <4>2 DEF Grows
        <5> QED
          BY <2>2, <4>1, <5>1
      <4>5. InfBuckets(loop[i].bucket) \subseteq UNION {InfBuckets(ms[j].bucket) : j \in Upto(i)}
        <5>1. InfBuckets(loop[i].bucket)
                \subseteq InfBuckets(loop[i - 1].bucket) \cup InfBuckets(ms[i].bucket)
          BY <4>2 DEF Grows
        <5> QED
          BY <2>2, <4>1, <5>1
      <4> QED
        BY <1>5, <4>3, <4>4, <4>5
    <3> QED
      BY <3>1, <3>2
  <2> HIDE DEF Good
  <2> QED
    BY <1>1, <2>1, <2>2, Induction
<1>16. Upto(Len(ms)) = at
  BY <1>10
<1>17. Len(ms) \in Good
  <2>1. Len(ms) \in 0..Len(ms)
    BY <1>1
  <2> QED
    BY <1>15, <2>1
<1>18. BoundsDiffer(hist.bucket)
  BY <1>4, <1>17
<1>19. BoundsOf(hist.bucket) = UNION {Bounds(of(e)) : e \in es}
  <2>1. BoundsOf(hist.bucket) = UNION {Bounds(ms[j]) : j \in at}
    BY <1>4, <1>16, <1>17
  <2>2. {Bounds(ms[j]) : j \in at} = {Bounds(of(e)) : e \in es}
    BY <1>9 DEF OneToOne
  <2> QED
    BY <2>1, <2>2
<1>20. \A x \in InfBuckets(hist.bucket) : \E e \in es : x \in InfBuckets(of(e).bucket)
  <2>1. InfBuckets(hist.bucket) \subseteq UNION {InfBuckets(ms[j].bucket) : j \in at}
    BY <1>4, <1>16, <1>17
  <2>2. \A j \in at : f[j] \in es /\ ms[j] = of(f[j])
    BY <1>9 DEF OneToOne
  <2> QED
    BY <2>1, <2>2
<1>21. ASSUME NEW b \in Nat
       PROVE  NumberOf(hist.bucket, b) = SumFunction([e \in es |-> BucketCount(of(e), b)])
  <2> DEFINE val == [m \in Range(ms) |-> BucketCount(m, b)]
             numbers == [i \in 0..Len(ms) |-> NumberOf(loop[i].bucket, b)]
  <2>1. val \in [Range(ms) -> Int]
    <3>1. \A m \in Range(ms) : BucketCount(m, b) \in Int
      BY <1>3, BucketCountType
    <3> QED
      BY <3>1
  <2>2. numbers[0] = 0 /\ numbers[Len(ms)] = NumberOf(hist.bucket, b)
    <3>1. NumberOf(loop[0].bucket, b) = 0
      BY <1>7 DEF NumberOf
    <3> QED
      BY <1>1, <1>4, <3>1
  <2>3. ASSUME NEW i \in 1..Len(ms)
        PROVE  numbers[i] = IF i \in at THEN numbers[i - 1] + val[ms[i]] ELSE numbers[i - 1]
    <3>1. CASE i \notin at
      BY <1>5, <1>6, <3>1
    <3>2. CASE i \in at
      <4>1. BoundsDiffer(loop[i - 1].bucket)
        BY <1>5, <1>15
      <4>2. Grows(loop[i - 1].bucket, loop[i].bucket, Bounds(ms[i]),
                  [c \in Nat |-> BucketCount(ms[i], c)], InfBuckets(ms[i].bucket))
        BY <1>14, <3>2, <4>1
      <4>3. NumberOf(loop[i].bucket, b) = NumberOf(loop[i - 1].bucket, b) + BucketCount(ms[i], b)
        BY <4>2 DEF Grows
      <4> QED
        BY <1>5, <3>2, <4>3
    <3> QED
      BY <3>1, <3>2
  <2>4. [e \in es |-> val[of(e)]] = [e \in es |-> BucketCount(of(e), b)]
    BY <1>8
  <2> HIDE DEF val, numbers
  <2>5. numbers[Len(ms)] = SumFunction([e \in es |-> val[of(e)]])
    BY <2>1, <2>2, <2>3, SeriesAdds
  <2> QED
    BY <2>2, <2>4, <2>5
<1>22. hist \in Histogram
  BY <1>1, <1>4
<1> QED
  BY <1>12, <1>13, <1>18, <1>19, <1>20, <1>21, <1>22 DEF hist

\* What is sent of buckets with different bounds.
LEMMA Sent ==
  ASSUME NEW buckets \in Seq(Bucket), BoundsDiffer(buckets)
  PROVE  LET sent == SentBuckets(buckets)
         IN  /\ DOMAIN sent = BoundsOf(buckets)
             /\ \A b \in BoundsOf(buckets) \ {Inf} : b \in Nat /\ sent[b] = NumberOf(buckets, b)
             /\ Inf \in BoundsOf(buckets) =>
                  [bound |-> Inf, n |-> sent[Inf]] \in InfBuckets(buckets)
<1> DEFINE sent == SentBuckets(buckets)
           n == Len(buckets)
           At(b) == {i \in DOMAIN buckets : buckets[i].bound = b}
<1>1. n \in Nat /\ DOMAIN buckets = 1..n /\ \A i \in 1..n : buckets[i] \in Bucket
  BY LenProperties, ElementOfSeq
<1>2. sent = [b \in BoundsOf(buckets) |-> buckets[Max(At(b))].n]
  BY DEF SentBuckets, BoundsOf
<1> HIDE DEF sent
<1>3. ASSUME NEW b \in BoundsOf(buckets) PROVE Max(At(b)) \in At(b)
  <2>1. At(b) \in SUBSET (1..n) /\ At(b) # {}
    BY <1>1 DEF BoundsOf
  <2> HIDE DEF At
  <2> QED
    BY <1>1, <2>1, LastPosition
<1>4. ASSUME NEW b \in BoundsOf(buckets) \ {Inf}
      PROVE  b \in Nat /\ sent[b] = NumberOf(buckets, b)
  <2>1. Max(At(b)) \in DOMAIN buckets /\ buckets[Max(At(b))].bound = b
    BY <1>3
  <2> HIDE DEF At
  <2>2. NumberOf(buckets, b) = buckets[Max(At(b))].n
    BY <2>1, NumberIs
  <2>3. b \in Nat
    BY <1>1, <2>1 DEF Bucket
  <2> QED
    BY <1>2, <2>2, <2>3
<1>5. ASSUME Inf \in BoundsOf(buckets)
      PROVE  [bound |-> Inf, n |-> sent[Inf]] \in InfBuckets(buckets)
  <2>1. Max(At(Inf)) \in DOMAIN buckets /\ buckets[Max(At(Inf))].bound = Inf
    BY <1>3, <1>5
  <2> HIDE DEF At
  <2>2. buckets[Max(At(Inf))] = [bound |-> Inf, n |-> sent[Inf]]
    BY <1>1, <1>2, <1>5, <2>1 DEF Bucket
  <2> QED
    BY <2>1, <2>2 DEF InfBuckets
<1> QED
  BY <1>2, <1>4, <1>5 DEF sent

\* In every state.
LEMMA SumsHold == ScraperInv => SumsAreRight
<1> SUFFICES ASSUME ScraperInv, NEW n \in Converted(metrics), Regular(n),
                    NEW key \in DOMAIN Samples(n, metrics[n])
             PROVE  Summed(n, Samples(n, metrics[n])[key], SeriesOf(n, key))
  BY DEF SumsAreRight, SeriesOf
<1> DEFINE ms == metrics[n]
           es == SeriesOf(n, key)
           of(e) == Entry(source, n, e)
<1>1. n \in DOMAIN metrics /\ n \in Name /\ TypeOf[n] # "other"
  BY DEF Converted, ScraperInv, TypeOK, IsFamilies
<1>2. TypeOf[n] \in {"counter", "gauge", "histogram"}
  BY <1>1, MetricsAssumption
<1>3. key \in Keys(ms)
  BY SampleKeys
<1>4. CASE TypeOf[n] = "counter"
  <2>1. Samples(n, ms)[key] = Aggregated("counter", ms, key)
    BY <1>3, <1>4 DEF Samples, collectGeneric
  <2> QED
    BY <1>1, <1>3, <1>4, <2>1, CountersAddUp DEF Summed
<1>5. CASE TypeOf[n] = "gauge"
  <2>1. Samples(n, ms)[key] = Aggregated("gauge", ms, key)
    BY <1>3, <1>5 DEF Samples, collectGeneric
  <2> QED
    BY <1>1, <1>3, <1>5, <2>1, GaugesAreAnswered DEF Summed
<1>6. CASE TypeOf[n] = "histogram"
  <2> DEFINE hist == AggregatedHistogram(ms, key)
             got == Samples(n, ms)[key]
  <2>1. got = [hist EXCEPT !.bucket = SentBuckets(@)]
    BY <1>3, <1>6 DEF Samples, sendHistograms, aggregateHistograms
  <2>2. /\ hist \in Histogram /\ BoundsDiffer(hist.bucket)
        /\ hist.count = SumFunction([e \in es |-> of(e).count])
        /\ hist.sum = SumFunction([e \in es |-> of(e).sum])
        /\ BoundsOf(hist.bucket) = UNION {Bounds(of(e)) : e \in es}
        /\ \A b \in Nat :
             NumberOf(hist.bucket, b) = SumFunction([e \in es |-> BucketCount(of(e), b)])
        /\ \A x \in InfBuckets(hist.bucket) : \E e \in es : x \in InfBuckets(of(e).bucket)
    BY <1>1, <1>3, <1>6, HistogramsAddUp
  <2> HIDE DEF hist, got, es
  <2>3. /\ got.count = hist.count /\ got.sum = hist.sum
        /\ got.bucket = SentBuckets(hist.bucket) /\ hist.bucket \in Seq(Bucket)
    BY <2>1, <2>2 DEF Histogram
  <2>4. /\ DOMAIN got.bucket = BoundsOf(hist.bucket)
        /\ \A b \in BoundsOf(hist.bucket) \ {Inf} :
             b \in Nat /\ got.bucket[b] = NumberOf(hist.bucket, b)
        /\ Inf \in BoundsOf(hist.bucket) =>
             [bound |-> Inf, n |-> got.bucket[Inf]] \in InfBuckets(hist.bucket)
    BY <2>2, <2>3, Sent
  <2>5. \A b \in DOMAIN got.bucket \ {Inf} :
          got.bucket[b] = SumFunction([e \in es |-> BucketCount(of(e), b)])
    BY <2>2, <2>4
  <2>6. Inf \in DOMAIN got.bucket =>
          \E e \in es : \E i \in DOMAIN of(e).bucket :
            of(e).bucket[i] = [bound |-> Inf, n |-> got.bucket[Inf]]
    <3> HAVE Inf \in DOMAIN got.bucket
    <3>1. PICK e \in es : [bound |-> Inf, n |-> got.bucket[Inf]] \in InfBuckets(of(e).bucket)
      BY <2>2, <2>4
    <3> QED
      BY <3>1 DEF InfBuckets
  <2>7. Summed(n, got, es)
    BY <1>6, <2>2, <2>3, <2>4, <2>5, <2>6 DEF Summed
  <2> QED
    BY <2>7 DEF got, es
<1> QED
  BY <1>2, <1>4, <1>5, <1>6

\* Counters, counts, sums and finite buckets of each series are the totals of one round, gauges
\* and +Inf buckets the numbers of one worker, whatever the workers, the metrics and the
\* order in which the goroutines end.
THEOREM SumsAreRightHolds == Spec => []SumsAreRight
BY ScraperInvariant, SumsHold, PTL
=============================================================================
