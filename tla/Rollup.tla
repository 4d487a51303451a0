------------------------------- MODULE Rollup -------------------------------
(***************************************************************************)
(* From single checks to hourly values, and to the availability, the bars  *)
(* and the latency chart the pages show: internal/store/rollup.go, Prune   *)
(* of internal/store/retention.go, the maintenance goroutine of            *)
(* internal/monitor/maintenance.go that calls them, and cells, periods and *)
(* slots of internal/web/public.go.                                        *)
(*                                                                         *)
(* One target.  A check is stored some time after its time stamp was       *)
(* taken.  Rollup and Prune read the clock before they have the writer's   *)
(* connection; Uptime and Hours read the hourly values and the checks of   *)
(* the running hour in two queries.  Rollup recomputes the two hours       *)
(* before the running one, the checks of older hours are never read again. *)
(*                                                                         *)
(* Hours are numbered from the beginning of time, an hour has HourLen      *)
(* units.                                                                  *)
(***************************************************************************)
EXTENDS Integers, FiniteSets, FiniteSetsExt, SequencesExt

CONSTANTS
  HourLen,    \* hour: the length of an hour
  Retention,  \* RETENTION_DAYS: how long checks are kept
  Keep,       \* hourlyKeep: how long hourly values are kept
  Day,        \* hours of the shortest period shown (24)
  Span,       \* hours of the longest period shown (168 or 720)
  Group,      \* hours of a bar of the longest period (1 or 24)
  step,       \* length of a point of the chart made from single checks
  Latencies,  \* the latencies a check may have; a failed one has the largest
  Late,       \* bound on the time between a check's time stamp and its insert
  MaxMissed,  \* bound on the hours in a row that end without a rollup in them
  MaxTime,    \* bound on the clock
  MaxChecks,  \* bound on the number of checks
  None

ASSUME HourAssumption   == /\ {HourLen, Day, Span, Group, step} \subseteq Nat \ {0}
                           /\ HourLen % step = 0 /\ Span % Group = 0 /\ Day <= Span
ASSUME LatencyAssumption == Latencies \subseteq Nat /\ Latencies # {}
ASSUME KeepAssumption   == {Retention, Keep, Late, MaxMissed, MaxTime, MaxChecks} \subseteq Nat
\* RETENTION_DAYS is at least 1: checks are kept for the shortest period, and for
\* the two hours Rollup computes again and the running one.
ASSUME RetentionAssumption == Day * HourLen <= Retention /\ 3 * HourLen <= Retention
\* hourlyKeep is longer than any period.
ASSUME HourlyKeepAssumption == Span * HourLen <= Keep + 1
\* A check ends with its time-out, seconds after its time stamp was taken.
ASSUME LateAssumption   == Late <= HourLen

VARIABLES
  now,     \* the clock
  up,      \* the process runs
  missed,  \* hours in a row that ended without a rollup in them
  cur,     \* the time stamp of the check under way, or None
  checks,  \* the checks table
  hourly,  \* the hourly table: the stats of the hours that have a row
  mpc,     \* where the maintenance goroutine is
  mnow,    \* the clock as it read it
  rolled,  \* nothing was left to roll up by a Rollup of the running hour
  upc,     \* where a request that shows the availability is
  ucur,    \* the hour it took for the running one
  hours,   \* the cells it has read, one per hour: total and ok
  least,   \* what they have to count at least
  truth    \* every check ever stored

table == <<checks, hourly, truth>>
shown == <<upc, ucur, hours, least>>
vars  == <<now, up, missed, cur, table, mpc, mnow, rolled, shown>>

hourStart(t) == t \div HourLen

Count(cs) == [total |-> Cardinality(cs), ok |-> Cardinality({c \in cs : c.ok})]

\* The position of the 95th percentile among n sorted latencies, counted from 1.
p95Rank(n) == (95 * n + 99) \div 100

Average(oks) == MapThenSumSet(LAMBDA c : c.ms, oks) \div Cardinality(oks)

Sorted(oks) == SetToSortSeq(oks, LAMBDA c, d : c.ms < d.ms \/ (c.ms = d.ms /\ c.at < d.at))

\* The method latency; only successful checks have one that counts.
latency(oks) ==
  LET n == Cardinality(oks)
  IN  IF n = 0 THEN [avg |-> 0, p95 |-> 0, max |-> 0]
      ELSE [avg |-> Average(oks), p95 |-> Sorted(oks)[p95Rank(n)].ms, max |-> Sorted(oks)[n].ms]

\* The struct stats of an hour.
stats(cs, h) ==
  LET mine == {c \in cs : hourStart(c.at) = h}
      n    == Count(mine)
      lat  == latency({c \in mine : c.ok})
  IN  [total |-> n.total, ok |-> n.ok, avg |-> lat.avg, p95 |-> lat.p95, max |-> lat.max]

-----------------------------------------------------------------------------
(* The runner.                                                             *)

TakeTime ==
  /\ up
  /\ cur = None
  /\ Cardinality(truth) < MaxChecks
  /\ \A c \in truth : c.at < now
  /\ cur' = now
  /\ UNCHANGED <<now, up, missed, table, mpc, mnow, rolled, shown>>

\* InsertCheck.  A check of the hour before is a straggler; the next Rollup is
\* at most five minutes away.
Insert(ok, ms) ==
  /\ cur # None
  /\ checks' = checks \cup {[at |-> cur, ok |-> ok, ms |-> ms]}
  /\ truth' = truth \cup {[at |-> cur, ok |-> ok, ms |-> ms]}
  /\ rolled' = (rolled /\ hourStart(cur) = hourStart(now))
  /\ cur' = None
  /\ UNCHANGED <<now, up, missed, hourly, mpc, mnow, shown>>

-----------------------------------------------------------------------------
(* The maintenance goroutine: rollup and cleanup.                          *)

Begin(pc) ==
  /\ up
  /\ mpc = "idle"
  /\ mpc' = pc
  /\ mnow' = now
  /\ UNCHANGED <<now, up, missed, cur, table, rolled, shown>>

\* Mutant of Recomputed: only the hour before.
RecomputedOne == {hourStart(mnow) - 1}

\* The hours Rollup computes again.
Recomputed == {hourStart(mnow) - 2, hourStart(mnow) - 1}

\* The buckets of Rollup: of these hours the ones that have checks.
Buckets == {h \in Recomputed : \E c \in checks : hourStart(c.at) = h}

\* The transaction of Rollup.
RollupCommits ==
  /\ mpc = "rollup"
  /\ hourly' = [h \in DOMAIN hourly \cup Buckets |->
                  IF h \in Buckets THEN stats(checks, h) ELSE hourly[h]]
  /\ rolled' = (rolled \/ hourStart(mnow) = hourStart(now))
  /\ mpc' = "idle"
  /\ UNCHANGED <<now, up, missed, cur, checks, truth, mnow, shown>>

ChecksBefore == mnow - Retention

\* Prune: first the checks ...
PruneChecks ==
  /\ mpc = "prune"
  /\ checks' = {c \in checks : c.at >= ChecksBefore}
  /\ mpc' = "keep"
  /\ UNCHANGED <<now, up, missed, cur, hourly, truth, mnow, rolled, shown>>

\* ... then the hourly values.
PruneHourly ==
  /\ mpc = "keep"
  /\ hourly' = [h \in {g \in DOMAIN hourly : g * HourLen >= mnow - Keep} |-> hourly[h]]
  /\ mpc' = "idle"
  /\ UNCHANGED <<now, up, missed, cur, checks, truth, mnow, rolled, shown>>

\* A statement fails; the goroutine goes on with its next tick.
MaintenanceFails ==
  /\ mpc # "idle"
  /\ mpc' = "idle"
  /\ UNCHANGED <<now, up, missed, cur, table, mnow, rolled, shown>>

-----------------------------------------------------------------------------
(* What a page shows: Hours, and Uptime, which adds up what Hours lists.   *)

Nothing == [i \in 1 .. Span |-> [total |-> 0, ok |-> 0]]

\* The hour of the i-th cell.
CellHour(i) == ucur - Span + i

\* The first query: hourly values of the hours before the running one.
UptimeHourly ==
  LET h0 == hourStart(now)
      h(i) == h0 - Span + i
  IN
  /\ upc = "idle"
  /\ upc' = "raw"
  /\ ucur' = h0
  /\ hours' = [i \in 1 .. Span |->
                 IF i < Span /\ h(i) \in DOMAIN hourly
                 THEN [total |-> hourly[h(i)].total, ok |-> hourly[h(i)].ok] ELSE Nothing[i]]
  /\ least' = IF rolled /\ up
              THEN [i \in 1 .. Span |-> Count({c \in truth : hourStart(c.at) = h(i)})] ELSE Nothing
  /\ UNCHANGED <<now, up, missed, cur, table, mpc, mnow, rolled>>

\* Mutant of RawFrom: the hour before is counted again.
RawFromBefore == ucur - 1

RawFrom == ucur

\* rawHour: the checks from the running hour on.
UptimeRaw ==
  /\ upc = "raw"
  /\ upc' = "shown"
  /\ hours' = [hours EXCEPT ![Span] = Count({c \in checks : c.at >= RawFrom * HourLen})]
  /\ UNCHANGED <<now, up, missed, cur, table, mpc, mnow, rolled, ucur, least>>

UptimeDone ==
  /\ upc = "shown"
  /\ upc' = "idle"
  /\ ucur' = 0
  /\ hours' = Nothing
  /\ least' = Nothing
  /\ UNCHANGED <<now, up, missed, cur, table, mpc, mnow, rolled>>

\* f[a] + ... + f[b]
Sum(f, a, b) == LET sum[i \in Nat] == IF i < a THEN 0 ELSE sum[i - 1] + f[i] IN sum[b]

\* The counts of the cells a .. b together.
Total(cs, a, b) == [total |-> Sum([i \in 1 .. Span |-> cs[i].total], a, b),
                    ok    |-> Sum([i \in 1 .. Span |-> cs[i].ok], a, b)]

\* The counts whose ratio Uptime answers for the last n hours.
Uptime(n) == Total(hours, Span - n + 1, Span)

\* The k-th bar when n hours make one.
Bar(cs, k, n) == Total(cs, (k - 1) * n + 1, k * n)

State(c) == IF c.total = 0 THEN "unknown" ELSE IF c.ok < c.total THEN "down" ELSE "up"

\* cells: the bars, n hours each.
cells(n) == [k \in 1 .. Span \div n |-> State(Bar(hours, k, n))]

-----------------------------------------------------------------------------
(* The latency chart.  detail reads it after Hours, in one query, and reads *)
(* the clock again after that: the last slot may lie after the last point.  *)

\* The map periods: what Latency reads, the hours it spans and its slots.
periods == {[raw |-> TRUE,  hours |-> Day,  slots |-> (Day * HourLen) \div step],
            [raw |-> FALSE, hours |-> Span, slots |-> Span]}

\* Mutant of Since: the slots before the last one are read.
SinceSlots(p) == now - p.hours * HourLen + step

Since(p) == now - p.hours * HourLen

hourlyLatency(since) ==
  {[at |-> h * HourLen, avg |-> hourly[h].avg] :
     h \in {g \in DOMAIN hourly : g >= hourStart(since) /\ hourly[g].ok > 0}}

\* Points of successful checks, one per step that has any.
rawLatency(since) ==
  LET oks == {c \in checks : c.ok /\ c.at >= since}
  IN  {[at |-> b * step, avg |-> latency({c \in oks : c.at \div step = b}).avg] :
         b \in {c.at \div step : c \in oks}}

Latency(p) == IF p.raw THEN rawLatency(Since(p)) ELSE hourlyLatency(Since(p))

SlotLen(p) == (p.hours * HourLen) \div p.slots

\* slots, at a later reading of the clock: the value of a point, or -1.
slots(p, later) ==
  LET len    == SlotLen(p)
      first  == (later \div len) * len - (p.slots - 1) * len
      points == Latency(p)
  IN  [i \in 1 .. p.slots |->
         LET mine == {x \in points : x.at >= first /\ (x.at - first) \div len = i - 1}
         IN  IF mine = {} THEN -1 ELSE (CHOOSE x \in mine : \A y \in mine : y.at <= x.at).avg]

-----------------------------------------------------------------------------
(* The process and time.                                                   *)

Stop ==
  /\ up
  /\ up' = FALSE
  /\ cur' = None
  /\ mpc' = "idle"
  /\ mnow' = now
  /\ UNCHANGED <<now, missed, table, rolled, shown>>

\* serve starts; Maintain begins with a rollup.
Boot ==
  /\ ~up
  /\ up' = TRUE
  /\ mpc' = "rollup"
  /\ mnow' = now
  /\ UNCHANGED <<now, missed, cur, table, rolled, shown>>

HourEnds == hourStart(now + 1) # hourStart(now)

\* The ticker fires every five minutes, so that a running process completes a
\* rollup in every hour, and no statement or request takes longer than an
\* hour.  Only a stopped process lets hours end without a rollup.
Paced ==
  /\ HourEnds => rolled \/ (~up /\ missed < MaxMissed)
  /\ mpc # "idle" => now + 1 < mnow + HourLen
  /\ cur # None => now < cur + Late
  /\ upc # "idle" => hourStart(now + 1) <= ucur + 1

Tick ==
  /\ now < MaxTime
  /\ Paced
  /\ now' = now + 1
  /\ rolled' = (rolled /\ ~HourEnds)
  /\ missed' = IF ~HourEnds THEN missed ELSE IF rolled THEN 0 ELSE missed + 1
  /\ UNCHANGED <<up, cur, table, mpc, mnow, shown>>

Init ==
  /\ now = 0
  /\ up = FALSE
  /\ missed = 0
  /\ cur = None
  /\ checks = {}
  /\ truth = {}
  /\ hourly = << >>
  /\ mpc = "idle"
  /\ mnow = 0
  /\ rolled = FALSE
  /\ upc = "idle"
  /\ ucur = 0
  /\ hours = Nothing
  /\ least = Nothing

Next == \/ TakeTime
        \/ \E ms \in Latencies : Insert(TRUE, ms)
        \/ Insert(FALSE, Max(Latencies))
        \/ Begin("rollup") \/ Begin("prune")
        \/ RollupCommits \/ PruneChecks \/ PruneHourly \/ MaintenanceFails
        \/ UptimeHourly \/ UptimeRaw \/ UptimeDone
        \/ Stop \/ Boot \/ Tick

Spec == Init /\ [][Next]_vars

-----------------------------------------------------------------------------
(* Properties.                                                             *)

\* After the first rollup of an hour every finished hour of the span has exactly
\* its counts, average, percentile and maximum: stragglers stored after the end
\* of their hour, restarts and pruning between do not lose or repeat a check.
HourlyExact ==
  up /\ rolled =>
    \A h \in hourStart(now) - Span + 1 .. hourStart(now) - 1 :
      stats(truth, h) = IF h \in DOMAIN hourly THEN hourly[h] ELSE stats({}, h)

\* Each cell and every availability shown counts no check twice, and none that
\* did not happen; after the first rollup of the hour it leaves none out.  This
\* although Uptime and Hours read in two queries, between which hours end and
\* rollups commit.
UptimeCounts ==
  upc = "shown" =>
    \A n \in 1 .. Span :
      LET real == Count({c \in truth : hourStart(c.at) > ucur - n})
          low  == Total(least, Span - n + 1, Span)
      IN  /\ Uptime(n).ok \in low.ok .. real.ok
          /\ Uptime(n).total - Uptime(n).ok \in low.total - low.ok .. real.total - real.ok

\* A bar of cells is down only when a check of its hours failed and up only when
\* one succeeded, whether one hour or Group hours make a bar; after the first
\* rollup of the hour a failed check is never behind a bar that is not down.
BarsAreTrue ==
  upc = "shown" =>
    \A n \in {1, Group} : \A k \in 1 .. Span \div n :
      LET of(ok) == \E c \in truth : c.ok = ok /\
                      \E i \in (k - 1) * n + 1 .. k * n :
                        \/ hourStart(c.at) = CellHour(i)
                        \/ i = Span /\ hourStart(c.at) > ucur
          low    == Bar(least, k, n)
      IN  /\ cells(n)[k] = "down" => of(FALSE)
          /\ cells(n)[k] = "up" => of(TRUE)
          /\ low.ok < low.total => cells(n)[k] = "down"

\* What a page shows of the availability is true, as numbers and as bars.
ShownIsTrue == UptimeCounts /\ BarsAreTrue

\* Every slot of the latency chart is the average over all successful checks of
\* its time, or empty when there are none: the oldest point, which the query
\* cuts in the middle, is never shown, pruning at a retention of one day takes
\* nothing away, and a clock that has moved on since the query does no harm.
\* Of the long periods this is said of finished hours after the hour's rollup.
ChartIsExact ==
  upc = "shown" => \A p \in periods : p.raw \/ (up /\ rolled) => \A later \in now .. now + HourLen :
    LET chart   == slots(p, later)
        slot(i) == later \div SlotLen(p) - (p.slots - i)
        oks(i)  == {c \in truth : c.ok /\ c.at \div SlotLen(p) = slot(i)}
    IN  \A i \in 1 .. p.slots : p.raw \/ slot(i) < hourStart(now) =>
          chart[i] = IF oks(i) = {} THEN -1 ELSE Average(oks(i))
=============================================================================
