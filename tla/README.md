# Verification of dmn-status

dmn-status is a status page: it checks HTTP, TCP and FiveM targets, opens and
closes incidents, mails about them, and shows availability on public pages; an
admin area changes the targets. It is one Go process over one SQLite file.
This directory holds TLA+ models of its concurrent parts, the TLC
configurations that check them, and TLAPS proofs about all nine of them.

Check a run with `tlc -workers 2 -config <cfg> <module>`, a proof module with
`tlapm <module>.tla`. `PROJECT.json` lists every run, the source lines of every
definition, the hazards and the theorems.

## The system: components, state, interaction

| Part | State | Operations | What is hard |
|---|---|---|---|
| Manager (`internal/monitor/scheduler.go`) | map of runners, Stats, semaphore of `maxParallel`, mutexes `ops` and `mu`, WaitGroup | Start, Reload, Delete, CheckNow, Wait; a goroutine per unpaused target | requests write the table without a lock and reload later; stop waits for a goroutine that waits for a slot; shutdown races all of it |
| Incident detection (`scheduler.go` restore/round, `state.go`) | per runner: fails, open, since | a result comes in, an incident opens or closes | the state is rebuilt from the tables after every start; any statement may fail; kills |
| Mails (`scheduler.go` notify, `maintenance.go` retry) | `pending`, `mailed_down`, `mailed_up` | send, mark, retry once | the runner and the maintenance goroutine send the same mails without a lock; a mail may be accepted and not marked |
| Mailer (`internal/alert/smtp.go`) | two lists of times; per mail a connection with a deadline | reserve, send | the clock is read before the mutex is taken; the server refuses, falls silent or loses its answer after any call |
| Rollup (`internal/store/rollup.go`, `retention.go`) | checks, hourly values | Rollup every five minutes, Prune every hour, Uptime, Hours and Latency on request | late checks, stops, two queries for one number, a chart whose clock is read twice |
| Page cache (`internal/web/public.go`) | map of entries, each with its own lock | get, clearCache | a clear during a build; time stamps; lock order |
| Sessions and known devices (`internal/store/sessions.go`, `devices.go`, `internal/web/admin.go`) | rows with created, expires, seen | create, find, touch, delete, clean up | find and touch are two statements; clocks out of order |
| Login limits (`internal/web/limit.go`) | windows per address and global, two slots | take, forgive | boundaries of windows, a full table, early returns |
| Checks (`internal/check`) | none between checks; per check a context with a deadline | Run, checkHTTP, checkTCP, checkFiveM, dialConnectTo; Validate when a form is saved | every dial looks its name up again; one machine has several notations; two requests share one deadline; a silent peer |
| Database set-up (`internal/store/db.go`, `cmd/dmn-status/main.go`) | schema_migrations, the tables, the admin's row, the write lock | Open, migrate, bootstrap, set-password, backup | several processes of several versions on one file; kills inside a migration |
| Configuration, views, rendering | | | see "Not modelled" |

Calls go from the admin handlers to the targets table and then to Reload or
Delete, from runners to the checks and incidents tables and the Mailer, from the
maintenance goroutine to Rollup, Prune, the incidents table and the Mailer. The
public pages read the tables through the cache, which admin handlers clear. The
command line tools are processes of their own and meet the server in the file.

## Modules

| Module | Models | State and actions |
|---|---|---|
| `Scheduler` | Manager, the requests save, pause, remove and checkNow, and `serve()` | `table` is the targets table, `runners`, `stats`, `sem`, `ops` are the Manager's fields, `gpc`/`job`/`cancelled`/`nudged` a runner's goroutine, `rpc`/`req`/`await` a request, `upkeep` the maintenance goroutine, `main` the process. Restore..Insert are the steps of `run`/`round`; Lock..StartRunner of `Reload`; DeleteRow..Unstat of `Delete`; PassEnds..MaintainEnds of `Maintain`; Boot..Crash of `serve` |
| `Alerting` | one target id from result to mail | `st` is the struct `state` and `next` the function of that name; `inc` is the incidents table by row id; `pending` and `fresh` are retry's maps. Relies on what `Scheduler` shows: one runner per id, and Reload and Delete wait for it |
| `Incidents` | what the incidents table promises of one target | abstract: a log of incidents, Opened, Ended, Mailed, Dropped. `Alerting` implements it (below) |
| `Mailer` | `Mailer.reserve` and `Mailer.send` | `sent[k]` is a list, Grant and Refuse the two outcomes of reserve; Call, Take, CallFails, Quit are send's calls in their order, Expire a timeout or the end of the context |
| `Rollup` | hourly values, and what a target's page shows of the checks | `checks`, and `hourly`, a function on the hours that have a row; RollupCommits, PruneChecks, PruneHourly of the maintenance goroutine; UptimeHourly and UptimeRaw are the two queries of Uptime and Hours; `cells`, `Latency`, `slots` are the functions of those names |
| `PageCache` | `cached.get`, `fromCache`, `clearCache` | the database is a version number; a page is the version its build began to read |
| `LoginLimit` | `take`, `forgive`, and login's slots | `ips`, `global`, `swept` are the limiter's fields |
| `Sessions` | the sessions and devices tables and their users | a statement runs with the `clock` its caller read before; Login..CreateDevice are login, Arrive..Logout the middleware and its handlers, CleanupBegins..DeleteExpiredDevices the cleanup |
| `Startup` | processes that open the file: serve, set-password, backup | `db` is the file as committed, `lock` its write lock; CreateTable..Opened are Open and migrate, Admin, ReadPassword and SetAdmin bootstrap and set-password, Backup and BackupEnds the beginning and the end of `vacuum into`, Dies an error or a kill, Restore and Discard the operator |
| `Checker` | one target from the saved form to the results of its checks | `target` is the row, `ctx` the context of Run, `queue` and `extra` are the addresses of a dial and those exempted from the rule on private ones, `reached` and `answers` are histories. Save is Validate, Run the dispatch, LookupName..DialFails are net.Dialer with Control and dialConnectTo, Respond..BodyFails the exchange, Deadline, Cancel and CallReturns the context |
| `SchedulerProofs`, `AlertingProofs`, `MailerProofs`, `LoginLimitProofs`, `PageCacheProofs`, `StoreProofs`, `CheckerProofs`, `RollupProofs` | theorems; `StoreProofs` holds those about `Sessions` and those about `Startup` | |
| `MCScheduler`, `MCAlerting`, `MCMailer`, `MCLoginLimit`, `MCSessions`, `MCChecker` | symmetry sets, views, scaled and structured constants for TLC | |

`Scheduler` and `Alerting` divide the runner between them: in `Scheduler` a round
is slot, check, Stat, insert; in `Alerting` it is the state machine, the
incidents and the mails. A mail is one step Deliver of `Alerting` with an outcome:
accepted, failed, refused by the limit, or accepted with the answer lost. `Mailer`
shows that these are the outcomes there are (AllOrNobody) and that the step ends
(SendEnds). A check is one step
of `Scheduler` and `Alerting`, with its result as an input; that it ends, which
the liveness of `Scheduler` assumes, is CheckEnds of `Checker`. The maintenance
goroutine is in `Scheduler` only as what the shutdown waits for, besides the
runners: it is in a pass or in its select. What a pass does is in `Rollup`,
`Sessions` and `Alerting`.

Each module carries a few operators named "Mutant of ...": plausible bugs, used
to show that the properties can fail.

## Runs

| Run | Checks | Instance |
|---|---|---|
| SchedulerRequests | OneRunner, NeverStale, Watched, NoStartWhileJoining | 2 targets (ids are reused) and 2 runners for 1 slot, 2 requests, shutdowns and kills; reads do not fail, which Watched needs |
| SchedulerLive | RunnerChecks, ShutdownTerminates, ReloadReturns | 2 targets and 2 runners for 1 slot, 2 requests that remove one of the targets, failing reads and deletes, the maintenance goroutine |
| AlertingStore | MemoryMatches, PausedIsQuiet, OpensAtThreshold, KeepsLog | threshold 2, two incidents, kills, deletes, failing statements |
| AlertingMail | NoDuplicate, FlagMeansSent, RetryOnce, MailAttempted | threshold 1, one incident, kills, marks that fail, no deletes; incidents of the running second are recent (RetryWindow 0), later ones are not |
| Mailer | HourlyLimit, AllOrNobody, RefusedOnlyWhenFull, SendEnds | limits 2 and 1, an hour of 3, 2 senders, 2 recipients |
| Rollup | HourlyExact, ShownIsTrue (UptimeCounts and BarsAreTrue), ChartIsExact | hours of 2 units, 2 checks with 2 latencies, periods of 3 and 4 hours, bars of 1 and 2 hours, checks kept as long as the short period, one hour end missed |
| LoginLimit | PerIPLimit, SlotsExact, LetThroughIsCounted, GlobalLimit | 2 addresses, a table for 1, limits 2 and 3, a window of 3, 1 slot |
| Sessions | SessionsEnd, EndedForGood, StaysWhileUsed, DeviceStaysKnown | 1 token over its whole age, a device known from an earlier login and one that a new login adds, over their longer time, 2 requests, each statement may fail |
| Startup | SchemaIsWhole, RunsOnce, BootstrapKeepsAdmin, StartEnds | 2 processes, each started again and again for any command, binaries with 1 and 2 migrations, backups that end or are killed, and the restore |
| PageCache | FreshAfterClear, PageIsRecent, RequestEnds | 2 readers, 2 entries, 2 commits, TTL 1 |
| Checker | OnlyAllowedReached, ResultMatches, CheckEnds | 6 addresses of every class and notation, lookups with up to 2 of them, one listed connect_to and one that is not, numbers on both sides of every limit |
| AlertingPauseSeries | SeriesAfterPause, violated | threshold 2, one pause |

Why the bounds are enough to be interesting: two requests are what it takes to
overlap, and with one slot two runners already wait for each other, also in
SchedulerLive: with only weak fairness of Acquire RunnerChecks fails there. There
the requests only remove: a failed delete reads the row and starts the runner again,
so that all steps which hold `ops` happen, and the other requests' writes are in
SchedulerRequests. One configuration is enough for NeverStale to tell a runner of a
paused or deleted row, and the proof covers the others; two migrations are what it
takes for one to be done and the next not; two incidents let one close and the next
open, in the store; a table for one address is full with the first one; two hours
and the running one are all Rollup and Uptime tell apart; in a lookup with two
addresses one is tried after the other was refused; a session may live TouchGap + 1
longer than Idle, so that two touches in the wrong order leave different rows. Every
bound is a constant named in its module and appears only in guards (`MaxTime`,
`MaxChecks`, `MaxIncidents`, `MaxVersion`, `MaxRight`, `MaxAnswers`, and `Forms`,
what admins ask for) or states how long a statement may wait (`Delay`, `Late`). The
runs of `Scheduler` and AlertingStore use a VIEW: TLC takes states for one that
differ only in what no later step and no property depends on (the Stats and stored
checks in `Scheduler`; in `Alerting` the memory of a closed incident and the checks
before the last success). In SchedulerLive, where liveness is checked, no step is
lost by it: what it leaves out is read by no guard and changes only in steps that
change the rest too. AlertingMail runs without one. TLC evaluates the named
assumptions on the constants in every run.

### The run that ends in a violation

AlertingPauseSeries: failures from before a pause count after it when no incident
was open (the repository's test covers the case with one). The quoted line is in
`PROJECT.json` under "findings".

More behaviours were met while modelling; each is why a run leaves something
out or a property excepts a case, and none contradicts a line of the repository:

- Killed between SetPaused and ClosePausedIncident, the process comes back with a
  paused target whose incident is open, until the next Reload. PausedIsQuiet shows
  that only such a cut leaves one.
- A retry pass sends from the list it read, also after a pause that came since.
- A retry pass that takes longer than five minutes is followed at once by the tick
  that waited for it, and soon by the next. A mail of the runner, which may take 45
  seconds, can span the beginning of two passes; the second takes it for one that
  failed and sends it too. NoDuplicate excepts exactly that mail.
- A mail that the hourly limit refuses until retryWindow is over, or whose incident
  was read too late, is never sent: MailAttempted promises a try only while the
  incident is recent.
- set-password reads its input without a time limit and catches the signals that
  would end it: without input it waits until it is killed. It holds no lock then,
  and StartEnds shows that nobody waits for it.
- A backup that is killed leaves an incomplete file, and the next backup to the same
  name fails until somebody removes it.
- A mail of a retry under way during a delete marks the next incident that gets
  the same row id; FlagMeansSent is therefore checked without deletes.
- After a stop over more than one hour end the last hour before it is not computed
  again: HourlyExact holds while `MaxMissed` is at most 1. That Rollup goes back
  two hours is intended, for late checks.
- A set-password between bootstrap's look at the admin and its upsert is
  overwritten by the environment's password; BootstrapKeepsAdmin excepts that case.

## Fairness

- `Scheduler`: weak fairness of every step of a goroutine that the Go runtime
  schedules, strong fairness of Acquire (senders blocked on a channel are queued)
  and of Lock (a Go mutex hands itself to a starving waiter). A pass of the
  maintenance goroutine ends (its statements and mails have timeouts), and its
  select takes the end of the context in the long run, since it chooses among the
  ready cases at random. Requests, signals and nudges are not fair: nobody has to
  make them.
- `Alerting`: weak fairness of the maintenance goroutine's steps; the ticker fires
  again and again. Nothing is assumed of the mail server or of the hourly limit.
- `PageCache`: weak fairness of a request's steps (a build ends by its timeout),
  strong fairness of taking the entry's lock.
- `Mailer`: weak fairness of the mutex, of the timers and of the return of a call
  whose time is up. That the server answers is not assumed.
- `Startup`: weak fairness of a process's next step; waiting for the lock is such
  a step too, since busy_timeout ends it. ReadPassword is not fair.
- `Checker`: weak fairness of the deadline's timer and of the return of a call
  whose context has ended. Nothing is assumed of name servers and peers.

## Refinement

`Incidents` says what pages, mails and restore rely on: a log of incidents of
which at most one is open, opened once, ended once and not before it began,
marked and never unmarked, and gone only with the target. `Alerting` implements
it with the mapping `Logged`, which forgets the history fields `uid` and `by`:
KeepsLog is the abstract specification under that mapping, checked in
AlertingStore and proved in `AlertingProofs`. Most steps of `Alerting` stutter;
Open is Opened, Close and ClosePaused are Ended (the latter marks both mails in
the same step), RunnerMark and RetryMark are Mailed, also when they mark an
incident that took over the row id, DeleteRow is Dropped.

## Proofs

`SchedulerProofs` proves for every finite set of runner structs, every set of
targets, configurations and requests, and every maxParallel: TypeOK, SemExact,
OneRunner, DeleteStopsRunner, NoStartWhileJoining, NeverStale and Watched.
OneRunner alone is not inductive. The invariant `IInv` adds that whoever is past
Lock holds `ops` and has taken its target out of the map (Held), that only a
request in stop awaits a runner (Awaited), and that a live goroutine is the one
the map names or the one awaited (Owned); then a new runner can only start where
none is alive. `Freshness` adds for NeverStale that a runner's configuration is
the table's or some request past its write has yet to stop or restart it. Watched
needs two facts that hold between the steps of a request: the runner the map names
is at work on its target (Working), and an unpaused target without one has a
request that has yet to look at its row, or to start what it read (Cared). The
assumptions are ParallelAssumption, FaultAssumption, RunnersAssumption and
NullAssumption of `Scheduler`.

`PageCacheProofs` proves TypeOK, FreshAfterClear and PageIsRecent for every set
of keys, entries, readers and admins. The argument: an entry belongs to one
period between two calls of clearCache. Requests that hold the same entry looked
it up in the same period (SamePeriod), an entry in the map belongs to the current
one (InMap), and a page is never older than its entry's period (OfPeriod). For
PageIsRecent, every change a page leaves out was committed after the page's stamp
(Stamped), because the clock is read before the build.

`CheckerProofs` proves OnlyAllowedReached for every set of addresses, every answer
of every lookup, every list of own addresses and every PRIVATE_ALLOW. What
`allowed` lets through depends on `extra`, which an earlier step filled, so the
invariant adds that `extra` is empty unless the target's connect_to is listed
(ExtraIsListed) and that the request under way is of the target's kind
(StageOfKind). AllowedIsReachable says that the test finds a machine behind every
notation. It also proves ResultMatches for every status text, code and error: while
a check runs, what the peer answered so far and the result kept for it follow from
the request under way and how far it is (Alone, Second), and the row is one that
Validate let through (Saved; ValidateSuffices shows that this leaves StartHTTP and
Run nothing to blame). The assumptions are AddrsAssumption and StatusAssumption of
`Checker`.

`AlertingProofs` proves KeepsLog, the refinement above, for every threshold and
with any of the switches (mails, failing statements, kills, deletes). That an
incident ends not before it began is not inductive: its end is the time stamp of
a check, taken before the check ran, its beginning the stamp of an earlier one,
kept in `st.firstFail` or read back by restore. The invariant says that each of
these times is past (Past), that the incident open during a check began before it
(Rounds), and that there is at most one (OneOpen), so that a pause, which ends all
open ones, is one step of the log. On top of that invariant:

- MemoryMatches and PausedIsQuiet speak of a runner at rest. Memory says it of
  every step of a round: while there is a runner nobody else opens or ends an
  incident. Pauses says that a target that is not active has a runner only during
  a Reload, which then ends the incident or counts as cut short.
- OpensAtThreshold: the runner's counter stands for the last checks in the table
  (Counts): so many of them failed, none before `firstFail`, and no incident ended
  after it; between the insert and the decision the table is one check ahead. That
  restore brings this back from the table is the longest part of the proof.
- FlagMeansSent and RetryOnce are proved under the hypothesis `Deletes = FALSE`
  (a constant of the model, as in run AlertingMail). The hypothesis is needed: after
  a delete SQLite gives the row id to the next incident, and a mark or an entry of
  `pending` made for the old one hits the new one. Without deletes, whatever the
  runner or retry holds names the incident and the event it was made for (Letters).
  RetryOnce further needs that each pass finds in the old map what earlier passes
  retried, although the map is rebuilt entry by entry (Once).
- NoDuplicate is proved under `Deletes = FALSE` as well. A pass sends only what the
  pass before saw, and the mail in the runner's hand is of an event that pass did
  not see, was in hand when the pass began (Held), or has seen two passes begin and
  is one of the excepted ones; an exception once made stays one (UnsureStays).

`MailerProofs` proves HourlyLimit, RefusedOnlyWhenFull and AllOrNobody for every
number of senders and recipients, all limits and all lengths of the hour and the
Delay. The history of grants is compared with the list of reserve: the list is the
end of the history with clocks at most Delay older (Matched), what was cut off it is
an hour ago less the Delay (Gone), and therefore so far apart are a grant and the
one limit places later (Spread). A list out of order, which stale clocks make,
is covered: an entry stuck behind a younger one is at most Delay older. AllOrNobody
follows from how far the dialogue has come (Dialogue).

`LoginLimitProofs` proves SlotsExact, PerIPLimit, LetThroughIsCounted and
GlobalLimit for any number of addresses, logins and slots, all limits, windows and
Delays. PerIPLimit counts the Delay twice: the proof showed that a login with a
younger clock may sweep a window which one with an older clock then begins anew, at
either end of the span. The invariant is about the last window of an address, in
the table or swept out of it (Last), and the distance between logins that are two
windows' worth apart (Apart); SlotsExact needs that the holders of tokens are
finitely many (Tokens).

`StoreProofs` proves SessionsEnd, EndedForGood, StaysWhileUsed and DeviceStaysKnown
for every set of tokens, devices and requests, all devices known before and all
lengths of time with Delay < TouchGap <= Idle <= MaxAge. The invariant bounds a
row's expiry by its age and by its last use (SessionBound, SeenBound), also while a
touch waits with an old clock, which is at most Delay old (TouchFresh); that no
clock is ahead of now (ClocksPast) keeps the cleanup away from valid rows. A
device's expiry is its creation and DeviceMax (DeviceBound).

`StoreProofs` also proves SchemaIsWhole, RunsOnce, WorksOnSchema and
BootstrapKeepsAdmin of `Startup` for every number of processes and migrations. The
invariant: whoever is between BeginTx and Commit holds the lock (Transactions), so
that what it looked up stays true, and a process has in the file all migrations
below the one it is at (Progress), which no other process or kill takes away;
Restore runs only when there is no process.

`RollupProofs` proves HourlyExact, ShownIsTrue and ChartIsExact for any number of
checks and all lengths of hours, periods, bars, slots, retention and delays. The
invariant:

- Stored: a check leaves the table only when Prune's clock is more than the
  retention after it, and that clock never goes back. So the hours a Rollup
  computes again are complete, even with a clock that is an hour old.
- Rows: a row is about at least one check of its hour and counts no more than there
  are; therefore an hour without checks has no row that Rollup would leave behind.
- Recent: inexact are at most the hours that ended since the last rollup of a
  running hour and the one before, which a straggler may reach. HourlyExact alone
  says nothing before the first rollup of an hour and is not inductive.
- Cells: what a request has read counts no check that is not of the cell's hour, and
  after its first query at least what HourlyExact promised then, while checks are
  stored, hours end and rollups commit between its queries.

The sums of ShownIsTrue are a recursive function. That it exists, its equation,
and an induction over its upper end are lemmas (SumIs, SumInduction, from the fact
that a set of natural numbers has a least element); SumOfSizes says that sums over
cells count no check twice, because no check belongs to two cells (OneCell). For
ChartIsExact, SlotShows finds the one point that a slot shows, and the proof is
that neither the query's beginning nor pruning cuts the oldest slot that is shown.
An average is a function of a set of checks; what its fold computes is not needed.

The three theorems have the hypothesis `MaxMissed <= 1`, see above, and TLC has a
counterexample with 2. What does not need it is proved without: ShownHappened (no
check counted twice or invented, no bar without its reason) and DayChartIsExact (the
chart from single checks). The proof attempt changed the assumptions of `Rollup`:
keeping hourly values for all but one hour of the longest period, as assumed
before, is not enough, because the oldest hour would be deleted while it is shown
(HourlyKeepAssumption; the code has 400 days for 30); and that checks are kept for
three hours and stored within one had to be said (RetentionAssumption,
LateAssumption; the code has at least a day, and seconds). TLC shows each
necessary: with any of them given up, HourlyExact is violated. PercentileRank says
that the index of the 95th percentile is in the list and is the nearest rank, for
every number of latencies.

Only proved, because the proof covers every instance a run would: TypeOK of
`Scheduler` and `PageCache`, SemExact and DeleteStopsRunner of `Scheduler`,
WorksOnSchema of `Startup`.

Every proof rests on the named assumptions of its module on the constants, and on
no other hypothesis than those given above.

Only model-checked: MailAttempted, SendEnds, StartEnds, RequestEnds, CheckEnds,
RunnerChecks, ShutdownTerminates and ReloadReturns, since temporal reasoning under
fairness is beyond the prover used; that sorting and averaging the latencies of an
hour gives the right numbers (a fold, and SetToSortSeq, of the library: induction
over data); and SeriesAfterPause, which does not hold. Every safety property of
every passing run is proved.

## Abstractions worth knowing

- Data: a target's row is a configuration and the paused flag; a check is ok or
  failed; a page is the version of the database it was built from.
- Time: `Alerting` counts seconds as stored and lets events share one; retryWindow
  is a constant of it, and a pass of retry takes the incidents in the order of their
  rows. The lists of `Mailer`, the limiter and `pending` are in memory: a restart
  empties them. `Mailer` and `LoginLimit` model one process life, so their limits
  hold per life.
- `Checker`: a text of the form is one of the few that Validate tells apart (for
  expect_status, its ranges and whether it is too long); an
  address is its notation, its class and the machine; an error is the set of what
  errors.Is and errors.As find in it. net.Dialer tries addresses one after the
  other, where the library may try two at once. The field `loopback` is set by
  tests only and left out. An IP literal is a name with one answer.
- `Mailer`: the clock counts parts of an hour and stands still during a dialogue,
  which takes at most 45 seconds. NewClient, Auth and Mail are one call.
- `Startup`: a migration is the set of tables it creates; a transaction shows
  others nothing before it commits, which is SQLite's promise; a backup is of what
  was committed when it began. The operator restores complete copies only. `stale`
  is history.
- `Rollup`: one target. The short period stands for 24 hours, the long one for 7
  or 30 days. The availability is shown as a ratio; the model keeps its two counts.
- `Rollup` assumes that a running process completes a rollup in every hour (the
  ticker has five minutes) and that no statement takes an hour.
- `Sessions` and `Mailer` assume that a statement (or the mutex) is waited for
  less than Delay; the code's busy timeout is 5 seconds, against a minute and an
  hour.

## Not modelled

Mail texts, templates, translations, charts' SVG, CSS and the preview
(formatting); row, overallState, incidentRows, api and metrics, which turn rows
into output one by one and keep no state; argon2id (its answer is an input);
configuration (read once, no state); version and player limits of a check (shown
only); Prune of incidents that ended 400 days ago (beyond every other deadline);
form parsing and CSRF tokens (a request that fails them changes nothing); health
check; the routes, headers and panic handler of the server.

## Plan

Done: the modules above, the refinement, and the proofs of all safety properties.
Left open: CSRF tokens of login and of the middleware as part of `Sessions`.

New questions join the runs of the module they concern, as invariants or
properties, rather than as runs of their own.
