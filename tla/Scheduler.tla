----------------------------- MODULE Scheduler -----------------------------
(***************************************************************************)
(* The monitor's Manager (internal/monitor/scheduler.go) with the admin    *)
(* handlers that drive it (internal/web/admin.go) and the life of the      *)
(* process around it (cmd/dmn-status/main.go).                             *)
(*                                                                         *)
(* Every unpaused target has one goroutine, its runner, that checks it     *)
(* again and again.  Admin requests change the targets table WITHOUT a     *)
(* lock and then call Reload or Delete, which take the mutex ops, stop the *)
(* target's runner, wait for its goroutine to end, read the row again and  *)
(* start a new runner.  What a runner does with a check's result, and what *)
(* Reload does to the incidents of a paused target, is the subject of      *)
(* Alerting; here a round is: take a slot of the semaphore, check, give    *)
(* the slot back, record the Stat, store the check.                        *)
(*                                                                         *)
(* Row ids are reused: "integer primary key" without autoincrement gives   *)
(* a new target the id of a deleted one, so an id that left the table may  *)
(* come back while an older request still holds it.                        *)
(***************************************************************************)
EXTENDS Naturals, FiniteSets

CONSTANTS
  Targets,      \* ids a row of the targets table can have
  Configs,      \* contents of a row, apart from the paused flag
  Runners,      \* runner structs; one is reused when nothing refers to it
  Requests,     \* goroutines that serve admin requests
  Forms,        \* what they may ask for: pairs of an operation and an id
  MaxParallel,  \* maxParallel: checks that may run at once
  ReadFaults,   \* TRUE: store.Target may fail with an error of the database
  None, Main    \* nothing / nobody; the goroutine of serve()

ASSUME ParallelAssumption == MaxParallel \in Nat \ {0}
ASSUME FaultAssumption    == ReadFaults \in BOOLEAN
ASSUME RunnersAssumption  == IsFiniteSet(Runners)
ASSUME FormsAssumption    == Forms \subseteq {"save", "pause", "remove", "checkNow"} \X Targets

Row     == [c: Configs, p: BOOLEAN]
Job     == [t: Targets, c: Configs]
Request == [op: {"save", "pause", "remove"}, t: Targets, row: Row \cup {None}]

ASSUME NullAssumption     == /\ None \notin Runners \cup Requests \cup Row \cup Job \cup Request
                             /\ Main \notin Requests \cup {None}

VARIABLES
  table,        \* the targets table: None where there is no row
  checked,      \* ids with at least one row in the checks table
  runners,      \* m.runners
  stats,        \* ids in m.stats
  sem,          \* tokens in the channel m.sem
  ops,          \* who holds the mutex m.ops
  gpc,          \* where a runner's goroutine is
  job,          \* the target and the configuration it was started with
  cancelled,    \* runners whose own context was cancelled by stop
  nudged,       \* runners nudged less than checkNowGap ago
  rpc,          \* where a request is
  req,          \* the request: operation, target, the row it writes or has read
  await,        \* the runner the holder of ops waits for in stop
  upkeep,       \* where the maintenance goroutine is
  main          \* where serve() is

database == <<table, checked>>
handlers == <<rpc, req, await>>
vars     == <<table, checked, runners, stats, sem, ops, gpc, job, cancelled,
              nudged, rpc, req, await, upkeep, main>>

rows == {t \in Targets : table[t] # None}

\* m.ctx is cancelled: serve() left its select.
Down == main \in {"drain", "join"}

\* Mutant of Cancelled: start derives the context from the background context.
CancelledByStop(g) == g \in cancelled

\* The context a runner was started with is cancelled: by stop, or because
\* it derives from m.ctx.
Cancelled(g) == Down \/ g \in cancelled

Live(g) == gpc[g] # "done"

Works(g, t) == Live(g) /\ job[g].t = t

\* A runner struct nothing refers to any more.
Unused(g) == ~Live(g) /\ await # g /\ \A t \in Targets : runners[t] # g

-----------------------------------------------------------------------------
(* The runner's goroutine: run, restore and round.                         *)

Goto(g, here, there) == gpc[g] = here /\ gpc' = [gpc EXCEPT ![g] = there]

\* restore: the last stored check becomes the target's Stat unless it has one.
\* The query may fail, always so once the context is cancelled.
Restore(g) ==
  /\ Goto(g, "restore", "select")
  /\ \/ stats' = stats
     \/ /\ job[g].t \in checked
        /\ ~Cancelled(g)
        /\ stats' = stats \cup {job[g].t}
  /\ UNCHANGED <<database, runners, sem, ops, job, cancelled, nudged, handlers,
                 upkeep, main>>

\* run: the timer fires.  Go's select may take this case although the context
\* is done as well.
Fire(g) ==
  /\ Goto(g, "select", "sem")
  /\ UNCHANGED <<database, runners, stats, sem, ops, job, cancelled, nudged,
                 handlers, upkeep, main>>

\* run: the context is done, the goroutine ends and closes r.done.
Exit(g) ==
  /\ Cancelled(g)
  /\ Goto(g, "select", "done")
  /\ job' = [job EXCEPT ![g] = None]
  /\ UNCHANGED <<database, runners, stats, sem, ops, cancelled, nudged, handlers,
                 upkeep, main>>

Acquire(g) ==
  /\ sem < MaxParallel
  /\ Goto(g, "sem", "check")
  /\ sem' = sem + 1
  /\ UNCHANGED <<database, runners, stats, ops, job, cancelled, nudged, handlers,
                 upkeep, main>>

\* round: the context is done before there is a slot; back to the loop.
GiveUp(g) ==
  /\ Cancelled(g)
  /\ Goto(g, "sem", "select")
  /\ UNCHANGED <<database, runners, stats, sem, ops, job, cancelled, nudged,
                 handlers, upkeep, main>>

\* Mutant of FinishCheck: the token is never returned.
FinishCheckLeaks(g) ==
  /\ Goto(g, "check", IF Cancelled(g) THEN "select" ELSE "record")
  /\ UNCHANGED <<database, runners, stats, sem, ops, job, cancelled, nudged, handlers,
                 upkeep, main>>

\* round: the check returns, the token goes back, and the result is dropped
\* when the context was cancelled meanwhile.
FinishCheck(g) ==
  /\ Goto(g, "check", IF Cancelled(g) THEN "select" ELSE "record")
  /\ sem' = sem - 1
  /\ UNCHANGED <<database, runners, stats, ops, job, cancelled, nudged, handlers,
                 upkeep, main>>

Record(g) ==
  /\ Goto(g, "record", "insert")
  /\ stats' = stats \cup {job[g].t}
  /\ UNCHANGED <<database, runners, sem, ops, job, cancelled, nudged, handlers,
                 upkeep, main>>

\* InsertCheck, under a context that stop cannot cancel.  It may fail; the
\* foreign key makes it fail when the target's row is gone.
Insert(g) ==
  /\ Goto(g, "insert", "select")
  /\ \/ checked' = checked
     \/ job[g].t \in rows /\ checked' = checked \cup {job[g].t}
  /\ UNCHANGED <<table, runners, stats, sem, ops, job, cancelled, nudged, handlers,
                 upkeep, main>>

\* Somebody may send this form.
Asked(op, t) == <<op, t>> \in Forms

\* CheckNow: under m.mu, a send that only succeeds while the goroutine waits in
\* its select; a second nudge within checkNowGap is refused.
CheckNow(t) ==
  LET g == runners[t] IN
  /\ Asked("checkNow", t)
  /\ main # "off"
  /\ g # None
  /\ g \notin nudged
  /\ Goto(g, "select", "sem")
  /\ nudged' = nudged \cup {g}
  /\ UNCHANGED <<database, runners, stats, sem, ops, job, cancelled, handlers,
                 upkeep, main>>

GapPasses(g) ==
  /\ g \in nudged
  /\ nudged' = nudged \ {g}
  /\ UNCHANGED <<database, runners, stats, sem, ops, gpc, job, cancelled, handlers,
                 upkeep, main>>

-----------------------------------------------------------------------------
(* Admin requests: save, pause and remove.  A request accepted before the  *)
(* listener was closed may take its first step at any later time, so they  *)
(* begin while the process runs.  The database part of a handler may fail  *)
(* and then ends the request.                                              *)

Begin(q, pc, r) ==
  /\ main # "off"
  /\ rpc[q] = "idle"
  /\ Asked(r.op, r.t)
  /\ rpc' = [rpc EXCEPT ![q] = pc]
  /\ req' = [req EXCEPT ![q] = r]

outside == <<checked, runners, stats, sem, ops, gpc, job, cancelled, nudged, await, upkeep,
             main>>

\* save of an existing target: the row was found and the form is valid.
BeginSave(q, t, row) ==
  /\ t \in rows
  /\ Begin(q, "write", [op |-> "save", t |-> t, row |-> row])
  /\ UNCHANGED <<table, outside>>

\* pause: the flag it will write is computed from the row it just read.
BeginPause(q, t) ==
  /\ t \in rows
  /\ Begin(q, "write", [op |-> "pause", t |-> t, row |-> [c |-> table[t].c, p |-> ~table[t].p]])
  /\ UNCHANGED <<table, outside>>

\* save without an id: CreateTarget picks a free id.
Create(q, t, row) ==
  /\ t \notin rows
  /\ Begin(q, "lock", [op |-> "save", t |-> t, row |-> row])
  /\ table' = [table EXCEPT ![t] = row]
  /\ UNCHANGED outside

\* remove calls Delete for whatever id the path names.
BeginRemove(q, t) ==
  /\ Begin(q, "lock", [op |-> "remove", t |-> t, row |-> None])
  /\ UNCHANGED <<table, outside>>

\* UpdateTarget writes every column, SetPaused one.
Write(q) ==
  LET t == req[q].t IN
  /\ rpc[q] = "write"
  /\ t \in rows
  /\ table' = [table EXCEPT ![t] = IF req[q].op = "save" THEN req[q].row
                                   ELSE [c |-> table[t].c, p |-> req[q].row.p]]
  /\ rpc' = [rpc EXCEPT ![q] = "lock"]
  /\ UNCHANGED <<req, outside>>

\* The row is gone (ErrNotFound), the database failed or the client left.
WriteFails(q) ==
  /\ rpc[q] = "write"
  /\ rpc' = [rpc EXCEPT ![q] = "idle"]
  /\ req' = [req EXCEPT ![q] = None]
  /\ UNCHANGED <<table, outside>>

-----------------------------------------------------------------------------
(* Reload and Delete.  Both hold ops from here to Unlock.                  *)

Free(q) == ops = None

\* ops.Lock and the first half of stop: the runner leaves the map and its
\* context is cancelled.
Lock(q) ==
  LET r == runners[req[q].t] IN
  /\ rpc[q] = "lock"
  /\ Free(q)
  /\ ops' = q
  /\ runners' = [runners EXCEPT ![req[q].t] = None]
  /\ await' = r
  /\ cancelled' = cancelled \cup ({r} \ {None})
  /\ rpc' = [rpc EXCEPT ![q] = "await"]
  /\ UNCHANGED <<database, stats, sem, gpc, job, nudged, req, upkeep, main>>

\* Mutant of Joined: stop cancels and does not wait.
JoinedAtOnce(g) == TRUE

Joined(g) == g \in {h \in Runners : ~Live(h)} \cup {None}

\* The second half of stop: <-r.done.
Await(q) ==
  /\ rpc[q] = "await"
  /\ Joined(await)
  /\ await' = None
  /\ rpc' = [rpc EXCEPT ![q] = IF req[q].op = "remove" THEN "delete" ELSE "read"]
  /\ UNCHANGED <<database, runners, stats, sem, ops, gpc, job, cancelled, nudged,
                 req, upkeep, main>>

\* The deferred ops.Unlock and the rest of the handler.
Unlock(q) ==
  /\ ops' = None
  /\ rpc' = [rpc EXCEPT ![q] = "idle"]
  /\ req' = [req EXCEPT ![q] = None]

\* Mutant of Read: a save trusts the row it has written itself.
ReadOwnRow(q) ==
  /\ rpc[q] = "read"
  /\ req[q].t \in rows
  /\ req' = IF req[q].op = "save" THEN req ELSE [req EXCEPT ![q].row = table[req[q].t]]
  /\ rpc' = [rpc EXCEPT ![q] = "act"]
  /\ UNCHANGED <<database, runners, stats, sem, ops, gpc, job, cancelled, nudged,
                 await, upkeep, main>>

\* store.Target, in Reload and after a failed DeleteTarget.
Read(q) ==
  /\ rpc[q] = "read"
  /\ req[q].t \in rows
  /\ req' = [req EXCEPT ![q].row = table[req[q].t]]
  /\ rpc' = [rpc EXCEPT ![q] = "act"]
  /\ UNCHANGED <<database, runners, stats, sem, ops, gpc, job, cancelled, nudged,
                 await, upkeep, main>>

\* store.Target fails: the row is gone, or the database has an error.  The
\* target stays without a runner.
ReadFails(q) ==
  /\ rpc[q] = "read"
  /\ ReadFaults \/ req[q].t \notin rows
  /\ Unlock(q)
  /\ UNCHANGED <<database, runners, stats, sem, gpc, job, cancelled, nudged, await,
                 upkeep, main>>

\* The row read says paused (Reload closes the incident: see Alerting), or the
\* process is shutting down.
Leave(q) ==
  /\ rpc[q] = "act"
  /\ req[q].row.p \/ Down
  /\ Unlock(q)
  /\ UNCHANGED <<database, runners, stats, sem, gpc, job, cancelled, nudged, await,
                 upkeep, main>>

\* m.ctx.Err() == nil was seen; the context may still end before start.
Proceed(q) ==
  /\ rpc[q] = "act"
  /\ ~req[q].row.p
  /\ ~Down
  /\ rpc' = [rpc EXCEPT ![q] = "start"]
  /\ UNCHANGED <<database, runners, stats, sem, ops, gpc, job, cancelled, nudged,
                 req, await, upkeep, main>>

\* start: a runner whose context derives from m.ctx.
StartRunner(q, g) ==
  LET t == req[q].t IN
  /\ rpc[q] = "start"
  /\ Unused(g)
  /\ runners' = [runners EXCEPT ![t] = g]
  /\ gpc' = [gpc EXCEPT ![g] = "restore"]
  /\ job' = [job EXCEPT ![g] = [t |-> t, c |-> req[q].row.c]]
  /\ cancelled' = cancelled \ {g}
  /\ nudged' = nudged \ {g}
  /\ Unlock(q)
  /\ UNCHANGED <<database, stats, sem, await, upkeep, main>>

\* DeleteTarget succeeds; its checks go with it (on delete cascade).
DeleteRow(q) ==
  LET t == req[q].t IN
  /\ rpc[q] = "delete"
  /\ t \in rows
  /\ table' = [table EXCEPT ![t] = None]
  /\ checked' = checked \ {t}
  /\ rpc' = [rpc EXCEPT ![q] = "unstat"]
  /\ UNCHANGED <<runners, stats, sem, ops, gpc, job, cancelled, nudged, req, await,
                 upkeep, main>>

\* Mutant of DeleteMisses: an early return that does not unlock.
DeleteMissesLocked(q) ==
  /\ rpc[q] = "delete"
  /\ req[q].t \notin rows
  /\ rpc' = [rpc EXCEPT ![q] = "idle"]
  /\ UNCHANGED <<database, runners, stats, sem, ops, gpc, job, cancelled, nudged,
                 req, await, upkeep, main>>

\* DeleteTarget finds no row (ErrNotFound).
DeleteMisses(q) ==
  /\ rpc[q] = "delete"
  /\ req[q].t \notin rows
  /\ Unlock(q)
  /\ UNCHANGED <<database, runners, stats, sem, gpc, job, cancelled, nudged, await,
                 upkeep, main>>

\* Mutant of DeleteFails: the error is returned and no runner is started again.
DeleteFailsForGood(q) ==
  /\ rpc[q] = "delete"
  /\ Unlock(q)
  /\ UNCHANGED <<database, runners, stats, sem, gpc, job, cancelled, nudged, await,
                 upkeep, main>>

\* DeleteTarget fails: the row is read again and the runner started again.
DeleteFails(q) ==
  /\ rpc[q] = "delete"
  /\ rpc' = [rpc EXCEPT ![q] = "read"]
  /\ UNCHANGED <<database, runners, stats, sem, ops, gpc, job, cancelled, nudged,
                 req, await, upkeep, main>>

\* delete(m.stats, id) under m.mu.
Unstat(q) ==
  /\ rpc[q] = "unstat"
  /\ stats' = stats \ {req[q].t}
  /\ Unlock(q)
  /\ UNCHANGED <<database, runners, sem, gpc, job, cancelled, nudged, await,
                 upkeep, main>>

-----------------------------------------------------------------------------
(* The maintenance goroutine.  What its rollups, cleanups and retries do   *)
(* is the subject of Rollup, Sessions and Alerting; here it only runs.     *)

others == <<database, runners, stats, sem, ops, gpc, job, cancelled, nudged, handlers, main>>

\* A rollup with its retry, or a cleanup, comes to its end.
PassEnds == upkeep = "pass" /\ upkeep' = "select" /\ UNCHANGED others

\* A ticker fires; the select may take this case although the context is done.
PassBegins == upkeep = "select" /\ upkeep' = "pass" /\ UNCHANGED others

\* The context is done.
MaintainEnds == Down /\ upkeep = "select" /\ upkeep' = "off" /\ UNCHANGED others

-----------------------------------------------------------------------------
(* serve(): Start, a signal or a dead listener, Shutdown, Wait.            *)

\* Everything in memory is as in a new process.
FreshProcess ==
  /\ stats' = {}
  /\ sem' = 0
  /\ ops' = None
  /\ cancelled' = {}
  /\ nudged' = {}
  /\ rpc' = [q \in Requests |-> "idle"]
  /\ req' = [q \in Requests |-> None]
  /\ await' = None

\* New, Start and Maintain: one runner for each unpaused row, and the
\* maintenance goroutine, which begins with a rollup and a cleanup.
Boot(f) ==
  LET due == {t \in rows : ~table[t].p} IN
  /\ main = "off"
  /\ \A t \in Targets : f[t] = None <=> t \notin due
  /\ \A t, u \in due : f[t] = f[u] => t = u
  /\ runners' = f
  /\ gpc' = [g \in Runners |-> IF \E t \in due : f[t] = g THEN "restore" ELSE "done"]
  /\ job' = [g \in Runners |->
               IF \E t \in due : f[t] = g
               THEN LET t == CHOOSE u \in due : f[u] = g IN [t |-> t, c |-> table[t].c]
               ELSE None]
  /\ main' = "serve"
  /\ upkeep' = "pass"
  /\ UNCHANGED <<database, stats, sem, ops, cancelled, nudged, handlers>>

\* SIGTERM cancels m.ctx, or the listener failed and stop() does.
Signal ==
  /\ main = "serve"
  /\ main' = "drain"
  /\ UNCHANGED <<database, runners, stats, sem, ops, gpc, job, cancelled, nudged, handlers,
                 upkeep>>

\* Mutant of WaitLock: Wait does not take ops.
WaitUnlocked ==
  /\ main = "drain"
  /\ main' = "join"
  /\ UNCHANGED <<database, runners, stats, sem, ops, gpc, job, cancelled, nudged, handlers,
                 upkeep>>

\* Wait: Shutdown returned, with requests still running if it timed out.
WaitLock ==
  /\ main = "drain"
  /\ ops = None
  /\ ops' = Main
  /\ main' = "join"
  /\ UNCHANGED <<database, runners, stats, sem, gpc, job, cancelled, nudged, handlers, upkeep>>

\* wg.Wait returns and the process ends; requests still running end with it.
Join ==
  /\ main = "join"
  /\ \A g \in Runners : ~Live(g)
  /\ upkeep = "off"
  /\ main' = "off"
  /\ runners' = [t \in Targets |-> None]
  /\ FreshProcess
  /\ UNCHANGED <<database, gpc, job, upkeep>>

\* The process is killed.
Crash ==
  /\ main # "off"
  /\ main' = "off"
  /\ runners' = [t \in Targets |-> None]
  /\ gpc' = [g \in Runners |-> "done"]
  /\ job' = [g \in Runners |-> None]
  /\ upkeep' = "off"
  /\ FreshProcess
  /\ UNCHANGED database

-----------------------------------------------------------------------------
\* Any table an earlier process left; no process runs.
Init ==
  /\ table \in [Targets -> Row \cup {None}]
  /\ checked \in SUBSET rows
  /\ runners = [t \in Targets |-> None]
  /\ stats = {}
  /\ sem = 0
  /\ ops = None
  /\ gpc = [g \in Runners |-> "done"]
  /\ job = [g \in Runners |-> None]
  /\ cancelled = {}
  /\ nudged = {}
  /\ rpc = [q \in Requests |-> "idle"]
  /\ req = [q \in Requests |-> None]
  /\ await = None
  /\ upkeep = "off"
  /\ main = "off"

RunnerStep(g) == \/ Restore(g) \/ Fire(g) \/ Exit(g) \/ Acquire(g) \/ GiveUp(g)
                 \/ FinishCheck(g) \/ Record(g) \/ Insert(g)

\* A request's steps up to Reload or Delete.
FormStep(q) == \/ Write(q) \/ WriteFails(q)
               \/ \E t \in Targets : BeginPause(q, t) \/ BeginRemove(q, t)
               \/ \E t \in Targets, row \in Row : BeginSave(q, t, row) \/ Create(q, t, row)

\* Its steps with ops held.
OpsStep(q) == \/ Await(q) \/ Read(q) \/ ReadFails(q) \/ Leave(q) \/ Proceed(q)
              \/ DeleteRow(q) \/ DeleteMisses(q) \/ DeleteFails(q) \/ Unstat(q)
              \/ \E g \in Runners : StartRunner(q, g)

MaintainStep == PassEnds \/ PassBegins \/ MaintainEnds

MainStep == \/ Signal \/ WaitLock \/ Join \/ Crash
            \/ \E f \in [Targets -> Runners \cup {None}] : Boot(f)

Next == \/ \E g \in Runners : RunnerStep(g) \/ GapPasses(g)
        \/ \E t \in Targets : CheckNow(t)
        \/ \E q \in Requests : FormStep(q) \/ Lock(q) \/ OpsStep(q)
        \/ MaintainStep
        \/ MainStep

Spec == Init /\ [][Next]_vars

(***************************************************************************)
(* Fairness.  A goroutine that can run does, and a check ends by its       *)
(* timeout.  A Go mutex in starvation mode hands over to the longest       *)
(* waiter and the senders of a channel queue in order, so a Lock and an    *)
(* Acquire that are enabled again and again happen.  A select chooses      *)
(* among its ready cases at random, so a runner whose context is done does *)
(* not choose its timer for ever, nor the maintenance goroutine a ticker.  *)
(* The latter's passes end: each is a number of statements and of mails,   *)
(* which end by their timeouts (see Mailer).  Nothing makes a request      *)
(* begin, a ticker fire, the gap between two nudges pass, a signal arrive  *)
(* or the process crash or start.                                          *)
(***************************************************************************)
Fairness ==
  /\ \A g \in Runners : /\ WF_vars(RunnerStep(g))
                        /\ SF_vars(Acquire(g))
                        /\ SF_vars(Exit(g))
  /\ \A q \in Requests : /\ WF_vars(Write(q) \/ WriteFails(q) \/ OpsStep(q))
                         /\ SF_vars(Lock(q))
  /\ WF_vars(PassEnds)
  /\ SF_vars(MaintainEnds)
  /\ SF_vars(WaitLock)
  /\ WF_vars(Join)

FairSpec == Spec /\ Fairness

-----------------------------------------------------------------------------
(* Properties.                                                             *)

RunnerAt  == {"restore", "select", "sem", "check", "record", "insert", "done"}
HoldingAt == {"await", "read", "act", "start", "delete", "unstat"}

\* The type of every variable; a runner's goroutine and a request have their
\* data exactly while they run, and the channel m.sem never holds more than
\* maxParallel tokens.
TypeOK ==
  /\ table \in [Targets -> Row \cup {None}]
  /\ checked \subseteq Targets
  /\ runners \in [Targets -> Runners \cup {None}]
  /\ stats \subseteq Targets
  /\ sem \in 0 .. MaxParallel
  /\ ops \in Requests \cup {Main, None}
  /\ gpc \in [Runners -> RunnerAt]
  /\ job \in [Runners -> Job \cup {None}]
  /\ cancelled \subseteq Runners
  /\ nudged \subseteq Runners
  /\ rpc \in [Requests -> HoldingAt \cup {"idle", "write", "lock"}]
  /\ req \in [Requests -> Request \cup {None}]
  /\ await \in Runners \cup {None}
  /\ upkeep \in {"off", "pass", "select"}
  /\ main \in {"off", "serve", "drain", "join"}
  /\ \A g \in Runners : Live(g) <=> job[g] # None
  /\ \A q \in Requests : rpc[q] = "idle" <=> req[q] = None

\* No target is ever worked on by two goroutines: Reload starts the new runner
\* only after the old one's goroutine ended, although its context may end while
\* a check or a write is under way.  Two would count each other's failures
\* wrongly and open and close each other's incidents.
OneRunner ==
  \A g, h \in Runners : Live(g) /\ Live(h) /\ job[g].t = job[h].t => g = h

\* Every token in m.sem belongs to a running check: none is lost when a check
\* is cancelled, so at most maxParallel checks run and the slots never run out.
SemExact == sem = Cardinality({g \in Runners : gpc[g] = "check"})

\* Between its committed write and the end of its Reload (or during a Delete) a
\* request answers for its target.
Pending(t) == \E q \in Requests : rpc[q] \notin {"idle", "write"} /\ req[q].t = t

\* Whatever the order in which unlocked writes and Reloads of several requests
\* happen: once no request answers for a target, a runner that is not cancelled
\* checks it with the stored configuration, and only if it is not paused.
NeverStale ==
  \A t \in rows, g \in Runners :
    ~Pending(t) /\ Works(g, t) /\ ~Cancelled(g) => table[t] = [c |-> job[g].c, p |-> FALSE]

\* If the database does not fail the reads of Reload and Delete, no unpaused
\* target is left without a runner: not by two requests that cross, not by a
\* failed delete.  (With read faults Reload leaves the target unwatched.)
Watched ==
  ~ReadFaults =>
    \A t \in rows : main = "serve" /\ ~Pending(t) /\ ~table[t].p =>
      \E g \in Runners : runners[t] = g /\ Works(g, t) /\ ~Cancelled(g)

\* A row is deleted only when no goroutine works on the target, so that no
\* check is stored for a target, or for a new one with the same id, by a runner
\* of a deleted one.
DeleteStopsRunner ==
  [][\A t \in rows \ rows' : \A g \in Runners : ~Works(g, t)]_vars

\* While Wait is in wg.Wait nothing adds to the group, although a request may
\* have seen a live context just before the signal: when Wait returns, no
\* runner uses the store that serve() closes.
NoStartWhileJoining ==
  [][main = "join" => \A g \in Runners : Live(g)' => Live(g)]_vars

\* A shutdown ends: every runner and the maintenance goroutine leave their
\* loops, although their tickers may be ready too, and Wait gets ops.
ShutdownTerminates == main = "drain" ~> main = "off"

\* A Reload or Delete that wants ops returns (or the process ends).
ReloadReturns == \A q \in Requests : rpc[q] = "lock" ~> rpc[q] = "idle"

\* A runner always comes to its next check or ends: no token is lost for good
\* and no runner waits for ever in the semaphore.
RunnerChecks == \A g \in Runners : gpc[g] = "select" ~> gpc[g] \in {"check", "done"}
=============================================================================
