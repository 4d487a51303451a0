--------------------------- MODULE SchedulerProofs ---------------------------
(***************************************************************************)
(* Proofs about Scheduler for every number of targets, configurations,     *)
(* runner structs and requests, and every maxParallel.                     *)
(*                                                                         *)
(* OneRunner is not inductive: it holds because a live goroutine is always *)
(* the one m.runners names for its target, or the one the holder of ops is *)
(* waiting for (Owned), and because the holder has taken its target's      *)
(* runner out of the map (Held).                                           *)
(***************************************************************************)
EXTENDS Scheduler, FiniteSetTheorems, TLAPS

\* Whoever is past Lock holds ops, keeps its target out of m.runners, and waits
\* for a goroutine only in stop.
Held ==
  \A q \in Requests : rpc[q] \in HoldingAt =>
    /\ ops = q
    /\ runners[req[q].t] = None
    /\ rpc[q] # "await" => await = None

\* A runner struct is awaited only by a request in stop.
Awaited == await # None => \E q \in Requests : rpc[q] = "await"

\* A live goroutine is in the map, or the holder of ops waits for it.
Owned ==
  \A g \in Runners : Live(g) =>
    \/ runners[job[g].t] = g
    \/ await = g /\ \E q \in Requests : rpc[q] = "await" /\ req[q].t = job[g].t

\* What a request writes, and what it starts a runner with, is a row.
Carried == \A q \in Requests : rpc[q] \in {"write", "act", "start"} => req[q].row \in Row

\* A process that is off has no goroutines, and Wait keeps ops while it joins.
Process ==
  /\ main = "off" => /\ \A g \in Runners : ~Live(g)
                     /\ \A q \in Requests : rpc[q] = "idle"
                     /\ ops = None
                     /\ await = None
  /\ main = "join" => ops = Main

IInv == TypeOK /\ SemExact /\ Held /\ Awaited /\ Owned /\ Carried /\ Process

-----------------------------------------------------------------------------
\* The initial states satisfy the invariant.
LEMMA InitIInv == Init => IInv
<1> SUFFICES ASSUME Init PROVE IInv
  OBVIOUS
<1>1. TypeOK
  BY ParallelAssumption, NullAssumption DEF Init, TypeOK, RunnerAt, Live, rows
<1>2. SemExact
  <2>1. {g \in Runners : gpc[g] = "check"} = {}
    BY DEF Init
  <2> QED
    BY <2>1, FS_EmptySet DEF Init, SemExact
<1>3. Held /\ Awaited /\ Owned /\ Carried /\ Process
  BY DEF Init, Held, Awaited, Owned, Carried, Process, Live, HoldingAt
<1> QED
  BY <1>1, <1>2, <1>3 DEF IInv

\* A token is in the channel while a check runs.
LEMMA TokenOfCheck ==
  ASSUME TypeOK, SemExact, NEW g \in Runners, gpc[g] = "check"
  PROVE  sem \in 1 .. MaxParallel
<1> DEFINE S == {h \in Runners : gpc[h] = "check"}
<1>1. IsFiniteSet(S) /\ g \in S
  BY RunnersAssumption, FS_Subset
<1>2. Cardinality(S) \in Nat /\ Cardinality(S) # 0
  BY <1>1, FS_CardinalityType, FS_EmptySet
<1> QED
  BY <1>2, ParallelAssumption DEF SemExact, TypeOK

\* Steps of a runner's goroutine keep the types.
LEMMA TypeRunner ==
  ASSUME TypeOK, SemExact, NEW g \in Runners, RunnerStep(g) \/ GapPasses(g)
  PROVE  TypeOK'
<1> USE DEF TypeOK, RunnerAt, HoldingAt, Live, Goto, database, handlers
<1>1. CASE Restore(g)
  BY <1>1 DEF Restore, Job
<1>2. CASE Fire(g)
  BY <1>2 DEF Fire
<1>3. CASE Exit(g)
  BY <1>3, NullAssumption DEF Exit
<1>4. CASE Acquire(g)
  BY <1>4, ParallelAssumption DEF Acquire
<1>5. CASE GiveUp(g)
  BY <1>5 DEF GiveUp
<1>6. CASE FinishCheck(g)
  <2>1. sem \in 1 .. MaxParallel
    BY <1>6, TokenOfCheck DEF FinishCheck
  <2> QED
    BY <1>6, <2>1, ParallelAssumption DEF FinishCheck
<1>7. CASE Record(g)
  BY <1>7 DEF Record, Job
<1>8. CASE Insert(g)
  BY <1>8 DEF Insert, Job
<1>9. CASE GapPasses(g)
  BY <1>9 DEF GapPasses
<1> QED
  BY <1>1, <1>2, <1>3, <1>4, <1>5, <1>6, <1>7, <1>8, <1>9 DEF RunnerStep

\* What the pause handler writes is a row.
LEMMA Toggled ==
  ASSUME NEW row \in Row
  PROVE  [c |-> row.c, p |-> ~row.p] \in Row
<1>1. row.c \in Configs /\ (~row.p) \in BOOLEAN
  BY DEF Row
<1> QED
  BY <1>1 DEF Row

\* Steps of a request up to the lock keep the types.
LEMMA TypeForm ==
  ASSUME TypeOK, Carried, NEW q \in Requests, FormStep(q)
  PROVE  TypeOK'
<1> USE NullAssumption DEF TypeOK, RunnerAt, HoldingAt, Live, outside, Begin, Request, Row, rows
<1>1. CASE Write(q)
  BY <1>1 DEF Write, Carried
<1>2. CASE WriteFails(q)
  BY <1>2 DEF WriteFails
<1>3. ASSUME NEW t \in Targets, BeginPause(q, t)
      PROVE  TypeOK'
  <2> DEFINE new == [c |-> table[t].c, p |-> ~table[t].p]
  <2>1. new \in Row
    BY <1>3, Toggled DEF BeginPause
  <2> HIDE DEF new
  <2>2. /\ rpc[q] = "idle"
        /\ rpc' = [rpc EXCEPT ![q] = "write"]
        /\ req' = [req EXCEPT ![q] = [op |-> "pause", t |-> t, row |-> new]]
        /\ UNCHANGED <<table, outside>>
    BY <1>3 DEF BeginPause, new
  <2> QED
    BY <2>1, <2>2
<1>4. ASSUME NEW t \in Targets, BeginRemove(q, t)
      PROVE  TypeOK'
  BY <1>4 DEF BeginRemove
<1>5. ASSUME NEW t \in Targets, NEW row \in Row, BeginSave(q, t, row)
      PROVE  TypeOK'
  BY <1>5 DEF BeginSave
<1>6. ASSUME NEW t \in Targets, NEW row \in Row, Create(q, t, row)
      PROVE  TypeOK'
  BY <1>6 DEF Create
<1> QED
  BY <1>1, <1>2, <1>3, <1>4, <1>5, <1>6 DEF FormStep

\* Steps of Reload and Delete keep the types.
LEMMA TypeOps ==
  ASSUME TypeOK, Carried, NEW q \in Requests, Lock(q) \/ OpsStep(q)
  PROVE  TypeOK'
<1> USE NullAssumption DEF TypeOK, RunnerAt, HoldingAt, Live, database, Unlock, Request
<1>1. CASE Lock(q)
  BY <1>1 DEF Lock
<1>2. CASE Await(q)
  BY <1>2 DEF Await
<1>3. CASE Read(q)
  BY <1>3 DEF Read
<1>4. CASE ReadFails(q) \/ Leave(q) \/ DeleteMisses(q) \/ Unstat(q)
  BY <1>4 DEF ReadFails, Leave, DeleteMisses, Unstat
<1>5. CASE Proceed(q) \/ DeleteFails(q)
  BY <1>5 DEF Proceed, DeleteFails
<1>6. CASE DeleteRow(q)
  BY <1>6 DEF DeleteRow
<1>7. ASSUME NEW g \in Runners, StartRunner(q, g)
      PROVE  TypeOK'
  BY <1>7 DEF StartRunner, Carried, Job, Row
<1> QED
  BY <1>1, <1>2, <1>3, <1>4, <1>5, <1>6, <1>7 DEF OpsStep

\* Steps of serve() and a nudge keep the types.
LEMMA TypeMain ==
  ASSUME TypeOK, MainStep \/ \E t \in Targets : CheckNow(t)
  PROVE  TypeOK'
<1> USE NullAssumption DEF TypeOK, RunnerAt, HoldingAt, Live, database, handlers, FreshProcess
<1>1. CASE Signal \/ WaitLock
  BY <1>1 DEF Signal, WaitLock
<1>2. CASE Join \/ Crash
  BY <1>2, ParallelAssumption DEF Join, Crash
<1>3. ASSUME NEW f \in [Targets -> Runners \cup {None}], Boot(f)
      PROVE  TypeOK'
  BY <1>3 DEF Boot, rows, Job, Row
<1>4. ASSUME NEW t \in Targets, CheckNow(t)
      PROVE  TypeOK'
  BY <1>4 DEF CheckNow, Goto
<1> QED
  BY <1>1, <1>2, <1>3, <1>4 DEF MainStep

\* The maintenance goroutine changes nothing but its own place.
LEMMA MaintainIs ==
  ASSUME MaintainStep
  PROVE  UNCHANGED others /\ upkeep' \in {"off", "pass", "select"}
  BY DEF MaintainStep, PassEnds, PassBegins, MaintainEnds

\* Every step keeps the types.
LEMMA TypeStep == TypeOK /\ SemExact /\ Carried /\ [Next]_vars => TypeOK'
<1> SUFFICES ASSUME TypeOK, SemExact, Carried, [Next]_vars PROVE TypeOK'
  OBVIOUS
<1>1. CASE UNCHANGED vars
  BY <1>1 DEF TypeOK, vars, Live
<1>2. CASE MaintainStep
  BY <1>2, MaintainIs DEF TypeOK, others, database, handlers, Live
<1>3. CASE Next
  BY <1>2, <1>3, TypeRunner, TypeForm, TypeOps, TypeMain DEF Next
<1> QED
  BY <1>1, <1>3

-----------------------------------------------------------------------------
\* No other step than those of the channel changes who is in a check.
LEMMA SameChecks ==
  ASSUME SemExact, sem' = sem,
         \A g \in Runners : gpc'[g] = "check" <=> gpc[g] = "check"
  PROVE  SemExact'
BY DEF SemExact

\* The tokens in m.sem are those of the running checks.
LEMMA SemStep == TypeOK /\ SemExact /\ Process /\ [Next]_vars => SemExact'
<1> SUFFICES ASSUME TypeOK, SemExact, Process, [Next]_vars PROVE SemExact'
  OBVIOUS
<1> DEFINE S == {h \in Runners : gpc[h] = "check"}
<1>0. IsFiniteSet(S)
  BY RunnersAssumption, FS_Subset
<1>1. ASSUME NEW g \in Runners, Acquire(g)
      PROVE  SemExact'
  <2>1. S' = S \cup {g} /\ g \notin S
    BY <1>1 DEF Acquire, Goto, TypeOK
  <2>2. Cardinality(S \cup {g}) = Cardinality(S) + 1
    BY <1>0, <2>1, FS_AddElement
  <2> QED
    BY <1>1, <2>1, <2>2 DEF Acquire, SemExact
<1>2. ASSUME NEW g \in Runners, FinishCheck(g)
      PROVE  SemExact'
  <2>1. S' = S \ {g} /\ g \in S
    BY <1>2 DEF FinishCheck, Goto, TypeOK
  <2>2. Cardinality(S \ {g}) = Cardinality(S) - 1
    BY <1>0, <2>1, FS_RemoveElement
  <2> QED
    BY <1>2, <2>1, <2>2 DEF FinishCheck, SemExact
<1>3. ASSUME NEW g \in Runners, RunnerStep(g) \/ GapPasses(g), ~Acquire(g), ~FinishCheck(g)
      PROVE  SemExact'
  <2>1. sem' = sem /\ \A h \in Runners : gpc'[h] = "check" <=> gpc[h] = "check"
    BY <1>3 DEF RunnerStep, GapPasses, Restore, Fire, Exit, GiveUp, Record, Insert, Goto, TypeOK
  <2> QED
    BY <2>1, SameChecks
<1>4. ASSUME NEW t \in Targets, CheckNow(t)
      PROVE  SemExact'
  <2>1. sem' = sem /\ \A h \in Runners : gpc'[h] = "check" <=> gpc[h] = "check"
    BY <1>4 DEF CheckNow, Goto, TypeOK
  <2> QED
    BY <2>1, SameChecks
<1>5. ASSUME NEW q \in Requests, FormStep(q) \/ Lock(q) \/ OpsStep(q)
      PROVE  SemExact'
  <2>1. CASE FormStep(q)
    <3>1. sem' = sem /\ gpc' = gpc
      BY <2>1 DEF FormStep, Write, WriteFails, BeginPause, BeginRemove, BeginSave, Create, outside
    <3> QED
      BY <3>1, SameChecks
  <2>2. CASE Lock(q) \/ OpsStep(q)
    <3>1. sem' = sem /\ \A h \in Runners : gpc'[h] = "check" <=> gpc[h] = "check"
      BY <2>2 DEF Lock, OpsStep, Await, Read, ReadFails, Leave, Proceed, DeleteRow, DeleteMisses,
                  DeleteFails, Unstat, StartRunner, Unused, Live, TypeOK
    <3> QED
      BY <3>1, SameChecks
  <2> QED
    BY <1>5, <2>1, <2>2
<1>6. ASSUME Signal \/ WaitLock \/ UNCHANGED vars
      PROVE  SemExact'
  BY <1>6, SameChecks DEF Signal, WaitLock, vars
<1>7. ASSUME Join \/ Crash
      PROVE  SemExact'
  <2>1. sem' = 0 /\ S' = {}
    BY <1>7 DEF Join, Crash, FreshProcess, Live
  <2> QED
    BY <2>1, FS_EmptySet DEF SemExact
<1>8. ASSUME NEW f \in [Targets -> Runners \cup {None}], Boot(f)
      PROVE  SemExact'
  <2>1. sem' = sem /\ \A h \in Runners : gpc'[h] = "check" <=> gpc[h] = "check"
    BY <1>8 DEF Boot, Process, Live
  <2> QED
    BY <2>1, SameChecks
<1>9. ASSUME MaintainStep
      PROVE  SemExact'
  BY <1>9, MaintainIs DEF SemExact, others
<1> QED
  BY <1>1, <1>2, <1>3, <1>4, <1>5, <1>6, <1>7, <1>8, <1>9 DEF Next, MainStep

-----------------------------------------------------------------------------
\* Ownership: the parts of the invariant that speak of m.runners, ops and await.
Ownership == Held /\ Awaited /\ Owned /\ Carried /\ Process

\* A runner's goroutine disturbs none of them: it ends at most itself.
LEMMA OwnRunner ==
  ASSUME TypeOK, Ownership, NEW g \in Runners, RunnerStep(g) \/ GapPasses(g)
  PROVE  Ownership'
<1>1. /\ UNCHANGED <<runners, ops, rpc, req, await, main>>
      /\ \A h \in Runners : Live(h)' => Live(h) /\ job'[h] = job[h]
  BY DEF RunnerStep, GapPasses, Restore, Fire, Exit, Acquire, GiveUp, FinishCheck, Record,
         Insert, Goto, Live, TypeOK, handlers
<1> QED
  BY <1>1 DEF Ownership, Held, Awaited, Owned, Carried, Process

\* Nor does a nudge.
LEMMA OwnNudge ==
  ASSUME TypeOK, Ownership, NEW t \in Targets, CheckNow(t)
  PROVE  Ownership'
<1>1. /\ UNCHANGED <<runners, ops, rpc, req, await, main, job>>
      /\ \A h \in Runners : Live(h)' => Live(h)
  BY DEF CheckNow, Goto, Live, TypeOK, handlers
<1> QED
  BY <1>1 DEF Ownership, Held, Awaited, Owned, Carried, Process

\* A request that does not hold ops leaves the holder alone.
LEMMA OwnForm ==
  ASSUME TypeOK, Ownership, NEW q \in Requests, FormStep(q)
  PROVE  Ownership'
<1>1. /\ UNCHANGED <<runners, ops, gpc, job, await, main>>
      /\ main # "off"
      /\ rpc[q] \in {"idle", "write"}
      /\ rpc'[q] \in {"idle", "write", "lock"}
      /\ rpc'[q] = "write" => req'[q].row \in Row
      /\ \A p \in Requests \ {q} : rpc'[p] = rpc[p] /\ req'[p] = req[p]
  <2>1. ASSUME NEW t \in Targets, BeginPause(q, t)
        PROVE  req'[q].row \in Row
    BY <2>1, Toggled DEF BeginPause, Begin, TypeOK, rows
  <2> QED
    BY <2>1 DEF FormStep, Write, WriteFails, BeginPause, BeginRemove, BeginSave, Create, Begin,
                outside, TypeOK, Process, Ownership
<1>2. \A p \in Requests : rpc'[p] \in HoldingAt => p # q
  BY <1>1 DEF HoldingAt
<1>3. \A p \in Requests : rpc[p] = "await" => p # q
  BY <1>1
<1> QED
  BY <1>1, <1>2, <1>3 DEF Ownership, Held, Awaited, Owned, Carried, Process, Live

\* Lock takes the target's runner out of the map and waits for it; the mutex was
\* free, so nobody else is past Lock.
LEMMA OwnLock ==
  ASSUME TypeOK, Ownership, NEW q \in Requests, Lock(q)
  PROVE  Ownership'
<1> USE NullAssumption DEF Ownership, TypeOK
<1>1. /\ ops = None /\ ops' = q /\ main' = main
      /\ rpc[q] = "lock"
      /\ rpc' = [rpc EXCEPT ![q] = "await"]
      /\ runners' = [runners EXCEPT ![req[q].t] = None]
      /\ await' = runners[req[q].t]
      /\ UNCHANGED <<req, gpc, job>>
      /\ req[q].t \in Targets
  BY DEF Lock, Free, Request
<1>2. \A p \in Requests : rpc[p] \notin HoldingAt
  BY <1>1 DEF Held
<1>3. await = None
  BY <1>2 DEF Awaited, HoldingAt
<1>4. Held' /\ Awaited' /\ Carried'
  BY <1>1, <1>2 DEF Held, Awaited, Carried, HoldingAt
<1>5. Owned'
  BY <1>1, <1>3 DEF Owned, Live, Job
<1>6. Process'
  BY <1>1 DEF Process
<1> QED
  BY <1>4, <1>5, <1>6

\* The holder of ops is the only request past Lock.
LEMMA OneHolder ==
  ASSUME Held, NEW p \in Requests, NEW q \in Requests,
         rpc[p] \in HoldingAt, rpc[q] \in HoldingAt
  PROVE  p = q
BY DEF Held

\* Steps of the holder of ops that start no runner.
LEMMA OwnOps ==
  ASSUME TypeOK, Ownership, NEW q \in Requests, OpsStep(q),
         \A g \in Runners : ~StartRunner(q, g)
  PROVE  Ownership'
<1> USE DEF Ownership
<1>1. CASE Await(q)
  <2>1. /\ rpc[q] = "await" /\ rpc'[q] \in {"read", "delete"}
        /\ \A p \in Requests \ {q} : rpc'[p] = rpc[p]
        /\ await' = None /\ ~\E g \in Runners : g = await /\ Live(g)
        /\ UNCHANGED <<runners, ops, gpc, job, req, main>>
    BY <1>1, NullAssumption DEF Await, Joined, TypeOK
  <2>2. Held' /\ Awaited' /\ Carried' /\ Process'
    BY <2>1 DEF Held, Awaited, Carried, Process, HoldingAt, Live
  <2>3. Owned'
    BY <2>1 DEF Owned, Live
  <2> QED
    BY <2>2, <2>3
<1>2. CASE Read(q) \/ Proceed(q) \/ DeleteRow(q) \/ DeleteFails(q)
  <2>1. /\ rpc[q] \in HoldingAt \ {"await"} /\ rpc'[q] \in HoldingAt \ {"await"}
        /\ \A p \in Requests \ {q} : rpc'[p] = rpc[p] /\ req'[p] = req[p]
        /\ req'[q].t = req[q].t
        /\ rpc'[q] \in {"act", "start"} => req'[q].row \in Row
        /\ rpc'[q] # "write"
        /\ UNCHANGED <<runners, ops, gpc, job, await, main>>
    BY <1>2 DEF Read, Proceed, DeleteRow, DeleteFails, HoldingAt, TypeOK, rows, Carried, Request
  <2>2. Held' /\ Awaited' /\ Carried' /\ Process'
    BY <2>1 DEF Held, Awaited, Carried, Process, HoldingAt, Live
  <2>3. Owned'
    BY <2>1 DEF Owned, Live
  <2> QED
    BY <2>2, <2>3
<1>3. CASE ReadFails(q) \/ Leave(q) \/ DeleteMisses(q) \/ Unstat(q)
  <2>1. /\ rpc[q] \in HoldingAt \ {"await"} /\ rpc'[q] = "idle"
        /\ \A p \in Requests \ {q} : rpc'[p] = rpc[p] /\ req'[p] = req[p]
        /\ ops' = None
        /\ UNCHANGED <<runners, gpc, job, await, main>>
    BY <1>3 DEF ReadFails, Leave, DeleteMisses, Unstat, Unlock, HoldingAt, TypeOK
  <2>2. await = None /\ \A p \in Requests : rpc[p] \in HoldingAt => p = q
    BY <2>1, OneHolder DEF Held
  <2>3. ops = q /\ main # "join"
    BY <2>1, NullAssumption DEF Held, Process
  <2> QED
    BY <2>1, <2>2, <2>3 DEF Held, Awaited, Owned, Carried, Process, HoldingAt, Live
<1> QED
  BY <1>1, <1>2, <1>3 DEF OpsStep

\* The new runner is the only goroutine of its target: the map has none, and
\* nobody waits for one.
LEMMA NobodyWorks ==
  ASSUME TypeOK, Ownership, NEW q \in Requests, rpc[q] \in HoldingAt \ {"await"},
         NEW g \in Runners, Live(g)
  PROVE  job[g].t # req[q].t
BY NullAssumption DEF Ownership, Held, Owned, TypeOK, HoldingAt

\* Starting a runner.
LEMMA OwnStart ==
  ASSUME TypeOK, Ownership, NEW q \in Requests, NEW g \in Runners, StartRunner(q, g)
  PROVE  Ownership'
<1> USE NullAssumption DEF Ownership
<1>1. /\ rpc[q] = "start" /\ rpc' = [rpc EXCEPT ![q] = "idle"]
      /\ req' = [req EXCEPT ![q] = None]
      /\ ops' = None /\ await' = await /\ main' = main
      /\ runners' = [runners EXCEPT ![req[q].t] = g]
      /\ gpc' = [gpc EXCEPT ![g] = "restore"]
      /\ job' = [job EXCEPT ![g] = [t |-> req[q].t, c |-> req[q].row.c]]
      /\ req[q].t \in Targets
  BY DEF StartRunner, Unlock, TypeOK, Request
<1>2. /\ ops = q /\ await = None /\ main # "join" /\ main # "off"
      /\ \A p \in Requests : rpc[p] \in HoldingAt => p = q
  BY <1>1, OneHolder DEF Held, Process, HoldingAt
<1>3. Held' /\ Awaited' /\ Carried' /\ Process'
  BY <1>1, <1>2 DEF Held, Awaited, Carried, Process, HoldingAt, TypeOK
<1>4. ASSUME NEW h \in Runners, Live(h)'
      PROVE  runners'[job'[h].t] = h
  <2>1. CASE h = g
    BY <1>1, <2>1 DEF TypeOK
  <2>2. CASE h # g
    <3>1. Live(h) /\ job'[h] = job[h]
      BY <1>1, <1>4, <2>2 DEF Live, TypeOK
    <3>2. job[h].t # req[q].t
      BY <1>1, <3>1, NobodyWorks DEF HoldingAt
    <3>3. runners[job[h].t] = h /\ job[h].t \in Targets
      BY <1>2, <3>1 DEF Owned, TypeOK, Job
    <3> QED
      BY <1>1, <3>1, <3>2, <3>3 DEF TypeOK
  <2> QED
    BY <2>1, <2>2
<1> QED
  BY <1>3, <1>4 DEF Owned

\* Steps of serve().
LEMMA OwnMain ==
  ASSUME TypeOK, Ownership, MainStep
  PROVE  Ownership'
<1> USE DEF Ownership
<1>1. CASE Signal
  BY <1>1 DEF Signal, Held, Awaited, Owned, Carried, Process, Live, handlers
<1>2. CASE WaitLock
  BY <1>2, NullAssumption DEF WaitLock, Held, Awaited, Owned, Carried, Process, Live, handlers
<1>3. CASE Join \/ Crash
  BY <1>3 DEF Join, Crash, FreshProcess, Held, Awaited, Owned, Carried, Process, Live, HoldingAt
<1>4. ASSUME NEW f \in [Targets -> Runners \cup {None}], Boot(f)
      PROVE  Ownership'
  <2>1. /\ \A q \in Requests : rpc'[q] = "idle"
        /\ await' = None /\ main' = "serve"
    BY <1>4 DEF Boot, Process, handlers
  <2>2. ASSUME NEW g \in Runners, Live(g)'
        PROVE  runners'[job'[g].t] = g
    <3> DEFINE due == {t \in rows : ~table[t].p}
               own == CHOOSE u \in due : f[u] = g
    <3>1. \E u \in due : f[u] = g
      BY <1>4, <2>2 DEF Boot, Live
    <3>2. own \in due /\ f[own] = g
      BY <3>1
    <3>3. job'[g].t = own
      BY <1>4, <3>1 DEF Boot
    <3> QED
      BY <1>4, <3>2, <3>3 DEF Boot
  <2> QED
    BY <2>1, <2>2 DEF Held, Awaited, Owned, Carried, Process, HoldingAt
<1> QED
  BY <1>1, <1>2, <1>3, <1>4 DEF MainStep

\* Every step keeps the ownership.
LEMMA OwnStep == TypeOK /\ Ownership /\ [Next]_vars => Ownership'
<1> SUFFICES ASSUME TypeOK, Ownership, [Next]_vars PROVE Ownership'
  OBVIOUS
<1>1. CASE UNCHANGED vars
  BY <1>1 DEF vars, Ownership, Held, Awaited, Owned, Carried, Process, Live
<1>2. CASE MaintainStep
  BY <1>2, MaintainIs DEF others, handlers, Ownership, Held, Awaited, Owned, Carried, Process, Live
<1>3. CASE Next
  BY <1>2, <1>3, OwnRunner, OwnNudge, OwnForm, OwnLock, OwnOps, OwnStart, OwnMain DEF Next
<1> QED
  BY <1>1, <1>3

\* The invariant is inductive.
LEMMA StepIInv == IInv /\ [Next]_vars => IInv'
BY TypeStep, SemStep, OwnStep DEF IInv, Ownership

\* The invariant holds in every state.
THEOREM Invariant == Spec => []IInv
BY InitIInv, StepIInv, PTL DEF Spec

-----------------------------------------------------------------------------
\* Type correctness, with the bound on the semaphore's tokens.
THEOREM TypeCorrect == Spec => []TypeOK
<1>1. IInv => TypeOK
  BY DEF IInv
<1> QED
  BY <1>1, Invariant, PTL

\* No token of the semaphore is lost or invented.
THEOREM SemaphoreExact == Spec => []SemExact
<1>1. IInv => SemExact
  BY DEF IInv
<1> QED
  BY <1>1, Invariant, PTL

\* No target is worked on by two goroutines, whatever requests cross.
THEOREM AtMostOneRunner == Spec => []OneRunner
<1>1. IInv => OneRunner
  <2> SUFFICES ASSUME IInv, NEW g \in Runners, NEW h \in Runners,
                      Live(g), Live(h), job[g].t = job[h].t
               PROVE  g = h
    BY DEF OneRunner
  <2>1. \A r \in Runners : Live(r) => runners[job[r].t] = r \/ await = r
    BY DEF IInv, Owned
  <2>2. ASSUME NEW r \in Runners, NEW s \in Runners, Live(r), Live(s), job[r].t = job[s].t,
               await = r, runners[job[s].t] = s, r # s
        PROVE  FALSE
    <3>1. \/ runners[job[r].t] = r
          \/ \E q \in Requests : rpc[q] = "await" /\ req[q].t = job[r].t
      BY <2>2 DEF IInv, Owned
    <3>2. \A q \in Requests : rpc[q] = "await" => runners[req[q].t] = None
      BY DEF IInv, Held, HoldingAt
    <3> QED
      BY <2>2, <3>1, <3>2, NullAssumption
  <2> QED
    BY <2>1, <2>2
<1> QED
  BY <1>1, Invariant, PTL

\* A row goes only when no goroutine works on its target.
THEOREM DeleteIsSafe == Spec => DeleteStopsRunner
<1>1. ASSUME IInv, [Next]_vars, NEW t \in rows \ rows', NEW g \in Runners, Works(g, t)
      PROVE  FALSE
  <2>1. \E q \in Requests : DeleteRow(q) /\ req[q].t = t
    <3>1. table' # table /\ t \in Targets /\ table[t] # None /\ table'[t] = None
      BY <1>1 DEF rows
    <3>2. Next
      BY <1>1, <3>1 DEF vars
    <3>3. ASSUME NEW q \in Requests, FormStep(q)
          PROVE  FALSE
      <4>1. \A r \in Row : r # None
        BY NullAssumption
      <4>2. rpc[q] = "write" => req[q].row \in Row
        BY <1>1 DEF IInv, Carried
      <4>3. CASE Write(q)
        <5>1. table[t] \in Row
          BY <1>1, <3>1 DEF IInv, TypeOK
        <5>2. req[q].row.p \in BOOLEAN /\ table[t].c \in Configs
          BY <4>2, <4>3, <5>1 DEF Write, Row
        <5>3. [c |-> table[t].c, p |-> req[q].row.p] \in Row
          BY <5>2 DEF Row
        <5> QED
          BY <1>1, <3>1, <4>1, <4>2, <4>3, <5>3 DEF Write, IInv, TypeOK
      <4>4. ASSUME NEW u \in Targets, NEW row \in Row, Create(q, u, row)
            PROVE  FALSE
        BY <1>1, <3>1, <4>1, <4>4 DEF Create, IInv, TypeOK
      <4> QED
        BY <3>1, <3>3, <4>3, <4>4 DEF FormStep, WriteFails, BeginPause, BeginRemove, BeginSave
    <3>4. ~\E h \in Runners : RunnerStep(h) \/ GapPasses(h)
      BY <3>1 DEF RunnerStep, GapPasses, Restore, Fire, Exit, Acquire, GiveUp, FinishCheck,
                  Record, Insert, database
    <3>5. ~MainStep /\ ~MaintainStep /\ ~\E u \in Targets : CheckNow(u)
      BY <3>1, MaintainIs DEF MainStep, Signal, WaitLock, Join, Crash, Boot, CheckNow, others,
                              database
    <3>6. \E q \in Requests : Lock(q) \/ OpsStep(q)
      BY <3>2, <3>3, <3>4, <3>5 DEF Next
    <3>7. \E q \in Requests : DeleteRow(q)
      BY <3>1, <3>6 DEF Lock, OpsStep, Await, Read, ReadFails, Leave, Proceed, DeleteMisses,
                        DeleteFails, Unstat, StartRunner, database
    <3> QED
      BY <1>1, <3>1, <3>7 DEF DeleteRow, IInv, TypeOK
  <2>2. PICK q \in Requests : rpc[q] = "delete" /\ req[q].t = t
    BY <2>1 DEF DeleteRow
  <2> QED
    BY <1>1, <2>2, NobodyWorks DEF IInv, Ownership, HoldingAt, Works
<1>2. IInv /\ [Next]_vars => [\A t \in rows \ rows' : \A g \in Runners : ~Works(g, t)]_vars
  BY <1>1
<1> QED
  BY <1>2, Invariant, PTL DEF Spec, DeleteStopsRunner

\* Nothing is added to the wait group while Wait waits.
THEOREM JoinIsSafe == Spec => NoStartWhileJoining
<1>1. ASSUME IInv, [Next]_vars, main = "join", NEW g \in Runners, Live(g)', ~Live(g)
      PROVE  FALSE
  <2>1. ops = Main
    BY <1>1 DEF IInv, Process
  <2>2. \A q \in Requests : rpc[q] # "start"
    BY <1>1, <2>1, NullAssumption DEF IInv, Held, HoldingAt
  <2>3. Next
    BY <1>1 DEF vars, Live
  <2>4. ~\E h \in Runners : RunnerStep(h) \/ GapPasses(h)
    BY <1>1 DEF IInv, TypeOK, Live, RunnerStep, GapPasses, Restore, Fire, Exit, Acquire, GiveUp,
                FinishCheck, Record, Insert, Goto
  <2>5. ~\E t \in Targets : CheckNow(t)
    BY <1>1 DEF IInv, TypeOK, Live, CheckNow, Goto
  <2>6. ~MainStep /\ ~MaintainStep
    BY <1>1, MaintainIs DEF Live, MainStep, Signal, WaitLock, Join, Crash, Boot, others
  <2>7. ~\E q \in Requests : FormStep(q)
    BY <1>1 DEF Live, FormStep, Write, WriteFails, BeginPause, BeginRemove, BeginSave, Create,
                outside
  <2>8. ~\E q \in Requests : Lock(q) \/ OpsStep(q)
    BY <1>1, <2>2 DEF Live, Lock, OpsStep, Await, Read, ReadFails, Leave, Proceed, DeleteRow,
                      DeleteMisses, DeleteFails, Unstat, StartRunner
  <2> QED
    BY <2>3, <2>4, <2>5, <2>6, <2>7, <2>8 DEF Next
<1>2. IInv /\ [Next]_vars =>
        [main = "join" => \A g \in Runners : Live(g)' => Live(g)]_vars
  BY <1>1
<1> QED
  BY <1>2, Invariant, PTL DEF Spec, NoStartWhileJoining

-----------------------------------------------------------------------------
(* NeverStale.  A runner stop has not cancelled has the stored row, or     *)
(* somebody who wrote later is still on the way to its Lock (Current); the *)
(* same holds of the row a Reload has read (ReadRow).                      *)

\* A request on target t has written and waits for ops.
Coming(t) == \E q \in Requests : rpc[q] = "lock" /\ req[q].t = t

Current ==
  \A g \in Runners : Live(g) /\ g \notin cancelled =>
    \A t \in rows : job[g].t = t =>
      Coming(t) \/ table[t] = [c |-> job[g].c, p |-> FALSE]

HasRead(q) ==
  rpc[q] \in {"act", "start"} =>
    /\ req[q].t \in rows => Coming(req[q].t) \/ table[req[q].t] = req[q].row
    /\ rpc[q] = "start" => ~req[q].row.p

ReadRow == \A q \in Requests : HasRead(q)

\* Only a cancelled runner is waited for.
StopCancels == await # None => await \in cancelled

Freshness == Current /\ ReadRow /\ StopCancels

\* A row is its two columns.
LEMMA RowIs ==
  ASSUME NEW row \in Row, ~row.p
  PROVE  row = [c |-> row.c, p |-> FALSE]
BY DEF Row

\* Steps that leave the rows, the requests and the cancelled runners alone and
\* start nothing.
LEMMA FreshFrame ==
  ASSUME Freshness, UNCHANGED <<table, rpc, req, cancelled, await>>,
         \A g \in Runners : Live(g)' => Live(g) /\ job'[g] = job[g]
  PROVE  Freshness'
BY DEF Freshness, Current, ReadRow, HasRead, StopCancels, Coming, rows

\* A request's write is followed by its own Reload.
LEMMA FreshForm ==
  ASSUME TypeOK, Ownership, Freshness, NEW q \in Requests, FormStep(q)
  PROVE  Freshness'
<1>1. /\ UNCHANGED <<gpc, job, cancelled, await>>
      /\ rpc[q] \in {"idle", "write"}
      /\ rpc'[q] \in {"idle", "write", "lock"}
      /\ \A p \in Requests \ {q} : rpc'[p] = rpc[p] /\ req'[p] = req[p]
      /\ \A t \in Targets : table'[t] # table[t] => rpc'[q] = "lock" /\ req'[q].t = t
  BY DEF FormStep, Write, WriteFails, BeginPause, BeginRemove, BeginSave, Create, Begin,
         outside, TypeOK
<1>2. \A t \in Targets : Coming(t) => Coming(t)'
  BY <1>1 DEF Coming
<1>3. \A t \in Targets : table'[t] # table[t] => Coming(t)'
  BY <1>1 DEF Coming
<1>4. Current'
  BY <1>1, <1>2, <1>3 DEF Freshness, Current, rows, Live
<1>5. ReadRow'
  <2> SUFFICES ASSUME NEW p \in Requests, rpc'[p] \in {"act", "start"}
               PROVE  HasRead(p)'
    BY DEF ReadRow, HasRead
  <2>1. p # q /\ rpc'[p] = rpc[p] /\ req'[p] = req[p]
    BY <1>1
  <2>2. HasRead(p) /\ req[p].t \in Targets
    BY <2>1 DEF Freshness, ReadRow, TypeOK, Request
  <2>3. Coming(req[p].t) => Coming(req[p].t)'
    BY <1>2, <2>1, <2>2 DEF Coming
  <2>4. table'[req[p].t] # table[req[p].t] => Coming(req[p].t)'
    BY <1>3, <2>1, <2>2 DEF Coming
  <2> QED
    BY <2>1, <2>2, <2>3, <2>4 DEF HasRead, rows
<1>6. StopCancels'
  BY <1>1 DEF Freshness, StopCancels
<1> QED
  BY <1>4, <1>5, <1>6 DEF Freshness

\* Lock cancels the runner its request had made stale.
LEMMA FreshLock ==
  ASSUME TypeOK, Ownership, Freshness, NEW q \in Requests, Lock(q)
  PROVE  Freshness'
<1> USE NullAssumption DEF TypeOK
<1>1. /\ UNCHANGED <<table, gpc, job, req>>
      /\ rpc[q] = "lock" /\ rpc' = [rpc EXCEPT ![q] = "await"]
      /\ await' = runners[req[q].t]
      /\ cancelled' = cancelled \cup ({runners[req[q].t]} \ {None})
      /\ ops = None
  BY DEF Lock, Free, database
<1>2. await = None /\ \A p \in Requests : rpc[p] \notin HoldingAt
  BY <1>1 DEF Ownership, Held, Awaited, HoldingAt
<1>3. \A t \in Targets : t # req[q].t /\ Coming(t) => Coming(t)'
  BY <1>1 DEF Coming
<1>4. ASSUME NEW g \in Runners, Live(g), job[g].t = req[q].t
      PROVE  g \in cancelled'
  BY <1>1, <1>2, <1>4 DEF Ownership, Owned
<1>5. Current'
  BY <1>1, <1>3, <1>4 DEF Freshness, Current, rows, Live
<1>6. ReadRow' /\ StopCancels'
  BY <1>1, <1>2 DEF ReadRow, HasRead, StopCancels, HoldingAt
<1> QED
  BY <1>5, <1>6 DEF Freshness

\* Steps of the holder of ops that start no runner.
LEMMA FreshOps ==
  ASSUME TypeOK, Ownership, Freshness, NEW q \in Requests, OpsStep(q),
         \A g \in Runners : ~StartRunner(q, g)
  PROVE  Freshness'
<1>1. /\ UNCHANGED <<gpc, job, cancelled>>
      /\ rpc[q] \in HoldingAt
      /\ rpc'[q] \in HoldingAt \cup {"idle"}
      /\ \A p \in Requests \ {q} : rpc'[p] = rpc[p] /\ req'[p] = req[p]
      /\ \A t \in Targets : t \in rows' => t \in rows /\ table'[t] = table[t]
      /\ await' \in {await, None}
  BY DEF OpsStep, Await, Read, ReadFails, Leave, Proceed, DeleteRow, DeleteMisses, DeleteFails,
         Unstat, Unlock, HoldingAt, TypeOK, rows, database
<1>2. \A t \in Targets : Coming(t)' <=> Coming(t)
  BY <1>1 DEF Coming, HoldingAt
<1>3. Current'
  BY <1>1, <1>2 DEF Freshness, Current, rows, Live
<1>4. StopCancels'
  BY <1>1 DEF Freshness, StopCancels
<1>5. \A p \in Requests \ {q} : rpc'[p] \notin {"act", "start"}
  BY <1>1, OneHolder DEF Ownership, HoldingAt
<1>6. ASSUME rpc'[q] \in {"act", "start"}
      PROVE  HasRead(q)'
  <2>1. CASE Read(q)
    BY <2>1 DEF Read, HasRead, TypeOK, Request, rows, database
  <2>2. CASE Proceed(q)
    <3>1. rpc[q] = "act" /\ ~req[q].row.p /\ UNCHANGED <<req, table>> /\ req[q].t \in Targets
      BY <2>2 DEF Proceed, TypeOK, Request, database
    <3>2. Coming(req[q].t) => Coming(req[q].t)'
      BY <1>2, <3>1 DEF Coming
    <3> QED
      BY <3>1, <3>2 DEF Freshness, ReadRow, HasRead, rows
  <2>3. Read(q) \/ Proceed(q)
    BY <1>6 DEF OpsStep, Await, ReadFails, Leave, DeleteRow, DeleteMisses, DeleteFails, Unstat,
                Unlock, TypeOK
  <2> QED
    BY <2>1, <2>2, <2>3
<1>7. ReadRow'
  BY <1>5, <1>6 DEF ReadRow, HasRead
<1> QED
  BY <1>3, <1>4, <1>7 DEF Freshness

\* The new runner has the row that was read.
LEMMA FreshStart ==
  ASSUME TypeOK, Ownership, Freshness, NEW q \in Requests, NEW g \in Runners, StartRunner(q, g)
  PROVE  Freshness'
<1> DEFINE t == req[q].t
<1>1. /\ rpc[q] = "start" /\ rpc' = [rpc EXCEPT ![q] = "idle"]
      /\ \A p \in Requests \ {q} : req'[p] = req[p]
      /\ gpc' = [gpc EXCEPT ![g] = "restore"]
      /\ job' = [job EXCEPT ![g] = [t |-> t, c |-> req[q].row.c]]
      /\ cancelled' = cancelled \ {g}
      /\ await # g
      /\ UNCHANGED <<table, await>>
  BY DEF StartRunner, Unlock, Unused, TypeOK, database
<1>2. \A u \in Targets : Coming(u) => Coming(u)'
  BY <1>1 DEF Coming, TypeOK
<1>3. t \in Targets /\ req[q].row \in Row /\ ~req[q].row.p
  BY <1>1 DEF TypeOK, Request, Ownership, Carried, Freshness, ReadRow, HasRead
<1>4. req[q].row = [c |-> req[q].row.c, p |-> FALSE]
  BY <1>3, RowIs
<1>5. t \in rows => Coming(t) \/ table[t] = [c |-> req[q].row.c, p |-> FALSE]
  BY <1>1, <1>4 DEF Freshness, ReadRow, HasRead
<1>6. Current'
  <2> SUFFICES ASSUME NEW h \in Runners, Live(h)', h \notin cancelled',
                      NEW u \in rows', job'[h].t = u
               PROVE  Coming(u)' \/ table'[u] = [c |-> job'[h].c, p |-> FALSE]
    BY DEF Current
  <2>0. u \in rows /\ u \in Targets
    BY <1>1 DEF rows
  <2>1. CASE h = g
    <3>1. job'[h] = [t |-> t, c |-> req[q].row.c]
      BY <1>1, <2>1 DEF TypeOK
    <3>2. u = t /\ job'[h].c = req[q].row.c
      BY <3>1
    <3> QED
      BY <1>1, <1>2, <1>5, <2>0, <3>2
  <2>2. CASE h # g
    <3>1. Live(h) /\ job'[h] = job[h] /\ h \notin cancelled
      BY <1>1, <2>2 DEF Live, TypeOK
    <3> QED
      BY <1>1, <1>2, <2>0, <3>1 DEF Freshness, Current
  <2> QED
    BY <2>1, <2>2
<1>7. ReadRow'
  <2>1. \A p \in Requests : rpc'[p] \notin {"act", "start"}
    BY <1>1, OneHolder DEF Ownership, HoldingAt, TypeOK
  <2> QED
    BY <2>1 DEF ReadRow, HasRead
<1>8. StopCancels'
  BY <1>1 DEF Freshness, StopCancels
<1> QED
  BY <1>6, <1>7, <1>8 DEF Freshness

\* Start gives every runner its stored row; a process that ends leaves none.
LEMMA FreshMain ==
  ASSUME TypeOK, Ownership, Freshness, MainStep
  PROVE  Freshness'
<1>1. CASE Signal \/ WaitLock
  <2>1. UNCHANGED <<table, rpc, req, cancelled, await, gpc, job>>
    BY <1>1 DEF Signal, WaitLock, database, handlers
  <2> QED
    BY <2>1, FreshFrame DEF Live
<1>2. CASE Join \/ Crash
  BY <1>2 DEF Join, Crash, FreshProcess, Freshness, Current, ReadRow, HasRead, StopCancels, Live
<1>3. ASSUME NEW f \in [Targets -> Runners \cup {None}], Boot(f)
      PROVE  Freshness'
  <2>1. /\ UNCHANGED <<table, cancelled>> /\ await' = None
        /\ \A q \in Requests : rpc'[q] = "idle"
    BY <1>3 DEF Boot, Ownership, Process, handlers, database
  <2>2. ASSUME NEW g \in Runners, Live(g)'
        PROVE  table'[job'[g].t] = [c |-> job'[g].c, p |-> FALSE]
    <3> DEFINE due == {t \in rows : ~table[t].p}
               own == CHOOSE u \in due : f[u] = g
    <3>1. \E u \in due : f[u] = g
      BY <1>3, <2>2 DEF Boot, Live
    <3>2. own \in due
      BY <3>1
    <3>3. job'[g] = [t |-> own, c |-> table[own].c]
      BY <1>3, <3>1 DEF Boot
    <3>4. table[own] \in Row /\ ~table[own].p
      BY <3>2 DEF TypeOK, rows
    <3>5. table[own] = [c |-> table[own].c, p |-> FALSE]
      BY <3>4, RowIs
    <3>6. job'[g].t = own /\ job'[g].c = table[own].c
      BY <3>3
    <3> QED
      BY <2>1, <3>5, <3>6
  <2> QED
    BY <2>1, <2>2 DEF Freshness, Current, ReadRow, HasRead, StopCancels
<1> QED
  BY <1>1, <1>2, <1>3 DEF MainStep

\* Freshness is kept by every step.
LEMMA FreshStep == TypeOK /\ Ownership /\ Freshness /\ [Next]_vars => Freshness'
<1> SUFFICES ASSUME TypeOK, Ownership, Freshness, [Next]_vars PROVE Freshness'
  OBVIOUS
<1>1. CASE UNCHANGED vars
  BY <1>1, FreshFrame DEF vars, Live
<1>2. ASSUME NEW g \in Runners, RunnerStep(g) \/ GapPasses(g)
      PROVE  Freshness'
  <2>1. /\ UNCHANGED <<table, rpc, req, cancelled, await>>
        /\ \A h \in Runners : Live(h)' => Live(h) /\ job'[h] = job[h]
    BY <1>2 DEF RunnerStep, GapPasses, Restore, Fire, Exit, Acquire, GiveUp, FinishCheck, Record,
                Insert, Goto, Live, TypeOK, handlers, database
  <2> QED
    BY <2>1, FreshFrame
<1>3. ASSUME NEW t \in Targets, CheckNow(t)
      PROVE  Freshness'
  <2>1. /\ UNCHANGED <<table, rpc, req, cancelled, await, job>>
        /\ \A h \in Runners : Live(h)' => Live(h)
    BY <1>3 DEF CheckNow, Goto, Live, TypeOK, handlers, database
  <2> QED
    BY <2>1, FreshFrame
<1>4. ASSUME MaintainStep
      PROVE  Freshness'
  <2>1. /\ UNCHANGED <<table, rpc, req, cancelled, await, job>>
        /\ \A h \in Runners : Live(h)' => Live(h)
    BY <1>4, MaintainIs DEF others, handlers, database, Live
  <2> QED
    BY <2>1, FreshFrame
<1> QED
  BY <1>1, <1>2, <1>3, <1>4, FreshForm, FreshLock, FreshOps, FreshStart, FreshMain DEF Next

\* A settled target is checked with what is stored, and only if it is not paused.
THEOREM NoStaleRunner == Spec => []NeverStale
<1>1. Init => Freshness
  BY DEF Init, Freshness, Current, ReadRow, HasRead, StopCancels, Live
<1>2. IInv /\ Freshness /\ [Next]_vars => Freshness'
  BY FreshStep DEF IInv, Ownership
<1>3. Freshness => NeverStale
  BY DEF Freshness, Current, Coming, NeverStale, Pending, Works, Cancelled
<1> QED
  BY <1>1, <1>2, <1>3, Invariant, PTL DEF Spec

-----------------------------------------------------------------------------
(* Watched.  While the process serves, a runner in the map works on its    *)
(* target (Working), and an unpaused target without one has a request that *)
(* has yet to look at its row, or to start what it read (Cared).           *)

\* Nothing stops a runner but taking it out of the map; a new process has
\* cancelled none.
Working ==
  /\ main = "off" => cancelled = {}
  /\ main = "serve" => \A t \in Targets : runners[t] # None =>
                         Works(runners[t], t) /\ runners[t] \notin cancelled

\* A request on target t is between its write and the end of its Reload, or has
\* not deleted the row yet.
Caring(q, t) ==
  req[q].t = t /\ rpc[q] \in {"lock", "await", "read", "act", "start", "delete"}

Cared ==
  main = "serve" => \A t \in rows : ~table[t].p /\ runners[t] = None =>
                      \E q \in Requests : Caring(q, t)

Watch == Working /\ Cared

\* Steps that leave the rows, the map and the requests alone and end no runner
\* that is not cancelled.
LEMMA WatchFrame ==
  ASSUME TypeOK, Watch, UNCHANGED <<table, runners, cancelled, rpc, req, main>>,
         main = "serve" => \A g \in Runners : Live(g) /\ g \notin cancelled =>
                             Live(g)' /\ job'[g] = job[g]
  PROVE  Watch'
<1>1. Working'
  BY NullAssumption DEF Watch, Working, Works, TypeOK
<1>2. Cared'
  BY DEF Watch, Cared, Caring, rows
<1> QED
  BY <1>1, <1>2 DEF Watch

\* Who writes a row cares for it.
LEMMA WatchForm ==
  ASSUME TypeOK, Ownership, Watch, NEW q \in Requests, FormStep(q)
  PROVE  Watch'
<1>1. /\ UNCHANGED <<gpc, job, runners, cancelled, main>>
      /\ rpc[q] \in {"idle", "write"}
      /\ \A p \in Requests \ {q} : rpc'[p] = rpc[p] /\ req'[p] = req[p]
      /\ \A t \in Targets : table'[t] # table[t] => rpc'[q] = "lock" /\ req'[q].t = t
  BY DEF FormStep, Write, WriteFails, BeginPause, BeginRemove, BeginSave, Create, Begin,
         outside, TypeOK
<1>2. Working'
  BY <1>1 DEF Watch, Working, Works, Live
<1>3. \A t \in Targets, p \in Requests : Caring(p, t) => Caring(p, t)'
  BY <1>1 DEF Caring
<1>4. \A t \in Targets : table'[t] # table[t] => Caring(q, t)'
  BY <1>1 DEF Caring
<1>5. Cared'
  BY <1>1, <1>3, <1>4 DEF Watch, Cared, rows
<1> QED
  BY <1>2, <1>5 DEF Watch

\* Lock takes one runner out of the map, and that of no other target.
LEMMA WatchLock ==
  ASSUME TypeOK, Ownership, Watch, NEW q \in Requests, Lock(q)
  PROVE  Watch'
<1>1. /\ UNCHANGED <<table, gpc, job, req, main>>
      /\ rpc[q] = "lock" /\ rpc' = [rpc EXCEPT ![q] = "await"]
      /\ runners' = [runners EXCEPT ![req[q].t] = None]
      /\ cancelled' = cancelled \cup ({runners[req[q].t]} \ {None})
      /\ req[q].t \in Targets
  BY NullAssumption DEF Lock, database, TypeOK, Request
<1>2. Working'
  BY <1>1, NullAssumption DEF Watch, Working, Works, Live, TypeOK, Ownership, Process
<1>3. \A t \in Targets, p \in Requests : Caring(p, t) => Caring(p, t)'
  BY <1>1 DEF Caring, TypeOK
<1>4. Caring(q, req[q].t)'
  BY <1>1 DEF Caring, TypeOK
<1>5. Cared'
  BY <1>1, <1>3, <1>4 DEF Watch, Cared, rows, TypeOK
<1> QED
  BY <1>2, <1>5 DEF Watch

\* The holder of ops stops caring when the row is gone or paused, or when
\* another request has changed it since it was read.
LEMMA WatchOps ==
  ASSUME ~ReadFaults, TypeOK, Ownership, Freshness, Watch, NEW q \in Requests, OpsStep(q),
         \A g \in Runners : ~StartRunner(q, g)
  PROVE  Watch'
<1>1. /\ UNCHANGED <<gpc, job, runners, cancelled, main>>
      /\ \A p \in Requests \ {q} : rpc'[p] = rpc[p] /\ req'[p] = req[p]
      /\ \A t \in Targets : t \in rows' => t \in rows /\ table'[t] = table[t]
      /\ req[q].t \in Targets
  BY NullAssumption DEF OpsStep, Await, Read, ReadFails, Leave, Proceed, DeleteRow, DeleteMisses,
         DeleteFails, Unstat, Unlock, TypeOK, Request, rows, database
<1>2. Working'
  BY <1>1 DEF Watch, Working, Works, Live
<1>3. ASSUME main = "serve", NEW t \in rows', ~table[t].p, NEW p \in Requests, Caring(p, t)
      PROVE  \E r \in Requests : Caring(r, t)'
  <2>0. t \in Targets /\ t \in rows
    BY <1>1, <1>3 DEF rows
  <2>1. CASE p # q
    BY <1>1, <1>3, <2>1 DEF Caring
  <2>2. CASE Await(q) \/ Read(q) \/ Proceed(q) \/ DeleteFails(q)
    <3>1. rpc'[q] \in {"read", "act", "start", "delete"} /\ req'[q].t = req[q].t
      BY <2>2 DEF Await, Read, Proceed, DeleteFails, TypeOK, Request
    <3> QED
      BY <1>3, <2>1, <3>1 DEF Caring
  <2>3. CASE p = q /\ (ReadFails(q) \/ DeleteMisses(q) \/ DeleteRow(q) \/ Unstat(q))
    BY <1>3, <2>0, <2>3 DEF ReadFails, DeleteMisses, DeleteRow, Unstat, Caring, TypeOK, rows
  <2>4. CASE p = q /\ Leave(q)
    <3>1. rpc[q] = "act" /\ req[q].row.p /\ req[q].t = t
      BY <1>3, <2>4 DEF Leave, Down, Caring
    <3>2. Coming(t)
      BY <1>3, <2>0, <3>1 DEF Freshness, ReadRow, HasRead
    <3>3. PICK r \in Requests : rpc[r] = "lock" /\ req[r].t = t
      BY <3>2 DEF Coming
    <3> QED
      BY <1>1, <3>1, <3>3 DEF Caring
  <2> QED
    BY <2>1, <2>2, <2>3, <2>4 DEF OpsStep
<1>4. Cared'
  BY <1>1, <1>3 DEF Watch, Cared, rows
<1> QED
  BY <1>2, <1>4 DEF Watch

\* The new runner is in the map.
LEMMA WatchStart ==
  ASSUME TypeOK, Ownership, Watch, NEW q \in Requests, NEW g \in Runners, StartRunner(q, g)
  PROVE  Watch'
<1> DEFINE t == req[q].t
<1>1. /\ \A p \in Requests \ {q} : rpc'[p] = rpc[p] /\ req'[p] = req[p]
      /\ runners' = [runners EXCEPT ![t] = g]
      /\ gpc' = [gpc EXCEPT ![g] = "restore"]
      /\ job' = [job EXCEPT ![g] = [t |-> t, c |-> req[q].row.c]]
      /\ cancelled' = cancelled \ {g}
      /\ UNCHANGED <<table, main>>
      /\ \A u \in Targets : runners[u] # g
      /\ rpc[q] = "start" /\ t \in Targets
  BY NullAssumption DEF StartRunner, Unlock, Unused, TypeOK, database, Request
<1>2. Live(g)' /\ job'[g].t = t /\ g \notin cancelled'
  BY <1>1 DEF Live, TypeOK
<1>3. Working'
  <2>0. main # "off"
    BY <1>1 DEF Ownership, Process
  <2> SUFFICES ASSUME main = "serve", NEW u \in Targets, runners'[u] # None
               PROVE  /\ gpc'[runners'[u]] # "done" /\ job'[runners'[u]].t = u
                      /\ runners'[u] \notin cancelled'
    BY <1>1, <2>0 DEF Working, Works, Live
  <2>1. CASE u = t
    BY <1>1, <1>2, <2>1 DEF Live, TypeOK
  <2>2. CASE u # t
    BY <1>1, <2>2, NullAssumption DEF Watch, Working, Works, Live, TypeOK
  <2> QED
    BY <2>1, <2>2
<1>4. runners'[t] # None
  BY <1>1, NullAssumption DEF TypeOK
<1>5. \A u \in Targets, p \in Requests : u # t /\ Caring(p, u) => Caring(p, u)'
  BY <1>1 DEF Caring
<1>6. Cared'
  BY <1>1, <1>4, <1>5 DEF Watch, Cared, rows, TypeOK
<1> QED
  BY <1>3, <1>6 DEF Watch

\* Start finds every unpaused row.
LEMMA WatchMain ==
  ASSUME TypeOK, Ownership, Watch, MainStep
  PROVE  Watch'
<1>1. CASE Signal \/ WaitLock \/ Join \/ Crash
  BY <1>1 DEF Signal, WaitLock, Join, Crash, FreshProcess, Watch, Working, Cared
<1>2. ASSUME NEW f \in [Targets -> Runners \cup {None}], Boot(f)
      PROVE  Watch'
  <2> DEFINE due == {t \in rows : ~table[t].p}
  <2>1. /\ runners' = f /\ table' = table /\ cancelled' = cancelled
        /\ \A t \in Targets : f[t] = None <=> t \notin due
        /\ \A t, u \in due : f[t] = f[u] => t = u
    BY <1>2 DEF Boot, database
  <2>2. Cared'
    BY <2>1 DEF Cared, rows
  <2>3. ASSUME NEW t \in Targets, f[t] # None
        PROVE  Works(f[t], t)'
    <3> DEFINE own == CHOOSE u \in due : f[u] = f[t]
    <3>1. t \in due /\ f[t] \in Runners
      BY <2>1, <2>3
    <3>2. own = t
      BY <2>1, <3>1
    <3>3. gpc'[f[t]] = "restore" /\ job'[f[t]] = [t |-> own, c |-> table[own].c]
      BY <1>2, <3>1 DEF Boot
    <3> QED
      BY <3>2, <3>3 DEF Works, Live
  <2>4. cancelled = {}
    BY <1>2 DEF Boot, Watch, Working
  <2> QED
    BY <2>1, <2>2, <2>3, <2>4 DEF Watch, Working
<1> QED
  BY <1>1, <1>2 DEF MainStep

\* Every step keeps the targets watched, while no read of the database fails.
LEMMA WatchStep ==
  ~ReadFaults /\ TypeOK /\ Ownership /\ Freshness /\ Watch /\ [Next]_vars => Watch'
<1> SUFFICES ASSUME ~ReadFaults, TypeOK, Ownership, Freshness, Watch, [Next]_vars PROVE Watch'
  OBVIOUS
<1>1. CASE UNCHANGED vars
  BY <1>1, WatchFrame DEF vars, Live
<1>2. ASSUME NEW g \in Runners, RunnerStep(g) \/ GapPasses(g)
      PROVE  Watch'
  <2>1. /\ UNCHANGED <<table, runners, cancelled, rpc, req, main>>
        /\ main = "serve" => \A h \in Runners : Live(h) /\ h \notin cancelled =>
                               Live(h)' /\ job'[h] = job[h]
    BY <1>2 DEF RunnerStep, GapPasses, Restore, Fire, Exit, Acquire, GiveUp, FinishCheck, Record,
                Insert, Goto, Live, TypeOK, handlers, database, Cancelled, Down
  <2> QED
    BY <2>1, WatchFrame
<1>3. ASSUME NEW t \in Targets, CheckNow(t)
      PROVE  Watch'
  <2>1. /\ UNCHANGED <<table, runners, cancelled, rpc, req, main, job>>
        /\ \A h \in Runners : Live(h) => Live(h)'
    BY <1>3 DEF CheckNow, Goto, Live, TypeOK, handlers, database
  <2> QED
    BY <2>1, WatchFrame
<1>4. ASSUME MaintainStep
      PROVE  Watch'
  <2>1. /\ UNCHANGED <<table, runners, cancelled, rpc, req, main, job>>
        /\ \A h \in Runners : Live(h) => Live(h)'
    BY <1>4, MaintainIs DEF others, handlers, database, Live
  <2> QED
    BY <2>1, WatchFrame
<1> QED
  BY <1>1, <1>2, <1>3, <1>4, WatchForm, WatchLock, WatchOps, WatchStart, WatchMain DEF Next

\* No unpaused target is left without a runner by requests that cross, a failed
\* delete or a restart.
THEOREM NobodyForgotten == Spec => []Watched
<1>1. CASE ReadFaults
  <2>1. Watched
    BY <1>1 DEF Watched
  <2> QED
    BY <2>1, PTL
<1>2. CASE ~ReadFaults
  <2>1. Init => Freshness /\ Watch
    BY DEF Init, Freshness, Current, ReadRow, HasRead, StopCancels, Live, Watch, Working, Cared
  <2>2. IInv /\ Freshness /\ Watch /\ [Next]_vars => Freshness' /\ Watch'
    BY <1>2, FreshStep, WatchStep DEF IInv, Ownership
  <2>3. IInv /\ Watch => Watched
    <3> SUFFICES ASSUME IInv, Watch, NEW t \in rows, main = "serve", ~Pending(t), ~table[t].p
                 PROVE  \E g \in Runners : runners[t] = g /\ Works(g, t) /\ ~Cancelled(g)
      BY DEF Watched
    <3>1. t \in Targets /\ \A q \in Requests : ~Caring(q, t)
      BY DEF rows, Pending, Caring
    <3>2. runners[t] # None /\ runners[t] \in Runners
      BY <3>1 DEF Watch, Cared, IInv, TypeOK
    <3> QED
      BY <3>1, <3>2 DEF Watch, Working, Cancelled, Down
  <2> QED
    BY <2>1, <2>2, <2>3, Invariant, PTL DEF Spec
<1> QED
  BY <1>1, <1>2
=============================================================================
