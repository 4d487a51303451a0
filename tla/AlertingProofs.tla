--------------------------- MODULE AlertingProofs ---------------------------
(***************************************************************************)
(* Proofs about Alerting for every threshold and every bound: the table    *)
(* keeps the log that Incidents specifies (KeepsLog), the runner's memory  *)
(* agrees with it, pauses are quiet, incidents open at the threshold, and  *)
(* the mails of a target that is not deleted are sent once and marked only *)
(* when sent.  Each part has an invariant of its own on top of IInv.       *)
(*                                                                         *)
(* For the log: that an incident does not end before it began is not       *)
(* inductive, the end is the time stamp of a check, taken before the check *)
(* runs, and the beginning that of an earlier check, remembered in         *)
(* st.firstFail or read back from the table by restore.  IInv says that    *)
(* each of these times is past, and that the incident open during a check  *)
(* began before it.  A pause ends all open incidents at once, which is one *)
(* step of the log because there is at most one.                           *)
(***************************************************************************)
EXTENDS Alerting, FiniteSetTheorems, SequenceTheorems, WellFoundedInduction, TLAPS

IncidentRow == [uid : Nat, start : 1 .. MaxTime, end : 0 .. MaxTime,
                by : {"", "check", "pause"}, md : BOOLEAN, mu : BOOLEAN]

CheckRow == [at : 1 .. MaxTime, ok : BOOLEAN]

States == [fails : Nat, firstFail : Nat, open : BOOLEAN, startedAt : Nat, incident : Nat]

Types ==
  /\ now \in 1 .. MaxTime
  /\ inc \in Seq(IncidentRow)
  /\ born \in Nat
  /\ checks \in Seq(CheckRow)
  /\ st \in States
  /\ cur \in [at : 0 .. MaxTime, ok : BOOLEAN]

OneOpen == \A i, j \in DOMAIN inc : inc[i].end = 0 /\ inc[j].end = 0 => i = j

\* Stored and remembered times are past.
Past == /\ \A i \in DOMAIN inc : inc[i].start <= now
        /\ \A k \in DOMAIN checks : checks[k].at <= now
        /\ st.fails # 0 => st.firstFail \in 1 .. now

\* A check under way began after the open incident did.
Rounds == pc \in {"check", "insert", "decide"} =>
            /\ cur.at \in 1 .. now
            /\ \A i \in DOMAIN inc : inc[i].end = 0 => inc[i].start <= cur.at

IInv == Types /\ OneOpen /\ Past /\ Rounds

-----------------------------------------------------------------------------
(* Lemmas.                                                                 *)

\* A non-empty set of natural numbers has a least element.
LEMMA NatMin == ASSUME NEW T \in SUBSET Nat, T # {}
                PROVE  \E x \in T : \A y \in T : x <= y
<1> DEFINE R == OpToRel(<, Nat)
<1>1. IsWellFoundedOn(R, Nat)
  BY NatLessThanWellFounded
<1> HIDE DEF R
<1>2. PICK x \in T : \A y \in T : ~(<<y, x>> \in R)
  BY <1>1, WFMin, Zenon
<1>3. \A y \in T : ~(<<y, x>> \in OpToRel(<, Nat))
  BY <1>2 DEF R
<1>4. \A y \in T : ~(y < x)
  BY <1>3 DEF OpToRel
<1> QED BY <1>4

\* restore's series is a finite set of stored checks.
LEMMA SeriesIsFinite ==
  ASSUME NEW rows \in Seq(CheckRow), NEW end
  PROVE  /\ Series(rows, end) \subseteq DOMAIN rows
         /\ DOMAIN rows \subseteq Nat
         /\ Cardinality(Series(rows, end)) \in Nat
         /\ Series(rows, end) = {} => Cardinality(Series(rows, end)) = 0
<1>1. Series(rows, end) \subseteq 1 .. Len(rows) /\ DOMAIN rows = 1 .. Len(rows) /\ Len(rows) \in Nat
  BY LenProperties DEF Series
<1>2. IsFiniteSet(1 .. Len(rows))
  BY <1>1, FS_Interval
<1>3. IsFiniteSet(Series(rows, end))
  BY <1>1, <1>2, FS_Subset
<1> QED BY <1>1, <1>3, FS_CardinalityType, FS_EmptySet

\* A row of the table changes: its entry in the log changes.
LEMMA LogChanges ==
  ASSUME inc \in Seq(IncidentRow), NEW k \in DOMAIN inc, NEW y,
         inc' = [inc EXCEPT ![k] = y]
  PROVE  Logged' = [Logged EXCEPT ![k] = View(y)]
  BY DEF Logged

\* A row is added to the table: the log grows by its entry.
LEMMA LogGrows ==
  ASSUME inc \in Seq(IncidentRow), NEW y \in IncidentRow, inc' = Append(inc, y)
  PROVE  Logged' = Append(Logged, View(y))
<1>1. /\ DOMAIN inc = 1 .. Len(inc) /\ Len(inc) \in Nat
      /\ DOMAIN inc' = 1 .. Len(inc) + 1
      /\ inc'[Len(inc) + 1] = y
      /\ \A i \in 1 .. Len(inc) : inc'[i] = inc[i]
  BY AppendProperties, LenProperties
<1> DEFINE V == {View(x) : x \in IncidentRow}
<1>2. Logged \in [1 .. Len(inc) -> V]
  BY <1>1, ElementOfSeq DEF Logged
<1>3. Logged \in Seq(V) /\ Len(Logged) = Len(inc)
  BY <1>1, <1>2, IsASeq, LenProperties
<1>4. View(y) \in V
  OBVIOUS
<1>5. /\ Append(Logged, View(y)) \in Seq(V)
      /\ DOMAIN Append(Logged, View(y)) = 1 .. Len(inc) + 1
      /\ Append(Logged, View(y))[Len(inc) + 1] = View(y)
      /\ \A i \in 1 .. Len(inc) : Append(Logged, View(y))[i] = Logged[i]
  <2> HIDE DEF V
  <2> QED BY <1>1, <1>3, <1>4, AppendProperties, LenProperties
<1>6. Append(Logged, View(y)) \in [1 .. Len(inc) + 1 -> V]
  <2> HIDE DEF V
  <2> QED BY <1>5, LenProperties
<1>7. Logged' = [i \in 1 .. Len(inc) + 1 |-> IF i = Len(inc) + 1 THEN View(y) ELSE Logged[i]]
  BY <1>1 DEF Logged
<1>8. Append(Logged, View(y)) = [i \in 1 .. Len(inc) + 1 |-> Append(Logged, View(y))[i]]
  BY <1>6
<1>9. \A i \in 1 .. Len(inc) + 1 :
        Append(Logged, View(y))[i] = IF i = Len(inc) + 1 THEN View(y) ELSE Logged[i]
  BY <1>1, <1>5
<1> HIDE DEF V
<1> QED BY <1>7, <1>8, <1>9, Zenon

\* What CloseIncident, ClosePausedIncident and MarkMailed make of a row.
LEMMA RowEnded ==
  ASSUME NEW r \in IncidentRow, NEW t \in 0 .. MaxTime, NEW b \in {"check", "pause"}
  PROVE  LET y == [r EXCEPT !.end = t, !.by = b]
         IN  y \in IncidentRow /\ y.start = r.start /\ y.end = t /\ y.md = r.md /\ y.mu = r.mu
<1>1. [r EXCEPT !.end = t] \in IncidentRow
  BY DEF IncidentRow
<1>2. [[r EXCEPT !.end = t] EXCEPT !.by = b] \in IncidentRow
  BY <1>1 DEF IncidentRow
<1> QED BY <1>2 DEF IncidentRow

LEMMA RowMarked ==
  ASSUME NEW r \in IncidentRow
  PROVE  /\ LET y == [r EXCEPT !.md = TRUE]
            IN  y \in IncidentRow /\ y.start = r.start /\ y.end = r.end /\ y.md = TRUE /\ y.mu = r.mu
         /\ LET y == [r EXCEPT !.mu = TRUE]
            IN  y \in IncidentRow /\ y.start = r.start /\ y.end = r.end /\ y.md = r.md /\ y.mu = TRUE
  BY DEF IncidentRow

-----------------------------------------------------------------------------
(* Steps that leave the incidents alone.                                   *)

\* The initial state satisfies the invariant and is one of the log.
LEMMA InitHolds == Init => IInv /\ Log!Init
<1>1. Init => Types
  BY BoundAssumption, EmptySeq DEF Init, Types, States, NoState, NoCheck
<1>2. Init => OneOpen /\ Past /\ Rounds
  BY BoundAssumption DEF Init, OneOpen, Past, Rounds, NoState
<1>3. Init => Log!Init
  BY DEF Init, Log!Init, Logged
<1> QED BY <1>1, <1>2, <1>3 DEF IInv

\* The rows of the two tables.
LEMMA Rows ==
  ASSUME IInv
  PROVE  /\ \A i \in DOMAIN inc : /\ i \in Nat /\ inc[i] \in IncidentRow
                                 /\ inc[i].start \in Nat /\ inc[i].start \in 1 .. now
         /\ \A k \in DOMAIN checks : checks[k] \in CheckRow /\ checks[k].at \in 1 .. now
         /\ DOMAIN inc = 1 .. Len(inc) /\ Len(inc) \in Nat
<1>1. DOMAIN inc = 1 .. Len(inc) /\ Len(inc) \in Nat /\ DOMAIN checks = 1 .. Len(checks)
  BY LenProperties DEF IInv, Types
<1>2. (\A i \in DOMAIN inc : inc[i] \in IncidentRow) /\ \A k \in DOMAIN checks : checks[k] \in CheckRow
  BY <1>1, ElementOfSeq DEF IInv, Types
<1>3. now \in Nat
  BY BoundAssumption DEF IInv, Types
<1>4. ASSUME NEW i \in DOMAIN inc PROVE i \in Nat /\ inc[i].start \in Nat /\ inc[i].start \in 1 .. now
  <2>1. inc[i].start \in 1 .. MaxTime /\ inc[i].start <= now
    BY <1>2 DEF IncidentRow, IInv, Past
  <2> QED BY <1>1, <1>3, <2>1, BoundAssumption
<1>5. ASSUME NEW k \in DOMAIN checks PROVE checks[k].at \in 1 .. now
  <2>1. checks[k].at \in 1 .. MaxTime /\ checks[k].at <= now
    BY <1>2 DEF CheckRow, IInv, Past
  <2> QED BY <1>3, <2>1, BoundAssumption
<1> QED BY <1>1, <1>2, <1>4, <1>5

\* A step that changes neither table preserves the invariant when what the runner
\* remembers is right.
LEMMA TablesStay ==
  ASSUME IInv, now' = now, inc' = inc, born' = born, checks' = checks,
         st' \in States, st'.fails # 0 => st'.firstFail \in 1 .. now,
         \/ cur' = NoCheck /\ pc' \notin {"check", "insert", "decide"}
         \/ cur' \in [at : 0 .. MaxTime, ok : BOOLEAN] /\ Rounds'
  PROVE  IInv'
<1>1. cur' \in [at : 0 .. MaxTime, ok : BOOLEAN] /\ Rounds'
  <2>1. NoCheck \in [at : 0 .. MaxTime, ok : BOOLEAN]
    BY BoundAssumption DEF NoCheck
  <2> QED BY <2>1 DEF Rounds
<1> QED BY <1>1 DEF IInv, Types, OneOpen, Past

\* restore: what it reads is past.
LEMMA RestoreStep == ASSUME IInv, Restore PROVE IInv' /\ inc' = inc
<1> USE DEF IInv
<1>1. PICK ids \in Query(OpenIds, {}), end \in Query(LastIncidentEnd, 0), rows \in Query(checks, <<>>) :
        LET fails == Series(rows, end)
            first == CHOOSE k \in fails : \A j \in fails : k <= j
            id    == CHOOSE i \in ids : TRUE
        IN st' = [fails     |-> Cardinality(fails),
                  firstFail |-> IF fails = {} THEN 0 ELSE rows[first].at,
                  open      |-> ids # {},
                  startedAt |-> IF ids = {} THEN 0 ELSE inc[id].start,
                  incident  |-> IF ids = {} THEN 0 ELSE id]
  BY Zenon DEF Restore
<1> DEFINE fails == Series(rows, end)
           first == CHOOSE k \in fails : \A j \in fails : k <= j
           id    == CHOOSE i \in ids : TRUE
<1>2. rows \in Seq(CheckRow) /\ rows \in {checks, <<>>} /\ ids \subseteq OpenIds
  BY EmptySeq DEF Query, Types
<1>3. /\ fails \subseteq DOMAIN rows /\ DOMAIN rows \subseteq Nat /\ Cardinality(fails) \in Nat
      /\ fails = {} => Cardinality(fails) = 0
  BY <1>2, SeriesIsFinite
<1>4. fails # {} => first \in DOMAIN rows
  <2> HIDE DEF fails
  <2>1. SUFFICES ASSUME fails # {} PROVE first \in DOMAIN rows
    OBVIOUS
  <2>2. \E k \in fails : \A j \in fails : k <= j
    BY <1>3, <2>1, NatMin
  <2> QED BY <1>3, <2>2
<1>5. fails # {} => rows[first].at \in 1 .. now
  <2> HIDE DEF fails, first
  <2>1. SUFFICES ASSUME fails # {} PROVE rows[first].at \in 1 .. now
    OBVIOUS
  <2>2. rows = checks
    BY <1>2, <1>4, <2>1
  <2> QED BY <1>4, <2>1, <2>2, Rows
<1>6. ids # {} => id \in Nat /\ inc[id].start \in Nat
  <2>1. SUFFICES ASSUME ids # {} PROVE id \in Nat /\ inc[id].start \in Nat
    OBVIOUS
  <2>2. id \in ids
    BY <2>1
  <2> HIDE DEF id
  <2> QED BY <1>2, <2>2, Rows DEF OpenIds
<1> HIDE DEF fails, first, id
<1>7. st' = [fails |-> Cardinality(fails), firstFail |-> IF fails = {} THEN 0 ELSE rows[first].at,
             open |-> ids # {}, startedAt |-> IF ids = {} THEN 0 ELSE inc[id].start,
             incident |-> IF ids = {} THEN 0 ELSE id]
  BY <1>1 DEF fails, first, id
<1>8. now' = now /\ inc' = inc /\ born' = born /\ checks' = checks /\ cur' = cur /\ pc' = "idle"
  BY DEF Restore, clock, store
<1>9. st' \in States
  BY <1>3, <1>5, <1>6, <1>7 DEF States
<1>10. st'.fails # 0 => st'.firstFail \in 1 .. now
  BY <1>3, <1>5, <1>7
<1> QED BY <1>8, <1>9, <1>10 DEF Types, OneOpen, Past, Rounds

\* What next makes of the state, and when an incident it announces began.
LEMMA NextState ==
  ASSUME IInv, pc = "decide"
  PROVE  /\ NewState \in States
         /\ NewState.fails # 0 => NewState.firstFail \in 1 .. now
         /\ Event("down") => NewState.startedAt \in 1 .. now
<1> DEFINE fails == IF st.fails < Threshold THEN st.fails + 1 ELSE st.fails
           first == IF st.fails = 0 THEN cur.at ELSE st.firstFail
           down  == ~st.open /\ fails >= Threshold
<1>1. st \in States /\ now \in Nat /\ cur.at \in 1 .. now /\ (st.fails # 0 => st.firstFail \in 1 .. now)
  BY BoundAssumption DEF IInv, Types, Rounds, Past
<1>2. fails \in Nat /\ first \in 1 .. now /\ down \in BOOLEAN /\ st.open \in BOOLEAN
  BY <1>1, ThresholdAssumption DEF States
<1>3. CASE cur.ok
  <2>1. NewState = [st EXCEPT !.fails = 0, !.firstFail = 0, !.open = FALSE]
    BY <1>3 DEF NewState, next
  <2>2. ~Event("down")
    BY <1>3 DEF Event, next
  <2> QED BY <1>1, <2>1, <2>2 DEF States
<1>4. CASE ~cur.ok
  <2>1. NewState = [fails |-> fails, firstFail |-> first, open |-> st.open \/ down,
                    startedAt |-> IF down THEN first ELSE st.startedAt, incident |-> st.incident]
    BY <1>4 DEF NewState, next
  <2>2. Event("down") => down
    BY <1>4 DEF Event, next
  <2> HIDE DEF fails, first, down
  <2> QED BY <1>1, <1>2, <2>1, <2>2 DEF States
<1> QED BY <1>3, <1>4

\* The other steps of the runner that write no incident.
LEMMA RunnerReads ==
  ASSUME IInv,
         \/ Exit \/ StartCheck \/ (\E ok \in Result : FinishCheck(ok)) \/ Quiet \/ Adopt
         \/ OpenFails \/ CloseFails \/ \E o \in Outcomes : RunnerMail(o)
  PROVE  IInv' /\ inc' = inc
<1> USE DEF clock, store
<1>0. /\ st \in States /\ (st.fails # 0 => st.firstFail \in 1 .. now)
      /\ cur \in [at : 0 .. MaxTime, ok : BOOLEAN] /\ Rounds
      /\ now \in 1 .. MaxTime /\ now \in Nat
  BY BoundAssumption DEF IInv, Types, Past
<1>1. CASE Exit
  BY <1>0, <1>1, TablesStay DEF Exit, NoState, States, Rounds
<1>2. CASE StartCheck
  <2>1. cur' \in [at : 0 .. MaxTime, ok : BOOLEAN] /\ Rounds'
    BY <1>0, <1>2, Rows, BoundAssumption DEF StartCheck, Rounds
  <2> QED BY <1>0, <1>2, <2>1, TablesStay DEF StartCheck
<1>3. CASE \E ok \in Result : FinishCheck(ok)
  <2>1. PICK ok \in BOOLEAN : FinishCheck(ok)
    BY <1>3 DEF Result
  <2>2. CASE cancelled
    BY <1>0, <2>1, <2>2, TablesStay DEF FinishCheck
  <2>3. CASE ~cancelled
    <3>1. cur' \in [at : 0 .. MaxTime, ok : BOOLEAN] /\ Rounds'
      BY <1>0, <2>1, <2>3 DEF FinishCheck, Rounds
    <3> QED BY <1>0, <2>1, <2>3, <3>1, TablesStay DEF FinishCheck
  <2> QED BY <2>2, <2>3
<1>4. CASE Quiet
  BY <1>4, NextState, TablesStay DEF Quiet, Event, EndRound
<1>5. CASE Adopt
  <2>1. PICK i \in OpenIds : EndRound([NewState EXCEPT !.startedAt = inc[i].start, !.incident = i])
    BY <1>5 DEF Adopt
  <2>2. i \in Nat /\ inc[i].start \in Nat
    BY <2>1, Rows DEF OpenIds
  <2>3. NewState \in States /\ (NewState.fails # 0 => NewState.firstFail \in 1 .. now)
    BY <1>5, NextState DEF Adopt, Event
  <2>4. st' \in States /\ (st'.fails # 0 => st'.firstFail \in 1 .. now)
    BY <2>1, <2>2, <2>3 DEF EndRound, States
  <2> QED BY <1>5, <2>1, <2>4, TablesStay DEF Adopt, EndRound
<1>6. CASE OpenFails \/ CloseFails
  <2>1. NewState \in States /\ (NewState.fails # 0 => NewState.firstFail \in 1 .. now)
    BY <1>6, NextState DEF OpenFails, CloseFails, Event
  <2>2. st' \in States /\ (st'.fails # 0 => st'.firstFail \in 1 .. now)
    BY <1>6, <2>1 DEF OpenFails, OpenedNot, CloseFails, ClosedNot, EndRound, States
  <2> QED BY <1>6, <2>2, TablesStay DEF OpenFails, CloseFails, EndRound
<1>7. CASE \E o \in Outcomes : RunnerMail(o)
  <2>1. PICK o \in Outcomes : RunnerMail(o)
    BY <1>7
  <2>2. CASE o = "ok"
    BY <1>0, <2>1, <2>2, TablesStay DEF RunnerMail, Rounds
  <2>3. CASE o # "ok"
    BY <1>0, <2>1, <2>3, TablesStay DEF RunnerMail
  <2> QED BY <2>2, <2>3
<1> QED BY <1>1, <1>2, <1>3, <1>4, <1>5, <1>6, <1>7

\* InsertCheck stores a check that is past.
LEMMA InsertStep == ASSUME IInv, Insert PROVE IInv' /\ inc' = inc
<1> USE DEF IInv, Types, OneOpen, Past, Rounds
<1>1. now' = now /\ inc' = inc /\ born' = born /\ st' = st /\ cur' = cur /\ pc = "insert" /\ pc' = "decide"
  BY DEF Insert
<1>2. cur \in CheckRow /\ cur.at <= now
  BY <1>1 DEF CheckRow
<1>3. checks' \in Seq(CheckRow) /\ \A k \in DOMAIN checks' : checks'[k].at <= now
  <2>1. CASE checks' = checks
    BY <2>1
  <2>2. CASE InsertCheck(cur)
    <3> DEFINE kept == IF Len(checks) = Threshold THEN Tail(checks) ELSE checks
    <3>1. kept \in Seq(CheckRow) /\ \A k \in DOMAIN kept : kept[k].at <= now
      <4>1. CASE checks = <<>>
        BY <4>1, ThresholdAssumption, EmptySeq
      <4>2. CASE checks # <<>>
        <5>1. /\ Tail(checks) \in Seq(CheckRow) /\ Len(Tail(checks)) = Len(checks) - 1
              /\ \A k \in 1 .. Len(Tail(checks)) : Tail(checks)[k] = checks[k + 1]
          BY <4>2, HeadTailProperties
        <5> QED BY <5>1, LenProperties
      <4> QED BY <4>1, <4>2
    <3> HIDE DEF kept
    <3>2. checks' = Append(kept, cur)
      BY <2>2 DEF InsertCheck, kept
    <3> QED BY <1>2, <3>1, <3>2, AppendProperties, LenProperties
  <2> QED BY <2>1, <2>2 DEF Insert
<1> QED BY <1>1, <1>3

\* The steps of time, of the process, of retry and of the admin that write no
\* incident.
LEMMA OtherReads ==
  ASSUME IInv,
         \/ Tick \/ Boot \/ Crash \/ RetryRead \/ RetrySkip \/ RetryDone
         \/ (\E o \in Outcomes : RetryMail(o))
         \/ Remove \/ Stop \/ StartRunner \/ GiveUp
         \/ (\E r \in {"active", "paused"} : WriteRow(r))
         \/ UNCHANGED vars
  PROVE  IInv' /\ inc' = inc
<1> USE DEF IInv, Types, OneOpen, Past, Rounds, clock, store, runner
<1>1. CASE Tick
  <2>1. /\ now' \in 1 .. MaxTime /\ now' = now + 1 /\ now \in Nat
        /\ UNCHANGED <<inc, born, checks, st, cur, pc>>
    BY <1>1, BoundAssumption DEF Tick
  <2>2. st'.fails # 0 => st'.firstFail \in 1 .. now'
    BY <2>1
  <2>3. Rounds'
    BY <2>1
  <2>4. (\A i \in DOMAIN inc : inc[i].start <= now') /\ \A k \in DOMAIN checks : checks[k].at <= now'
    BY <2>1, Rows
  <2> QED BY <2>1, <2>2, <2>3, <2>4
<1>2. CASE Boot
  BY <1>2 DEF Boot
<1>3. CASE Crash
  <2>1. st' \in States /\ st'.fails = 0
    BY <1>3 DEF Crash, NoState, States
  <2> QED BY <1>3, <2>1, TablesStay DEF Crash
<1>4. CASE RetryRead \/ RetrySkip \/ RetryDone \/ \E o \in Outcomes : RetryMail(o)
  BY <1>4 DEF RetryRead, RetrySkip, RetryDone, RetryMail
<1>5. CASE Remove \/ Stop \/ GiveUp \/ \E r \in {"active", "paused"} : WriteRow(r)
  BY <1>5 DEF Remove, Stop, GiveUp, WriteRow
<1>6. CASE StartRunner
  BY <1>6 DEF StartRunner
<1>7. CASE UNCHANGED vars
  BY <1>7 DEF vars
<1> QED BY <1>1, <1>2, <1>3, <1>4, <1>5, <1>6, <1>7

-----------------------------------------------------------------------------
(* Steps that write an incident.                                           *)

\* The runner is where it was, or not in a check.
RunnerKept == \/ cur' = cur /\ pc' = pc
              \/ cur' \in {cur, NoCheck} /\ pc' \notin {"check", "insert", "decide"}

\* A row changes without a new beginning and without being opened again.
LEMMA RowChanges ==
  ASSUME IInv, NEW k \in DOMAIN inc, NEW y \in IncidentRow, inc' = [inc EXCEPT ![k] = y],
         y.start = inc[k].start, y.end = 0 => inc[k].end = 0,
         now' = now, born' = born, checks' = checks,
         st' \in States, st'.fails # 0 => st'.firstFail \in 1 .. now, RunnerKept
  PROVE  IInv'
<1>1. inc' \in Seq(IncidentRow) /\ DOMAIN inc' = DOMAIN inc
  BY ExceptSeq DEF IInv, Types
<1>2. \A i \in DOMAIN inc : inc'[i].start = inc[i].start /\ (inc'[i].end = 0 => inc[i].end = 0)
  OBVIOUS
<1>3. NoCheck \in [at : 0 .. MaxTime, ok : BOOLEAN]
  BY BoundAssumption DEF NoCheck
<1>4. Types'
  BY <1>1, <1>3 DEF IInv, Types, RunnerKept
<1>5. OneOpen'
  BY <1>1, <1>2 DEF IInv, OneOpen
<1>6. Past'
  BY <1>1, <1>2 DEF IInv, Past
<1>7. Rounds'
  BY <1>1, <1>2 DEF IInv, Rounds, RunnerKept
<1> QED BY <1>4, <1>5, <1>6, <1>7 DEF IInv

\* The open incident ends, not before it began: a step Ended of the log.
LEMMA EndsOne ==
  ASSUME IInv, NEW k \in DOMAIN inc, inc[k].end = 0, NEW y \in IncidentRow,
         inc' = [inc EXCEPT ![k] = y],
         y.end \in 1 .. MaxTime, y.end >= inc[k].start, y.start = inc[k].start,
         \/ y.md = inc[k].md /\ y.mu = inc[k].mu
         \/ y.md = TRUE /\ y.mu = TRUE
  PROVE  Log!Ended
<1> DEFINE e == Logged[k]
<1>1. Logged' = [Logged EXCEPT ![k] = View(y)]
  BY LogChanges DEF IInv, Types
<1>2. DOMAIN Logged = DOMAIN inc /\ e = View(inc[k])
  BY DEF Logged
<1>3. e.end = 0 /\ e.start = inc[k].start /\ e.down = inc[k].md /\ e.up = inc[k].mu
  BY <1>2 DEF View
<1> HIDE DEF e
<1>4. \/ View(y) = Log!Entry(e.start, y.end, e.down, e.up)
      \/ View(y) = Log!Entry(e.start, y.end, TRUE, TRUE)
  BY <1>3, Zenon DEF View, Log!Entry
<1> QED BY <1>1, <1>2, <1>3, <1>4 DEF Log!Ended, Log!IsOpen, e

\* The row OpenIncident inserts.
LEMMA NewRow ==
  ASSUME IInv, NEW start \in 1 .. MaxTime
  PROVE  LET y == Incident(start)
         IN  /\ y \in IncidentRow /\ y.uid = born + 1 /\ y.start = start /\ y.end = 0
             /\ y.md = FALSE /\ y.mu = FALSE
<1> DEFINE y == Incident(start)
<1>1. y = [uid |-> born + 1, start |-> start, end |-> 0, by |-> "", md |-> FALSE, mu |-> FALSE]
  BY DEF Incident
<1>2. born + 1 \in Nat /\ 0 \in 0 .. MaxTime
  BY BoundAssumption DEF IInv, Types
<1> HIDE DEF y
<1>3. y \in IncidentRow /\ y.uid = born + 1 /\ y.start = start /\ y.end = 0
  BY <1>1, <1>2 DEF IncidentRow
<1>4. y.md = FALSE /\ y.mu = FALSE
  BY <1>1
<1> QED BY <1>3, <1>4 DEF y

\* OpenIncident inserts: a step Opened of the log.
LEMMA OpenStep == ASSUME IInv, Open PROVE IInv' /\ Log!Opened
<1> DEFINE y == Incident(NewState.startedAt)
<1>1. /\ NewState \in States /\ (NewState.fails # 0 => NewState.firstFail \in 1 .. now)
      /\ NewState.startedAt \in 1 .. now
  BY NextState DEF Open, Event
<1>2. now \in 1 .. MaxTime /\ NewState.startedAt \in 1 .. MaxTime
  BY <1>1, BoundAssumption DEF IInv, Types
<1>3. /\ y \in IncidentRow /\ y.start = NewState.startedAt /\ y.end = 0
      /\ View(y) = Log!Entry(NewState.startedAt, 0, FALSE, FALSE)
  <2>1. /\ y \in IncidentRow /\ y.start = NewState.startedAt /\ y.end = 0
        /\ y.md = FALSE /\ y.mu = FALSE
    BY <1>2, NewRow
  <2> HIDE DEF y
  <2> QED BY <2>1, Zenon DEF View, Log!Entry
<1>4. /\ inc' = Append(inc, y) /\ born' = born + 1 /\ now' = now /\ checks' = checks
      /\ st' = [NewState EXCEPT !.incident = Len(inc) + 1]
      /\ cur' \in {cur, NoCheck} /\ pc' \in {"mail", "idle"}
      /\ \A i \in DOMAIN inc : inc[i].end # 0
  BY DEF Open, Notify, NoneOpen, OpenIds, clock
<1> HIDE DEF y
<1>5. /\ inc' \in Seq(IncidentRow) /\ DOMAIN inc = 1 .. Len(inc) /\ Len(inc) \in Nat
      /\ DOMAIN inc' = 1 .. Len(inc) + 1 /\ inc'[Len(inc) + 1] = y
      /\ \A i \in 1 .. Len(inc) : inc'[i] = inc[i]
  BY <1>3, <1>4, AppendProperties, LenProperties DEF IInv, Types
<1>6. st' \in States /\ (st'.fails # 0 => st'.firstFail \in 1 .. now)
  BY <1>1, <1>4, <1>5 DEF States
<1>7. NoCheck \in [at : 0 .. MaxTime, ok : BOOLEAN]
  BY BoundAssumption DEF NoCheck
<1>8. Types'
  BY <1>4, <1>5, <1>6, <1>7 DEF IInv, Types
<1>9. OneOpen'
  BY <1>4, <1>5 DEF OneOpen
<1>10. \A i \in DOMAIN inc' : inc'[i].start <= now
  <2>1. now \in Nat
    BY BoundAssumption DEF IInv, Types
  <2>2. y.start <= now
    BY <1>1, <1>3, <2>1
  <2>3. \A i \in 1 .. Len(inc) : inc[i].start <= now
    BY <1>5, <2>1, Rows
  <2>4. \A i \in 1 .. Len(inc) + 1 : i \in 1 .. Len(inc) \/ i = Len(inc) + 1
    BY <1>5
  <2> QED BY <1>5, <2>2, <2>3, <2>4, Zenon
<1>11. Past' /\ Rounds'
  BY <1>4, <1>6, <1>10 DEF IInv, Past, Rounds
<1>12. Log!Opened
  <2>1. Logged' = Append(Logged, Log!Entry(NewState.startedAt, 0, FALSE, FALSE))
    BY <1>3, <1>4, LogGrows DEF IInv, Types
  <2>2. \A k \in DOMAIN Logged : ~Log!IsOpen(Logged[k])
    BY <1>4 DEF Logged, View, Log!IsOpen
  <2> QED BY <1>2, <2>1, <2>2 DEF Log!Opened
<1> QED BY <1>8, <1>9, <1>11, <1>12 DEF IInv

\* CloseIncident: the incident ends with the time stamp of the check.
LEMMA CloseStep == ASSUME IInv, Close PROVE IInv' /\ (Log!Ended \/ inc' = inc)
<1> DEFINE k == st.incident
           y == [inc[k] EXCEPT !.end = cur.at, !.by = "check"]
<1>1. /\ now' = now /\ born' = born /\ checks' = checks /\ st' = NewState /\ pc = "decide"
      /\ cur' \in {cur, NoCheck} /\ pc' \in {"mail", "idle"}
      /\ inc' = [i \in DOMAIN inc |-> IF i = k /\ i \in OpenIds THEN y ELSE inc[i]]
  BY DEF Close, Event, Notify, clock
<1>2. st' \in States /\ (st'.fails # 0 => st'.firstFail \in 1 .. now)
  BY <1>1, NextState
<1>3. RunnerKept
  BY <1>1 DEF RunnerKept
<1>4. CASE k \in OpenIds
  <2>1. /\ k \in DOMAIN inc /\ inc[k].end = 0 /\ inc[k] \in IncidentRow
        /\ cur.at \in 1 .. MaxTime /\ inc[k].start <= cur.at
    BY <1>1, <1>4, Rows, BoundAssumption DEF OpenIds, IInv, Types, Rounds
  <2>2. /\ y \in IncidentRow /\ y.start = inc[k].start /\ y.end = cur.at /\ cur.at # 0
        /\ y.md = inc[k].md /\ y.mu = inc[k].mu
    <3>1. cur.at \in 0 .. MaxTime /\ cur.at # 0
      BY <2>1, BoundAssumption
    <3> QED BY <2>1, <3>1, RowEnded
  <2>3. cur.at >= inc[k].start
    BY <2>1, Rows, BoundAssumption
  <2> HIDE DEF y, k
  <2>4. inc' = [inc EXCEPT ![k] = y]
    BY <1>1, <1>4, <2>1
  <2>5. IInv'
    BY <1>1, <1>2, <1>3, <2>1, <2>2, <2>4, RowChanges
  <2>6. Log!Ended
    BY <2>1, <2>2, <2>3, <2>4, EndsOne
  <2> QED BY <2>5, <2>6
<1>5. CASE k \notin OpenIds
  <2>1. inc' = [i \in DOMAIN inc |-> inc[i]]
    BY <1>1, <1>5
  <2>2. inc' = inc
    BY <2>1, LenProperties DEF IInv, Types
  <2>3. NoCheck \in [at : 0 .. MaxTime, ok : BOOLEAN]
    BY BoundAssumption DEF NoCheck
  <2>4. cur' \in [at : 0 .. MaxTime, ok : BOOLEAN] /\ Rounds'
    BY <1>1, <2>3 DEF IInv, Types, Rounds
  <2> QED BY <1>1, <1>2, <2>2, <2>4, TablesStay
<1> QED BY <1>4, <1>5

\* MarkMailed sets a flag: a step Mailed of the log, or none.
LEMMA MarkStep ==
  ASSUME IInv, NEW m, Mark(m), now' = now, born' = born, checks' = checks, st' = st, RunnerKept
  PROVE  IInv' /\ (Log!Mailed \/ inc' = inc)
<1>0. st' \in States /\ (st'.fails # 0 => st'.firstFail \in 1 .. now)
  BY DEF IInv, Types, Past
<1>1. CASE inc' = inc
  <2>1. NoCheck \in [at : 0 .. MaxTime, ok : BOOLEAN]
    BY BoundAssumption DEF NoCheck
  <2>2. cur' \in [at : 0 .. MaxTime, ok : BOOLEAN] /\ Rounds'
    BY <1>1, <2>1 DEF IInv, Types, Rounds, RunnerKept
  <2> QED BY <1>0, <1>1, <2>2, TablesStay
<1>2. CASE m.id \in DOMAIN inc /\ inc' = [inc EXCEPT ![m.id] = Marked(@, m.up)] /\ inc' # inc
  <2> DEFINE k == m.id
             y == Marked(inc[k], m.up)
             e == Logged[k]
  <2>1. k \in DOMAIN inc /\ inc[k] \in IncidentRow /\ inc' = [inc EXCEPT ![k] = y]
    BY <1>2, Rows
  <2>2. m.up => inc[k].end # 0
    <3>1. SUFFICES ASSUME m.up, inc[k].end = 0 PROVE FALSE
      OBVIOUS
    <3>2. inc' = [inc EXCEPT ![k] = inc[k]]
      BY <2>1, <3>1 DEF Marked
    <3> QED BY <1>2, <2>1, <3>2, LenProperties DEF IInv, Types
  <2>3. /\ y \in IncidentRow /\ y.start = inc[k].start /\ y.end = inc[k].end
        /\ \/ ~m.up /\ y.md = TRUE /\ y.mu = inc[k].mu
           \/ m.up /\ y.md = inc[k].md /\ y.mu = TRUE
    BY <2>1, <2>2, RowMarked DEF Marked
  <2>4. /\ DOMAIN Logged = DOMAIN inc
        /\ e.end = inc[k].end /\ e.start = inc[k].start /\ e.down = inc[k].md /\ e.up = inc[k].mu
    BY <2>1 DEF Logged, View
  <2> HIDE DEF k, y, e
  <2>5. Logged' = [Logged EXCEPT ![k] = View(y)]
    BY <2>1, LogChanges DEF IInv, Types
  <2>6. \/ View(y) = Log!Entry(e.start, e.end, TRUE, e.up)
        \/ m.up /\ View(y) = Log!Entry(e.start, e.end, e.down, TRUE)
    BY <2>3, <2>4, Zenon DEF View, Log!Entry
  <2>7. Log!Mailed
    BY <2>1, <2>2, <2>4, <2>5, <2>6 DEF Log!Mailed, Log!IsOpen, e
  <2>8. IInv'
    BY <1>0, <2>1, <2>3, RowChanges
  <2> QED BY <2>7, <2>8
<1> QED BY <1>1, <1>2 DEF Mark

\* Both callers of MarkMailed.
LEMMA MarkSteps == ASSUME IInv, RunnerMark \/ RetryMark PROVE IInv' /\ (Log!Mailed \/ inc' = inc)
<1>1. CASE RunnerMark
  BY <1>1, MarkStep DEF RunnerMark, RunnerKept, clock
<1>2. CASE RetryMark
  BY <1>2, MarkStep DEF RetryMark, RunnerKept, runner, clock
<1> QED BY <1>1, <1>2

\* ClosePausedIncident ends the one incident that may be open.
LEMMA ClosePausedStep == ASSUME IInv, ClosePaused PROVE IInv' /\ (Log!Ended \/ inc' = inc)
<1>0. /\ now' = now /\ born' = born /\ checks' = checks /\ st' = st /\ cur' = cur /\ pc' = pc
      /\ \/ inc' = inc
         \/ inc' = [i \in DOMAIN inc |-> IF i \in OpenIds THEN ClosedByPause(inc[i]) ELSE inc[i]]
  BY DEF ClosePaused
<1>1. st' \in States /\ (st'.fails # 0 => st'.firstFail \in 1 .. now) /\ RunnerKept
  BY <1>0 DEF IInv, Types, Past, RunnerKept
<1>2. CASE inc' = inc
  <2>1. cur' \in [at : 0 .. MaxTime, ok : BOOLEAN] /\ Rounds'
    BY <1>0, <1>2 DEF IInv, Types, Rounds
  <2> QED BY <1>0, <1>1, <1>2, <2>1, TablesStay
<1>3. CASE inc' # inc
  <2>1. inc' = [i \in DOMAIN inc |-> IF i \in OpenIds THEN ClosedByPause(inc[i]) ELSE inc[i]]
    BY <1>0, <1>3
  <2>2. PICK k \in OpenIds : TRUE
    <3>1. SUFFICES ASSUME OpenIds = {} PROVE FALSE
      OBVIOUS
    <3>2. inc' = [i \in DOMAIN inc |-> inc[i]]
      BY <2>1, <3>1
    <3> QED BY <1>3, <3>2, LenProperties DEF IInv, Types
  <2>3. k \in DOMAIN inc /\ inc[k].end = 0 /\ inc[k] \in IncidentRow /\ inc[k].start \in 1 .. now
    BY <2>2, Rows DEF OpenIds
  <2>4. \A i \in DOMAIN inc : i \in OpenIds <=> i = k
    BY <2>2, <2>3 DEF OpenIds, IInv, OneOpen
  <2> DEFINE z == [inc[k] EXCEPT !.end = now, !.by = "pause"]
             y == ClosedByPause(inc[k])
  <2>5. inc' = [inc EXCEPT ![k] = y]
    <3> HIDE DEF y
    <3>1. inc' = [i \in DOMAIN inc |-> IF i = k THEN y ELSE inc[i]]
      BY <2>1, <2>4 DEF y
    <3> QED BY <2>3, <3>1, LenProperties DEF IInv, Types
  <2>6. now \in 0 .. MaxTime /\ now \in 1 .. MaxTime /\ now # 0 /\ now >= inc[k].start
    BY <2>3, BoundAssumption DEF IInv, Types
  <2>7. z \in IncidentRow /\ z.start = inc[k].start /\ z.end = now
    BY <2>3, <2>6, RowEnded
  <2>8. y = [[z EXCEPT !.md = TRUE] EXCEPT !.mu = TRUE]
    BY DEF ClosedByPause
  <2>9. /\ y \in IncidentRow /\ y.start = inc[k].start /\ y.end = now
        /\ y.md = TRUE /\ y.mu = TRUE
    <3> HIDE DEF y, z
    <3>1. [z EXCEPT !.md = TRUE] \in IncidentRow
      BY <2>7, RowMarked
    <3> QED BY <2>7, <2>8, <3>1, RowMarked
  <2> HIDE DEF y, z
  <2>10. IInv'
    BY <1>0, <1>1, <2>3, <2>5, <2>6, <2>9, RowChanges
  <2>11. Log!Ended
    BY <2>3, <2>5, <2>6, <2>9, EndsOne
  <2> QED BY <2>10, <2>11
<1> QED BY <1>2, <1>3

\* DeleteTarget drops the log.
LEMMA DeleteStep == ASSUME IInv, DeleteRow PROVE IInv' /\ Log!Dropped
<1>1. inc' = <<>> /\ checks' = <<>> /\ now' = now /\ born' = born /\ st' = st /\ cur' = cur /\ pc' = pc
  BY DEF DeleteRow
<1>2. Types'
  BY <1>1, EmptySeq DEF IInv, Types
<1>3. OneOpen' /\ Past' /\ Rounds'
  BY <1>1 DEF IInv, OneOpen, Past, Rounds
<1>4. Log!Dropped
  BY <1>1 DEF Log!Dropped, Logged
<1> QED BY <1>2, <1>3, <1>4 DEF IInv

-----------------------------------------------------------------------------
(* The theorems.                                                           *)

\* Every step preserves the invariant and is a step of the log or none.
LEMMA NextHolds == IInv /\ [Next]_vars => IInv' /\ [Log!Next]_Logged
<1> SUFFICES ASSUME IInv, [Next]_vars PROVE IInv' /\ [Log!Next]_Logged
  OBVIOUS
<1>1. inc' = inc => Logged' = Logged
  BY DEF Logged
<1>2. CASE RunnerStep
  BY <1>1, <1>2, RestoreStep, RunnerReads, InsertStep, OpenStep, CloseStep, MarkSteps DEF RunnerStep, Log!Next
<1>3. CASE RetryStep
  BY <1>1, <1>3, OtherReads, MarkSteps DEF RetryStep, Log!Next
<1>4. CASE AdminStep
  BY <1>1, <1>4, OtherReads, ClosePausedStep, DeleteStep DEF AdminStep, Log!Next
<1>5. CASE Tick \/ Boot \/ Crash \/ UNCHANGED vars
  BY <1>1, <1>5, OtherReads
<1> QED BY <1>2, <1>3, <1>4, <1>5 DEF Next

\* The inductive invariant holds throughout.
THEOREM Invariant == Spec => []IInv
  BY InitHolds, NextHolds, PTL DEF Spec

\* Alerting implements Incidents: whatever fails, crosses or is killed, the table
\* has at most one open incident, ended once and not before it began.
THEOREM IncidentsImplemented == Spec => KeepsLog
  BY InitHolds, NextHolds, Invariant, PTL DEF Spec, KeepsLog, Log!Spec

-----------------------------------------------------------------------------
(* MemoryMatches and PausedIsQuiet.  Both need what holds in the middle of *)
(* a round and of an admin operation: while there is a runner, no other    *)
(* goroutine opens or ends an incident, cancelled or not; and while the    *)
(* target is not active, there is a runner only during a Reload, which     *)
(* then ends the incident or counts as cut short.                          *)

InRound == {"idle", "check", "insert", "decide", "mail", "mark"}

Memory ==
  pc \in InRound =>
    /\ st.open => OpenIds = {st.incident} /\ inc[st.incident].start = st.startedAt
    /\ ~st.open => blind = "incident" \/ OpenIds = {}

\* Not between the writing of the row and the end of its Reload.
Settled == apc = "idle" \/ aop = "delete"

Pauses ==
  /\ aop \in {"reload", "delete"}
  /\ row # "active" /\ Settled => pc = "off"
  /\ row = "paused" /\ Settled => OpenIds = {} \/ cut

\* The table stays, or marks are set: the same incidents are open.
LEMMA MarkLeavesOpen ==
  ASSUME IInv, NEW m, inc' = inc \/ Mark(m)
  PROVE  /\ OpenIds' = OpenIds
         /\ \A i \in DOMAIN inc : inc'[i].start = inc[i].start
<1>1. CASE inc' = inc
  BY <1>1 DEF OpenIds
<1>2. CASE m.id \in DOMAIN inc /\ inc' = [inc EXCEPT ![m.id] = Marked(@, m.up)]
  <2>1. inc[m.id] \in IncidentRow
    BY <1>2, Rows
  <2>2. /\ Marked(inc[m.id], m.up).start = inc[m.id].start
        /\ Marked(inc[m.id], m.up).end = inc[m.id].end
    BY <2>1, RowMarked DEF Marked
  <2>3. DOMAIN inc' = DOMAIN inc /\ \A i \in DOMAIN inc : inc'[i].start = inc[i].start /\ inc'[i].end = inc[i].end
    BY <1>2, <2>2
  <2> QED BY <2>3 DEF OpenIds
<1> QED BY <1>1, <1>2 DEF Mark

\* There is one open incident or none.
LEMMA OpenIsOne ==
  ASSUME IInv, NEW i \in OpenIds
  PROVE  OpenIds = {i}
BY DEF IInv, OneOpen, OpenIds

\* What next makes of the memory of the open incident.
LEMMA NextMemory ==
  ASSUME IInv, pc = "decide"
  PROVE  /\ NewState.incident = st.incident
         /\ Event("none") => NewState.open = st.open /\ NewState.startedAt = st.startedAt
         /\ Event("down") => ~st.open /\ NewState.open = TRUE
         /\ Event("up") => st.open /\ NewState.open = FALSE /\ NewState.startedAt = st.startedAt
<1> DEFINE fails == IF st.fails < Threshold THEN st.fails + 1 ELSE st.fails
           first == IF st.fails = 0 THEN cur.at ELSE st.firstFail
           down  == ~st.open /\ fails >= Threshold
<1>1. st \in States /\ st.open \in BOOLEAN
  BY DEF IInv, Types, States
<1>2. CASE cur.ok
  <2>1. NewState = [st EXCEPT !.fails = 0, !.firstFail = 0, !.open = FALSE]
    BY <1>2 DEF NewState, next
  <2>2. Event("none") => ~st.open
    BY <1>1, <1>2 DEF Event, next
  <2>3. ~Event("down") /\ (Event("up") => st.open)
    BY <1>1, <1>2 DEF Event, next
  <2> QED BY <1>1, <2>1, <2>2, <2>3 DEF States
<1>3. CASE ~cur.ok
  <2>1. NewState = [fails |-> fails, firstFail |-> first, open |-> st.open \/ down,
                    startedAt |-> IF down THEN first ELSE st.startedAt, incident |-> st.incident]
    BY <1>3 DEF NewState, next
  <2>2. ~Event("up") /\ (Event("down") => down) /\ (Event("none") => ~down)
    BY <1>3 DEF Event, next
  <2> HIDE DEF fails, first
  <2> QED BY <1>1, <2>1, <2>2
<1> QED BY <1>2, <1>3

\* Steps that leave the runner's memory and the table.
LEMMA MemoryStays ==
  ASSUME Memory, st' = st, inc' = inc, blind' = blind, pc' \in InRound => pc \in InRound
  PROVE  Memory'
BY DEF Memory, OpenIds

LEMMA MemoryRunner ==
  ASSUME IInv, Memory, RunnerStep
  PROVE  Memory'
<1>1. CASE Restore
  <2>1. PICK ids \in Query(OpenIds, {}) :
          /\ ids # OpenIds => blind' = "incident"
          /\ st'.open = (ids # {})
          /\ ids # {} => /\ st'.startedAt = inc[CHOOSE i \in ids : TRUE].start
                         /\ st'.incident = CHOOSE i \in ids : TRUE
    <3>1. PICK ids \in Query(OpenIds, {}), end \in Query(LastIncidentEnd, 0),
                rows \in Query(checks, <<>>) :
            /\ blind' = IF ids # OpenIds THEN "incident"
                        ELSE IF Series(rows, end) # Series(checks, LastIncidentEnd) THEN "series"
                        ELSE "no"
            /\ LET fails == Series(rows, end)
                   first == CHOOSE k \in fails : \A j \in fails : k <= j
                   id    == CHOOSE i \in ids : TRUE
               IN st' = [fails     |-> Cardinality(fails),
                         firstFail |-> IF fails = {} THEN 0 ELSE rows[first].at,
                         open      |-> ids # {},
                         startedAt |-> IF ids = {} THEN 0 ELSE inc[id].start,
                         incident  |-> IF ids = {} THEN 0 ELSE id]
      BY <1>1, Zenon DEF Restore
    <3> DEFINE id == CHOOSE i \in ids : TRUE
    <3>2. ids # OpenIds => blind' = "incident"
      BY <3>1
    <3> HIDE DEF id
    <3>3. /\ st'.open = (ids # {})
          /\ ids # {} => st'.startedAt = inc[id].start /\ st'.incident = id
      BY <3>1 DEF id
    <3> QED BY <3>2, <3>3 DEF id
  <2>2. ids = OpenIds \/ ids = {}
    BY DEF Query
  <2>3. inc' = inc /\ OpenIds' = OpenIds
    BY <1>1 DEF Restore, store, OpenIds
  <2>4. CASE ids = {}
    BY <2>1, <2>3, <2>4 DEF Memory
  <2>5. CASE ids = OpenIds /\ ids # {}
    <3> DEFINE id == CHOOSE i \in ids : TRUE
    <3>1. id \in OpenIds
      BY <2>5
    <3>2. st'.open = TRUE /\ st'.incident = id /\ st'.startedAt = inc[id].start
      BY <2>1, <2>5
    <3> HIDE DEF id
    <3>3. OpenIds = {id}
      BY <3>1, OpenIsOne
    <3> QED BY <2>3, <3>2, <3>3 DEF Memory
  <2> QED BY <2>2, <2>4, <2>5
<1>2. CASE Exit
  BY <1>2 DEF Exit, Memory, InRound
<1>3. CASE StartCheck \/ (\E ok \in Result : FinishCheck(ok)) \/ \E o \in Outcomes : RunnerMail(o)
  BY <1>3, MemoryStays DEF StartCheck, FinishCheck, RunnerMail, store, InRound
<1>4. CASE Insert
  <2>1. /\ pc = "insert" /\ st' = st /\ inc' = inc
        /\ blind = "incident" => blind' = "incident"
    BY <1>4 DEF Insert
  <2> QED BY <2>1 DEF Memory, OpenIds, InRound
<1>5. CASE Quiet
  <2>1. pc = "decide" /\ Event("none") /\ st' = NewState /\ inc' = inc /\ blind' = blind
    BY <1>5 DEF Quiet, Event, EndRound, store
  <2> QED BY <2>1, NextMemory DEF Memory, OpenIds, InRound
<1>6. CASE Open
  <2> DEFINE y == Incident(NewState.startedAt)
  <2>1. /\ pc = "decide" /\ Event("down") /\ inc' = Append(inc, y)
        /\ st' = [NewState EXCEPT !.incident = Len(inc) + 1]
        /\ OpenIds = {}
    BY <1>6 DEF Open, Event, NoneOpen
  <2>2. NewState \in States /\ NewState.open = TRUE /\ NewState.startedAt \in 1 .. now
    BY <2>1, NextState, NextMemory
  <2>3. y.end = 0 /\ y.start = NewState.startedAt /\ y \in IncidentRow
    <3>1. NewState.startedAt \in 1 .. MaxTime
      BY <2>2, BoundAssumption DEF IInv, Types
    <3> QED BY <3>1, NewRow
  <2> HIDE DEF y
  <2>4. /\ DOMAIN inc = 1 .. Len(inc) /\ Len(inc) \in Nat
        /\ DOMAIN inc' = 1 .. Len(inc) + 1 /\ inc'[Len(inc) + 1] = y
        /\ \A i \in 1 .. Len(inc) : inc'[i] = inc[i]
    BY <2>1, <2>3, AppendProperties, LenProperties DEF IInv, Types
  <2>5. OpenIds' = {Len(inc) + 1}
    BY <2>1, <2>3, <2>4 DEF OpenIds
  <2>6. /\ st'.open = TRUE /\ st'.incident = Len(inc) + 1
        /\ st'.startedAt = NewState.startedAt
    BY <2>1, <2>2, <2>4 DEF States
  <2> QED BY <2>3, <2>4, <2>5, <2>6 DEF Memory
<1>7. CASE Adopt
  <2>1. PICK i \in OpenIds : st' = [NewState EXCEPT !.startedAt = inc[i].start, !.incident = i]
    BY <1>7 DEF Adopt, EndRound
  <2>2. pc = "decide" /\ Event("down") /\ inc' = inc
    BY <1>7 DEF Adopt, Event, store
  <2>3. NewState \in States /\ NewState.open = TRUE
    BY <2>2, NextState, NextMemory
  <2>4. st'.open = TRUE /\ st'.incident = i /\ st'.startedAt = inc[i].start
    BY <2>1, <2>3 DEF States
  <2>5. OpenIds = {i} /\ OpenIds' = OpenIds
    BY <2>2, OpenIsOne DEF OpenIds
  <2> QED BY <2>2, <2>4, <2>5 DEF Memory
<1>8. CASE OpenFails
  <2>1. pc = "decide" /\ Event("down") /\ st' = OpenedNot(NewState) /\ inc' = inc /\ blind' = blind
    BY <1>8 DEF OpenFails, Event, EndRound, store
  <2>2. st'.open = FALSE
    BY <2>1, NextState DEF OpenedNot, States
  <2>3. ~st.open
    BY <2>1, NextMemory
  <2> QED BY <2>1, <2>2, <2>3 DEF Memory, OpenIds, InRound
<1>9. CASE Close
  <2> DEFINE k == st.incident
             y == [inc[k] EXCEPT !.end = cur.at, !.by = "check"]
  <2>1. /\ pc = "decide" /\ Event("up") /\ st' = NewState
        /\ inc' = [i \in DOMAIN inc |-> IF i = k /\ i \in OpenIds THEN y ELSE inc[i]]
    BY <1>9 DEF Close, Event
  <2>2. NewState.open = FALSE /\ st.open
    BY <2>1, NextMemory
  <2>3. OpenIds = {k} /\ k \in DOMAIN inc
    BY <2>1, <2>2 DEF Memory, InRound, OpenIds
  <2>4. inc[k] \in IncidentRow /\ cur.at \in 0 .. MaxTime /\ cur.at # 0
    BY <2>1, <2>3, Rows, BoundAssumption DEF IInv, Types, Rounds
  <2>5. y.end # 0
    BY <2>4, RowEnded
  <2> HIDE DEF y
  <2>6. OpenIds' = {}
    BY <2>1, <2>3, <2>5 DEF OpenIds
  <2> QED BY <2>1, <2>2, <2>6 DEF Memory
<1>10. CASE CloseFails
  <2>1. pc = "decide" /\ Event("up") /\ st' = ClosedNot(NewState) /\ inc' = inc
    BY <1>10 DEF CloseFails, Event, EndRound, store
  <2>2. /\ st.open /\ st'.open = TRUE
        /\ st'.incident = st.incident /\ st'.startedAt = st.startedAt
    BY <2>1, NextState, NextMemory DEF ClosedNot, States
  <2> QED BY <2>1, <2>2 DEF Memory, OpenIds, InRound
<1>11. CASE RunnerMark
  <2>1. pc = "mark" /\ Mark(mail) /\ st' = st /\ blind' = blind
    BY <1>11 DEF RunnerMark
  <2>2. OpenIds' = OpenIds /\ \A i \in DOMAIN inc : inc'[i].start = inc[i].start
    BY <2>1, MarkLeavesOpen
  <2>3. st.open => st.incident \in DOMAIN inc
    BY <2>1 DEF Memory, OpenIds, InRound
  <2> QED BY <2>1, <2>2, <2>3 DEF Memory, InRound
<1> QED BY <1>1, <1>2, <1>3, <1>4, <1>5, <1>6, <1>7, <1>8, <1>9, <1>10, <1>11 DEF RunnerStep

LEMMA MemoryStep == IInv /\ Memory /\ [Next]_vars => Memory'
<1> SUFFICES ASSUME IInv, Memory, [Next]_vars PROVE Memory'
  OBVIOUS
<1>1. CASE RunnerStep
  BY <1>1, MemoryRunner
<1>2. CASE RetryMark
  <2>1. Mark(First) /\ UNCHANGED <<pc, st, blind>>
    BY <1>2 DEF RetryMark, runner
  <2>2. OpenIds' = OpenIds /\ \A i \in DOMAIN inc : inc'[i].start = inc[i].start
    BY <2>1, MarkLeavesOpen
  <2>3. pc \in InRound /\ st.open => st.incident \in DOMAIN inc
    BY DEF Memory, OpenIds
  <2> QED BY <2>1, <2>2, <2>3 DEF Memory
<1>3. CASE RetryRead \/ RetrySkip \/ RetryDone \/ (\E o \in Outcomes : RetryMail(o)) \/ Tick
           \/ UNCHANGED vars
  BY <1>3, MemoryStays DEF RetryRead, RetrySkip, RetryDone, RetryMail, Tick, vars, runner, store
<1>4. CASE AdminStep
  <2>1. CASE Remove \/ Stop \/ StartRunner \/ GiveUp \/ \E r \in {"active", "paused"} : WriteRow(r)
    BY <2>1, MemoryStays
       DEF Remove, Stop, StartRunner, GiveUp, WriteRow, runner, store, InRound
  <2>2. CASE ClosePaused \/ DeleteRow
    BY <2>2 DEF ClosePaused, DeleteRow, Stopped, Memory, InRound
  <2> QED BY <1>4, <2>1, <2>2 DEF AdminStep
<1>5. CASE Boot \/ Crash
  BY <1>5 DEF Boot, Crash, Memory, InRound
<1> QED BY <1>1, <1>2, <1>3, <1>4, <1>5 DEF Next, RetryStep

\* What a runner believes about the open incident is so, for every threshold and
\* every bound: no crash, failed statement, pause or new target under the old id
\* separates its state struct from the table.
THEOREM MemoryIsTrue == Spec => []MemoryMatches
<1>1. Init => Memory
  BY DEF Init, Memory, InRound
<1>2. Memory => MemoryMatches
  BY DEF Memory, MemoryMatches, InRound
<1> QED BY <1>1, <1>2, MemoryStep, Invariant, PTL DEF Spec

\* Only the runner, in the middle of a round, adds to the open incidents.
LEMMA OpenShrinks ==
  ASSUME IInv, [Next]_vars
  PROVE  OpenIds' \subseteq OpenIds \/ pc = "decide"
<1>1. CASE inc' = inc
  BY <1>1 DEF OpenIds
<1>2. CASE RunnerMark \/ RetryMark
  BY <1>2, MarkLeavesOpen DEF RunnerMark, RetryMark
<1>3. CASE ClosePaused
  <2>1. /\ now \in 1 .. MaxTime
        /\ \/ inc' = inc
           \/ inc' = [i \in DOMAIN inc |-> IF i \in OpenIds THEN ClosedByPause(inc[i]) ELSE inc[i]]
    BY <1>3 DEF ClosePaused, IInv, Types
  <2> QED BY <2>1 DEF OpenIds
<1>4. CASE DeleteRow
  BY <1>4 DEF DeleteRow, OpenIds
<1>5. CASE Restore \/ Exit \/ StartCheck \/ Insert \/ (\E ok \in Result : FinishCheck(ok))
           \/ \E o \in Outcomes : RunnerMail(o)
  BY <1>1, <1>5, RestoreStep, RunnerReads, InsertStep
<1>6. CASE Quiet \/ Open \/ Adopt \/ OpenFails \/ Close \/ CloseFails
  BY <1>6 DEF Quiet, Open, Adopt, OpenFails, Close, CloseFails, Event
<1>7. CASE \/ Tick \/ Boot \/ Crash \/ RetryRead \/ RetrySkip \/ RetryDone
           \/ (\E o \in Outcomes : RetryMail(o))
           \/ Remove \/ Stop \/ StartRunner \/ GiveUp
           \/ (\E r \in {"active", "paused"} : WriteRow(r))
           \/ UNCHANGED vars
  BY <1>1, <1>7, OtherReads
<1> QED BY <1>2, <1>3, <1>4, <1>5, <1>6, <1>7 DEF Next, RunnerStep, RetryStep, AdminStep

LEMMA PausesStep == IInv /\ Pauses /\ [Next]_vars => Pauses'
<1> SUFFICES ASSUME IInv, Pauses, [Next]_vars PROVE Pauses'
  OBVIOUS
<1> USE DEF Pauses, Settled
<1>0. OpenIds' \subseteq OpenIds \/ pc = "decide"
  BY OpenShrinks
<1>1. CASE RunnerStep
  <2>1. UNCHANGED <<row, apc, aop, cut>> /\ pc # "off"
    BY <1>1 DEF RunnerStep, Restore, Exit, StartCheck, FinishCheck, Insert, Quiet, Open, Adopt,
                OpenFails, Close, CloseFails, RunnerMail, RunnerMark, Event, store, admin
  <2> QED BY <2>1
<1>2. CASE RetryStep \/ Tick \/ UNCHANGED vars
  <2>1. UNCHANGED <<row, apc, aop, cut, pc>>
    BY <1>2 DEF RetryStep, RetryRead, RetrySkip, RetryMail, RetryMark, RetryDone, Tick, vars,
                store, admin, runner
  <2> QED BY <1>0, <2>1
<1>3. CASE Remove \/ \E r \in {"active", "paused"} : WriteRow(r)
  <2>1. CASE Remove
    BY <1>0, <2>1 DEF Remove, AdminBegin, store, runner
  <2>2. CASE \E r \in {"active", "paused"} : WriteRow(r)
    BY <2>2 DEF WriteRow, AdminBegin, runner
  <2> QED BY <1>3, <2>1, <2>2
<1>4. CASE Stop
  BY <1>0, <1>4 DEF Stop, store
<1>5. CASE StartRunner
  BY <1>5 DEF StartRunner, Finish, store
<1>6. CASE GiveUp
  <2>1. /\ pc = "off" /\ apc = "await" /\ cut' = CutShort /\ aop' = "reload"
        /\ UNCHANGED <<row, inc, pc>>
    BY <1>6 DEF GiveUp, Stopped, Finish, store
  <2>2. OpenIds' = OpenIds
    BY <2>1 DEF OpenIds
  <2> QED BY <2>1, <2>2 DEF CutShort
<1>7. CASE ClosePaused
  <2>1. /\ pc = "off" /\ apc = "await" /\ aop = "reload" /\ aop' = "reload" /\ row = "paused"
        /\ UNCHANGED <<row, pc>>
    BY <1>7 DEF ClosePaused, Stopped, Finish
  <2>2. OpenIds' = {} \/ cut'
    <3>1. CASE inc' = [i \in DOMAIN inc |-> IF i \in OpenIds THEN ClosedByPause(inc[i]) ELSE inc[i]]
      <4>1. ASSUME NEW i \in DOMAIN inc, i \in OpenIds PROVE ClosedByPause(inc[i]).end # 0
        <5>1. inc[i] \in IncidentRow /\ now # 0
          BY Rows DEF IInv, Types
        <5>2. ClosedByPause(inc[i]).end = now
          BY <5>1 DEF ClosedByPause, IncidentRow
        <5> QED BY <5>1, <5>2
      <4> QED BY <3>1, <4>1 DEF OpenIds
    <3>2. CASE inc' = inc /\ cut' = CutShort
      <4>1. OpenIds' = OpenIds
        BY <3>2 DEF OpenIds
      <4> QED BY <2>1, <3>2, <4>1 DEF CutShort
    <3> QED BY <1>7, <3>1, <3>2 DEF ClosePaused
  <2> QED BY <2>1, <2>2
<1>8. CASE DeleteRow
  BY <1>8 DEF DeleteRow, Stopped, Finish
<1>9. CASE Boot
  <2>1. UNCHANGED <<row, inc, apc, aop, cut>> /\ pc' = IF row = "active" THEN "restore" ELSE "off"
    BY <1>9 DEF Boot, store, admin
  <2> QED BY <2>1 DEF OpenIds
<1>10. CASE Crash
  <2>1. UNCHANGED <<row, inc>> /\ pc' = "off" /\ aop' = "reload" /\ cut' = CutShort
    BY <1>10 DEF Crash, store
  <2>2. OpenIds' = OpenIds
    BY <2>1 DEF OpenIds
  <2> QED BY <2>1, <2>2 DEF CutShort
<1> QED BY <1>1, <1>2, <1>3, <1>4, <1>5, <1>6, <1>7, <1>8, <1>9, <1>10 DEF Next, AdminStep

\* A paused target has no runner and no open incident, unless the Reload that
\* should have ended it was cut short by a failed statement or a kill.
THEOREM PauseIsQuiet == Spec => []PausedIsQuiet
<1>1. Init => Pauses
  BY DEF Init, Pauses
<1>2. Pauses => PausedIsQuiet
  BY DEF Pauses, Settled, PausedIsQuiet
<1> QED BY <1>1, <1>2, PausesStep, Invariant, PTL DEF Spec

-----------------------------------------------------------------------------
(* The mails of a target that is never deleted.  Then row ids are not used *)
(* again, and what the runner or retry holds in its hands, or remembers,   *)
(* still names the incident and the event it was made for.                 *)

\* The outage (r is FALSE) or the recovery of the incident u took place.
Happened(u, r) == u \in DOMAIN inc /\ r \in BOOLEAN /\ (r => inc[u].end # 0)

Letter(m) == Happened(m.id, m.up) /\ m.uid = m.id

Letters ==
  /\ aop = "reload"
  /\ born = Len(inc)
  /\ \A i \in DOMAIN inc : inc[i].uid = i /\ (inc[i].end = 0 => inc[i].by # "pause")
  /\ pc \in {"mail", "mark"} => Letter(mail)
  /\ \A m \in list : Letter(m)
  /\ \A m, n \in list : m.id = n.id => m = n
  /\ mpc \in {"idle", "loop", "mark"}
  /\ mpc = "mark" => list # {}

\* A flag, or a MarkMailed about to run, stands for a mail that was sent.
Backed == /\ FlagMeansSent
          /\ pc = "mark" => Key(mail) \in sent
          /\ mpc = "mark" => Key(First) \in sent

\* The fields of the rows that the statements write.
LEMMA RowFields ==
  ASSUME NEW r \in IncidentRow, NEW b \in BOOLEAN, NEW t \in 0 .. MaxTime
  PROVE  /\ LET y == [r EXCEPT !.end = t, !.by = "check"]
            IN  /\ y.uid = r.uid /\ y.start = r.start /\ y.end = t /\ y.by = "check"
                /\ y.md = r.md /\ y.mu = r.mu
         /\ LET y == ClosedByPause(r)
            IN  y.uid = r.uid /\ y.start = r.start /\ y.end = now /\ y.by = "pause" /\ y.md /\ y.mu
         /\ LET y == Marked(r, b)
            IN  /\ y.uid = r.uid /\ y.start = r.start /\ y.end = r.end /\ y.by = r.by
                /\ y.md <=> r.md \/ ~b
                /\ y.mu <=> r.mu \/ (b /\ r.end # 0)
<1>1. LET y == [r EXCEPT !.end = t, !.by = "check"]
      IN  /\ y.uid = r.uid /\ y.start = r.start /\ y.end = t /\ y.by = "check"
          /\ y.md = r.md /\ y.mu = r.mu
  BY DEF IncidentRow
<1>2. LET y == ClosedByPause(r)
      IN  y.uid = r.uid /\ y.start = r.start /\ y.end = now /\ y.by = "pause" /\ y.md /\ y.mu
  BY DEF IncidentRow, ClosedByPause
<1>3. LET y == Marked(r, b)
      IN  /\ y.uid = r.uid /\ y.start = r.start /\ y.end = r.end /\ y.by = r.by
          /\ y.md <=> r.md \/ ~b
          /\ y.mu <=> r.mu \/ (b /\ r.end # 0)
  BY DEF IncidentRow, Marked
<1> QED BY <1>1, <1>2, <1>3

\* retry looks at one of the mails in its list.
LEMMA FirstIsOne ==
  ASSUME IInv, Letters, list # {}
  PROVE  First \in list
<1> DEFINE T == {m.id : m \in list}
<1>1. T \in SUBSET Nat /\ T # {}
  BY Rows DEF Letters, Letter, Happened
<1>2. PICK x \in T : \A y \in T : x <= y
  <2> HIDE DEF T
  <2> QED BY <1>1, NatMin
<1>3. \E m \in list : \A o \in list : m.id <= o.id
  BY <1>2
<1> QED BY <1>3, Zenon DEF First

\* A pass over the table finds the mail of this event.
Owed(u, r) == u \in Unmailed /\ r = (inc[u].end # 0) /\ ~(r /\ inc[u].mu)

\* The mails of a pass: those that are due.
LEMMA DueIs ==
  ASSUME IInv, Letters
  PROVE  /\ \A m \in Due : /\ Letter(m)
                           /\ m.up = (inc[m.id].end # 0)
                           /\ IF m.up THEN ~inc[m.id].mu ELSE ~inc[m.id].md
         /\ \A m, n \in Due : m.id = n.id => m = n
         /\ \A m \in Due : Owed(m.id, m.up)
         /\ \A i \in DOMAIN inc : \A r : Owed(i, r) => \E m \in Due : m.id = i /\ m.up = r
<1> DEFINE D == {j \in Unmailed : ~(inc[j].end # 0 /\ inc[j].mu)}
           M(i) == [id |-> i, uid |-> inc[i].uid, up |-> inc[i].end # 0]
<1>1. /\ \A i \in D : Owed(i, inc[i].end # 0) /\ IF inc[i].end # 0 THEN ~inc[i].mu ELSE ~inc[i].md
      /\ \A i \in DOMAIN inc : \A r : Owed(i, r) => i \in D /\ r = (inc[i].end # 0)
  BY DEF Unmailed, Owed
<1>2. D \subseteq DOMAIN inc
  BY DEF Unmailed
<1>3. \A i : M(i).id = i /\ M(i).uid = inc[i].uid /\ M(i).up = (inc[i].end # 0)
  OBVIOUS
<1>4. Due = {M(i) : i \in D}
  BY DEF Due
<1> HIDE DEF D, M
<1>5. ASSUME NEW m \in Due
      PROVE  /\ Letter(m) /\ m = M(m.id)
             /\ m.up = (inc[m.id].end # 0)
             /\ IF m.up THEN ~inc[m.id].mu ELSE ~inc[m.id].md
             /\ Owed(m.id, m.up)
  <2>1. PICK i \in D : m = M(i)
    BY <1>4
  <2>2. m.id = i /\ m.uid = inc[i].uid /\ m.up = (inc[i].end # 0) /\ i \in DOMAIN inc
    BY <1>2, <1>3, <2>1
  <2>3. inc[i].uid = i
    BY <2>2 DEF Letters
  <2>4. Owed(i, inc[i].end # 0) /\ IF inc[i].end # 0 THEN ~inc[i].mu ELSE ~inc[i].md
    BY <1>1, <2>1
  <2> QED BY <2>1, <2>2, <2>3, <2>4 DEF Letter, Happened
<1>6. ASSUME NEW i \in DOMAIN inc, NEW r, Owed(i, r)
      PROVE  \E m \in Due : m.id = i /\ m.up = r
  <2>1. M(i) \in Due /\ r = (inc[i].end # 0)
    BY <1>1, <1>4, <1>6
  <2> QED BY <1>3, <2>1
<1>7. \A m, n \in Due : m.id = n.id => m = n
  BY <1>5
<1> QED BY <1>5, <1>6, <1>7

\* Which steps write the table of a target that is not deleted.
LEMMA WhoWrites ==
  ASSUME IInv, [Next]_vars, aop = "reload"
  PROVE  \/ inc' = inc /\ born' = born
         \/ Open \/ Close \/ ClosePaused \/ RunnerMark \/ RetryMark
<1>1. CASE RunnerStep
  BY <1>1 DEF RunnerStep, Restore, Exit, StartCheck, FinishCheck, Insert, Quiet, Adopt,
              OpenFails, CloseFails, RunnerMail, store
<1>2. CASE RetryStep
  BY <1>2 DEF RetryStep, RetryRead, RetrySkip, RetryMail, RetryDone, store
<1>3. CASE AdminStep
  BY <1>3 DEF AdminStep, Remove, Stop, StartRunner, GiveUp, DeleteRow, WriteRow, store
<1>4. CASE Tick \/ Boot \/ Crash \/ UNCHANGED vars
  BY <1>4 DEF Tick, Boot, Crash, vars, store
<1> QED BY <1>1, <1>2, <1>3, <1>4 DEF Next

\* Incidents are never lost, opened again or unmarked.
Grown == /\ \A i \in DOMAIN inc :
              /\ i \in DOMAIN inc' /\ inc'[i].uid = inc[i].uid /\ inc'[i].start = inc[i].start
              /\ inc[i].end # 0 => inc'[i].end = inc[i].end /\ inc'[i].by = inc[i].by
              /\ inc'[i].end = 0 => inc'[i].by = inc[i].by
              /\ inc[i].md => inc'[i].md
              /\ inc[i].mu => inc'[i].mu
         /\ \A i \in DOMAIN inc' : i \in DOMAIN inc \/ (i = born' /\ inc'[i].uid = i /\ inc'[i].by # "pause"
                                                        /\ ~inc'[i].md /\ ~inc'[i].mu)
         /\ born' = Len(inc')

LEMMA MarkGrows ==
  ASSUME IInv, Letters, NEW m, Letter(m), Mark(m), born' = born
  PROVE  /\ Grown
         /\ \A i \in DOMAIN inc : /\ inc'[i].by = inc[i].by
                                  /\ inc'[i].md => inc[i].md \/ <<i, FALSE>> = Key(m)
                                  /\ inc'[i].mu => inc[i].mu \/ <<i, TRUE>> = Key(m)
         /\ \/ inc' = inc /\ unsure' = unsure \cup {Key(m)}
            \/ unsure' = unsure /\ IF m.up THEN inc'[m.id].mu ELSE inc'[m.id].md
<1>1. CASE inc' = inc /\ unsure' = unsure \cup {Key(m)}
  BY <1>1 DEF Grown, Letters
<1>2. CASE /\ m.id \in DOMAIN inc /\ inc' = [inc EXCEPT ![m.id] = Marked(@, m.up)]
           /\ unsure' = unsure
  <2> DEFINE y == Marked(inc[m.id], m.up)
  <2>1. inc[m.id] \in IncidentRow /\ m.up \in BOOLEAN /\ 0 \in 0 .. MaxTime
    BY <1>2, Rows, BoundAssumption DEF Letter, Happened
  <2>2. /\ y.uid = inc[m.id].uid /\ y.start = inc[m.id].start /\ y.end = inc[m.id].end
        /\ y.by = inc[m.id].by
        /\ y.md <=> inc[m.id].md \/ ~m.up
        /\ y.mu <=> inc[m.id].mu \/ (m.up /\ inc[m.id].end # 0)
    BY <2>1, RowFields
  <2> HIDE DEF y
  <2>3. inc' = [inc EXCEPT ![m.id] = y]
    BY <1>2 DEF y
  <2>4. DOMAIN inc' = DOMAIN inc /\ \A i \in DOMAIN inc : inc'[i] = IF i = m.id THEN y ELSE inc[i]
    BY <2>3
  <2>5. Len(inc') = Len(inc)
    BY <2>3, ExceptSeq, LenProperties DEF IInv, Types
  <2>6. Grown
    BY <2>2, <2>4, <2>5 DEF Grown, Letters
  <2>7. Key(m) = <<m.id, m.up>> /\ (m.up => inc[m.id].end # 0)
    BY DEF Key, Letter, Happened
  <2>8. ASSUME NEW i \in DOMAIN inc
        PROVE  /\ inc'[i].by = inc[i].by
               /\ inc'[i].md => inc[i].md \/ <<i, FALSE>> = Key(m)
               /\ inc'[i].mu => inc[i].mu \/ <<i, TRUE>> = Key(m)
    BY <2>1, <2>2, <2>4, <2>7
  <2>9. IF m.up THEN inc'[m.id].mu ELSE inc'[m.id].md
    BY <1>2, <2>2, <2>4, <2>7
  <2> QED BY <1>2, <2>6, <2>8, <2>9
<1> QED BY <1>1, <1>2 DEF Mark

\* The row that Open adds, and what it may be told of.
LEMMA OpenGrows ==
  ASSUME IInv, Letters, Open
  PROVE  /\ Grown
         /\ \A i \in DOMAIN inc : inc'[i] = inc[i]
         /\ born + 1 \in DOMAIN inc' /\ born + 1 \notin DOMAIN inc
         /\ pc' = "mail" => mail' = [id |-> born + 1, uid |-> born + 1, up |-> FALSE]
<1> DEFINE y == Incident(NewState.startedAt)
<1>1. /\ inc' = Append(inc, y) /\ born' = born + 1 /\ born = Len(inc)
      /\ pc' = "mail" => mail' = [id |-> born + 1, uid |-> born + 1, up |-> FALSE]
  BY DEF Open, Notify, Letters
<1>2. NewState.startedAt \in 1 .. now
  BY NextState DEF Open, Event
<1>3. NewState.startedAt \in 1 .. MaxTime
  BY <1>2, BoundAssumption DEF IInv, Types
<1>4. y \in IncidentRow /\ y.uid = born + 1 /\ y.md = FALSE /\ y.mu = FALSE
  BY <1>3, NewRow
<1>5. y.by = ""
  BY DEF Incident
<1> HIDE DEF y
<1>6. /\ DOMAIN inc = 1 .. Len(inc) /\ Len(inc) \in Nat
      /\ DOMAIN inc' = 1 .. Len(inc) + 1 /\ Len(inc') = Len(inc) + 1
      /\ inc'[Len(inc) + 1] = y
      /\ \A i \in 1 .. Len(inc) : inc'[i] = inc[i]
  BY <1>1, <1>4, AppendProperties, LenProperties DEF IInv, Types
<1>7. \A i \in DOMAIN inc' : i \in DOMAIN inc \/ i = born + 1
  BY <1>1, <1>6
<1>8. \A i \in DOMAIN inc : i \in DOMAIN inc' /\ inc'[i] = inc[i]
  BY <1>6
<1>9. ASSUME NEW i \in DOMAIN inc', i \notin DOMAIN inc
      PROVE  /\ i = born' /\ inc'[i].uid = i /\ inc'[i].by # "pause"
             /\ ~inc'[i].md /\ ~inc'[i].mu
  <2>1. i = born + 1 /\ inc'[i] = y
    BY <1>1, <1>6, <1>7, <1>9
  <2> QED BY <1>1, <1>4, <1>5, <2>1
<1>10. born' = Len(inc')
  BY <1>1, <1>6
<1>11. Grown
  BY <1>8, <1>9, <1>10, Zenon DEF Grown
<1> QED BY <1>1, <1>6, <1>8, <1>11

\* A table of which rows are replaced: its length stays.
LEMMA SameLength ==
  ASSUME IInv, inc' \in Seq(IncidentRow), DOMAIN inc' = DOMAIN inc
  PROVE  Len(inc') = Len(inc)
<1>1. /\ DOMAIN inc = 1 .. Len(inc) /\ Len(inc) \in Nat
      /\ DOMAIN inc' = 1 .. Len(inc') /\ Len(inc') \in Nat
  BY LenProperties DEF IInv, Types
<1> QED BY <1>1

\* Close and ClosePaused end incidents, which may then be told of.
LEMMA CloseGrows ==
  ASSUME IInv, Letters, Memory, Close
  PROVE  /\ Grown
         /\ \A i \in DOMAIN inc : /\ inc'[i].md = inc[i].md /\ inc'[i].mu = inc[i].mu
                                  /\ inc'[i].by # inc[i].by => inc[i].end = 0
         /\ DOMAIN inc' = DOMAIN inc
         /\ st.incident \in DOMAIN inc /\ inc[st.incident].end = 0 /\ inc'[st.incident].end # 0
         /\ pc' = "mail" => mail' = [id |-> st.incident, uid |-> st.incident, up |-> TRUE]
<1> DEFINE k == st.incident
           y == [inc[k] EXCEPT !.end = cur.at, !.by = "check"]
<1>1. /\ pc = "decide" /\ Event("up") /\ born' = born
      /\ inc' = [i \in DOMAIN inc |-> IF i = k /\ i \in OpenIds THEN y ELSE inc[i]]
  BY DEF Close, Event
<1>2. st.open
  BY <1>1, NextMemory
<1>3. OpenIds = {k} /\ k \in DOMAIN inc /\ inc[k].end = 0
  BY <1>1, <1>2 DEF Memory, InRound, OpenIds
<1>4. inc[k] \in IncidentRow /\ cur.at \in 0 .. MaxTime /\ cur.at # 0
  BY <1>1, <1>3, Rows, BoundAssumption DEF IInv, Types, Rounds
<1>5. /\ y.uid = inc[k].uid /\ y.start = inc[k].start /\ y.end = cur.at /\ y.by = "check"
      /\ y.md = inc[k].md /\ y.mu = inc[k].mu
  BY <1>4, RowFields
<1>6. pc' = "mail" => mail' = [id |-> k, uid |-> k, up |-> TRUE]
  <2>1. inc[k].uid = k
    BY <1>3 DEF Letters
  <2> QED BY <1>3, <2>1 DEF Close, Notify
<1> HIDE DEF y
<1>7. DOMAIN inc' = DOMAIN inc /\ \A i \in DOMAIN inc : inc'[i] = IF i = k THEN y ELSE inc[i]
  BY <1>1, <1>3
<1>8. Len(inc') = Len(inc)
  BY <1>7, CloseStep, SameLength DEF IInv, Types
<1>9. Grown
  BY <1>1, <1>3, <1>4, <1>5, <1>7, <1>8 DEF Grown, Letters
<1> QED BY <1>3, <1>4, <1>5, <1>6, <1>7, <1>9

LEMMA PauseGrows ==
  ASSUME IInv, Letters, ClosePaused
  PROVE  /\ Grown /\ DOMAIN inc' = DOMAIN inc
         /\ \A i \in DOMAIN inc : inc'[i] = inc[i] \/ inc'[i].by = "pause"
<1>1. /\ born' = born
      /\ \/ inc' = inc
         \/ inc' = [i \in DOMAIN inc |-> IF i \in OpenIds THEN ClosedByPause(inc[i]) ELSE inc[i]]
  BY DEF ClosePaused
<1>2. CASE inc' = inc
  BY <1>1, <1>2 DEF Grown, Letters
<1>3. CASE inc' = [i \in DOMAIN inc |-> IF i \in OpenIds THEN ClosedByPause(inc[i]) ELSE inc[i]]
  <2>1. Len(inc') = Len(inc)
    BY <1>3, ClosePausedStep, SameLength DEF IInv, Types
  <2>2. ASSUME NEW i \in OpenIds
        PROVE  /\ i \in DOMAIN inc /\ inc[i].end = 0
               /\ LET y == ClosedByPause(inc[i])
                  IN  /\ y.uid = inc[i].uid /\ y.start = inc[i].start /\ y.end # 0
                      /\ y.by = "pause" /\ y.md /\ y.mu
    <3>1. i \in DOMAIN inc /\ inc[i].end = 0 /\ inc[i] \in IncidentRow
      BY Rows DEF OpenIds
    <3>2. 0 \in 0 .. MaxTime /\ TRUE \in BOOLEAN /\ now # 0
      BY BoundAssumption DEF IInv, Types
    <3> QED BY <3>1, <3>2, RowFields
  <2>3. Grown
    BY <1>1, <1>3, <2>1, <2>2 DEF Grown, Letters
  <2> QED BY <1>3, <2>2, <2>3
<1> QED BY <1>1, <1>2, <1>3

LEMMA EveryStepGrows ==
  ASSUME IInv, Letters, Memory, [Next]_vars
  PROVE  Grown
<1>1. aop = "reload"
  BY DEF Letters
<1>2. CASE inc' = inc /\ born' = born
  BY <1>2 DEF Grown, Letters
<1>3. CASE RunnerMark
  BY <1>3, MarkGrows DEF RunnerMark, Letters
<1>4. CASE RetryMark
  <2>1. First \in list
    BY <1>4, FirstIsOne DEF Letters, RetryMark
  <2> QED BY <1>4, <2>1, MarkGrows DEF RetryMark, Letters
<1> QED BY <1>1, <1>2, <1>3, <1>4, WhoWrites, OpenGrows, CloseGrows, PauseGrows

\* What happened stays so.
LEMMA HappenedStays ==
  ASSUME Grown
  PROVE  /\ \A u, r : Happened(u, r) => Happened(u, r)'
         /\ \A m : Letter(m) => Letter(m)'
BY DEF Grown, Happened, Letter

\* Open and Close, which have the runner write a mail, write it of something that
\* happens with this step.
LEMMA NewMail ==
  ASSUME IInv, Letters, Memory, [Next]_vars, pc' \in {"mail", "mark"}
  PROVE  \/ pc \in {"mail", "mark"} /\ mail' = mail
         \/ /\ pc' = "mail" /\ Letter(mail)' /\ mail'.up \in BOOLEAN
            /\ ~Happened(mail'.id, mail'.up)
            /\ Open \/ Close
<1>1. CASE RunnerStep
  <2>1. CASE Open
    <3>1. pc' = "mail" /\ mail' = [id |-> born + 1, uid |-> born + 1, up |-> FALSE]
      BY <2>1, OpenGrows DEF Open, Notify
    <3>2. born + 1 \in DOMAIN inc' /\ born + 1 \notin DOMAIN inc
      BY <2>1, OpenGrows
    <3>3. mail'.id = born + 1 /\ mail'.uid = born + 1 /\ mail'.up = FALSE
      BY <3>1
    <3> QED BY <2>1, <3>1, <3>2, <3>3 DEF Letter, Happened
  <2>2. CASE Close
    <3>1. pc' = "mail" /\ mail' = [id |-> st.incident, uid |-> st.incident, up |-> TRUE]
      BY <2>2, CloseGrows DEF Close, Notify
    <3>2. mail'.id = st.incident /\ mail'.uid = st.incident /\ mail'.up = TRUE
      BY <3>1
    <3>3. /\ st.incident \in DOMAIN inc' /\ inc[st.incident].end = 0
          /\ inc'[st.incident].end # 0
      BY <2>2, CloseGrows
    <3> QED BY <2>2, <3>1, <3>2, <3>3 DEF Letter, Happened
  <2>3. CASE \E o \in Outcomes : RunnerMail(o)
    BY <2>3 DEF RunnerMail
  <2> QED BY <1>1, <2>1, <2>2, <2>3
          DEF RunnerStep, Restore, Exit, StartCheck, FinishCheck, Insert, Quiet, Adopt,
              OpenFails, CloseFails, RunnerMark, EndRound
<1>2. CASE RetryStep \/ AdminStep \/ Tick \/ UNCHANGED vars
  BY <1>2 DEF RetryStep, RetryRead, RetrySkip, RetryMail, RetryMark, RetryDone, AdminStep,
              Remove, Stop, StartRunner, ClosePaused, GiveUp, DeleteRow, WriteRow, Tick, vars,
              runner
<1>3. CASE Boot \/ Crash
  BY <1>3 DEF Boot, Crash
<1> QED BY <1>1, <1>2, <1>3 DEF Next

\* What a step does to the work of retry.
LEMMA WhoLists ==
  ASSUME [Next]_vars
  PROVE  \/ RetryRead \/ RetrySkip \/ RetryMark \/ RetryDone \/ (\E o \in Outcomes : RetryMail(o))
         \/ Crash
         \/ mpc' = mpc /\ list' = list /\ pending' = pending /\ fresh' = fresh /\ tried' = tried
<1>1. CASE RunnerStep
  BY <1>1 DEF RunnerStep, Restore, Exit, StartCheck, FinishCheck, Insert, Quiet, Open, Adopt,
              OpenFails, Close, CloseFails, RunnerMail, RunnerMark, upkeep, post
<1>2. CASE AdminStep
  BY <1>2 DEF AdminStep, Remove, Stop, StartRunner, ClosePaused, GiveUp, DeleteRow, WriteRow,
              upkeep, post
<1>3. CASE Tick \/ Boot \/ UNCHANGED vars
  BY <1>3 DEF Tick, Boot, vars, upkeep, post
<1> QED BY <1>1, <1>2, <1>3 DEF Next, RetryStep

LEMMA LettersStep ==
  ASSUME IInv, Memory, Letters, Deletes = FALSE, [Next]_vars
  PROVE  Letters'
<1>1. Grown /\ (\A u, r : Happened(u, r) => Happened(u, r)') /\ \A m : Letter(m) => Letter(m)'
  BY EveryStepGrows, HappenedStays
<1>2. aop' = "reload"
  <2>1. CASE AdminStep
    BY <2>1 DEF AdminStep, Remove, Stop, StartRunner, ClosePaused, GiveUp, DeleteRow, WriteRow,
                AdminBegin, Finish, Letters
  <2>2. CASE RunnerStep
    BY <2>2 DEF RunnerStep, Restore, Exit, StartCheck, FinishCheck, Insert, Quiet, Open, Adopt,
                OpenFails, Close, CloseFails, RunnerMail, RunnerMark, admin, Letters
  <2>3. CASE RetryStep
    BY <2>3 DEF RetryStep, RetryRead, RetrySkip, RetryMail, RetryMark, RetryDone, admin, Letters
  <2>4. CASE Tick \/ Boot \/ Crash \/ UNCHANGED vars
    BY <2>4 DEF Tick, Boot, Crash, vars, admin, Letters
  <2> QED BY <2>1, <2>2, <2>3, <2>4 DEF Next
<1>3. born' = Len(inc')
  BY <1>1 DEF Grown
<1>4. ASSUME NEW i \in DOMAIN inc'
      PROVE  inc'[i].uid = i /\ (inc'[i].end = 0 => inc'[i].by # "pause")
  BY <1>1 DEF Grown, Letters
<1>5. pc' \in {"mail", "mark"} => Letter(mail)'
  <2>1. SUFFICES ASSUME pc' \in {"mail", "mark"} PROVE Letter(mail)'
    OBVIOUS
  <2>2. CASE pc \in {"mail", "mark"} /\ mail' = mail
    <3>1. Letter(mail)
      BY <2>2 DEF Letters
    <3> QED BY <1>1, <2>2, <3>1 DEF Letter, Happened
  <2> QED BY <2>1, <2>2, NewMail
<1>6. /\ list' \subseteq list \/ (RetryRead /\ list' = Due)
      /\ mpc' \in {"idle", "loop", "mark"}
      /\ mpc' = "mark" => list' = list /\ list # {}
  <2>1. CASE RetryRead \/ RetrySkip \/ RetryMark \/ RetryDone
    BY <2>1 DEF RetryRead, RetrySkip, RetryMark, RetryDone
  <2>2. CASE \E o \in Outcomes : RetryMail(o)
    BY <2>2 DEF RetryMail
  <2>3. CASE Crash
    BY <2>3 DEF Crash
  <2> QED BY <2>1, <2>2, <2>3, WhoLists DEF Letters
<1>7. (\A m \in list' : Letter(m)') /\ \A m, n \in list' : m.id = n.id => m = n
  <2>1. CASE list' \subseteq list
    BY <1>1, <2>1 DEF Letters
  <2>2. CASE list' = Due
    BY <1>1, <2>2, DueIs
  <2> QED BY <1>6, <2>1, <2>2
<1> QED BY <1>2, <1>3, <1>4, <1>5, <1>6, <1>7, Zenon DEF Letters

LEMMA LettersHold ==
  ASSUME Deletes = FALSE
  PROVE  Spec => [](IInv /\ Memory /\ Letters)
<1>1. Init => Letters
  <2>1. Init => DOMAIN inc = {} /\ Len(inc) = 0
    BY DEF Init
  <2> QED BY <2>1 DEF Init, Letters
<1>2. Init => Memory
  BY DEF Init, Memory, InRound
<1>3. IInv /\ Memory /\ Letters /\ [Next]_vars => Letters'
  BY LettersStep
<1> QED BY <1>1, <1>2, <1>3, MemoryStep, Invariant, PTL DEF Spec

\* A flag that is set although no pause ended the incident was set before, or its
\* mail is the one that is marked now.
LEMMA WhoFlags ==
  ASSUME IInv, Memory, Letters, [Next]_vars, NEW i \in DOMAIN inc', inc'[i].by # "pause",
         NEW r \in BOOLEAN, IF r THEN inc'[i].mu ELSE inc'[i].md
  PROVE  \/ i \in DOMAIN inc /\ inc[i].by # "pause" /\ IF r THEN inc[i].mu ELSE inc[i].md
         \/ pc = "mark" /\ <<i, r>> = Key(mail)
         \/ mpc = "mark" /\ <<i, r>> = Key(First)
<1>1. i \in DOMAIN inc
  BY EveryStepGrows DEF Grown
<1>2. CASE RunnerMark
  BY <1>1, <1>2, MarkGrows DEF RunnerMark, Letters
<1>3. CASE RetryMark
  <2>1. First \in list
    BY <1>3, FirstIsOne DEF Letters, RetryMark
  <2> QED BY <1>1, <1>3, <2>1, MarkGrows DEF RetryMark, Letters
<1>4. CASE Open
  BY <1>1, <1>4, OpenGrows
<1>5. CASE Close
  BY <1>1, <1>5, CloseGrows DEF Letters
<1>6. CASE ClosePaused
  BY <1>1, <1>6, PauseGrows
<1>7. aop = "reload"
  BY DEF Letters
<1> QED BY <1>1, <1>2, <1>3, <1>4, <1>5, <1>6, <1>7, WhoWrites

\* The mails handed to the server, and what a MarkMailed about to run is for.
LEMMA WhoSends ==
  ASSUME [Next]_vars
  PROVE  /\ sent \subseteq sent'
         /\ \/ sent' = sent /\ twice' = twice
            \/ \E o \in {"ok", "doubt"} : RunnerMail(o)
            \/ \E o \in {"ok", "doubt"} : RetryMail(o)
         /\ pc' = "mark" => mail' = mail /\ (pc = "mark" \/ RunnerMail("ok"))
         /\ mpc' = "mark" => list' = list /\ (mpc = "mark" \/ RetryMail("ok"))
<1>1. CASE RunnerStep
  BY <1>1 DEF RunnerStep, Restore, Exit, StartCheck, FinishCheck, Insert, Quiet, Open, Adopt,
              OpenFails, Close, CloseFails, RunnerMail, RunnerMark, EndRound, Notify, Deliver,
              Outcomes, upkeep, post
<1>2. CASE RetryStep
  BY <1>2 DEF RetryStep, RetryRead, RetrySkip, RetryMail, RetryMark, RetryDone, Deliver,
              Outcomes, runner, post
<1>3. CASE AdminStep
  BY <1>3 DEF AdminStep, Remove, Stop, StartRunner, ClosePaused, GiveUp, DeleteRow, WriteRow,
              upkeep, post, runner
<1>4. CASE Tick \/ Boot \/ Crash \/ UNCHANGED vars
  BY <1>4 DEF Tick, Boot, Crash, vars, runner, upkeep, post
<1> QED BY <1>1, <1>2, <1>3, <1>4 DEF Next

LEMMA BackedStep ==
  ASSUME IInv, Memory, Letters, Backed, [Next]_vars
  PROVE  Backed'
<1>1. sent \subseteq sent'
  BY WhoSends
<1>2. pc' = "mark" => Key(mail') \in sent'
  BY <1>1, WhoSends DEF Backed, RunnerMail, Deliver
<1>3. mpc' = "mark" => Key(First)' \in sent'
  <2>1. mpc' = "mark" => First' = First
    BY WhoSends DEF First
  <2> QED BY <1>1, <2>1, WhoSends DEF Backed, RetryMail, Deliver, Key
<1>4. ASSUME NEW i \in DOMAIN inc', inc'[i].by # "pause", NEW r \in BOOLEAN,
             IF r THEN inc'[i].mu ELSE inc'[i].md
      PROVE  <<i, r>> \in sent'
  <2>1. CASE \/ pc = "mark" /\ <<i, r>> = Key(mail)
             \/ mpc = "mark" /\ <<i, r>> = Key(First)
    BY <1>1, <2>1 DEF Backed
  <2>2. CASE i \in DOMAIN inc /\ inc[i].by # "pause" /\ IF r THEN inc[i].mu ELSE inc[i].md
    BY <1>1, <2>2 DEF Backed, FlagMeansSent, Letters
  <2> QED BY <1>4, <2>1, <2>2, WhoFlags
<1>5. \A i \in DOMAIN inc' : inc'[i].uid = i
  BY EveryStepGrows DEF Grown, Letters
<1>6. FlagMeansSent'
  BY <1>4, <1>5 DEF FlagMeansSent
<1> QED BY <1>2, <1>3, <1>6 DEF Backed

\* For a target that is not deleted, the flags mailed_down and mailed_up
\* are only set on incidents whose mail the server accepted, or which a pause
\* ended, whatever fails and crosses.
THEOREM FlagsAreHonest ==
  ASSUME Deletes = FALSE
  PROVE  Spec => []FlagMeansSent
<1>1. Init => Backed
  <2>1. Init => DOMAIN inc = {}
    BY DEF Init
  <2> QED BY <2>1 DEF Init, Backed, FlagMeansSent
<1>2. IInv /\ Memory /\ Letters /\ Backed /\ [Next]_vars => Backed'
  BY BackedStep
<1>3. Backed => FlagMeansSent
  BY DEF Backed
<1> QED BY <1>1, <1>2, <1>3, LettersHold, PTL DEF Spec

-----------------------------------------------------------------------------
(* RetryOnce.  A mail that was retried and is still owed has to be known   *)
(* as retried to every later pass, although each pass rebuilds the map: it *)
(* is in the map, or this pass has put it into the new one, or has it      *)
(* still before it and will find it in the old map.                        *)

\* The mails of this pass that are not handled yet.
Todo == IF mpc = "mark" THEN list \ {First} ELSE list

\* Only events that took place are retried.
TriedHappened == \A u, r : <<u, r>> \in tried => Happened(u, r)

\* A map has one entry for an event, which is retried or is not.
OneMark(p) == \A u, r : <<u, r, TRUE>> \in p => <<u, r, FALSE>> \notin p

\* The new map has no entry yet for what is still to do.
Ahead == \A m \in Todo : Entry(m, TRUE) \notin fresh /\ Entry(m, FALSE) \notin fresh

\* What is still to do and was retried is known as retried.
Known == \A m \in Todo : Key(m) \in tried => Entry(m, TRUE) \in pending

\* This pass comes to the mail of the event.
Comes(u, r) == \E m \in Todo : m.id = u /\ m.up = r

\* What was retried and is owed is not forgotten.
Remembered ==
  \A u, r : <<u, r>> \in tried /\ Owed(u, r) =>
    /\ mpc = "idle" => <<u, r, TRUE>> \in pending
    /\ mpc # "idle" => <<u, r, TRUE>> \in fresh \/ Comes(u, r)

Once == TriedHappened /\ OneMark(pending) /\ OneMark(fresh) /\ Ahead /\ Known /\ Remembered

\* What was owed for an event that happened is not owed anew.
LEMMA OwedShrinks ==
  ASSUME IInv, IInv', Grown, now <= now', NEW u, NEW r, Happened(u, r), Owed(u, r)'
  PROVE  Owed(u, r)
<1>1. u \in DOMAIN inc /\ u \in DOMAIN inc' /\ inc[u] \in IncidentRow /\ inc'[u] \in IncidentRow
  BY Rows, ElementOfSeq DEF Happened, Grown, IInv, Types
<1>2. /\ inc'[u].start = inc[u].start
      /\ inc[u].end # 0 => inc'[u].end = inc[u].end
      /\ inc[u].md => inc'[u].md
      /\ inc[u].mu => inc'[u].mu
  BY <1>1 DEF Grown
<1>3. (inc'[u].end # 0) = (inc[u].end # 0)
  BY <1>2 DEF Happened, Owed
<1>4. \A t \in Nat : Recent(t)' => Recent(t)
  BY WindowAssumption DEF Recent, IInv, Types
<1>5. inc[u].start \in Nat /\ inc[u].end \in Nat
  <2>1. inc[u].start \in 1 .. MaxTime /\ inc[u].end \in 0 .. MaxTime
    BY <1>1 DEF IncidentRow
  <2> QED BY <2>1, BoundAssumption
<1>6. /\ Recent(inc[u].start)' => Recent(inc[u].start)
      /\ inc[u].end # 0 /\ Recent(inc[u].end)' => Recent(inc[u].end)
  BY <1>2, <1>4, <1>5
<1> QED BY <1>1, <1>2, <1>3, <1>6 DEF Owed, Unmailed

\* Time does not go back.
LEMMA TimeGrows ==
  ASSUME IInv, [Next]_vars
  PROVE  now <= now'
<1>1. now \in Nat
  BY DEF IInv, Types
<1>2. now' = now \/ now' = now + 1
  <2>1. CASE RunnerStep
    BY <2>1 DEF RunnerStep, Restore, Exit, StartCheck, FinishCheck, Insert, Quiet, Open, Adopt,
                OpenFails, Close, CloseFails, RunnerMail, RunnerMark, clock
  <2>2. CASE RetryStep
    BY <2>2 DEF RetryStep, RetryRead, RetrySkip, RetryMail, RetryMark, RetryDone, clock
  <2>3. CASE AdminStep
    BY <2>3 DEF AdminStep, Remove, Stop, StartRunner, ClosePaused, GiveUp, DeleteRow, WriteRow,
                clock
  <2>4. CASE Tick \/ Boot \/ Crash \/ UNCHANGED vars
    BY <2>4 DEF Tick, Boot, Crash, vars, clock
  <2> QED BY <2>1, <2>2, <2>3, <2>4 DEF Next
<1> QED BY <1>1, <1>2

\* Two mails of one pass are of two incidents.
LEMMA Apart ==
  ASSUME Letters, NEW m \in list, NEW n \in list, m # n
  PROVE  m.id # n.id /\ Key(m) # Key(n) /\ \A a, b : Entry(m, a) # Entry(n, b)
<1>1. m.id # n.id /\ m.uid = m.id /\ n.uid = n.id
  BY DEF Letters, Letter
<1> QED BY <1>1 DEF Key, Entry

\* After a retry there is one mail less to do.
LEMMA TodoMail ==
  ASSUME IInv, Letters, NEW o \in Outcomes, RetryMail(o)
  PROVE  /\ First \in list /\ Todo = list /\ Todo' = list \ {First}
         /\ mpc = "loop" /\ mpc' # "idle"
<1>1. First \in list /\ Todo = list /\ mpc = "loop" /\ mpc' # "idle"
  BY FirstIsOne DEF RetryMail, Todo
<1>2. list' = list => First' = First
  BY DEF First
<1> QED BY <1>1, <1>2 DEF RetryMail, Todo

\* How the pass proceeds.
LEMMA TodoStep ==
  ASSUME IInv, Letters, [Next]_vars
  PROVE  \/ RetryRead /\ Todo' = Due /\ mpc' = "loop"
         \/ /\ RetrySkip \/ \E o \in Outcomes : RetryMail(o)
            /\ First \in list /\ Todo = list /\ Todo' = list \ {First}
            /\ mpc = "loop" /\ mpc' # "idle"
         \/ RetryMark /\ Todo' = Todo /\ mpc # "idle" /\ mpc' # "idle"
         \/ RetryDone /\ Todo = {} /\ Todo' = {} /\ mpc # "idle" /\ mpc' = "idle"
         \/ Crash /\ Todo' = {}
         \/ /\ Todo' = Todo /\ mpc' = mpc /\ list' = list /\ pending' = pending
            /\ fresh' = fresh /\ tried' = tried
<1>0. list' = list => First' = First
  BY DEF First
<1>1. CASE RetryRead
  BY <1>1 DEF RetryRead, Todo
<1>2. CASE RetrySkip
  BY <1>2, FirstIsOne DEF RetrySkip, Todo
<1>3. CASE \E o \in Outcomes : RetryMail(o)
  BY <1>3, TodoMail
<1>4. CASE RetryMark
  BY <1>4 DEF RetryMark, Todo
<1>5. CASE RetryDone
  BY <1>5 DEF RetryDone, Todo
<1>6. CASE Crash
  BY <1>6 DEF Crash, Todo
<1>7. CASE mpc' = mpc /\ list' = list /\ pending' = pending /\ fresh' = fresh /\ tried' = tried
  BY <1>0, <1>7 DEF Todo
<1> QED BY <1>1, <1>2, <1>3, <1>4, <1>5, <1>6, <1>7, WhoLists

\* A new pass finds the mails that were retried in the map of the last one.
LEMMA OnceRead ==
  ASSUME IInv, Letters, Once, RetryRead
  PROVE  Once'
<1>1. /\ fresh' = {} /\ pending' = pending /\ tried' = tried /\ inc' = inc /\ now' = now
      /\ mpc = "idle" /\ mpc' = "loop" /\ Todo' = Due
  BY DEF RetryRead, store, clock, Todo
<1>2. ASSUME NEW m \in Due, Key(m) \in tried PROVE Entry(m, TRUE) \in pending
  <2>1. Letter(m) /\ Owed(m.id, m.up)
    BY DueIs
  <2>2. <<m.id, m.up>> \in tried /\ Owed(m.id, m.up)
    BY <1>2, <2>1 DEF Key, Letter
  <2> QED BY <1>1, <2>2 DEF Once, Remembered, Entry
<1>3. ASSUME NEW u, NEW r, <<u, r>> \in tried, Owed(u, r)
      PROVE  Comes(u, r)'
  <2>1. u \in DOMAIN inc
    BY <1>3 DEF Once, TriedHappened, Happened
  <2>2. \E m \in Due : m.id = u /\ m.up = r
    BY <1>3, <2>1, DueIs
  <2> QED BY <1>1, <2>2 DEF Comes
<1>4. \A u, r : (Owed(u, r)' <=> Owed(u, r)) /\ (Happened(u, r)' <=> Happened(u, r))
  BY <1>1 DEF Owed, Unmailed, Recent, Happened
<1>5. TriedHappened' /\ OneMark(pending)' /\ OneMark(fresh)' /\ Ahead' /\ Known'
  BY <1>1, <1>2, <1>4 DEF Once, TriedHappened, OneMark, Ahead, Known, Key, Entry
<1>6. Remembered'
  BY <1>1, <1>3, <1>4 DEF Remembered
<1> QED BY <1>5, <1>6 DEF Once

\* An entry is looked at: it is carried over, or its mail is tried.
LEMMA OnceLook ==
  ASSUME IInv, Letters, Once, Todo = list, Todo' = list \ {First}, First \in list,
         mpc = "loop", mpc' # "idle", inc' = inc, now' = now, pending' = pending,
         NEW b \in BOOLEAN, fresh' = fresh \cup {Entry(First, b)},
         \/ tried' = tried /\ b = (Entry(First, TRUE) \in pending)
         \/ tried' = tried \cup {Key(First)} /\ b = TRUE
         \/ tried' = tried /\ DueAgain(First)
  PROVE  Once'
<1>0. PICK m : m = First
  OBVIOUS
<1>1. /\ Happened(m.id, m.up) /\ m.uid = m.id /\ Key(m) = <<m.id, m.up>>
      /\ Entry(m, TRUE) = <<m.id, m.up, TRUE>> /\ Entry(m, FALSE) = <<m.id, m.up, FALSE>>
  BY <1>0 DEF Letters, Letter, Key, Entry
<1>2. /\ m \in list /\ tried \subseteq tried' /\ tried' \subseteq tried \cup {Key(m)}
      /\ fresh' = fresh \cup {Entry(m, b)}
  BY <1>0
<1>3. \A u, r : (Owed(u, r)' <=> Owed(u, r)) /\ (Happened(u, r)' <=> Happened(u, r))
  BY DEF Owed, Unmailed, Recent, Happened
<1>4. Key(m) \in tried => Entry(m, TRUE) \in pending
  BY <1>2 DEF Once, Known
<1>5. Entry(m, TRUE) \in pending => Entry(m, FALSE) \notin pending
  <2>1. <<m.id, m.up, TRUE>> \in pending => <<m.id, m.up, FALSE>> \notin pending
    BY Zenon DEF Once, OneMark
  <2> QED BY <1>1, <2>1
<1>6. Entry(m, TRUE) \notin fresh /\ Entry(m, FALSE) \notin fresh
  BY <1>2 DEF Once, Ahead
<1>7. Key(m) \in tried' => b = TRUE
  BY <1>0, <1>4, <1>5 DEF DueAgain
<1>8. TriedHappened'
  BY <1>1, <1>2, <1>3 DEF Once, TriedHappened
<1>9. OneMark(pending)' /\ OneMark(fresh)'
  <2>1. OneMark(pending) /\ OneMark(fresh)
    BY DEF Once
  <2> QED BY <1>1, <1>2, <1>6, <2>1 DEF OneMark, Entry
<1>10. ASSUME NEW n \in Todo'
       PROVE  /\ Entry(n, TRUE) \notin fresh' /\ Entry(n, FALSE) \notin fresh'
              /\ Key(n) \in tried' => Entry(n, TRUE) \in pending'
  <2>1. n \in list /\ n # m
    BY <1>0
  <2>2. Key(m) # Key(n) /\ \A a, c : Entry(m, a) # Entry(n, c)
    BY <1>2, <2>1, Apart
  <2>3. n \in Todo
    BY <2>1
  <2> QED BY <1>2, <2>2, <2>3 DEF Once, Ahead, Known
<1>11. Ahead' /\ Known'
  BY <1>10 DEF Ahead, Known, Key, Entry
<1>12. ASSUME NEW u, NEW r, <<u, r>> \in tried', Owed(u, r)
       PROVE  <<u, r, TRUE>> \in fresh' \/ Comes(u, r)'
  <2>1. CASE u = m.id /\ r = m.up
    <3>1. b = TRUE
      BY <1>1, <1>7, <1>12, <2>1
    <3> QED BY <1>1, <1>2, <2>1, <3>1
  <2>2. CASE ~(u = m.id /\ r = m.up)
    <3>1. <<u, r>> \in tried
      BY <1>1, <1>2, <1>12, <2>2
    <3>2. Remembered /\ mpc # "idle"
      BY DEF Once
    <3>3. <<u, r, TRUE>> \in fresh \/ Comes(u, r)
      BY <1>12, <3>1, <3>2 DEF Remembered
    <3>4. Comes(u, r) => Comes(u, r)'
      BY <1>0, <2>2 DEF Comes
    <3> QED BY <1>2, <3>3, <3>4
  <2> QED BY <2>1, <2>2
<1>13. Remembered'
  BY <1>3, <1>12 DEF Remembered
<1> QED BY <1>8, <1>9, <1>11, <1>13 DEF Once

\* Elsewhere the maps stay, and what is owed can only become less.
LEMMA OnceStays ==
  ASSUME IInv, IInv', now <= now', Grown, Once, Todo' = Todo, mpc = "idle" <=> mpc' = "idle", pending' = pending,
         fresh' = fresh, tried' = tried
  PROVE  Once'
<1>1. \A u, r : Happened(u, r) => Happened(u, r)'
  BY HappenedStays
<1>2. TriedHappened' /\ OneMark(pending)' /\ OneMark(fresh)' /\ Ahead' /\ Known'
  BY <1>1 DEF Once, TriedHappened, OneMark, Ahead, Known, Key, Entry
<1>3. \A u, r : Comes(u, r)' <=> Comes(u, r)
  BY DEF Comes
<1>4. ASSUME NEW u, NEW r, <<u, r>> \in tried, Owed(u, r)' PROVE Owed(u, r)
  BY <1>4, OwedShrinks DEF Once, TriedHappened
<1>5. Remembered'
  BY <1>3, <1>4 DEF Once, Remembered
<1> QED BY <1>2, <1>5 DEF Once

LEMMA OnceStep ==
  ASSUME IInv, Memory, Letters, Once, [Next]_vars
  PROVE  Once'
<1>0. IInv' /\ now <= now' /\ Grown
  BY NextHolds, TimeGrows, EveryStepGrows
<1>1. CASE RetryRead
  BY <1>1, OnceRead
<1>2. CASE RetrySkip
  <2>1. /\ First \in list /\ Todo = list /\ Todo' = list \ {First} /\ mpc = "loop" /\ mpc' = "loop"
    BY <1>2, FirstIsOne DEF RetrySkip, Todo
  <2>2. /\ inc' = inc /\ now' = now /\ pending' = pending /\ tried' = tried
        /\ fresh' = fresh \cup {Entry(First, Entry(First, TRUE) \in pending)}
    BY <1>2 DEF RetrySkip, store, clock, post
  <2>3. PICK b \in BOOLEAN : b = (Entry(First, TRUE) \in pending)
    <3> WITNESS (Entry(First, TRUE) \in pending) \in BOOLEAN
    <3> QED OBVIOUS
  <2>4. mpc' # "idle" /\ fresh' = fresh \cup {Entry(First, b)}
    BY <2>1, <2>2, <2>3
  <2> QED BY <2>1, <2>2, <2>3, <2>4, OnceLook
<1>3. CASE \E o \in Outcomes : RetryMail(o)
  <2>1. PICK o \in Outcomes : RetryMail(o)
    BY <1>3
  <2>2. /\ First \in list /\ Todo = list /\ Todo' = list \ {First} /\ mpc = "loop" /\ mpc' # "idle"
    BY <2>1, TodoMail
  <2>3. /\ inc' = inc /\ now' = now /\ pending' = pending /\ DueAgain(First)
        /\ fresh' = fresh \cup {Entry(First, o # "limit")}
        /\ tried' = IF o = "limit" THEN tried ELSE tried \cup {Key(First)}
    BY <2>1 DEF RetryMail, store, clock, Settles
  <2>4. CASE o = "limit"
    BY <2>2, <2>3, <2>4, OnceLook
  <2>5. CASE o # "limit"
    BY <2>2, <2>3, <2>5, OnceLook
  <2> QED BY <2>4, <2>5
<1>4. CASE RetryMark
  <2>1. Todo' = Todo /\ mpc # "idle" /\ mpc' # "idle"
    BY <1>4 DEF RetryMark, Todo
  <2> QED BY <1>0, <1>4, <2>1, OnceStays DEF RetryMark
<1>5. CASE RetryDone
  <2>1. /\ Todo = {} /\ Todo' = {} /\ mpc # "idle" /\ mpc' = "idle" /\ pending' = fresh
        /\ fresh' = {} /\ tried' = tried /\ inc' = inc /\ now' = now
    BY <1>5 DEF RetryDone, Todo, post, store, clock
  <2>2. \A u, r : (Owed(u, r)' <=> Owed(u, r)) /\ (Happened(u, r)' <=> Happened(u, r))
    BY <2>1 DEF Owed, Unmailed, Recent, Happened
  <2>3. \A u, r : ~Comes(u, r)
    BY <2>1 DEF Comes
  <2>4. TriedHappened' /\ OneMark(pending)' /\ OneMark(fresh)' /\ Ahead' /\ Known'
    BY <2>1, <2>2 DEF Once, TriedHappened, OneMark, Ahead, Known
  <2>5. Remembered'
    BY <2>1, <2>2, <2>3 DEF Once, Remembered
  <2> QED BY <2>4, <2>5 DEF Once
<1>6. CASE Crash
  <2>1. tried' = {} /\ pending' = {} /\ fresh' = {} /\ Todo' = {}
    BY <1>6 DEF Crash, Todo
  <2> QED BY <2>1 DEF Once, TriedHappened, OneMark, Ahead, Known, Remembered
<1>7. CASE /\ Todo' = Todo /\ mpc' = mpc /\ list' = list /\ pending' = pending
           /\ fresh' = fresh /\ tried' = tried
  BY <1>0, <1>7, OnceStays
<1> QED BY <1>1, <1>2, <1>3, <1>4, <1>5, <1>6, <1>7, TodoStep

\* retry sends no mail that it handed to the server before.
LEMMA NotAgain ==
  ASSUME IInv, Letters, Once, NEW o \in Outcomes \ {"limit"}, RetryMail(o)
  PROVE  Key(First) \notin tried
<1>1. PICK m : m = First
  OBVIOUS
<1>2. m \in list /\ Todo = list
  BY <1>1, FirstIsOne DEF RetryMail, Todo
<1>3. <<m.id, m.up, FALSE>> \in pending
  BY <1>1 DEF RetryMail, DueAgain, Entry
<1>4. <<m.id, m.up, TRUE>> \notin pending
  BY <1>3, Zenon DEF Once, OneMark
<1> QED BY <1>1, <1>2, <1>4 DEF Once, Known, Entry

\* For a target that is not deleted, a process hands the mail of an event
\* to the server at most once in its retries, however the passes, the runner's own
\* mails, pauses and failing statements cross.
THEOREM RetriedOnce ==
  ASSUME Deletes = FALSE
  PROVE  Spec => RetryOnce
<1>1. Init => Once
  BY DEF Init, Once, TriedHappened, OneMark, Ahead, Known, Remembered, Todo
<1>2. IInv /\ Memory /\ Letters /\ Once /\ [Next]_vars => Once'
  BY OnceStep
<1>3. IInv /\ Letters /\ Once /\ [Next]_vars =>
        [\A o \in Outcomes \ {"limit"} : RetryMail(o) => Key(First) \notin tried]_vars
  BY NotAgain
<1> QED BY <1>1, <1>2, <1>3, LettersHold, PTL DEF Spec, RetryOnce

-----------------------------------------------------------------------------
(* NoDuplicate.  A pass sends only what the pass before saw.  The mail     *)
(* that the runner has in hand is of an event the last pass did not see,   *)
(* or it was in hand when this pass began (early) and is seen for the      *)
(* first time, or another pass begins before it ends: then it is unsure.   *)

Asleep == ~up => pc = "off" /\ apc = "idle"

\* The runner is about to send a mail or to mark it.
InHand == pc \in {"mail", "mark"}

SentHappened == \A u, r : <<u, r>> \in sent => Happened(u, r)

MapHappened == \A u, r, b : <<u, r, b>> \in pending \cup fresh => Happened(u, r)

\* The pass does not come to send what the runner has in hand.
Held == /\ early => InHand
        /\ mpc = "idle" => list = {}
        /\ InHand /\ ~early => /\ Entry(mail, FALSE) \notin fresh
                               /\ \A m \in list : Key(m) # Key(mail)
        /\ InHand /\ (~early \/ mpc # "idle") =>
             Entry(mail, FALSE) \notin pending \/ Key(mail) \in unsure

Unsent == pc = "mail" => Key(mail) \notin sent \ unsure

Flagged(u, r) == IF r THEN inc[u].mu ELSE inc[u].md

\* A mail that its sender knows was sent is marked, or is about to be.
Noted == \A u, r : <<u, r>> \in sent \ unsure =>
           \/ Flagged(u, r)
           \/ pc = "mark" /\ Key(mail) = <<u, r>>
           \/ mpc = "mark" /\ Key(First) = <<u, r>>

\* What the pass is about to send is not known as sent.
Free == \A m \in Todo : Entry(m, FALSE) \in pending => Key(m) \notin sent \ unsure

Happens == SentHappened /\ MapHappened

Rest == UNCHANGED <<mpc, list, pending, fresh, early, sent, twice, unsure>>

LEMMA AsleepStep == ASSUME Asleep, [Next]_vars PROVE Asleep'
<1>1. CASE RunnerStep
  BY <1>1 DEF Asleep, RunnerStep, Restore, Exit, StartCheck, FinishCheck, Insert, Quiet, Open,
              Adopt, OpenFails, Close, CloseFails, RunnerMail, RunnerMark, Event, EndRound, admin
<1>2. CASE RetryStep
  BY <1>2 DEF Asleep, RetryStep, RetryRead, RetrySkip, RetryMail, RetryMark, RetryDone, runner,
              admin
<1>3. CASE AdminStep
  BY <1>3 DEF Asleep, AdminStep, Remove, Stop, StartRunner, ClosePaused, GiveUp, DeleteRow,
              WriteRow, AdminBegin, Finish, runner
<1>4. CASE Tick \/ Boot \/ Crash \/ UNCHANGED vars
  BY <1>4 DEF Asleep, Tick, Boot, Crash, vars, runner, admin
<1> QED BY <1>1, <1>2, <1>3, <1>4 DEF Next

\* What a step does to the mails, from the runner's side.
LEMMA MailStep ==
  ASSUME IInv, Memory, Letters, Asleep, [Next]_vars
  PROVE  \/ RetryStep /\ pc' = pc /\ mail' = mail
         \/ (\E o \in Outcomes : RunnerMail(o)) \/ RunnerMark \/ Crash
         \/ /\ pc = "decide" /\ pc' = "mail" /\ Letter(mail)' /\ ~Happened(mail'.id, mail'.up)
            /\ Rest
         \/ /\ InHand \/ InHand' => pc' = pc /\ mail' = mail
            /\ Rest
<1>1. CASE RetryStep
  BY <1>1 DEF RetryStep, RetryRead, RetrySkip, RetryMail, RetryMark, RetryDone, runner
<1>2. CASE Open \/ Close
  <2>1. pc = "decide" /\ Rest /\ (pc' = "mail" \/ pc' = "idle")
    BY <1>2 DEF Open, Close, Event, Notify, Rest, upkeep, post
  <2>2. CASE pc' = "mail"
    BY <2>1, <2>2, NewMail
  <2>3. CASE pc' = "idle"
    BY <2>1, <2>3 DEF InHand
  <2> QED BY <2>1, <2>2, <2>3
<1>3. CASE Restore \/ Exit \/ StartCheck \/ Insert \/ Quiet \/ Adopt \/ OpenFails \/ CloseFails
           \/ \E ok \in Result : FinishCheck(ok)
  BY <1>3 DEF Restore, Exit, StartCheck, Insert, Quiet, Adopt, OpenFails, CloseFails, FinishCheck,
              Event, EndRound, InHand, Rest, upkeep, post
<1>4. CASE AdminStep
  BY <1>4 DEF AdminStep, Remove, Stop, StartRunner, ClosePaused, GiveUp, DeleteRow, WriteRow,
              Stopped, InHand, Rest, runner, upkeep, post
<1>5. CASE Tick \/ Boot \/ UNCHANGED vars
  BY <1>5 DEF Tick, Boot, vars, Asleep, InHand, Rest, runner, upkeep, post
<1> QED BY <1>1, <1>2, <1>3, <1>4, <1>5 DEF Next, RunnerStep

\* The key and the entries of a mail name its event.
LEMMA Names ==
  ASSUME NEW m, Letter(m)
  PROVE  /\ Key(m) = <<m.id, m.up>> /\ Happened(m.id, m.up)
         /\ \A b : Entry(m, b) = <<m.id, m.up, b>>
BY DEF Letter, Key, Entry

LEMMA SameEvent ==
  ASSUME NEW m, NEW n, Letter(m), Letter(n), NEW a, Entry(m, a) = Entry(n, a) \/ Key(m) = Key(n)
  PROVE  Key(m) = Key(n) /\ \A b : Entry(m, b) = Entry(n, b)
<1>1. m.id = n.id /\ m.up = n.up
  BY Names
<1> QED BY <1>1, Names

\* Mails and entries are only made of events that took place.
LEMMA HappensStep ==
  ASSUME IInv, Memory, Letters, Happens, [Next]_vars
  PROVE  Happens'
<1>1. \A u, r : Happened(u, r) => Happened(u, r)'
  BY EveryStepGrows, HappenedStays
<1>2. SentHappened'
  <2>1. CASE \E o \in {"ok", "doubt"} : RunnerMail(o)
    <3>1. Letter(mail) /\ sent' = sent \cup {Key(mail)}
      BY <2>1 DEF RunnerMail, Deliver, Letters
    <3> QED BY <1>1, <3>1, Names DEF Happens, SentHappened
  <2>2. CASE \E o \in {"ok", "doubt"} : RetryMail(o)
    <3>1. First \in list
      BY <2>2, FirstIsOne DEF RetryMail
    <3>2. Letter(First) /\ sent' = sent \cup {Key(First)}
      BY <2>2, <3>1 DEF RetryMail, Deliver, Letters
    <3> QED BY <1>1, <3>2, Names DEF Happens, SentHappened
  <2>3. CASE sent' = sent
    BY <1>1, <2>3 DEF Happens, SentHappened
  <2> QED BY <2>1, <2>2, <2>3, WhoSends
<1>3. MapHappened'
  <2>1. CASE RetrySkip \/ \E o \in Outcomes : RetryMail(o)
    <3>1. First \in list
      BY <2>1, FirstIsOne DEF RetrySkip, RetryMail
    <3>2. Letter(First)
      BY <3>1 DEF Letters
    <3>3. pending' = pending /\ \E b : fresh' = fresh \cup {Entry(First, b)}
      BY <2>1 DEF RetrySkip, RetryMail
    <3>4. PICK b : fresh' = fresh \cup {<<First.id, First.up, b>>}
      BY <3>2, <3>3, Names
    <3> QED BY <1>1, <3>2, <3>3, <3>4, Names DEF Happens, MapHappened
  <2>2. CASE pending' \cup fresh' \subseteq pending \cup fresh
    BY <1>1, <2>2 DEF Happens, MapHappened
  <2>3. CASE RetryRead \/ RetryMark \/ RetryDone \/ Crash
    BY <2>2, <2>3 DEF RetryRead, RetryMark, RetryDone, Crash
  <2> QED BY <2>1, <2>2, <2>3, WhoLists
<1> QED BY <1>2, <1>3 DEF Happens

\* An unsure mail stays so.
LEMMA UnsureStays ==
  ASSUME IInv, Memory, Letters, Asleep, [Next]_vars
  PROVE  unsure \subseteq unsure'
<1>1. CASE RetryStep
  BY <1>1 DEF RetryStep, RetryRead, RetrySkip, RetryMail, RetryMark, RetryDone, Deliver, Mark, post
<1>2. CASE (\E o \in Outcomes : RunnerMail(o)) \/ RunnerMark \/ Crash
  BY <1>2 DEF RunnerMail, RunnerMark, Crash, Deliver, Mark
<1> QED BY <1>1, <1>2, MailStep DEF Rest

\* The pass and the runner's mail stay apart.
LEMMA HeldStep ==
  ASSUME IInv, Memory, Letters, Asleep, Happens, Held, [Next]_vars
  PROVE  Held'
<1>0. unsure \subseteq unsure'
  BY UnsureStays
<1>1. CASE RetryRead /\ pc' = pc /\ mail' = mail
  <2>1. /\ pending' = pending /\ fresh' = {} /\ mpc = "idle" /\ mpc' = "loop"
        /\ early' <=> InHand
        /\ early => Key(mail) \in unsure'
    BY <1>1 DEF RetryRead, InHand
  <2> QED BY <1>0, <1>1, <2>1 DEF Held, InHand, Entry, Key
<1>2. CASE (RetrySkip \/ \E o \in Outcomes : RetryMail(o)) /\ pc' = pc /\ mail' = mail
  <2>1. First \in list
    BY <1>2, FirstIsOne DEF RetrySkip, RetryMail
  <2>2. PICK b : /\ fresh' = fresh \cup {Entry(First, b)} /\ pending' = pending /\ early' = early
                 /\ list' \subseteq list /\ mpc = "loop" /\ mpc' # "idle"
    BY <1>2 DEF RetrySkip, RetryMail
  <2>3. ASSUME InHand, ~early PROVE Entry(First, b) # Entry(mail, FALSE)
    <3>1. Letter(First) /\ Letter(mail) /\ Key(First) # Key(mail)
      BY <2>1, <2>3 DEF Held, Letters, InHand
    <3>2. ~(First.id = mail.id /\ First.up = mail.up)
      BY <3>1 DEF Letter, Key
    <3> QED BY <3>2 DEF Entry
  <2>4. InHand' <=> InHand
    BY <1>2 DEF InHand
  <2> QED BY <1>0, <1>2, <2>2, <2>3, <2>4 DEF Held, Entry, Key
<1>3. CASE RetryMark /\ pc' = pc /\ mail' = mail
  BY <1>0, <1>3 DEF Held, RetryMark, InHand, Entry, Key
<1>4. CASE RetryDone /\ pc' = pc /\ mail' = mail
  BY <1>0, <1>4 DEF Held, RetryDone, InHand, Entry, Key
<1>5. CASE (\E o \in Outcomes : RunnerMail(o)) \/ RunnerMark
  BY <1>0, <1>5 DEF Held, RunnerMail, RunnerMark, InHand, Entry, Key
<1>6. CASE Crash
  BY <1>6 DEF Held, Crash, InHand
<1>7. CASE /\ pc = "decide" /\ pc' = "mail" /\ Letter(mail)' /\ ~Happened(mail'.id, mail'.up)
           /\ Rest
  <2>1. /\ Key(mail)' = <<mail'.id, mail'.up>>
        /\ Entry(mail, FALSE)' = <<mail'.id, mail'.up, FALSE>>
    BY <1>7 DEF Letter, Key, Entry
  <2>2. ~early' /\ mpc' = mpc /\ list' = list
    BY <1>7 DEF Held, InHand, Rest
  <2>3. Entry(mail, FALSE)' \notin fresh' /\ Entry(mail, FALSE)' \notin pending'
    BY <1>7, <2>1 DEF Happens, MapHappened, Rest
  <2>4. ASSUME NEW m \in list PROVE Key(m) # Key(mail)'
    <3>1. Letter(m)
      BY DEF Letters
    <3> QED BY <1>7, <2>1, <3>1, Names
  <2> QED BY <1>7, <2>2, <2>3, <2>4 DEF Held, InHand, Key
<1>8. CASE (InHand \/ InHand' => pc' = pc /\ mail' = mail) /\ Rest
  BY <1>8 DEF Held, InHand, Rest, Entry, Key
<1> QED BY <1>1, <1>2, <1>3, <1>4, <1>5, <1>6, <1>7, <1>8, MailStep DEF RetryStep

\* The pass does not send what the runner has in hand, unless it is unsure.
LEMMA NotInHand ==
  ASSUME IInv, Letters, Held, InHand, NEW m \in list, mpc # "idle", Entry(m, FALSE) \in pending
  PROVE  Key(m) # Key(mail) \/ Key(mail) \in unsure
<1>1. /\ Letter(m) /\ Letter(mail)
      /\ Entry(mail, FALSE) \notin pending \/ Key(mail) \in unsure
  BY DEF Held, Letters, InHand
<1> QED BY <1>1, SameEvent

\* What the runner is about to send is not known as sent.
LEMMA UnsentStep ==
  ASSUME IInv, Memory, Letters, Asleep, Happens, Held, Unsent, [Next]_vars
  PROVE  Unsent'
<1>0. unsure \subseteq unsure'
  BY UnsureStays
<1>1. CASE RetryStep /\ pc' = pc /\ mail' = mail
  <2>1. CASE \E o \in Outcomes : RetryMail(o)
    <3>1. First \in list /\ mpc # "idle" /\ Entry(First, FALSE) \in pending
      BY <2>1, FirstIsOne DEF RetryMail, DueAgain
    <3>2. sent' \subseteq sent \cup {Key(First)}
      BY <2>1 DEF RetryMail, Deliver
    <3>3. pc = "mail" => Key(First) # Key(mail) \/ Key(mail) \in unsure
      BY <3>1, NotInHand DEF InHand
    <3> QED BY <1>0, <1>1, <3>2, <3>3 DEF Unsent, Key
  <2>2. CASE sent' = sent
    BY <1>0, <1>1, <2>2 DEF Unsent, Key
  <2> QED BY <1>1, <2>1, <2>2 DEF RetryStep, RetryRead, RetrySkip, RetryMark, RetryDone, post
<1>2. CASE (\E o \in Outcomes : RunnerMail(o)) \/ RunnerMark \/ Crash
  BY <1>2 DEF Unsent, RunnerMail, RunnerMark, Crash
<1>3. CASE /\ pc = "decide" /\ pc' = "mail" /\ Letter(mail)' /\ ~Happened(mail'.id, mail'.up)
           /\ Rest
  <2>1. Key(mail)' = <<mail'.id, mail'.up>>
    BY <1>3 DEF Letter, Key
  <2> QED BY <1>3, <2>1 DEF Unsent, Happens, SentHappened, Rest
<1>4. CASE (InHand \/ InHand' => pc' = pc /\ mail' = mail) /\ Rest
  BY <1>4 DEF Unsent, InHand, Rest, Key
<1> QED BY <1>1, <1>2, <1>3, <1>4, MailStep

\* Flags stay.
LEMMA FlaggedStays ==
  ASSUME Grown, NEW u, NEW r, Happened(u, r), Flagged(u, r)
  PROVE  Flagged(u, r)'
BY DEF Grown, Happened, Flagged

\* After a MarkMailed its mail is flagged, or its sender is unsure.
LEMMA MarkedOrUnsure ==
  ASSUME IInv, Letters, NEW m, Letter(m), Mark(m), born' = born
  PROVE  /\ unsure \subseteq unsure'
         /\ \A u, r : Key(m) = <<u, r>> => <<u, r>> \in unsure' \/ Flagged(u, r)'
<1>1. \A u, r : Key(m) = <<u, r>> => u = m.id /\ r = m.up
  BY DEF Letter, Key
<1>2. CASE inc' = inc /\ unsure' = unsure \cup {Key(m)}
  BY <1>2
<1>3. CASE unsure' = unsure /\ IF m.up THEN inc'[m.id].mu ELSE inc'[m.id].md
  BY <1>1, <1>3 DEF Flagged
<1> QED BY <1>2, <1>3, MarkGrows

LEMMA NotedStep ==
  ASSUME IInv, Memory, Letters, Asleep, Happens, Noted, [Next]_vars
  PROVE  Noted'
<1>1. SUFFICES ASSUME NEW u, NEW r, <<u, r>> \in sent' \ unsure'
               PROVE  \/ Flagged(u, r)'
                      \/ pc' = "mark" /\ Key(mail)' = <<u, r>>
                      \/ mpc' = "mark" /\ Key(First)' = <<u, r>>
  BY DEF Noted
<1>2. Flagged(u, r) /\ <<u, r>> \in sent => Flagged(u, r)'
  BY EveryStepGrows, FlaggedStays DEF Happens, SentHappened
<1>3. list' = list => Key(First)' = Key(First)
  BY DEF First, Key
<1>4. mail' = mail => Key(mail)' = Key(mail)
  BY DEF Key
<1>5. <<u, r>> \in sent \ unsure =>
        \/ Flagged(u, r)
        \/ pc = "mark" /\ Key(mail) = <<u, r>>
        \/ mpc = "mark" /\ Key(First) = <<u, r>>
  BY DEF Noted
<1>6. CASE RetryStep /\ pc' = pc /\ mail' = mail
  <2>1. CASE RetryMark
    <3>1. Letter(First)
      BY <2>1, FirstIsOne DEF RetryMark, Letters
    <3>2. Mark(First) /\ sent' = sent /\ born' = born
      BY <2>1 DEF RetryMark
    <3>3. /\ unsure \subseteq unsure'
          /\ Key(First) = <<u, r>> => <<u, r>> \in unsure' \/ Flagged(u, r)'
      BY <3>1, <3>2, MarkedOrUnsure
    <3> QED BY <1>1, <1>2, <1>4, <1>5, <1>6, <3>2, <3>3
  <2>2. CASE \E o \in Outcomes : RetryMail(o)
    <3>1. PICK o \in Outcomes : RetryMail(o)
      BY <2>2
    <3>2. mpc = "loop" /\ (o = "ok" => mpc' = "mark" /\ list' = list)
      BY <3>1 DEF RetryMail
    <3>3. \/ <<u, r>> \in sent \ unsure
          \/ o = "ok" /\ <<u, r>> = Key(First)
      BY <1>1, <3>1 DEF RetryMail, Deliver, Outcomes
    <3> QED BY <1>2, <1>3, <1>4, <1>5, <1>6, <3>2, <3>3
  <2>3. CASE RetryRead \/ RetrySkip \/ RetryDone
    <3>1. sent' = sent /\ unsure \subseteq unsure' /\ mpc # "mark"
      BY <2>3 DEF RetryRead, RetrySkip, RetryDone, post
    <3> QED BY <1>1, <1>2, <1>4, <1>5, <1>6, <3>1
  <2> QED BY <1>6, <2>1, <2>2, <2>3 DEF RetryStep
<1>7. CASE \E o \in Outcomes : RunnerMail(o)
  <2>1. PICK o \in Outcomes : RunnerMail(o)
    BY <1>7
  <2>2. pc = "mail" /\ mpc' = mpc /\ list' = list /\ (o = "ok" => pc' = "mark" /\ mail' = mail)
    BY <2>1 DEF RunnerMail
  <2>3. \/ <<u, r>> \in sent \ unsure
        \/ o = "ok" /\ <<u, r>> = Key(mail)
    BY <1>1, <2>1 DEF RunnerMail, Deliver, Outcomes
  <2> QED BY <1>2, <1>3, <1>4, <1>5, <2>2, <2>3
<1>8. CASE RunnerMark
  <2>1. Letter(mail) /\ mpc' = mpc /\ list' = list
    BY <1>8 DEF RunnerMark, Letters
  <2>2. Mark(mail) /\ sent' = sent /\ born' = born
    BY <1>8 DEF RunnerMark
  <2>3. /\ unsure \subseteq unsure'
        /\ Key(mail) = <<u, r>> => <<u, r>> \in unsure' \/ Flagged(u, r)'
    BY <2>1, <2>2, MarkedOrUnsure
  <2> QED BY <1>1, <1>2, <1>3, <1>5, <2>1, <2>2, <2>3
<1>9. CASE Crash
  BY <1>1, <1>2, <1>5, <1>9 DEF Crash, Unmarked
<1>10. CASE Rest /\ (pc = "mark" => pc' = pc /\ mail' = mail)
  BY <1>1, <1>2, <1>3, <1>4, <1>5, <1>10 DEF Rest
<1> QED BY <1>6, <1>7, <1>8, <1>9, <1>10, MailStep DEF InHand

LEMMA FreeStep ==
  ASSUME IInv, Memory, Letters, Asleep, Happens, Held, Noted, Free, [Next]_vars
  PROVE  Free'
<1>1. unsure \subseteq unsure'
  BY UnsureStays
<1>2. CASE RetryRead
  <2>1. /\ pending' = pending /\ sent' = sent /\ Todo' = Due
        /\ mpc = "idle" /\ (early => Key(mail) \in unsure')
    BY <1>2 DEF RetryRead, Todo
  <2>2. ASSUME NEW m \in Due, Entry(m, FALSE) \in pending, Key(m) \in sent \ unsure'
        PROVE  FALSE
    <3>1. Letter(m) /\ IF m.up THEN ~inc[m.id].mu ELSE ~inc[m.id].md
      BY DueIs
    <3>2. <<m.id, m.up>> \in sent \ unsure /\ ~Flagged(m.id, m.up)
      BY <1>1, <2>2, <3>1, Names DEF Flagged
    <3>3. pc = "mark" /\ Key(mail) = <<m.id, m.up>>
      BY <2>1, <3>2 DEF Noted
    <3>4. Letter(mail) /\ Entry(mail, FALSE) \notin pending /\ Key(mail) = Key(m)
      BY <1>1, <2>1, <2>2, <3>1, <3>3, Names DEF Held, InHand, Letters
    <3> QED BY <2>2, <3>1, <3>4, SameEvent
  <2> QED BY <2>1, <2>2 DEF Free, Key, Entry
<1>3. CASE \E o \in Outcomes : RetryMail(o)
  <2>1. First \in list /\ Todo = list /\ Todo' = list \ {First}
    BY <1>3, TodoMail
  <2>2. pending' = pending /\ sent' \subseteq sent \cup {Key(First)}
    BY <1>3 DEF RetryMail, Deliver
  <2>3. ASSUME NEW m \in Todo', Entry(m, FALSE) \in pending PROVE Key(m) \notin sent' \ unsure'
    <3>1. m \in Todo /\ Key(m) # Key(First)
      BY <2>1, Apart
    <3> QED BY <1>1, <2>2, <2>3, <3>1 DEF Free
  <2> QED BY <2>2, <2>3 DEF Free, Key, Entry
<1>4. CASE RetrySkip \/ RetryMark \/ RetryDone
  <2>1. sent' = sent /\ Todo' \subseteq Todo /\ (pending' = pending \/ Todo' = {})
    BY <1>4 DEF RetrySkip, RetryMark, RetryDone, post, Todo
  <2> QED BY <1>1, <2>1 DEF Free, Key, Entry
<1>5. CASE \E o \in Outcomes : RunnerMail(o)
  <2>1. /\ mpc' = mpc /\ list' = list /\ pending' = pending /\ sent' \subseteq sent \cup {Key(mail)}
        /\ pc = "mail"
    BY <1>5 DEF RunnerMail, Deliver
  <2>2. Todo' = Todo
    BY <2>1 DEF Todo, First
  <2>3. ASSUME NEW m \in Todo, Entry(m, FALSE) \in pending
        PROVE  Key(m) # Key(mail) \/ Key(mail) \in unsure
    <3>1. m \in list /\ mpc # "idle"
      BY <2>1 DEF Todo, Held
    <3> QED BY <2>1, <2>3, <3>1, NotInHand DEF InHand
  <2> QED BY <1>1, <2>1, <2>2, <2>3 DEF Free, Key, Entry
<1>6. CASE Crash
  BY <1>6 DEF Crash, Free, Todo
<1>7. CASE RunnerMark \/ Rest
  <2>1. mpc' = mpc /\ list' = list /\ pending' = pending /\ sent' = sent
    BY <1>7 DEF RunnerMark, Rest
  <2>2. Todo' = Todo
    BY <2>1 DEF Todo, First
  <2> QED BY <1>1, <2>1, <2>2 DEF Free, Key, Entry
<1> QED BY <1>2, <1>3, <1>4, <1>5, <1>6, <1>7, MailStep DEF RetryStep

LEMMA NoDuplicateStep ==
  ASSUME IInv, Memory, Letters, Asleep, Held, Unsent, Free, NoDuplicate, [Next]_vars
  PROVE  NoDuplicate'
<1>1. CASE \E o \in Outcomes : RetryMail(o)
  <2>1. First \in Todo /\ Entry(First, FALSE) \in pending
    BY <1>1, TodoMail DEF RetryMail, DueAgain
  <2>2. Key(First) \notin sent \ unsure
    BY <2>1 DEF Free
  <2>3. unsure \subseteq unsure' /\ twice' \subseteq twice \cup (sent \cap {Key(First)})
    BY <1>1 DEF RetryMail, Deliver
  <2> QED BY <2>2, <2>3 DEF NoDuplicate
<1>2. CASE \E o \in Outcomes : RunnerMail(o)
  <2>1. Key(mail) \notin sent \ unsure
    BY <1>2 DEF RunnerMail, Unsent
  <2>2. unsure \subseteq unsure' /\ twice' \subseteq twice \cup (sent \cap {Key(mail)})
    BY <1>2 DEF RunnerMail, Deliver
  <2> QED BY <2>1, <2>2 DEF NoDuplicate
<1>3. CASE RetryRead \/ RetrySkip \/ RetryMark \/ RetryDone \/ RunnerMark \/ Crash \/ Rest
  <2>1. twice' = twice /\ unsure \subseteq unsure'
    BY <1>3 DEF RetryRead, RetrySkip, RetryMark, RetryDone, RunnerMark, Crash, Rest, Mark, post
  <2> QED BY <2>1 DEF NoDuplicate
<1> QED BY <1>1, <1>2, <1>3, MailStep DEF RetryStep

\* For a target that is not deleted, no mail is accepted twice by the server
\* unless its sender could not know or could not store that it was sent, or two
\* passes of retry began while the runner was sending it.
THEOREM SentOnce ==
  ASSUME Deletes = FALSE
  PROVE  Spec => []NoDuplicate
<1> DEFINE Care == Asleep /\ Happens /\ Held /\ Unsent /\ Noted /\ Free /\ NoDuplicate
<1>1. Init => Care
  BY DEF Init, Asleep, Happens, SentHappened, MapHappened, Held, InHand, Unsent, Noted, Free,
         Todo, NoDuplicate
<1>2. IInv /\ Memory /\ Letters /\ Care /\ [Next]_vars => Care'
  <2> SUFFICES ASSUME IInv, Memory, Letters, Care, [Next]_vars PROVE Care'
    OBVIOUS
  <2>1. Asleep' /\ Happens'
    BY AsleepStep, HappensStep
  <2>2. Held' /\ Unsent'
    BY HeldStep, UnsentStep
  <2>3. Noted' /\ Free'
    BY NotedStep, FreeStep
  <2>4. NoDuplicate'
    BY NoDuplicateStep
  <2> QED BY <2>1, <2>2, <2>3, <2>4
<1>3. Care => NoDuplicate
  OBVIOUS
<1> HIDE DEF Care
<1> QED BY <1>1, <1>2, <1>3, LettersHold, PTL DEF Spec

-----------------------------------------------------------------------------
(* OpensAtThreshold.  The runner's counter stands for the last checks in   *)
(* the table: so many of them failed, none before firstFail, and firstFail *)
(* is not before the end of any incident.  Between the insert of a check   *)
(* and the decision the table is one check ahead.                          *)

\* The tables are in the order of time, and a check under way is the newest event.
Ordered ==
  /\ Len(checks) <= Threshold
  /\ \A i, j \in DOMAIN checks : i <= j => checks[i].at <= checks[j].at
  /\ pc \in {"check", "insert"} => \A k \in DOMAIN checks : checks[k].at <= cur.at
  /\ \A i \in DOMAIN inc : inc[i].end <= now
  /\ pc \in {"check", "insert", "decide"} => \A i \in DOMAIN inc : inc[i].end <= cur.at

\* The last n checks failed, at t or later.
Failing(n, t) ==
  /\ n <= Len(checks)
  /\ \A k \in DOMAIN checks : k > Len(checks) - n => ~checks[k].ok /\ checks[k].at >= t

\* No incident ended after t.
EndedBy(t) == \A i \in DOMAIN inc : inc[i].end <= t

\* What the runner counts and from when on, with the check that just failed.
Fails == IF st.fails < Threshold THEN st.fails + 1 ELSE st.fails
Since == IF st.fails = 0 THEN cur.at ELSE st.firstFail

Counts ==
  blind = "no" /\ ~st.open /\ pc \in InRound /\ (pc = "decide" => ~cur.ok) =>
    /\ st.fails <= Threshold
    /\ st.fails # 0 => EndedBy(st.firstFail)
    /\ pc # "decide" => Failing(st.fails, st.firstFail)
    /\ pc = "decide" => Failing(Fails, Since)

\* A bounded, non-empty set of natural numbers has a greatest element.
LEMMA NatMax ==
  ASSUME NEW n \in Nat, NEW T \in SUBSET (0 .. n), T # {}
  PROVE  \E x \in T : \A y \in T : y <= x
<1> DEFINE U == {n - y : y \in T}
<1>1. U \in SUBSET Nat /\ U # {}
  <2>1. \A y \in T : n - y \in Nat
    OBVIOUS
  <2> QED BY <2>1
<1>2. PICK x \in U : \A y \in U : x <= y
  <2> HIDE DEF U
  <2> QED BY <1>1, NatMin
<1>3. PICK z \in T : x = n - z
  BY <1>2
<1>4. \A y \in T : n - z <= n - y
  BY <1>2, <1>3
<1> QED BY <1>4

\* LastIncidentEnd is the greatest end.
LEMMA LastEnd ==
  ASSUME IInv
  PROVE  /\ LastIncidentEnd \in Nat
         /\ EndedBy(LastIncidentEnd)
         /\ LastIncidentEnd = 0 \/ \E i \in DOMAIN inc : LastIncidentEnd = inc[i].end
<1> DEFINE ends == {inc[i].end : i \in DOMAIN inc} \cup {0}
<1>1. \A i \in DOMAIN inc : inc[i].end \in 0 .. MaxTime
  BY Rows DEF IncidentRow
<1>2. MaxTime \in Nat /\ ends \in SUBSET (0 .. MaxTime) /\ ends # {}
  BY <1>1, BoundAssumption
<1>3. \E e \in ends : \A f \in ends : f <= e
  <2> HIDE DEF ends
  <2> QED BY <1>2, NatMax
<1>4. LastIncidentEnd = CHOOSE e \in ends : \A f \in ends : f <= e
  BY DEF LastIncidentEnd
<1>5. LastIncidentEnd \in ends /\ \A f \in ends : f <= LastIncidentEnd
  <2> HIDE DEF ends
  <2> QED BY <1>3, <1>4
<1> QED BY <1>2, <1>5 DEF EndedBy

\* The ends of incidents, after a step.
LEMMA Ends ==
  ASSUME IInv, [Next]_vars, NEW i \in DOMAIN inc'
  PROVE  \/ inc'[i].end = 0
         \/ i \in DOMAIN inc /\ inc'[i].end = inc[i].end
         \/ Close /\ inc'[i].end = cur.at
         \/ ClosePaused /\ inc'[i].end = now
<1>1. CASE inc' = inc
  BY <1>1
<1>2. CASE Open
  <2> DEFINE y == Incident(NewState.startedAt)
  <2>1. inc' = Append(inc, y) /\ y.end = 0
    BY <1>2 DEF Open, Incident
  <2> HIDE DEF y
  <2>2. \A k \in DOMAIN inc' : (k \in DOMAIN inc /\ inc'[k] = inc[k]) \/ inc'[k] = y
    BY <2>1, Rows
  <2> QED BY <2>1, <2>2
<1>3. CASE Close
  <2>1. inc' = [k \in DOMAIN inc |-> IF k = st.incident /\ k \in OpenIds
                                     THEN [inc[k] EXCEPT !.end = cur.at, !.by = "check"]
                                     ELSE inc[k]]
    BY <1>3 DEF Close
  <2>2. i \in DOMAIN inc /\ inc[i] \in IncidentRow
    BY <2>1, Rows
  <2>3. CASE i = st.incident /\ i \in OpenIds
    BY <1>3, <2>1, <2>2, <2>3 DEF IncidentRow
  <2>4. CASE ~(i = st.incident /\ i \in OpenIds)
    BY <2>1, <2>2, <2>4
  <2> QED BY <2>3, <2>4
<1>4. CASE ClosePaused
  <2>1. CASE inc' = [k \in DOMAIN inc |-> IF k \in OpenIds THEN ClosedByPause(inc[k]) ELSE inc[k]]
    <3>1. i \in DOMAIN inc /\ inc[i] \in IncidentRow
      BY <2>1, Rows
    <3>2. ClosedByPause(inc[i]).end = now
      BY <3>1 DEF ClosedByPause, IncidentRow
    <3> QED BY <1>4, <2>1, <3>1, <3>2
  <2> QED BY <1>1, <1>4, <2>1 DEF ClosePaused
<1>5. ASSUME NEW m, Mark(m) PROVE i \in DOMAIN inc /\ inc'[i].end = inc[i].end
  <2>1. CASE m.id \in DOMAIN inc /\ inc' = [inc EXCEPT ![m.id] = Marked(@, m.up)]
    <3>1. i \in DOMAIN inc /\ inc[m.id] \in IncidentRow
      BY <2>1, Rows
    <3>2. Marked(inc[m.id], m.up).end = inc[m.id].end
      BY <3>1, RowMarked DEF Marked
    <3> QED BY <2>1, <3>1, <3>2
  <2> QED BY <1>1, <1>5, <2>1 DEF Mark
<1>6. CASE RunnerMark \/ RetryMark
  BY <1>5, <1>6 DEF RunnerMark, RetryMark
<1>7. CASE DeleteRow
  BY <1>7 DEF DeleteRow
<1>8. CASE RunnerStep
  BY <1>1, <1>2, <1>3, <1>6, <1>8
     DEF RunnerStep, Restore, Exit, StartCheck, FinishCheck, Insert, Quiet, Adopt, OpenFails,
         CloseFails, RunnerMail, store
<1>9. CASE RetryStep
  BY <1>1, <1>6, <1>9 DEF RetryStep, RetryRead, RetrySkip, RetryMail, RetryDone, store
<1>10. CASE AdminStep
  BY <1>1, <1>4, <1>7, <1>10 DEF AdminStep, Remove, Stop, StartRunner, GiveUp, WriteRow, store
<1>11. CASE Tick \/ Boot \/ Crash \/ UNCHANGED vars
  BY <1>1, <1>11 DEF Tick, Boot, Crash, vars, store
<1> QED BY <1>8, <1>9, <1>10, <1>11 DEF Next

\* InsertCheck: the new check is the last, the others move up when the table is full.
LEMMA Inserted ==
  ASSUME IInv, Ordered, InsertCheck(cur), cur \in CheckRow
  PROVE  \E d \in {0, 1} :
           /\ Len(checks) \in Nat /\ Len(checks') = Len(checks) + 1 - d
           /\ d = 1 <=> Len(checks) = Threshold
           /\ DOMAIN checks = 1 .. Len(checks) /\ DOMAIN checks' = 1 .. Len(checks')
           /\ Len(checks') <= Threshold
           /\ checks'[Len(checks')] = cur
           /\ \A k \in 1 .. Len(checks') - 1 : k + d \in DOMAIN checks /\ checks'[k] = checks[k + d]
<1>1. /\ checks \in Seq(CheckRow) /\ Len(checks) \in Nat /\ DOMAIN checks = 1 .. Len(checks)
      /\ Len(checks) <= Threshold
  BY LenProperties DEF IInv, Types, Ordered
<1>2. CASE Len(checks) = Threshold
  <2>1. checks # <<>>
    BY <1>2, ThresholdAssumption
  <2>2. /\ Tail(checks) \in Seq(CheckRow) /\ Len(Tail(checks)) = Len(checks) - 1
        /\ \A k \in 1 .. Len(Tail(checks)) : Tail(checks)[k] = checks[k + 1]
    BY <1>1, <2>1, HeadTailProperties
  <2>3. PICK s \in Seq(CheckRow) : s = Tail(checks)
    BY <2>2
  <2>4. /\ checks' = Append(s, cur) /\ Len(s) = Len(checks) - 1
        /\ \A k \in 1 .. Len(s) : s[k] = checks[k + 1]
    BY <1>2, <2>2, <2>3 DEF InsertCheck
  <2>5. /\ Len(checks') = Len(s) + 1 /\ DOMAIN checks' = 1 .. Len(s) + 1
        /\ checks'[Len(s) + 1] = cur /\ \A k \in 1 .. Len(s) : checks'[k] = s[k]
    BY <2>4, AppendProperties, LenProperties
  <2>6. PICK n \in Nat : n = Len(s)
    BY LenProperties
  <2>7. PICK l \in Nat : l = Len(checks)
    BY <1>1
  <2>8. l = n + 1
    BY <2>4, <2>6, <2>7
  <2>9. /\ 1 .. Len(checks') - 1 = 1 .. n /\ DOMAIN checks = 1 .. n + 1
        /\ \A k \in 1 .. n : k + 1 \in 1 .. n + 1
    BY <1>1, <2>5, <2>6, <2>7, <2>8
  <2>10. \A k \in 1 .. Len(checks') - 1 : k + 1 \in DOMAIN checks /\ checks'[k] = checks[k + 1]
    BY <1>1, <2>4, <2>5, <2>6, <2>9
  <2> WITNESS 1 \in {0, 1}
  <2> QED BY <1>1, <1>2, <2>4, <2>5, <2>10
<1>3. CASE Len(checks) # Threshold
  <2>1. checks' = Append(checks, cur)
    BY <1>3 DEF InsertCheck
  <2>2. /\ Len(checks') = Len(checks) + 1 /\ DOMAIN checks' = 1 .. Len(checks) + 1
        /\ checks'[Len(checks) + 1] = cur
        /\ \A k \in 1 .. Len(checks) : checks'[k] = checks[k]
    BY <1>1, <2>1, AppendProperties, LenProperties
  <2>3. PICK n \in Nat : n = Len(checks)
    BY <1>1
  <2>4. n <= Threshold /\ n # Threshold
    BY <1>1, <1>3, <2>3
  <2>5. n = Len(checks) /\ n < Threshold
    BY <2>3, <2>4, ThresholdAssumption
  <2>6. 1 .. Len(checks') - 1 = 1 .. n /\ \A k \in 1 .. n : k + 0 = k
    BY <2>2, <2>5
  <2>7. \A k \in 1 .. Len(checks') - 1 : k + 0 \in DOMAIN checks /\ checks'[k] = checks[k + 0]
    BY <1>1, <2>2, <2>5, <2>6
  <2>8. Len(checks') = Len(checks) + 1 - 0 /\ Len(checks') <= Threshold
    BY <2>2, <2>5, ThresholdAssumption
  <2> WITNESS 0 \in {0, 1}
  <2> QED BY <1>1, <1>3, <2>2, <2>7, <2>8
<1> QED BY <1>2, <1>3

\* Where a round goes, and who writes the checks.
LEMMA RoundStep ==
  ASSUME IInv, [Next]_vars
  PROVE  /\ now' = now \/ now' = now + 1
         /\ pc' \in {"check", "insert", "decide"} =>
              \/ pc' = "check" /\ cur'.at = now /\ now' = now
              \/ pc \in {"check", "insert", "decide"} /\ cur'.at = cur.at
         /\ pc' \in {"check", "insert"} =>
              \/ pc' = "check" /\ cur'.at = now /\ checks' = checks
              \/ pc \in {"check", "insert"} /\ cur'.at = cur.at /\ checks' = checks
         /\ \/ checks' = checks
            \/ DeleteRow /\ checks' = <<>> /\ pc' = "off"
            \/ Insert /\ InsertCheck(cur)
<1>1. CASE RunnerStep
  <2>1. CASE \E ok \in Result : FinishCheck(ok)
    <3>1. PICK ok \in Result : FinishCheck(ok)
      BY <2>1
    <3>2. pc = "check" /\ now' = now /\ checks' = checks /\ pc' \in {"idle", "insert"}
      BY <3>1 DEF FinishCheck, clock, store
    <3>3. pc' = "insert" => cur' = [cur EXCEPT !.ok = ok]
      BY <3>1 DEF FinishCheck
    <3>4. pc' = "insert" => cur'.at = cur.at
      BY <3>3 DEF IInv, Types
    <3> QED BY <3>2, <3>4
  <2>2. CASE Restore
    <3>1. pc' = "idle" /\ UNCHANGED <<now, checks>>
      BY <2>2 DEF Restore, clock, store
    <3> QED BY <3>1
  <2>3. CASE StartCheck \/ Insert
    BY <2>3 DEF StartCheck, Insert, clock, store
  <2>4. CASE Open \/ Close
    <3>1. pc' \in {"idle", "mail"} /\ UNCHANGED <<now, checks>>
      BY <2>4 DEF Open, Close, Notify, clock
    <3> QED BY <3>1
  <2>5. CASE (\E o \in Outcomes : RunnerMail(o)) \/ RunnerMark
    BY <2>5 DEF RunnerMail, RunnerMark, clock, store
  <2>6. CASE Exit \/ Quiet \/ Adopt \/ OpenFails \/ CloseFails
    BY <2>6 DEF Exit, Quiet, Adopt, OpenFails, CloseFails, EndRound, clock, store
  <2> QED BY <1>1, <2>1, <2>2, <2>3, <2>4, <2>5, <2>6 DEF RunnerStep
<1>2. CASE RetryStep
  BY <1>2 DEF RetryStep, RetryRead, RetrySkip, RetryMail, RetryMark, RetryDone, clock, store, runner
<1>3. CASE AdminStep
  BY <1>3 DEF AdminStep, Remove, Stop, StartRunner, ClosePaused, GiveUp, DeleteRow, WriteRow,
              Stopped, clock, store, runner
<1>4. CASE Tick \/ Boot \/ Crash \/ UNCHANGED vars
  BY <1>4 DEF Tick, Boot, Crash, vars, clock, store, runner
<1> QED BY <1>1, <1>2, <1>3, <1>4 DEF Next

LEMMA OrderedStep ==
  ASSUME IInv, Ordered, [Next]_vars
  PROVE  Ordered'
<1>1. now \in Nat /\ now' \in Nat /\ now <= now'
  BY RoundStep, BoundAssumption DEF IInv, Types
<1>2. /\ \A k \in DOMAIN checks : checks[k].at \in Nat /\ checks[k].at <= now
      /\ \A i \in DOMAIN inc : inc[i].end \in Nat
      /\ cur.at \in Nat
  <2>1. \A k \in DOMAIN checks : checks[k].at \in Nat /\ checks[k].at <= now
    BY <1>1, Rows
  <2>2. \A i \in DOMAIN inc : inc[i].end \in Nat
    <3>1. \A i \in DOMAIN inc : inc[i].end \in 0 .. MaxTime
      BY Rows DEF IncidentRow
    <3> QED BY <3>1, BoundAssumption
  <2>3. cur.at \in Nat
    BY BoundAssumption DEF IInv, Types
  <2> QED BY <2>1, <2>2, <2>3
<1>3. pc \in {"check", "insert", "decide"} => cur.at \in 1 .. now
  BY DEF IInv, Rounds
<1>4. /\ Len(checks') <= Threshold
      /\ \A i, j \in DOMAIN checks' : i <= j => checks'[i].at <= checks'[j].at
  <2>1. CASE checks' = checks
    BY <2>1 DEF Ordered
  <2>2. CASE checks' = <<>>
    BY <2>2, ThresholdAssumption
  <2>3. CASE Insert /\ InsertCheck(cur)
    <3>1. pc = "insert"
      BY <2>3 DEF Insert
    <3>2. cur \in CheckRow
      BY <1>3, <3>1, BoundAssumption DEF IInv, Types, CheckRow
    <3>3. PICK d \in {0, 1} :
           /\ Len(checks) \in Nat /\ Len(checks') = Len(checks) + 1 - d
           /\ DOMAIN checks' = 1 .. Len(checks')
           /\ Len(checks') <= Threshold
           /\ checks'[Len(checks')] = cur
           /\ \A k \in 1 .. Len(checks') - 1 : k + d \in DOMAIN checks /\ checks'[k] = checks[k + d]
      BY <2>3, <3>2, Inserted
    <3>4. PICK l \in Nat : l = Len(checks)
      BY <3>3
    <3>5. l + 1 - d \in Nat /\ Len(checks') = l + 1 - d
      BY <3>3, <3>4
    <3>6. PICK n \in Nat : n = Len(checks')
      BY <3>5
    <3>7. ASSUME NEW i \in DOMAIN checks', NEW j \in DOMAIN checks', i <= j
          PROVE  checks'[i].at <= checks'[j].at
      <4>1. CASE j = Len(checks') /\ i # j
        <5>1. i + d \in DOMAIN checks /\ checks'[i] = checks[i + d] /\ checks'[j] = cur
          BY <3>3, <3>7, <4>1
        <5> QED BY <3>1, <5>1 DEF Ordered
      <4>2. CASE j # Len(checks')
        <5>0. i \in 1 .. Len(checks') - 1 /\ j \in 1 .. Len(checks') - 1 /\ i + d <= j + d
          BY <3>3, <3>6, <3>7, <4>2
        <5>1. /\ i + d \in DOMAIN checks /\ checks'[i] = checks[i + d]
              /\ j + d \in DOMAIN checks /\ checks'[j] = checks[j + d] /\ i + d <= j + d
          BY <3>3, <5>0
        <5> QED BY <5>1 DEF Ordered
      <4>3. CASE i = j /\ j = Len(checks')
        BY <1>2, <3>3, <4>3
      <4> QED BY <4>1, <4>2, <4>3
    <3> QED BY <3>3, <3>7
  <2> QED BY <2>1, <2>2, <2>3, RoundStep
<1>5. pc' \in {"check", "insert"} => \A k \in DOMAIN checks' : checks'[k].at <= cur'.at
  BY <1>2, RoundStep DEF Ordered
<1>6. \A i \in DOMAIN inc' : inc'[i].end <= now'
  <2>1. SUFFICES ASSUME NEW i \in DOMAIN inc' PROVE inc'[i].end <= now'
    OBVIOUS
  <2>2. i \in DOMAIN inc => inc[i].end \in Nat /\ inc[i].end <= now
    BY <1>2 DEF Ordered
  <2>3. Close => cur.at <= now
    <3>1. Close => pc = "decide"
      BY DEF Close, Event
    <3> QED BY <1>1, <1>3, <3>1
  <2> QED BY <1>1, <1>2, <2>2, <2>3, Ends
<1>7. pc' \in {"check", "insert", "decide"} => \A i \in DOMAIN inc' : inc'[i].end <= cur'.at
  <2>1. SUFFICES ASSUME pc' \in {"check", "insert", "decide"}, NEW i \in DOMAIN inc'
                 PROVE  inc'[i].end <= cur'.at
    OBVIOUS
  <2>2. CASE pc' = "check" /\ cur'.at = now /\ now' = now
    BY <1>6, <2>2
  <2>3. CASE pc \in {"check", "insert", "decide"} /\ cur'.at = cur.at
    <3>1. ~Close /\ ~ClosePaused
      BY <2>1, <2>3 DEF Close, Notify, ClosePaused, Stopped
    <3>2. i \in DOMAIN inc => inc[i].end <= cur.at
      BY <2>3 DEF Ordered
    <3> QED BY <1>2, <2>3, <3>1, <3>2, Ends
  <2> QED BY <2>1, <2>2, <2>3, RoundStep
<1> QED BY <1>4, <1>5, <1>6, <1>7 DEF Ordered

\* The numbers in the state.
LEMMA Numbers ==
  ASSUME IInv
  PROVE  /\ \A k \in DOMAIN checks : checks[k].at \in Nat
         /\ \A i \in DOMAIN inc : inc[i].end \in Nat
         /\ cur.at \in Nat /\ st.fails \in Nat /\ st.firstFail \in Nat /\ Threshold \in Nat
         /\ DOMAIN checks = 1 .. Len(checks) /\ Len(checks) \in Nat
<1>1. \A k \in DOMAIN checks : checks[k].at \in Nat
  <2>1. now \in Nat
    BY BoundAssumption DEF IInv, Types
  <2> QED BY <2>1, Rows
<1>2. \A i \in DOMAIN inc : inc[i].end \in Nat
  <2>1. \A i \in DOMAIN inc : inc[i].end \in 0 .. MaxTime
    BY Rows DEF IncidentRow
  <2> QED BY <2>1, BoundAssumption
<1>3. cur.at \in Nat
  BY BoundAssumption DEF IInv, Types
<1>4. st.fails \in Nat /\ st.firstFail \in Nat /\ Threshold \in Nat
  BY ThresholdAssumption DEF IInv, Types, States
<1>5. DOMAIN checks = 1 .. Len(checks) /\ Len(checks) \in Nat
  BY LenProperties DEF IInv, Types
<1> QED BY <1>1, <1>2, <1>3, <1>4, <1>5

LEMMA NoneFailing == ASSUME IInv, NEW t PROVE Failing(0, t)
  BY Numbers DEF Failing

\* restore's series: the last checks, from the first of them on.
LEMMA Suffix ==
  ASSUME IInv, Ordered, Series(checks, LastIncidentEnd) # {}, NEW f,
         f = CHOOSE k \in Series(checks, LastIncidentEnd) :
               \A j \in Series(checks, LastIncidentEnd) : k <= j
  PROVE  LET n == Cardinality(Series(checks, LastIncidentEnd))
         IN  n <= Threshold /\ Failing(n, checks[f].at) /\ EndedBy(checks[f].at)
<1>1. PICK l \in Nat : l = Len(checks) /\ DOMAIN checks = 1 .. l
  BY Numbers
<1>2. PICK S : S = Series(checks, LastIncidentEnd)
  OBVIOUS
<1>3. \A k : k \in S <=> /\ k \in 1 .. l
                         /\ \A j \in k .. l : ~checks[j].ok /\ checks[j].at > LastIncidentEnd
  BY <1>1, <1>2 DEF Series
<1>4. S \in SUBSET Nat /\ S # {}
  BY <1>2, <1>3
<1>5. \E k \in S : \A j \in S : k <= j
  BY <1>4, NatMin
<1>6. f = CHOOSE k \in S : \A j \in S : k <= j
  BY <1>2
<1>7. f \in S /\ \A j \in S : f <= j
  BY <1>5, <1>6
<1>8. f \in 1 .. l
  BY <1>3, <1>7
<1>9. ASSUME NEW k \in f .. l PROVE k \in S
  <2>1. f \in Nat /\ k \in Nat /\ 1 <= f /\ f <= k /\ k <= l
    BY <1>8
  <2>2. k \in 1 .. l
    BY <2>1
  <2>3. ASSUME NEW j \in k .. l PROVE j \in f .. l
    <3>1. j \in Int /\ k <= j /\ j <= l
      BY <2>1
    <3> QED BY <2>1, <3>1
  <2> QED BY <1>3, <1>7, <2>2, <2>3
<1>10. ASSUME NEW k \in S PROVE k \in f .. l
  <2>1. k \in 1 .. l /\ f <= k
    BY <1>3, <1>7
  <2> QED BY <1>8, <2>1
<1>11. S = f .. l
  BY <1>9, <1>10
<1>12. Cardinality(S) = l - f + 1
  <2>1. f \in Int /\ l \in Int /\ ~(f > l)
    BY <1>8
  <2> QED BY <1>11, <2>1, FS_Interval
<1>13. l <= Threshold
  BY <1>1 DEF Ordered
<1>14. l - f + 1 <= Threshold /\ l - f + 1 <= l
  BY <1>8, <1>13, ThresholdAssumption
<1>15. ASSUME NEW k \in 1 .. l, k > l - (l - f + 1)
       PROVE  ~checks[k].ok /\ checks[k].at >= checks[f].at
  <2>1. k \in f .. l /\ f <= k
    BY <1>8, <1>15
  <2>2. checks[k].at \in Nat /\ checks[f].at \in Nat /\ checks[f].at <= checks[k].at
    BY <1>1, <1>8, <2>1, Numbers DEF Ordered
  <2> QED BY <1>3, <1>7, <2>1, <2>2
<1>16. Failing(l - f + 1, checks[f].at)
  BY <1>1, <1>14, <1>15 DEF Failing
<1>17. EndedBy(checks[f].at)
  <2>1. f \in f .. l
    BY <1>8
  <2>2. checks[f].at > LastIncidentEnd /\ checks[f].at \in Nat
    BY <1>1, <1>3, <1>7, <1>8, <2>1, Numbers
  <2>3. LastIncidentEnd \in Nat /\ EndedBy(LastIncidentEnd)
    BY LastEnd
  <2>4. ASSUME NEW i \in DOMAIN inc PROVE inc[i].end <= checks[f].at
    <3>1. inc[i].end \in Nat /\ inc[i].end <= LastIncidentEnd
      BY <2>3, Numbers DEF EndedBy
    <3> QED BY <2>2, <2>3, <3>1
  <2> QED BY <2>4 DEF EndedBy
<1> QED BY <1>2, <1>12, <1>14, <1>16, <1>17

LEMMA CountsRestore ==
  ASSUME IInv, Ordered, Restore
  PROVE  Counts'
<1>1. PICK ids \in Query(OpenIds, {}), end \in Query(LastIncidentEnd, 0), rows \in Query(checks, <<>>) :
        /\ blind' = IF ids # OpenIds THEN "incident"
                    ELSE IF Series(rows, end) # Series(checks, LastIncidentEnd) THEN "series"
                    ELSE "no"
        /\ LET fails == Series(rows, end)
               first == CHOOSE k \in fails : \A j \in fails : k <= j
               id    == CHOOSE i \in ids : TRUE
           IN st' = [fails     |-> Cardinality(fails),
                     firstFail |-> IF fails = {} THEN 0 ELSE rows[first].at,
                     open      |-> ids # {},
                     startedAt |-> IF ids = {} THEN 0 ELSE inc[id].start,
                     incident  |-> IF ids = {} THEN 0 ELSE id]
  BY Zenon DEF Restore
<1>2. pc' = "idle" /\ checks' = checks /\ inc' = inc
  BY DEF Restore, store
<1>3. SUFFICES ASSUME blind' = "no"
               PROVE  /\ st'.fails <= Threshold
                      /\ st'.fails # 0 => EndedBy(st'.firstFail)
                      /\ Failing(st'.fails, st'.firstFail)
  BY <1>2 DEF Counts, EndedBy, Failing
<1>4. PICK S : S = Series(checks, LastIncidentEnd)
  OBVIOUS
<1>5. Series(rows, end) = S
  BY <1>1, <1>3, <1>4
<1>6. PICK f : f = CHOOSE k \in S : \A j \in S : k <= j
  OBVIOUS
<1>7. st'.fails = Cardinality(S) /\ st'.firstFail = IF S = {} THEN 0 ELSE rows[f].at
  BY <1>1, <1>5, <1>6
<1>8. CASE S = {}
  BY <1>7, <1>8, FS_EmptySet, NoneFailing, ThresholdAssumption
<1>9. CASE S # {}
  <2>1. rows = checks
    <3>1. rows = <<>> => Series(rows, end) = {}
      BY DEF Series
    <3> QED BY <1>5, <1>9, <3>1 DEF Query
  <2> QED BY <1>4, <1>6, <1>7, <1>9, <2>1, Suffix
<1> QED BY <1>8, <1>9

\* No incident ends now.
SameEnds == \A i \in DOMAIN inc' : inc'[i].end = 0 \/ (i \in DOMAIN inc /\ inc'[i].end = inc[i].end)

LEMMA EndedStays ==
  ASSUME SameEnds, NEW t \in Nat, EndedBy(t)
  PROVE  EndedBy(t)'
BY DEF SameEnds, EndedBy

\* Steps that leave the counter and the checks alone.
LEMMA CountsStay ==
  ASSUME IInv, Counts, SameEnds, checks' = checks, st' = st, blind' = blind,
         \/ pc' = pc /\ cur' = cur
         \/ pc \in InRound /\ pc # "decide" /\ pc' # "decide"
  PROVE  Counts'
<1>1. SUFFICES ASSUME blind' = "no", ~st'.open, pc' \in InRound, pc' = "decide" => ~cur'.ok
               PROVE  /\ st.fails <= Threshold
                      /\ st.fails # 0 => EndedBy(st.firstFail)'
                      /\ pc' # "decide" => Failing(st.fails, st.firstFail)
                      /\ pc' = "decide" => Failing(Fails, Since)'
  BY DEF Counts, EndedBy, Failing
<1>2. /\ st.fails <= Threshold
      /\ st.fails # 0 => EndedBy(st.firstFail)
      /\ pc # "decide" => Failing(st.fails, st.firstFail)
      /\ pc = "decide" => Failing(Fails, Since)
  BY <1>1 DEF Counts
<1>3. st.fails # 0 => EndedBy(st.firstFail)'
  <2>1. st.firstFail \in Nat
    BY Numbers
  <2>2. ASSUME st.fails # 0 PROVE \A i \in DOMAIN inc' : inc'[i].end <= st.firstFail
    BY <1>2, <2>1, <2>2 DEF SameEnds, EndedBy
  <2> QED BY <2>2 DEF EndedBy
<1>4. pc' = "decide" => (Failing(Fails, Since)' <=> Failing(Fails, Since)) /\ pc = "decide"
  BY DEF Failing, Fails, Since
<1> QED BY <1>2, <1>3, <1>4

\* The failed check counted in: what the runner is about to remember is so.
LEMMA CountedIn ==
  ASSUME IInv, Ordered, Counts, pc = "decide", ~cur.ok, ~st.open, blind = "no"
  PROVE  /\ Fails \in Nat /\ Fails <= Threshold /\ Since \in Nat
         /\ EndedBy(Since) /\ Failing(Fails, Since)
<1>1. /\ st.fails <= Threshold
      /\ st.fails # 0 => EndedBy(st.firstFail)
      /\ Failing(Fails, Since)
  BY DEF Counts, InRound
<1>2. Fails \in Nat /\ Fails <= Threshold
  BY <1>1, Numbers DEF Fails
<1>3. Since \in Nat
  BY Numbers DEF Since
<1>4. EndedBy(cur.at)
  BY DEF Ordered, EndedBy
<1>5. EndedBy(Since)
  BY <1>1, <1>4 DEF Since
<1> QED BY <1>1, <1>2, <1>3, <1>5

\* What next remembers.
LEMMA Remembers ==
  ASSUME IInv
  PROVE  /\ cur.ok => NewState.fails = 0 /\ NewState.firstFail = 0
         /\ ~cur.ok => /\ NewState.fails = Fails /\ NewState.firstFail = Since
                       /\ NewState.open <=> st.open \/ Fails >= Threshold
         /\ Event("down") => ~cur.ok /\ ~st.open /\ Fails >= Threshold /\ NewState.startedAt = Since
         /\ Event("up") => cur.ok
<1>1. st \in States
  BY DEF IInv, Types
<1>2. CASE cur.ok
  <2>1. NewState = [st EXCEPT !.fails = 0, !.firstFail = 0, !.open = FALSE]
    BY <1>2 DEF NewState, next
  <2>2. ~Event("down")
    BY <1>2 DEF Event, next
  <2> QED BY <1>1, <1>2, <2>1, <2>2 DEF States
<1>3. CASE ~cur.ok
  <2> DEFINE down == ~st.open /\ Fails >= Threshold
  <2>1. NewState = [fails |-> Fails, firstFail |-> Since, open |-> st.open \/ down,
                    startedAt |-> IF down THEN Since ELSE st.startedAt, incident |-> st.incident]
    BY <1>3 DEF NewState, next, Fails, Since
  <2>2. (Event("down") => down) /\ ~Event("up")
    BY <1>3 DEF Event, next, Fails
  <2> QED BY <1>1, <1>3, <2>1, <2>2 DEF States
<1> QED BY <1>2, <1>3

\* The end of a round in which the counter was set anew.
LEMMA CountsSet ==
  ASSUME IInv, Ordered, Counts, pc = "decide", pc' # "decide", checks' = checks,
         st'.fails = NewState.fails, st'.firstFail = NewState.firstFail,
         cur.ok \/ (inc' = inc /\ blind' = blind /\ (~st'.open => ~st.open))
  PROVE  Counts'
<1>1. CASE cur.ok
  <2>1. st'.fails = 0
    BY <1>1, Remembers
  <2> QED BY <2>1, NoneFailing, ThresholdAssumption DEF Counts, Failing
<1>2. CASE ~cur.ok
  <2>1. SUFFICES ASSUME blind' = "no", ~st'.open
                 PROVE  st'.fails <= Threshold /\ EndedBy(st'.firstFail)
                        /\ Failing(st'.fails, st'.firstFail)
    BY <1>2 DEF Counts, EndedBy, Failing
  <2>2. blind = "no" /\ ~st.open /\ st'.fails = Fails /\ st'.firstFail = Since
    BY <1>2, <2>1, Remembers
  <2> QED BY <1>2, <2>2, CountedIn
<1> QED BY <1>1, <1>2

\* The insert brings the table one check ahead of the counter.
LEMMA CountsInsert ==
  ASSUME IInv, Ordered, Counts, Insert
  PROVE  Counts'
<1>1. pc = "insert" /\ pc' = "decide" /\ st' = st /\ cur' = cur /\ inc' = inc
  BY DEF Insert
<1>2. SUFFICES ASSUME blind' = "no", ~st.open, ~cur.ok
               PROVE  /\ st.fails <= Threshold
                      /\ st.fails # 0 => EndedBy(st.firstFail)
                      /\ Failing(Fails, Since)'
  BY <1>1 DEF Counts, EndedBy
<1>3. blind = "no" /\ InsertCheck(cur)
  BY <1>2 DEF Insert
<1>4. /\ st.fails <= Threshold
      /\ st.fails # 0 => EndedBy(st.firstFail)
      /\ Failing(st.fails, st.firstFail)
  BY <1>1, <1>2, <1>3 DEF Counts, InRound
<1>5. cur \in CheckRow
  <2>1. cur.at \in 1 .. now
    BY <1>1 DEF IInv, Rounds
  <2> QED BY <2>1, BoundAssumption DEF IInv, Types, CheckRow
<1>6. PICK d \in {0, 1} :
        /\ Len(checks) \in Nat /\ Len(checks') = Len(checks) + 1 - d
        /\ d = 1 <=> Len(checks) = Threshold
        /\ DOMAIN checks = 1 .. Len(checks) /\ DOMAIN checks' = 1 .. Len(checks')
        /\ Len(checks') <= Threshold
        /\ checks'[Len(checks')] = cur
        /\ \A k \in 1 .. Len(checks') - 1 : k + d \in DOMAIN checks /\ checks'[k] = checks[k + d]
  BY <1>3, <1>5, Inserted
<1>7. PICK l \in Nat, n \in Nat : l = Len(checks) /\ n = st.fails
  BY <1>6, Numbers
<1>8. n <= l /\ n <= Threshold /\ l <= Threshold /\ Threshold \in Nat
  BY <1>4, <1>7, ThresholdAssumption DEF Failing, Ordered
<1>9. PICK g \in Nat : g = Fails /\ g <= n + 1 /\ g <= Threshold
  BY <1>7, <1>8 DEF Fails
<1>10. PICK m \in Nat : m = Len(checks') /\ m = l + 1 - d
  <2>1. l + 1 - d \in Nat
    OBVIOUS
  <2>2. Len(checks') = l + 1 - d
    BY <1>6, <1>7
  <2> QED BY <2>1, <2>2
<1>11. g <= m
  <2>1. (d = 1 => l = Threshold) /\ (d = 0 \/ d = 1)
    BY <1>6, <1>7
  <2> QED BY <1>8, <1>9, <1>10, <2>1
<1>12. cur.at \in Nat /\ st.firstFail \in Nat /\ \A k \in DOMAIN checks : checks[k].at <= cur.at /\ checks[k].at \in Nat
  BY <1>1, Numbers DEF Ordered
<1>13. n # 0 => cur.at >= st.firstFail
  <2>1. SUFFICES ASSUME n # 0 PROVE cur.at >= st.firstFail
    OBVIOUS
  <2>2. l \in 1 .. l /\ l > l - n
    BY <1>8, <2>1
  <2>3. l \in DOMAIN checks /\ l > l - n
    BY <1>6, <1>7, <2>2
  <2>4. checks[l].at >= st.firstFail
    BY <1>4, <1>7, <2>3 DEF Failing
  <2> QED BY <1>12, <2>3, <2>4
<1>14. ASSUME NEW k \in 1 .. m, k > m - g
       PROVE  ~checks'[k].ok /\ checks'[k].at >= Since
  <2>1. CASE k = m
    BY <1>2, <1>6, <1>7, <1>10, <1>12, <1>13, <2>1 DEF Since
  <2>2. CASE k # m
    <3>1. k \in 1 .. m - 1 /\ k + d > l - n /\ n # 0
      BY <1>8, <1>9, <1>10, <1>14, <2>2
    <3>2. k + d \in DOMAIN checks /\ checks'[k] = checks[k + d]
      BY <1>6, <1>10, <3>1
    <3>3. ~checks[k + d].ok /\ checks[k + d].at >= st.firstFail
      BY <1>4, <1>7, <3>1, <3>2 DEF Failing
    <3> QED BY <1>7, <3>1, <3>2, <3>3 DEF Since
  <2> QED BY <2>1, <2>2
<1>15. Fails' = Fails /\ Since' = Since
  BY <1>1 DEF Fails, Since
<1>16. Failing(Fails, Since)'
  BY <1>6, <1>9, <1>10, <1>11, <1>14, <1>15 DEF Failing
<1> QED BY <1>4, <1>16

LEMMA CountsStep ==
  ASSUME IInv, Ordered, Counts, [Next]_vars
  PROVE  Counts'
<1>1. ASSUME ~Close, ~ClosePaused PROVE SameEnds
  BY <1>1, Ends DEF SameEnds
<1>2. CASE RunnerStep
  <2>1. CASE Restore
    BY <2>1, CountsRestore
  <2>2. CASE Insert
    BY <2>2, CountsInsert
  <2>3. CASE StartCheck \/ (\E ok \in Result : FinishCheck(ok)) \/ RunnerMark
             \/ \E o \in Outcomes : RunnerMail(o)
    <3>1. /\ checks' = checks /\ st' = st /\ blind' = blind
          /\ pc \in InRound /\ pc # "decide" /\ pc' # "decide"
      BY <2>3 DEF StartCheck, FinishCheck, RunnerMark, RunnerMail, InRound, store
    <3>2. ~Close /\ ~ClosePaused
      BY <3>1 DEF Close, ClosePaused, Event, Stopped, InRound
    <3> QED BY <1>1, <3>1, <3>2, CountsStay
  <2>4. CASE Quiet
    <3>1. /\ pc = "decide" /\ pc' # "decide" /\ checks' = checks /\ st' = NewState /\ inc' = inc
          /\ blind' = blind
      BY <2>4 DEF Quiet, Event, EndRound, store
    <3>2. ~cur.ok /\ ~st'.open => ~st.open
      BY <3>1, Remembers
    <3> QED BY <3>1, <3>2, CountsSet
  <2>5. CASE OpenFails
    <3>1. /\ pc = "decide" /\ pc' # "decide" /\ checks' = checks /\ st' = OpenedNot(NewState)
          /\ inc' = inc /\ blind' = blind /\ Event("down")
      BY <2>5 DEF OpenFails, Event, EndRound, store
    <3>2. st'.fails = NewState.fails /\ st'.firstFail = NewState.firstFail
      BY <3>1, NextState DEF OpenedNot, States
    <3> QED BY <3>1, <3>2, CountsSet, Remembers
  <2>6. CASE Close
    <3>1. /\ pc = "decide" /\ pc' # "decide" /\ checks' = checks /\ st' = NewState
          /\ Event("up")
      BY <2>6 DEF Close, Event, Notify
    <3> QED BY <3>1, CountsSet, Remembers
  <2>7. CASE Open \/ Adopt \/ CloseFails \/ Exit
    <3>1. CASE Exit
      BY <3>1 DEF Exit, Counts, InRound
    <3>2. CASE Open \/ Adopt
      <4>1. pc = "decide" /\ Event("down")
        BY <3>2 DEF Open, Adopt, Event
      <4>2. NewState \in States /\ NewState.open
        BY <4>1, NextState, Remembers
      <4>3. st'.open
        BY <3>2, <4>2 DEF Open, Adopt, EndRound, States
      <4> QED BY <4>3 DEF Counts
    <3>3. CASE CloseFails
      <4>1. pc = "decide" /\ st' = ClosedNot(NewState)
        BY <3>3 DEF CloseFails, Event, EndRound
      <4>2. st'.open
        BY <4>1, NextState DEF ClosedNot, States
      <4> QED BY <4>2 DEF Counts
    <3> QED BY <2>7, <3>1, <3>2, <3>3
  <2> QED BY <1>2, <2>1, <2>2, <2>3, <2>4, <2>5, <2>6, <2>7 DEF RunnerStep
<1>3. CASE RetryStep
  <2>1. checks' = checks /\ st' = st /\ blind' = blind /\ pc' = pc /\ cur' = cur
    BY <1>3 DEF RetryStep, RetryRead, RetrySkip, RetryMail, RetryMark, RetryDone, store, runner
  <2>2. CASE pc \in InRound
    <3>1. ~Close /\ ~ClosePaused
      BY <2>1, <2>2 DEF Close, Notify, Event, ClosePaused, Stopped, InRound
    <3> QED BY <1>1, <2>1, <3>1, CountsStay
  <2>3. CASE pc \notin InRound
    BY <2>1, <2>3 DEF Counts
  <2> QED BY <2>2, <2>3
<1>4. CASE StartRunner \/ ClosePaused \/ GiveUp \/ DeleteRow
  <2>1. pc' \notin InRound
    BY <1>4 DEF StartRunner, ClosePaused, GiveUp, DeleteRow, Stopped, InRound
  <2> QED BY <2>1 DEF Counts
<1>5. CASE Boot \/ Crash
  <2>1. pc' \notin InRound
    BY <1>5 DEF Boot, Crash, InRound
  <2> QED BY <2>1 DEF Counts
<1>6. CASE Tick \/ Remove \/ Stop \/ (\E r \in {"active", "paused"} : WriteRow(r)) \/ UNCHANGED vars
  <2>1. checks' = checks /\ st' = st /\ blind' = blind /\ pc' = pc /\ cur' = cur /\ inc' = inc
    BY <1>6 DEF Tick, Remove, Stop, WriteRow, vars, store, runner
  <2> QED BY <2>1, CountsStay DEF SameEnds
<1> QED BY <1>2, <1>3, <1>4, <1>5, <1>6 DEF Next, AdminStep

\* Only Open adds an incident.
LEMMA OnlyOpenAdds ==
  ASSUME IInv, [Next]_vars, Len(inc') > Len(inc)
  PROVE  Open
<1>1. Len(inc) \in Nat
  BY Rows
<1>2. inc' # inc
  BY <1>1
<1>3. CASE Close \/ ClosePaused
  <2>1. DOMAIN inc' = DOMAIN inc
    BY <1>2, <1>3 DEF Close, ClosePaused
  <2> QED BY <1>1, <1>3, <2>1, CloseStep, ClosePausedStep, SameLength DEF IInv, Types
<1>4. CASE RunnerMark \/ RetryMark
  <2>1. DOMAIN inc' = DOMAIN inc
    BY <1>2, <1>4 DEF RunnerMark, RetryMark, Mark
  <2> QED BY <1>1, <1>4, <2>1, MarkSteps, SameLength DEF IInv, Types
<1>5. CASE DeleteRow
  BY <1>1, <1>5 DEF DeleteRow
<1>6. CASE RunnerStep
  BY <1>2, <1>3, <1>4, <1>6
     DEF RunnerStep, Restore, Exit, StartCheck, FinishCheck, Insert, Quiet, Adopt, OpenFails,
         CloseFails, RunnerMail, store
<1>7. CASE RetryStep
  BY <1>2, <1>4, <1>7 DEF RetryStep, RetryRead, RetrySkip, RetryMail, RetryDone, store
<1>8. CASE AdminStep
  BY <1>2, <1>3, <1>5, <1>8 DEF AdminStep, Remove, Stop, StartRunner, GiveUp, WriteRow, store
<1>9. CASE Tick \/ Boot \/ Crash \/ UNCHANGED vars
  BY <1>2, <1>9 DEF Tick, Boot, Crash, vars, store
<1> QED BY <1>6, <1>7, <1>8, <1>9 DEF Next

LEMMA OpensRightly ==
  ASSUME IInv, Ordered, Counts, [Next]_vars, Len(inc') > Len(inc), blind = "no"
  PROVE  LET start == inc'[Len(inc')].start
         IN  /\ Len(checks) = Threshold
             /\ \A k \in DOMAIN checks : ~checks[k].ok
             /\ start <= checks[1].at
             /\ start >= LastIncidentEnd
<1>1. Open
  BY OnlyOpenAdds
<1>2. pc = "decide" /\ Event("down") /\ inc' = Append(inc, Incident(NewState.startedAt))
  BY <1>1 DEF Open, Event
<1>3. ~cur.ok /\ ~st.open /\ Fails >= Threshold /\ NewState.startedAt = Since
  BY <1>2, Remembers
<1>4. /\ Fails \in Nat /\ Fails <= Threshold /\ Since \in Nat
      /\ EndedBy(Since) /\ Failing(Fails, Since)
  BY <1>2, <1>3, CountedIn
<1>5. inc'[Len(inc')].start = Since
  <2> DEFINE y == Incident(NewState.startedAt)
  <2>1. y.start = Since
    BY <1>3 DEF Incident
  <2> HIDE DEF y
  <2>2. inc' = Append(inc, y) /\ inc \in Seq(IncidentRow)
    BY <1>2 DEF y, IInv, Types
  <2>3. inc'[Len(inc')] = y
    BY <2>2
  <2> QED BY <2>1, <2>3
<1>6. PICK l \in Nat, n \in Nat : l = Len(checks) /\ DOMAIN checks = 1 .. l /\ n = Fails
  BY <1>4, Numbers
<1>7. l = Threshold /\ n = Threshold /\ Threshold \in Nat /\ Threshold # 0
  BY <1>3, <1>4, <1>6, ThresholdAssumption DEF Failing, Ordered
<1>8. \A k \in 1 .. l : k > l - n
  BY <1>7
<1>9. \A k \in DOMAIN checks : ~checks[k].ok /\ checks[k].at >= Since
  BY <1>4, <1>6, <1>8 DEF Failing
<1>10. 1 \in DOMAIN checks
  BY <1>6, <1>7
<1>11. Since <= checks[1].at
  BY <1>4, <1>9, <1>10, Numbers
<1>12. Since >= LastIncidentEnd
  BY <1>4, LastEnd DEF EndedBy
<1> QED BY <1>5, <1>6, <1>7, <1>9, <1>11, <1>12

\* An incident is opened only when as many stored checks as the threshold
\* says failed one after the other, and it begins with the first of them or before,
\* but not before the end of the last incident; unless a failed statement kept
\* checks from the table or from the runner.
THEOREM OpenedAtThreshold == Spec => OpensAtThreshold
<1>1. Init => Ordered /\ Counts
  BY ThresholdAssumption DEF Init, Ordered, Counts, InRound
<1>2. IInv /\ Ordered /\ [Next]_vars => Ordered'
  BY OrderedStep
<1>3. IInv /\ Ordered /\ Counts /\ [Next]_vars => Counts'
  BY CountsStep
<1>4. IInv /\ Ordered /\ Counts /\ [Next]_vars =>
        [Len(inc') > Len(inc) /\ blind = "no" =>
           LET start == inc'[Len(inc')].start
           IN  /\ Len(checks) = Threshold
               /\ \A k \in DOMAIN checks : ~checks[k].ok
               /\ start <= checks[1].at
               /\ start >= LastIncidentEnd]_vars
  BY OpensRightly
<1> QED BY <1>1, <1>2, <1>3, <1>4, Invariant, PTL DEF Spec, OpensAtThreshold
=============================================================================
