------------------------------ MODULE Alerting ------------------------------
(***************************************************************************)
(* From failed checks to incidents and mails: restore, round and notify of *)
(* internal/monitor/scheduler.go, next of internal/monitor/state.go, retry *)
(* of internal/monitor/maintenance.go and the statements of                *)
(* internal/store/incidents.go and checks.go they use.                     *)
(*                                                                         *)
(* The module follows ONE target id.  Scheduler shows that an id has at    *)
(* most one runner and that Reload and Delete wait for it to end, so here  *)
(* there is one runner (or none) and one admin operation at a time, of     *)
(* which the steps are: write the row, stop the runner, wait for it, act.  *)
(* The maintenance goroutine takes no lock and interleaves with all this.  *)
(*                                                                         *)
(* Time is in seconds, as stored; two events may share a second.  Of the   *)
(* checks table only the last Threshold rows are kept, the ones LastChecks *)
(* reads.  st.fails is cut off at Threshold, the only value next compares  *)
(* it with.  An incident carries a number uid the code does not have: row  *)
(* ids (here the index in inc) are reused after a delete, uids are not.    *)
(***************************************************************************)
EXTENDS Naturals, Sequences, FiniteSets

CONSTANTS
  Threshold,     \* fail_threshold of the target
  MailEnabled,   \* m.mail # nil: SMTP_HOST and MAIL_TO are set
  MaxTime,       \* bound on the clock
  MaxIncidents,  \* bound on the incidents of a behaviour
  Faults,        \* TRUE: statements of the database may fail, but for MarkMailed
  MarkFaults,    \* TRUE: MarkMailed may fail
  Crashes,       \* TRUE: the process may be killed and started again
  Deletes,       \* TRUE: the target may be deleted and created again
  RetryWindow    \* retryWindow: retry leaves out what began or ended earlier

ASSUME ThresholdAssumption == Threshold \in Nat \ {0}
ASSUME BoundAssumption     == MaxTime \in Nat \ {0} /\ MaxIncidents \in Nat
ASSUME SwitchAssumption    == {MailEnabled, Faults, MarkFaults, Crashes, Deletes} \subseteq BOOLEAN
ASSUME WindowAssumption    == RetryWindow \in Nat

VARIABLES
  now,        \* the clock
  row,        \* the target's row: "none", "active" or "paused"
  checks,     \* its last Threshold checks, oldest first
  inc,        \* its incidents by row id; end = 0: open
  born,       \* incidents opened so far, the last uid
  up,         \* the process runs
  pc,         \* where the runner is
  st,         \* its state struct
  cur,        \* the check under way
  mail,       \* the mail it sends: row id, uid, TRUE for a recovery
  cancelled,  \* its context is cancelled
  apc,        \* where the admin operation is
  aop,        \* which one it is
  mpc,        \* where retry is
  list,       \* the mails of this pass still to be looked at
  pending,    \* m.pending: triples <<incident, up, retried>>
  fresh,      \* the map that replaces m.pending after this pass
  early,      \* the runner's mail was already under way when the last pass began
  sent,       \* mails the SMTP server accepted: <<uid, up>>
  twice,      \* mails it accepted again
  unsure,     \* mails accepted but not marked as mailed, and mails of the runner
              \* during which two passes of retry began
  tried,      \* mails retry handed to the server in this process
  blind,      \* what failed statements keep from the runner: "no"thing, part of
              \* the "series" of failures, or the open "incident"
  pausedAt,   \* when Reload last found the target paused after a failed check, 0 if
              \* a check succeeded since (recorded where no statement fails)
  cut         \* a Reload that should have ended an incident was cut short

store  == <<row, checks, inc, born>>
runner == <<pc, st, cur, mail, cancelled, blind>>
admin  == <<apc, aop, cut>>
upkeep == <<mpc, list, pending, fresh, early>>
post   == <<sent, twice, unsure, tried>>
clock  == <<now, pausedAt>>
vars   == <<clock, store, up, runner, admin, upkeep, post>>

NoState == [fails |-> 0, firstFail |-> 0, open |-> FALSE, startedAt |-> 0, incident |-> 0]
NoCheck == [at |-> 0, ok |-> TRUE]
NoMail  == [id |-> 0, uid |-> 0, up |-> FALSE]

-----------------------------------------------------------------------------
(* The statements of internal/store.                                       *)

OpenIds == {i \in DOMAIN inc : inc[i].end = 0}

\* LastIncidentEnd; 0 stands for the zero time.
LastIncidentEnd ==
  LET ends == {inc[i].end : i \in DOMAIN inc} \cup {0}
  IN  CHOOSE e \in ends : \A f \in ends : f <= e

InsertCheck(c) ==
  checks' = Append(IF Len(checks) = Threshold THEN Tail(checks) ELSE checks, c)

Incident(start) == [uid |-> born + 1, start |-> start, end |-> 0, by |-> "",
                    md |-> FALSE, mu |-> FALSE]

\* ClosePausedIncident: the incident ends and counts as mailed.
ClosedByPause(i) == [i EXCEPT !.end = now, !.by = "pause", !.md = TRUE, !.mu = TRUE]

\* Mutant of Marked: one statement for both flags.
MarkedBoth(i, recovery) == [i EXCEPT !.md = TRUE, !.mu = TRUE]

\* MarkMailed, which for a recovery wants an ended incident.
Marked(i, recovery) == IF ~recovery THEN [i EXCEPT !.md = TRUE]
                       ELSE IF i.end # 0 THEN [i EXCEPT !.mu = TRUE] ELSE i

\* Not before the beginning of retryWindow.
Recent(at) == at + RetryWindow >= now

\* UnmailedIncidents and the entries retry does not skip, as mails.
Unmailed == {i \in DOMAIN inc : \/ ~inc[i].md /\ Recent(inc[i].start)
                                \/ inc[i].end # 0 /\ ~inc[i].mu /\ Recent(inc[i].end)}

Due == {[id |-> i, uid |-> inc[i].uid, up |-> inc[i].end # 0] :
          i \in {j \in Unmailed : ~(inc[j].end # 0 /\ inc[j].mu)}}

-----------------------------------------------------------------------------
(* state.go                                                                *)

next(s, ok, at) ==
  LET fails == IF s.fails < Threshold THEN s.fails + 1 ELSE s.fails
      first == IF s.fails = 0 THEN at ELSE s.firstFail
      down  == ~s.open /\ fails >= Threshold
  IN IF ok THEN [ev |-> IF s.open THEN "up" ELSE "none",
                 st |-> [s EXCEPT !.fails = 0, !.firstFail = 0, !.open = FALSE]]
     ELSE [ev |-> IF down THEN "down" ELSE "none",
           st |-> [fails |-> fails, firstFail |-> first, open |-> s.open \/ down,
                   startedAt |-> IF down THEN first ELSE s.startedAt,
                   incident |-> s.incident]]

-----------------------------------------------------------------------------
(* The runner.                                                             *)

Tick ==
  /\ now < MaxTime
  /\ now' = now + 1
  /\ UNCHANGED <<store, up, runner, admin, upkeep, post, pausedAt>>

\* Mutant of Series: failures before the last incident's end count again.
SeriesOfFailures(rows, end) ==
  {k \in DOMAIN rows : \A j \in k .. Len(rows) : ~rows[j].ok}

\* restore's loop: the failures after the last incident's end, counted from
\* the newest back.
Series(rows, end) ==
  {k \in DOMAIN rows : \A j \in k .. Len(rows) : ~rows[j].ok /\ rows[j].at > end}

\* A query's result: its value, or what stands for an error the code logs.
Query(value, failed) == {value} \cup (IF Faults \/ cancelled THEN {failed} ELSE {})

\* restore: the open incident, the end of the last one and the last checks.
Restore ==
  /\ pc = "restore"
  /\ \E ids \in Query(OpenIds, {}), end \in Query(LastIncidentEnd, 0),
        rows \in Query(checks, <<>>) :
       /\ blind' = IF ids # OpenIds THEN "incident"
                   ELSE IF Series(rows, end) # Series(checks, LastIncidentEnd) THEN "series"
                   ELSE "no"
       /\ LET fails == Series(rows, end)
              first == CHOOSE k \in fails : \A j \in fails : k <= j
              id    == CHOOSE i \in ids : TRUE
          IN st' = [fails     |-> Cardinality(fails),
                    firstFail |-> IF fails = {} THEN 0 ELSE rows[first].at,
                    open      |-> ids # {},
                    startedAt |-> IF ids = {} THEN 0 ELSE inc[id].start,
                    incident  |-> IF ids = {} THEN 0 ELSE id]
  /\ pc' = "idle"
  /\ UNCHANGED <<clock, store, up, cur, mail, cancelled, admin, upkeep,
                 post>>

\* run: the context is done.
Exit ==
  /\ pc = "idle"
  /\ cancelled
  /\ pc' = "off"
  /\ st' = NoState
  /\ blind' = "no"
  /\ UNCHANGED <<clock, store, up, cur, mail, cancelled, admin, upkeep,
                 post>>

\* round: the time of the check is taken before it runs.
StartCheck ==
  /\ pc = "idle"
  /\ pc' = "check"
  /\ cur' = [at |-> now, ok |-> TRUE]
  /\ UNCHANGED <<clock, store, up, st, mail, cancelled, blind, admin, upkeep, post>>

\* Bound: when no further incident may be born, checks succeed.
Result == IF born < MaxIncidents \/ OpenIds # {} THEN BOOLEAN ELSE {TRUE}

\* round: the result of a check whose context ended is not used.
FinishCheck(ok) ==
  /\ pc = "check"
  /\ IF cancelled THEN pc' = "idle" /\ cur' = NoCheck
                  ELSE pc' = "insert" /\ cur' = [cur EXCEPT !.ok = ok]
  /\ UNCHANGED <<clock, store, up, st, mail, cancelled, blind, admin, upkeep, post>>

\* InsertCheck; a failure is logged.  The series begins anew with a success.
Insert ==
  /\ pc = "insert"
  /\ \/ /\ InsertCheck(cur)
        /\ blind' = IF blind = "series" /\ cur.ok THEN "no" ELSE blind
     \/ /\ Faults
        /\ checks' = checks
        /\ blind' = IF blind = "no" /\ ~cur.ok THEN "series" ELSE blind
  /\ pc' = "decide"
  /\ pausedAt' = IF cur.ok THEN 0 ELSE pausedAt
  /\ UNCHANGED <<now, row, inc, born, up, st, cur, mail, cancelled, admin, upkeep, post>>

Event(ev) == pc = "decide" /\ next(st, cur.ok, cur.at).ev = ev

NewState == next(st, cur.ok, cur.at).st

EndRound(s) == pc' = "idle" /\ st' = s /\ cur' = NoCheck

Quiet ==
  /\ Event("none")
  /\ EndRound(NewState)
  /\ UNCHANGED <<clock, store, up, mail, cancelled, blind, admin, upkeep, post>>

\* notify begins; without a mailer it is over at once.
Notify(m) == IF MailEnabled THEN pc' = "mail" /\ mail' = m /\ cur' = cur
                            ELSE pc' = "idle" /\ mail' = mail /\ cur' = NoCheck

\* Mutant of NoneOpen: the insert has no "where not exists".
NoneOpenUnchecked == TRUE

\* OpenIncident inserts a row only if none is open.
NoneOpen == OpenIds = {}

Open ==
  /\ Event("down")
  /\ NoneOpen
  /\ inc' = Append(inc, Incident(NewState.startedAt))
  /\ born' = born + 1
  /\ st' = [NewState EXCEPT !.incident = Len(inc) + 1]
  /\ Notify([id |-> Len(inc) + 1, uid |-> born + 1, up |-> FALSE])
  /\ UNCHANGED <<clock, row, checks, up, cancelled, blind, admin, upkeep, post>>

\* ErrIncidentOpen: the open incident is taken over, without a mail.
Adopt ==
  /\ Event("down")
  /\ \E i \in OpenIds : EndRound([NewState EXCEPT !.startedAt = inc[i].start, !.incident = i])
  /\ blind' = "no"
  /\ UNCHANGED <<clock, store, up, mail, cancelled, admin, upkeep, post>>

\* After a failed OpenIncident the next failure tries again.
OpenedNot(s) == [s EXCEPT !.open = FALSE]

OpenFails ==
  /\ Faults
  /\ Event("down")
  /\ EndRound(OpenedNot(NewState))
  /\ UNCHANGED <<clock, store, up, mail, cancelled, blind, admin, upkeep, post>>

\* CloseIncident; that the incident is not open any more is no error.
Close ==
  /\ Event("up")
  /\ inc' = [i \in DOMAIN inc |-> IF i = st.incident /\ i \in OpenIds
                                  THEN [inc[i] EXCEPT !.end = cur.at, !.by = "check"]
                                  ELSE inc[i]]
  /\ Notify([id  |-> st.incident,
             uid |-> IF st.incident \in DOMAIN inc THEN inc[st.incident].uid ELSE 0,
             up  |-> TRUE])
  /\ st' = NewState
  /\ UNCHANGED <<clock, row, checks, born, up, cancelled, blind, admin, upkeep,
                 post>>

\* After a failed CloseIncident the next success tries again.
ClosedNot(s) == [s EXCEPT !.open = TRUE]

CloseFails ==
  /\ Faults
  /\ Event("up")
  /\ EndRound(ClosedNot(NewState))
  /\ UNCHANGED <<clock, store, up, mail, cancelled, blind, admin, upkeep, post>>

-----------------------------------------------------------------------------
(* notify, for the runner and for retry.                                   *)

\* What m.mail may do: succeed; fail with ErrLimit before anything is sent;
\* fail; or fail although the server took the message (its answer was lost).
Outcomes == {"ok", "limit", "error", "doubt"}

Key(m) == <<m.uid, m.up>>

Deliver(m, o) ==
  LET taken == IF o \in {"ok", "doubt"} THEN {Key(m)} ELSE {}
  IN  /\ sent' = sent \cup taken
      /\ twice' = twice \cup (sent \cap taken)
      /\ unsure' = unsure \cup (IF o = "doubt" THEN taken ELSE {})

\* MarkMailed on whatever incident has the row id now.  No such row, or an
\* error: the mail was sent and is not marked.
Mark(m) ==
  \/ /\ m.id \in DOMAIN inc
     /\ inc' = [inc EXCEPT ![m.id] = Marked(@, m.up)]
     /\ unsure' = unsure
  \/ /\ MarkFaults \/ m.id \notin DOMAIN inc
     /\ inc' = inc
     /\ unsure' = unsure \cup {Key(m)}

RunnerMail(o) ==
  /\ pc = "mail"
  /\ Deliver(mail, o)
  /\ IF o = "ok" THEN pc' = "mark" /\ UNCHANGED <<cur, mail>>
                 ELSE pc' = "idle" /\ cur' = NoCheck /\ mail' = NoMail
  /\ UNCHANGED <<clock, store, up, st, cancelled, blind, admin, mpc, list, pending,
                 fresh>>
  /\ tried' = tried
  /\ early' = (early /\ o = "ok")

RunnerMark ==
  /\ pc = "mark"
  /\ Mark(mail)
  /\ pc' = "idle"
  /\ cur' = NoCheck
  /\ mail' = NoMail
  /\ early' = FALSE
  /\ UNCHANGED <<clock, row, checks, born, up, st, cancelled, blind, admin, mpc,
                 list, pending, fresh, sent, twice, tried>>

-----------------------------------------------------------------------------
(* retry, called by the maintenance goroutine after each rollup.           *)

\* Of the mails still to be looked at, the one of the oldest row.
First == CHOOSE m \in list : \A o \in list : m.id <= o.id

\* UnmailedIncidents; when the query fails the pass is over.  Passes are five
\* minutes apart, but one that took longer is followed at once by the tick that
\* waited for it and soon by the next: a mail of the runner may see two begin.
RetryRead ==
  /\ MailEnabled
  /\ up
  /\ mpc = "idle"
  /\ list' = Due
  /\ fresh' = {}
  /\ mpc' = "loop"
  /\ early' = (pc \in {"mail", "mark"})
  /\ unsure' = unsure \cup {Key(mail) : x \in {early} \cap {TRUE}}
  /\ UNCHANGED <<clock, store, up, runner, admin, pending, sent, twice, tried>>

Entry(m, retried) == <<m.id, m.up, retried>>

\* Mutant of DueAgain: an entry is retried on every pass.
DueAlways(m) == {Entry(m, FALSE), Entry(m, TRUE)} \cap pending # {}

\* Mutant of DueAgain: an entry is retried when it is first seen.
DueAtOnce(m) == Entry(m, TRUE) \notin pending

\* Seen in the pass before and not retried yet.
DueAgain(m) == Entry(m, FALSE) \in pending

\* An entry that needs no mail in this pass.
RetrySkip ==
  LET m == First IN
  /\ mpc = "loop"
  /\ list # {}
  /\ ~DueAgain(m)
  /\ fresh' = fresh \cup {Entry(m, Entry(m, TRUE) \in pending)}
  /\ list' = list \ {First}
  /\ UNCHANGED <<clock, store, up, runner, admin, mpc, pending, early, post>>

\* Mutant of Settles: a mail refused by the limit counts as retried.
SettlesAlways(o) == TRUE

\* Only ErrLimit leaves the entry to the next pass.
Settles(o) == o # "limit"

RetryMail(o) ==
  LET m == First IN
  /\ mpc = "loop"
  /\ list # {}
  /\ DueAgain(m)
  /\ Deliver(m, o)
  /\ tried' = IF o = "limit" THEN tried ELSE tried \cup {Key(m)}
  /\ fresh' = fresh \cup {Entry(m, Settles(o))}
  /\ IF o = "ok" THEN mpc' = "mark" /\ list' = list
                 ELSE mpc' = "loop" /\ list' = list \ {First}
  /\ UNCHANGED <<clock, store, up, runner, admin, pending, early>>

RetryMark ==
  /\ mpc = "mark"
  /\ Mark(First)
  /\ mpc' = "loop"
  /\ list' = list \ {First}
  /\ UNCHANGED <<clock, row, checks, born, up, runner, admin, pending, fresh, early,
                 sent, twice, tried>>

\* m.pending = pending: keys that were not in the list are forgotten.
RetryDone ==
  /\ mpc = "loop"
  /\ list = {}
  /\ mpc' = "idle"
  /\ pending' = fresh
  /\ fresh' = {}
  /\ UNCHANGED <<clock, store, up, runner, admin, list, early, post>>

-----------------------------------------------------------------------------
(* Admin operations on the target: write the row, then Reload, or Delete.  *)

AdminBegin(op) == up /\ apc = "idle" /\ apc' = "stop" /\ aop' = op

\* CreateTarget, SetPaused or UpdateTarget.
WriteRow(r) ==
  /\ AdminBegin("reload")
  /\ row = "none" => Deletes
  /\ row' = r
  /\ UNCHANGED <<clock, checks, inc, born, up, runner, cut, upkeep, post>>

Remove ==
  /\ Deletes
  /\ row # "none"
  /\ AdminBegin("delete")
  /\ UNCHANGED <<clock, store, up, runner, cut, upkeep, post>>

\* stop: cancel the runner ...
Stop ==
  /\ apc = "stop"
  /\ apc' = "await"
  /\ cancelled' = (pc # "off")
  /\ UNCHANGED <<clock, store, up, pc, st, cur, mail, blind, aop, cut, upkeep, post>>

\* Mutant of Stopped: stop does not wait for the goroutine.
StoppedAtOnce == TRUE

\* ... and wait for its end.
Stopped == pc = "off"

Finish == apc' = "idle" /\ aop' = "reload"

\* The runner is started again: Reload, and Delete after a failed statement.
StartRunner ==
  /\ apc = "await"
  /\ Stopped
  /\ row = "active"
  /\ aop = "delete" => Faults
  /\ pc' = "restore"
  /\ cancelled' = FALSE
  /\ cut' = FALSE
  /\ Finish
  /\ UNCHANGED <<clock, store, up, st, cur, mail, blind, upkeep, post>>

\* A Reload of the paused target that ends now leaves its incident open.
CutShort == cut \/ (row = "paused" /\ apc # "idle" /\ aop = "reload" /\ OpenIds # {})

\* Reload of a paused target: ClosePausedIncident, which may fail.
ClosePaused ==
  /\ apc = "await"
  /\ Stopped
  /\ aop = "reload"
  /\ row = "paused"
  /\ \/ /\ inc' = [i \in DOMAIN inc |-> IF i \in OpenIds THEN ClosedByPause(inc[i]) ELSE inc[i]]
        /\ cut' = FALSE
     \/ Faults /\ inc' = inc /\ cut' = CutShort
  /\ cancelled' = FALSE
  /\ pausedAt' = IF Faults \/ Series(checks, 0) = {} THEN 0 ELSE now
  /\ Finish
  /\ UNCHANGED <<now, row, checks, born, up, pc, st, cur, mail, blind, upkeep,
                 post>>

\* Reload or Delete ends without a runner: an error of the database.
GiveUp ==
  /\ Faults
  /\ apc = "await"
  /\ Stopped
  /\ cancelled' = FALSE
  /\ cut' = CutShort
  /\ Finish
  /\ UNCHANGED <<clock, store, up, pc, st, cur, mail, blind, upkeep, post>>

\* DeleteTarget: checks and incidents go with the row.
DeleteRow ==
  /\ apc = "await"
  /\ Stopped
  /\ aop = "delete"
  /\ row' = "none"
  /\ checks' = <<>>
  /\ inc' = <<>>
  /\ cancelled' = FALSE
  /\ cut' = FALSE
  /\ pausedAt' = 0
  /\ Finish
  /\ UNCHANGED <<now, born, up, pc, st, cur, mail, blind, upkeep, post>>

-----------------------------------------------------------------------------
(* The process.                                                            *)

\* New and Start.
Boot ==
  /\ ~up
  /\ up' = TRUE
  /\ pc' = IF row = "active" THEN "restore" ELSE "off"
  /\ UNCHANGED <<clock, store, st, cur, mail, cancelled, blind, admin, upkeep,
                 post>>

\* Mails accepted whose flag is not written yet.
Unmarked == {Key(mail) : x \in {pc} \cap {"mark"}} \cup {Key(First) : x \in {mpc} \cap {"mark"}}

Crash ==
  /\ Crashes
  /\ up
  /\ up' = FALSE
  /\ pc' = "off" /\ st' = NoState /\ cur' = NoCheck /\ mail' = NoMail /\ cancelled' = FALSE
  /\ blind' = "no"
  /\ apc' = "idle" /\ aop' = "reload" /\ cut' = CutShort
  /\ mpc' = "idle" /\ list' = {} /\ pending' = {} /\ fresh' = {} /\ early' = FALSE
  /\ tried' = {}
  /\ unsure' = unsure \cup Unmarked
  /\ UNCHANGED <<clock, store, sent, twice>>

Init ==
  /\ now = 1 /\ pausedAt = 0
  /\ row = "active" /\ checks = <<>> /\ inc = <<>> /\ born = 0
  /\ up = FALSE
  /\ pc = "off" /\ st = NoState /\ cur = NoCheck /\ mail = NoMail /\ cancelled = FALSE
  /\ blind = "no"
  /\ apc = "idle" /\ aop = "reload" /\ cut = FALSE
  /\ mpc = "idle" /\ list = {} /\ pending = {} /\ fresh = {} /\ early = FALSE
  /\ sent = {} /\ twice = {} /\ unsure = {} /\ tried = {}

RunnerStep == \/ Restore \/ Exit \/ StartCheck \/ Insert \/ Quiet \/ Open \/ Adopt
              \/ OpenFails \/ Close \/ CloseFails \/ RunnerMark
              \/ \E ok \in Result : FinishCheck(ok)
              \/ \E o \in Outcomes : RunnerMail(o)

RetryStep == \/ RetryRead \/ RetrySkip \/ RetryMark \/ RetryDone
             \/ \E o \in Outcomes : RetryMail(o)

AdminStep == \/ Remove \/ Stop \/ StartRunner \/ ClosePaused \/ GiveUp \/ DeleteRow
             \/ \E r \in {"active", "paused"} : WriteRow(r)

Next == Tick \/ RunnerStep \/ RetryStep \/ AdminStep \/ Boot \/ Crash

Spec == Init /\ [][Next]_vars

(***************************************************************************)
(* Fairness: the ticker calls retry again and again, its query does not    *)
(* fail for ever, and each of its mails ends by the mailer's timeouts.     *)
(* Nothing is assumed of the limit of mails per hour, which all targets    *)
(* share and which may refuse every one of them.                           *)
(***************************************************************************)
FairSpec == Spec /\ WF_vars(RetryStep)

-----------------------------------------------------------------------------
(* Properties.                                                             *)

\* Between two rounds the runner's memory and the incidents table agree: it
\* believes in an open incident exactly when one is stored, and means that one.
\* Crashes, failed statements, pauses and a new target under the old id do not
\* separate them; only a failed query of restore hides an open incident.
MemoryMatches ==
  pc = "idle" /\ ~cancelled =>
    /\ st.open => OpenIds = {st.incident} /\ inc[st.incident].start = st.startedAt
    /\ ~st.open => blind = "incident" \/ OpenIds = {}

\* A paused target is left alone: it has no runner, and no open incident that
\* would stay open as long as the pause.  Only after a Reload that a failed
\* statement or a kill cut short one may remain, as Start skips paused targets;
\* the next Reload ends it.
PausedIsQuiet ==
  up /\ row = "paused" /\ apc = "idle" => pc = "off" /\ (OpenIds = {} \/ cut)

\* The incidents of a target, as the other parts of the program see them.
View(i) == [start |-> i.start, end |-> i.end, down |-> i.md, up |-> i.mu]

Logged == [i \in DOMAIN inc |-> View(inc[i])]

Log == INSTANCE Incidents WITH Times <- 1 .. MaxTime, log <- Logged

\* Whatever fails, crosses or is killed, the table keeps the promises of
\* Incidents: one open incident at most, ended once and not before it began,
\* marks that stay, and no incident changed or lost on the way.
KeepsLog == Log!Spec

\* README: an incident is opened only when as many checks as the threshold says
\* failed one after the other, and it begins with one of these failures, not
\* before the end of the last incident.  (Of the checks as stored: a failed
\* statement may keep some of them from the runner or from the table.)
OpensAtThreshold ==
  [][Len(inc') > Len(inc) /\ blind = "no" =>
       LET start == inc'[Len(inc')].start
       IN  /\ Len(checks) = Threshold
           /\ \A k \in DOMAIN checks : ~checks[k].ok
           /\ start <= checks[1].at
           /\ start >= LastIncidentEnd]_vars

\* No mail is sent twice unless its sender could not know or could not store
\* that it was sent, or two passes of retry began while the runner was sending
\* it: the pass that sees a mail for the first time leaves it to the runner.
NoDuplicate == twice \subseteq unsure

\* Within one process retry hands a mail to the server at most once; a mail the
\* limit refused was not handed over.
RetryOnce ==
  [][\A o \in Outcomes \ {"limit"} : RetryMail(o) => Key(First) \notin tried]_vars

\* The mail of recovery (r) or outage is due for incident u.
Wanting(u, r) ==
  /\ up
  /\ \E i \in DOMAIN inc :
       /\ inc[i].uid = u
       /\ r = (inc[i].end # 0)
       /\ IF r THEN ~inc[i].mu /\ inc[i].end + RetryWindow >= now
               ELSE ~inc[i].md /\ inc[i].start + RetryWindow >= now

\* Retry has come to this mail and hands it to the mailer next.
AtMail(u, r) == mpc = "loop" /\ list # {} /\ DueAgain(First) /\ Key(First) = <<u, r>>

\* As long as a mail is due and in the window, retry comes to it again and
\* again until the mailer takes it: neither a refusal by the hourly limit nor
\* the map that is rebuilt in every pass makes it forgotten.
MailAttempted ==
  \A u \in 1 .. MaxIncidents, r \in BOOLEAN :
    []<>(~Wanting(u, r) \/ <<u, r>> \in tried \/ AtMail(u, r))

\* mailed_down and mailed_up are only set on incidents whose mail was sent, or
\* which a pause ended.
FlagMeansSent ==
  \A i \in DOMAIN inc : inc[i].by # "pause" =>
    /\ inc[i].md => <<inc[i].uid, FALSE>> \in sent
    /\ inc[i].mu => <<inc[i].uid, TRUE>> \in sent

\* Failures from before a pause do not count after it: no incident begins before
\* the last time the target was paused.
SeriesAfterPause ==
  [][Len(inc') > Len(inc) => inc'[Len(inc')].start >= pausedAt]_vars
=============================================================================
