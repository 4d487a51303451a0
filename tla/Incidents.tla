----------------------------- MODULE Incidents -----------------------------
(***************************************************************************)
(* What the table incidents promises of one target, to the pages, to the   *)
(* mails and to restore: a log of incidents of which at most one, then the *)
(* last, is open.  An incident is opened once, ended once and not before   *)
(* its beginning, and not changed after that, save for the marks that its  *)
(* mails were sent, which are set and never taken back.  Incidents of a    *)
(* target only vanish together, with the target.  (Prune removes ended     *)
(* ones after hourlyKeep, 400 days; no behaviour here is as long as that.) *)
(*                                                                         *)
(* Alerting implements this specification, whatever fails in it.           *)
(***************************************************************************)
EXTENDS Naturals, Sequences

CONSTANT Times  \* the seconds of the clock

VARIABLE log  \* the incidents, oldest first; end = 0: open

Entry(start, end, down, up) == [start |-> start, end |-> end, down |-> down, up |-> up]

IsOpen(i) == i.end = 0

Opened ==
  /\ \A k \in DOMAIN log : ~IsOpen(log[k])
  /\ \E t \in Times : log' = Append(log, Entry(t, 0, FALSE, FALSE))

\* By a check that succeeds, or by a pause, which wants no more mails.
Ended ==
  \E k \in DOMAIN log, t \in Times :
    /\ IsOpen(log[k])
    /\ t >= log[k].start
    /\ \/ log' = [log EXCEPT ![k] = Entry(log[k].start, t, log[k].down, log[k].up)]
       \/ log' = [log EXCEPT ![k] = Entry(log[k].start, t, TRUE, TRUE)]

\* The mail of the outage was sent, or the one of the recovery, which there is
\* only for an incident that ended.
Mailed ==
  \E k \in DOMAIN log :
    \/ log' = [log EXCEPT ![k] = Entry(log[k].start, log[k].end, TRUE, log[k].up)]
    \/ /\ ~IsOpen(log[k])
       /\ log' = [log EXCEPT ![k] = Entry(log[k].start, log[k].end, log[k].down, TRUE)]

Dropped == log' = <<>>

Init == log = <<>>
Next == Opened \/ Ended \/ Mailed \/ Dropped
Spec == Init /\ [][Next]_log
=============================================================================
