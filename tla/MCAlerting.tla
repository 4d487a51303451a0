----------------------------- MODULE MCAlerting -----------------------------
(* Instances of Alerting for TLC.                                          *)
EXTENDS Alerting

\* States with the same future count as one.  What a runner remembers of an
\* incident that is not open is overwritten before it is read, and of the stored
\* checks only the failures since the last success are read.
Remembered == IF st.open THEN st ELSE [st EXCEPT !.startedAt = 0, !.incident = 0]

Failures == SelectSeq([k \in 1 .. Len(checks) |-> IF k \in Series(checks, 0) THEN checks[k].at ELSE 0],
                      LAMBDA at : at # 0)

SameFuture == <<clock, row, Failures, inc, born, up, pc, Remembered, cur, mail, cancelled, blind,
                admin, upkeep, post>>
=============================================================================
