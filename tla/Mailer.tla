------------------------------- MODULE Mailer -------------------------------
(***************************************************************************)
(* The Mailer (internal/alert/smtp.go): reserve, the limits on the number  *)
(* of mails, and send, the dialogue with the SMTP server.                  *)
(*                                                                         *)
(* Runners, the maintenance goroutine and the admin's testmail handler     *)
(* share one Mailer.  reserve reads the clock BEFORE it takes the mutex,   *)
(* so times may be appended out of order, and its loop only cuts a prefix  *)
(* of the list.  A sender waits less than Delay for the mutex, which is    *)
(* held for a few instructions.                                            *)
(*                                                                         *)
(* The server may answer a call, refuse it, or fall silent at any moment;  *)
(* the connection may break.  A dialogue has 15 seconds for its connection *)
(* and 30 for the rest, so that the clock, of which a unit is a good part  *)
(* of an hour, does not move during one.  A sender address or a message    *)
(* that cannot be built ends send before reserve and changes nothing.      *)
(***************************************************************************)
EXTENDS Naturals, Sequences, FiniteSets

CONSTANTS
  Senders,  \* goroutines that send mails
  Kinds,    \* "alert" and "test": the lists sent and sentTest
  Limit,    \* Limit[k]: perHour and perHourTest
  Hour,     \* time.Hour
  Delay,    \* bound on the time between reading the clock and having the mutex
  To,       \* number of recipients
  MaxTime,  \* bound on the clock
  None

ASSUME HourAssumption  == Hour \in Nat \ {0} /\ Delay \in 0 .. Hour /\ MaxTime \in Nat
ASSUME LimitAssumption == Limit \in [Kinds -> Nat \ {0}] /\ None \notin Kinds
ASSUME MailAssumption  == To \in Nat \ {0}

VARIABLES
  now,     \* the clock
  sent,    \* m.sent and m.sentTest
  spc,     \* where a sender is
  kind,    \* the kind of mail reserve decides on
  time,    \* the clock as it read it
  grants,  \* when mails of each kind were let through
  rcpt,    \* recipients the server accepted in this dialogue
  taken    \* recipients it took the message for

smtp == <<rcpt, taken>>
vars == <<now, sent, spc, kind, time, grants, smtp>>

-----------------------------------------------------------------------------
\* send comes to reserve, which reads the clock.
Begin(s, k) ==
  /\ spc[s] = "idle"
  /\ spc' = [spc EXCEPT ![s] = "lock"]
  /\ kind' = [kind EXCEPT ![s] = k]
  /\ time' = [time EXCEPT ![s] = now]
  /\ UNCHANGED <<now, sent, grants, smtp>>

Old(t, s) == t + Hour <= time[s]

\* Mutant of Kept: the list is emptied once its first entry is old.
KeptNone(list, s) == IF list # <<>> /\ Old(Head(list), s) THEN <<>> ELSE list

\* The loop: entries that are an hour old go, up to the first that is not.
Kept(list, s) ==
  LET cut == {i \in 0 .. Len(list) : \A j \in 1 .. i : Old(list[j], s)}
      n   == CHOOSE i \in cut : \A j \in cut : j <= i
  IN  SubSeq(list, n + 1, Len(list))

\* Mutant of List: test mails count as alerts.
ListShared(s) == CHOOSE k \in Kinds : \A j \in Kinds : Limit[j] <= Limit[k]

\* The list a mail counts for.
List(s) == kind[s]

\* send returns.
Done(s) == /\ spc' = [spc EXCEPT ![s] = "idle"]
           /\ kind' = [kind EXCEPT ![s] = None]
           /\ time' = [time EXCEPT ![s] = 0]
           /\ rcpt' = [rcpt EXCEPT ![s] = 0]
           /\ taken' = [taken EXCEPT ![s] = 0]
           /\ now' = now

Full(list, k) == Len(list) >= Limit[k]

\* The mutex is free and the list is full: ErrLimit.
Refuse(s) ==
  LET k == List(s)  list == Kept(sent[k], s) IN
  /\ spc[s] = "lock"
  /\ Full(list, kind[s])
  /\ sent' = [sent EXCEPT ![k] = list]
  /\ Done(s)
  /\ grants' = grants

\* The mutex is free and the mail is let through.  Whether it then reaches the
\* server makes no difference to the list.
Grant(s) ==
  LET k == List(s)  list == Kept(sent[k], s) IN
  /\ spc[s] = "lock"
  /\ ~Full(list, kind[s])
  /\ sent' = [sent EXCEPT ![k] = Append(list, time[s])]
  /\ grants' = [grants EXCEPT ![kind[s]] = Append(@, now)]
  /\ spc' = [spc EXCEPT ![s] = "dial"]
  /\ kind' = [kind EXCEPT ![s] = None]
  /\ time' = [time EXCEPT ![s] = 0]
  /\ UNCHANGED <<now, smtp>>

-----------------------------------------------------------------------------
(* send after reserve.                                                     *)

\* The calls up to the message itself, in their order; the last of the
\* recipients leads on to the message.
Follows(s) ==
  CASE spc[s] = "dial" -> "talk"
    [] spc[s] = "talk" -> "rcpt"
    [] spc[s] = "rcpt" -> IF rcpt[s] + 1 < To THEN "rcpt" ELSE "data"

Calls == {"dial", "talk", "rcpt"}

\* DialContext; NewClient, Auth and Mail; or Rcpt: the server agrees.
Call(s) ==
  /\ spc[s] \in Calls
  /\ spc' = [spc EXCEPT ![s] = Follows(s)]
  /\ rcpt' = [rcpt EXCEPT ![s] = IF spc[s] = "rcpt" THEN @ + 1 ELSE @]
  /\ UNCHANGED <<now, sent, kind, time, grants, taken>>

\* Data, Write and Close: the server takes the message for the recipients it
\* accepted.  Its answer arrives ("quit") or does not ("lost").
Take(s, there) ==
  /\ spc[s] = "data"
  /\ taken' = [taken EXCEPT ![s] = rcpt[s]]
  /\ spc' = [spc EXCEPT ![s] = there]
  /\ UNCHANGED <<now, sent, kind, time, grants, rcpt>>

\* Mutant of CallFails: a recipient the server refuses is left out.
CallFailsButRcpt(s) ==
  /\ spc[s] \in Calls \cup {"data", "lost", "late"}
  /\ IF spc[s] = "rcpt"
     THEN /\ spc' = [spc EXCEPT ![s] = "data"]
          /\ UNCHANGED <<now, kind, time, smtp>>
     ELSE Done(s)
  /\ UNCHANGED <<sent, grants>>

\* A call fails: the server refuses, or the connection does.  send returns the
\* error.
CallFails(s) ==
  /\ spc[s] \in Calls \cup {"data", "lost", "late"}
  /\ Done(s)
  /\ UNCHANGED <<sent, grants>>

\* Quit, whatever comes of it: send returns nil.
Quit(s) ==
  /\ spc[s] = "quit"
  /\ Done(s)
  /\ UNCHANGED <<sent, grants>>

\* Mutant of Timed: only the dialer has a timeout.
TimedDial == {"dial"}

\* The calls a timeout ends: the dialer's, and then the connection's deadline.
Timed == Calls \cup {"data", "lost"}

\* The time is up, or the context is done and AfterFunc closes the connection:
\* the call can only fail now.
Expire(s) ==
  /\ spc[s] \in Timed
  /\ spc' = [spc EXCEPT ![s] = "late"]
  /\ rcpt' = [rcpt EXCEPT ![s] = 0]
  /\ UNCHANGED <<now, sent, kind, time, grants, taken>>

\* Nobody waits longer than Delay for the mutex, and no dialogue takes long.
Tick ==
  /\ now < MaxTime
  /\ \A s \in Senders : spc[s] \in {"idle", "lock"}
  /\ \A s \in Senders : spc[s] = "lock" => now < time[s] + Delay
  /\ now' = now + 1
  /\ UNCHANGED <<sent, spc, kind, time, grants, smtp>>

Init ==
  /\ now = 0
  /\ sent = [k \in Kinds |-> <<>>]
  /\ spc = [s \in Senders |-> "idle"]
  /\ kind = [s \in Senders |-> None]
  /\ time = [s \in Senders |-> 0]
  /\ grants = [k \in Kinds |-> <<>>]
  /\ rcpt = [s \in Senders |-> 0]
  /\ taken = [s \in Senders |-> 0]

Send(s) == \/ Grant(s) \/ Refuse(s) \/ Call(s) \/ CallFails(s) \/ Quit(s) \/ Expire(s)
           \/ \E there \in {"quit", "lost"} : Take(s, there)
           \/ \E k \in Kinds : Begin(s, k)

Next == Tick \/ \E s \in Senders : Send(s)

Spec == Init /\ [][Next]_vars

\* The mutex is handed on, timers fire, and a call whose time is up returns
\* (as Quit does, answered or not).  That the server answers is not assumed.
FairSpec == /\ Spec
            /\ \A s \in Senders : /\ WF_vars(Grant(s) \/ Refuse(s))
                                  /\ WF_vars(Expire(s))
                                  /\ WF_vars(spc[s] = "late" /\ CallFails(s))
                                  /\ WF_vars(Quit(s))

-----------------------------------------------------------------------------
(* Properties.                                                             *)

\* In no span of an hour, less the Delay, are more mails of a kind let through
\* than its limit allows, although stale times are appended and compared.
HourlyLimit ==
  \A k \in Kinds, t \in 0 .. MaxTime :
    Cardinality({i \in DOMAIN grants[k] :
                   t <= grants[k][i] /\ grants[k][i] + Delay < t + Hour}) <= Limit[k]

\* A mail is refused only when the limit of its own kind is really used up:
\* that many mails were let through during the last hour and the Delay.  An
\* entry stuck behind a younger one does not block longer than that, and test
\* mails never use up the limit of alerts.
RefusedOnlyWhenFull ==
  [][\A s \in Senders : Refuse(s) =>
       Cardinality({i \in DOMAIN grants[kind[s]] :
                      grants[kind[s]][i] + Hour + Delay > time[s]}) >= Limit[kind[s]]]_vars

\* A mail goes to all recipients or to none, and when send returns nil, upon
\* which the incident is marked as mailed for good, it went to all: one refused
\* recipient, a silent server or a late answer never leaves somebody out.
AllOrNobody ==
  \A s \in Senders : taken[s] \in {0, To} /\ (spc[s] = "quit" => taken[s] = To)

\* send returns, wherever in the dialogue the server falls silent: a runner, the
\* maintenance goroutine and the shutdown wait for it.
SendEnds == \A s \in Senders : spc[s] # "idle" ~> spc[s] = "idle"
=============================================================================
