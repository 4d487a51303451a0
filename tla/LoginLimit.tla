----------------------------- MODULE LoginLimit -----------------------------
(***************************************************************************)
(* The limits on logins: limiter.take and limiter.forgive of               *)
(* internal/web/limit.go and the part of the handler login of              *)
(* internal/web/admin.go that uses them and the two slots for password     *)
(* checks (server.verify).                                                 *)
(*                                                                         *)
(* take and forgive hold the limiter's mutex; the clock is read before     *)
(* take has it, at most Delay earlier, and the password check between the  *)
(* two takes any time.  The flag warned only decides what is logged and is *)
(* left out, and so is the session a successful login gets.                *)
(***************************************************************************)
EXTENDS Integers, Sequences, FiniteSets

CONSTANTS
  IPs,      \* addresses logins come from
  Logins,   \* goroutines that serve login requests
  Window,   \* loginWindow
  PerIP,    \* loginPerIP
  Global,   \* loginGlobal
  MaxIPs,   \* loginIPs: addresses the limiter keeps at once
  Slots,    \* capacity of server.verify
  Delay,    \* bound on the age of the clock that take uses
  MaxTime,  \* bound on the clock
  MaxRight, \* bound on the right passwords in a global window
  None

ASSUME LimitAssumption == {Window, PerIP, Global, MaxIPs, Slots} \subseteq Nat \ {0}
ASSUME BoundAssumption == {Delay, MaxTime, MaxRight} \subseteq Nat
ASSUME NullAssumption  == None \notin IPs /\ None \notin [start : Int, n : Nat]

VARIABLES
  now,      \* the clock
  ips,      \* l.ips: the window of an address, or None
  global,   \* l.global
  swept,    \* l.swept
  verify,   \* tokens in server.verify
  lpc,      \* where a login is
  ip,       \* its address
  time,     \* the clock as it read it
  known,    \* it comes from a known device
  tries,    \* logins of an address let through since its last success: their times
  granted,  \* logins let through in the running global window
  forgiven  \* logins that succeeded in it

limiter == <<ips, global, swept>>
login   == <<lpc, ip, time, known>>
ghost   == <<tries, granted, forgiven>>
vars    == <<now, limiter, verify, login, ghost>>

Goto(l, here, there) == lpc[l] = here /\ lpc' = [lpc EXCEPT ![l] = there]

\* The handler returns.
Forget(l) ==
  /\ lpc' = [lpc EXCEPT ![l] = "idle"]
  /\ ip' = [ip EXCEPT ![l] = None]
  /\ time' = [time EXCEPT ![l] = 0]
  /\ known' = [known EXCEPT ![l] = FALSE]

-----------------------------------------------------------------------------
(* take                                                                    *)

\* Mutant of Over: a window lasts one unit longer.
OverLate(w, t) == t - w.start > Window

Over(w, t) == t - w.start >= Window

Kept == {a \in IPs : ips[a] # None}

\* Mutant of Swept: a full table is emptied.
SweptAll(t) ==
  IF t - swept >= Window \/ Cardinality(Kept) >= MaxIPs
  THEN [ips |-> [a \in IPs |-> None], at |-> t]
  ELSE [ips |-> ips, at |-> swept]

\* Old windows go when the last sweep is a window ago or the table is full.
Swept(t) ==
  IF t - swept >= Window \/ Cardinality(Kept) >= MaxIPs
  THEN [ips |-> [a \in IPs |-> IF ips[a] = None \/ Over(ips[a], t) THEN None ELSE ips[a]],
        at |-> t]
  ELSE [ips |-> ips, at |-> swept]

\* The global window, renewed when it is over.
Renewed(t) == IF Over(global, t) THEN [start |-> t, n |-> 0] ELSE global

\* The table, the address's window and the global window take decides on.
Table(l) == Swept(time[l]).ips

Own(l) == IF Table(l)[ip[l]] = None \/ Over(Table(l)[ip[l]], time[l])
          THEN None ELSE Table(l)[ip[l]]

\* The three reasons to refuse.
OwnFull(l)    == Own(l) # None /\ Own(l).n >= PerIP
GlobalFull(l) == ~known[l] /\ Renewed(time[l]).n >= Global
TableFull(l)  == Own(l) = None /\ Cardinality({a \in IPs : Table(l)[a] # None}) >= MaxIPs

\* How long take tells the client to wait.  The handler goes on to the password
\* check if and only if this is not positive.
Wait(l) == CASE OwnFull(l) -> Own(l).start + Window - time[l]
             [] ~OwnFull(l) /\ GlobalFull(l) -> Renewed(time[l]).start + Window - time[l]
             [] ~OwnFull(l) /\ ~GlobalFull(l) /\ TableFull(l) -> Window
             [] OTHER -> 0

\* take returns.  Counting and letting through are two decisions: the first is
\* taken here, the second by the handler, which looks at the time to wait.
Take(l) ==
  LET t == time[l]  w == Own(l)  g == Renewed(t)
      n == IF w = None THEN [start |-> t, n |-> 1] ELSE [w EXCEPT !.n = @ + 1]
  IN
  /\ lpc[l] = "take"
  /\ swept' = Swept(t).at
  /\ IF OwnFull(l) \/ GlobalFull(l) \/ TableFull(l)
     THEN ips' = Table(l) /\ global' = g
     ELSE /\ ips' = [Table(l) EXCEPT ![ip[l]] = n]
          /\ global' = [g EXCEPT !.n = @ + 1]
  /\ IF Wait(l) > 0
     THEN /\ Forget(l)
          /\ tries' = tries
     ELSE /\ Goto(l, "take", "slot")
          /\ tries' = [tries EXCEPT ![ip[l]] = Append(@, t)]
          /\ UNCHANGED <<ip, time, known>>
  /\ granted' = (IF g = global THEN granted ELSE 0) + (IF Wait(l) > 0 THEN 0 ELSE 1)
  /\ forgiven' = IF g = global THEN forgiven ELSE 0
  /\ UNCHANGED <<now, verify>>

-----------------------------------------------------------------------------
(* login                                                                   *)

\* The form is complete, the device is looked up, the clock is read.
Arrive(l, a, k) ==
  /\ Goto(l, "idle", "take")
  /\ ip' = [ip EXCEPT ![l] = a]
  /\ time' = [time EXCEPT ![l] = now]
  /\ known' = [known EXCEPT ![l] = k]
  /\ UNCHANGED <<now, limiter, verify, ghost>>

Acquire(l) ==
  /\ Goto(l, "slot", "verify")
  /\ verify < Slots
  /\ verify' = verify + 1
  /\ UNCHANGED <<now, limiter, ip, time, known, ghost>>

\* The client leaves while it waits for a slot.
Abandon(l) ==
  /\ lpc[l] = "slot"
  /\ Forget(l)
  /\ UNCHANGED <<now, limiter, verify, ghost>>

\* Mutant of Reject: an early return without the deferred release.
RejectKeepsSlot(l) ==
  /\ lpc[l] = "verify"
  /\ Forget(l)
  /\ UNCHANGED <<now, limiter, verify, ghost>>

\* checkLogin: a wrong name or password, or an error of the database.
Reject(l) ==
  /\ lpc[l] = "verify"
  /\ verify' = verify - 1
  /\ Forget(l)
  /\ UNCHANGED <<now, limiter, ghost>>

\* Mutant of Forgiven: a success resets the global count.
ForgivenAll(n) == 0

Forgiven(n) == IF n > 0 THEN n - 1 ELSE 0

\* The password is right: forgive.
Forgive(l) ==
  /\ Goto(l, "verify", "finish")
  /\ forgiven < MaxRight
  /\ ips' = [ips EXCEPT ![ip[l]] = None]
  /\ global' = [global EXCEPT !.n = Forgiven(@)]
  /\ tries' = [tries EXCEPT ![ip[l]] = <<>>]
  /\ forgiven' = forgiven + 1
  /\ UNCHANGED <<now, swept, verify, ip, time, known, granted>>

\* The session is made, or fails to be; the slot is given back.
Finish(l) ==
  /\ lpc[l] = "finish"
  /\ verify' = verify - 1
  /\ Forget(l)
  /\ UNCHANGED <<now, limiter, ghost>>

Tick ==
  /\ now < MaxTime
  /\ \A l \in Logins : lpc[l] = "take" => now < time[l] + Delay
  /\ now' = now + 1
  /\ UNCHANGED <<limiter, verify, login, ghost>>

\* The windows begin at the zero time, long ago.
Init ==
  /\ now = 0
  /\ ips = [a \in IPs |-> None]
  /\ global = [start |-> -Window, n |-> 0]
  /\ swept = -Window
  /\ verify = 0
  /\ lpc = [l \in Logins |-> "idle"]
  /\ ip = [l \in Logins |-> None]
  /\ time = [l \in Logins |-> 0]
  /\ known = [l \in Logins |-> FALSE]
  /\ tries = [a \in IPs |-> <<>>]
  /\ granted = 0
  /\ forgiven = 0

Handle(l) == Take(l) \/ Acquire(l) \/ Abandon(l) \/ Reject(l) \/ Forgive(l) \/ Finish(l)

Next == \/ \E l \in Logins : Handle(l) \/ \E a \in IPs, k \in BOOLEAN : Arrive(l, a, k)
        \/ Tick

Spec == Init /\ [][Next]_vars

-----------------------------------------------------------------------------
(* Properties.                                                             *)

\* Every login whose password is checked was counted, at every boundary of the
\* windows: take never refuses with a time to wait of zero, which the handler
\* would take for leave to go on.
LetThroughIsCounted ==
  [][\A l \in Logins : lpc[l] = "take" /\ lpc'[l] = "slot" =>
       /\ ips'[ip[l]] # None
       /\ ips'[ip[l]].n = (IF Own(l) = None THEN 0 ELSE Own(l).n) + 1
       /\ global'.n = Renewed(time[l]).n + 1]_vars

\* In no span of a window, less twice the Delay, are more than two windows'
\* worth of logins of one address let through without a success, whatever is
\* swept out of the table meanwhile.  (The Delay counts twice: a login may sweep
\* a window that one with an older clock begins anew, at either end.)
PerIPLimit ==
  \A a \in IPs, t \in 0 .. MaxTime :
    Cardinality({i \in DOMAIN tries[a] :
                   t <= tries[a][i] /\ tries[a][i] + 2 * Delay <= t + Window}) <= 2 * PerIP

\* In a global window a login from an unknown device is let through only while
\* fewer than loginGlobal were, not counting as many as succeeded in it (a
\* success may belong to a login counted in the window before).
GlobalLimit ==
  [][\A l \in Logins : lpc[l] = "take" /\ lpc'[l] = "slot" /\ ~known[l] =>
       granted' <= Global + forgiven']_vars

\* The tokens in server.verify belong to the logins that check a password or
\* finish: none is lost on any path through the handler.
SlotsExact == verify = Cardinality({l \in Logins : lpc[l] \in {"verify", "finish"}})
=============================================================================
