------------------------------ MODULE Sessions ------------------------------
(***************************************************************************)
(* The admin's sessions and known devices: internal/store/sessions.go and  *)
(* devices.go, SetAdmin of internal/store/admin.go, the handlers of        *)
(* internal/web/admin.go that use them (the middleware admin, login,       *)
(* logout), and the cleanup of internal/monitor/maintenance.go.  login's   *)
(* limits and its check of the password are in LoginLimit.                 *)
(*                                                                         *)
(* A request reads the session, then touches it in a second statement,     *)
(* then runs its handler; other requests, a password change by the command *)
(* line tool and the cleanup come between.  Every statement gets the time  *)
(* as an argument: it reads the clock first and then waits for its turn on *)
(* the database, so it may run with a clock that is Delay old.  Tokens are *)
(* random and never drawn twice.                                           *)
(***************************************************************************)
EXTENDS Naturals

CONSTANTS
  Tokens,    \* session tokens that may be drawn
  Devices,   \* device tokens that may be drawn
  Earlier,   \* devices of logins whose sessions have already ended
  Requests,  \* goroutines that serve admin requests
  Idle,      \* SessionIdle
  MaxAge,    \* SessionMax
  DeviceMax, \* how long a device is known
  TouchGap,  \* the minute after which a session is touched again
  Delay,     \* how long a statement may wait for the database
  MaxTime,   \* bound on the clock
  None

ASSUME AgeAssumption ==
  /\ {Idle, MaxAge, DeviceMax, TouchGap, Delay, MaxTime} \subseteq Nat
  /\ Delay < TouchGap /\ TouchGap <= Idle /\ Idle <= MaxAge
ASSUME EarlierAssumption == Earlier \subseteq Devices
ASSUME NoneAssumption ==
  None \notin Tokens \cup Devices /\ None \notin [created : Nat, expires : Nat, seen : Nat]

VARIABLES
  now,       \* the clock
  sessions,  \* the sessions table, None where there is no row
  devices,   \* the devices table
  drawn,     \* tokens drawn so far
  rpc,       \* where a request is
  token,     \* the token its cookie holds
  device,    \* the device of its cookie; during login None if it is not known
  clock,     \* the clock its statement was given, 0 if none waits
  used,      \* the last time a session was found valid and needed no touch,
             \* or was touched
  cpc,       \* where the cleanup is
  cnow       \* the clock as it read it

request == <<rpc, token, device, clock>>
cleanup == <<cpc, cnow>>
vars    == <<now, sessions, devices, drawn, request, used, cleanup>>

Smaller(a, b) == IF a <= b THEN a ELSE b

Larger(a, b) == IF a <= b THEN b ELSE a

\* Request q goes on at there, where a statement waits with the clock c.
GotoAs(q, there, t, d, c) ==
  /\ rpc' = [rpc EXCEPT ![q] = there]
  /\ token' = [token EXCEPT ![q] = t]
  /\ device' = [device EXCEPT ![q] = d]
  /\ clock' = [clock EXCEPT ![q] = c]

Goto(q, there, t, c) == GotoAs(q, there, t, device[q], c)

Return(q) == GotoAs(q, "idle", None, None, 0)

\* The row a statement with the clock c finds.
Found(s, c) == s # None /\ s.expires > c

\* A session that a request arriving now would find.
Valid(t) == Found(sessions[t], now)

\* A device that a login beginning now would be known by.
Known(d) == Found(devices[d], now)

-----------------------------------------------------------------------------
(* login.                                                                  *)

\* A login whose cookies hold an old session and a device, or None.
Login(q, old, d) ==
  /\ rpc[q] = "idle"
  /\ \/ d # None /\ GotoAs(q, "known", old, d, now)
     \/ d = None /\ GotoAs(q, "drop", old, d, 0)
  /\ UNCHANGED <<now, sessions, devices, drawn, used, cleanup>>

KnownDevice(q) ==
  /\ rpc[q] = "known"
  /\ GotoAs(q, "drop", token[q], IF Found(devices[device[q]], clock[q]) THEN device[q] ELSE None, 0)
  /\ UNCHANGED <<now, sessions, devices, drawn, used, cleanup>>

\* The password was right.  DeleteSession of the old session (without a cookie
\* there is nothing to do); then CreateSession reads the clock.
Drop(q) ==
  /\ rpc[q] = "drop"
  /\ sessions' = [t \in Tokens |-> IF t = token[q] THEN None ELSE sessions[t]]
  /\ Goto(q, "create", None, now)
  /\ UNCHANGED <<now, devices, drawn, used, cleanup>>

\* A device that was not known is remembered next.
CreateSession(q, t) ==
  /\ rpc[q] = "create"
  /\ t \notin drawn
  /\ drawn' = drawn \cup {t}
  /\ sessions' = [sessions EXCEPT ![t] =
                    [created |-> clock[q], expires |-> clock[q] + Idle, seen |-> clock[q]]]
  /\ used' = [used EXCEPT ![t] = clock[q]]
  /\ IF device[q] = None THEN Goto(q, "device", None, now) ELSE Return(q)
  /\ UNCHANGED <<now, devices, cleanup>>

CreateDevice(q, d) ==
  /\ rpc[q] = "device"
  /\ d \notin drawn
  /\ drawn' = drawn \cup {d}
  /\ devices' = [devices EXCEPT ![d] = [created |-> clock[q], expires |-> clock[q] + DeviceMax]]
  /\ Return(q)
  /\ UNCHANGED <<now, sessions, used, cleanup>>

\* A statement of a request fails: a touch is only logged, the others end it
\* (CreateDevice comes last and is only logged too).
Fail(q) ==
  /\ \/ rpc[q] = "touch" /\ Goto(q, "run", token[q], 0)
     \/ rpc[q] \in {"known", "drop", "create", "device", "find", "logout"} /\ Return(q)
  /\ UNCHANGED <<now, sessions, devices, drawn, used, cleanup>>

-----------------------------------------------------------------------------
(* The middleware admin.                                                   *)

\* A request with a session's cookie arrives and reads the clock.
Arrive(q, t) ==
  /\ rpc[q] = "idle"
  /\ Goto(q, "find", t, now)
  /\ UNCHANGED <<now, sessions, devices, drawn, used, cleanup>>

\* Mutant of Stale: the comparison is the wrong way round.
StaleReversed(s) == now < s.seen + TouchGap

Stale(s) == now >= s.seen + TouchGap

\* Session finds the row.  A stale one is to be touched: the clock is read
\* again, by the middleware and by TouchSession, one right after the other.
Find(q) ==
  LET t == token[q] IN
  /\ rpc[q] = "find"
  /\ Found(sessions[t], clock[q])
  /\ IF Stale(sessions[t])
     THEN Goto(q, "touch", t, now) /\ used' = used
     ELSE Goto(q, "run", t, 0) /\ used' = [used EXCEPT ![t] = Larger(used[t], clock[q])]
  /\ UNCHANGED <<now, sessions, devices, drawn, cleanup>>

\* Session finds no row: the request is sent to the login page.
FindNone(q) ==
  /\ rpc[q] = "find"
  /\ ~Found(sessions[token[q]], clock[q])
  /\ Return(q)
  /\ UNCHANGED <<now, sessions, devices, drawn, used, cleanup>>

\* Mutant of Touchable: the statement does not look at expires_at.
TouchableAlways(s, c) == s # None

Touchable(s, c) == Found(s, c)

\* Mutant of Extended: the session's age does not count.
ExtendedIdle(s, c) == c + Idle

Extended(s, c) == Smaller(c + Idle, s.created + MaxAge)

\* TouchSession; that the session is gone is no error, the request goes on.
Touch(q) ==
  LET t == token[q]
      s == sessions[t]
      c == clock[q]
  IN
  /\ rpc[q] = "touch"
  /\ IF Touchable(s, c)
     THEN /\ sessions' = [sessions EXCEPT ![t].seen = c, ![t].expires = Extended(s, c)]
          /\ used' = [used EXCEPT ![t] = Larger(used[t], c)]
     ELSE UNCHANGED <<sessions, used>>
  /\ Goto(q, "run", t, 0)
  /\ UNCHANGED <<now, devices, drawn, cleanup>>

\* The handler: logout, or any other one.
Run(q) ==
  /\ rpc[q] = "run"
  /\ Goto(q, "logout", token[q], 0) \/ Return(q)
  /\ UNCHANGED <<now, sessions, devices, drawn, used, cleanup>>

Logout(q) ==
  /\ rpc[q] = "logout"
  /\ sessions' = [sessions EXCEPT ![token[q]] = None]
  /\ Return(q)
  /\ UNCHANGED <<now, devices, drawn, used, cleanup>>

-----------------------------------------------------------------------------
(* The rest of the system.                                                 *)

\* The tool "admin set-password", a process of its own, commits its SetAdmin.
SetPassword ==
  /\ sessions' = [t \in Tokens |-> None]
  /\ devices' = [d \in Devices |-> None]
  /\ UNCHANGED <<now, drawn, request, used, cleanup>>

\* The cleanup goes on at there, where a statement waits with the clock c.
CleanupGoto(there, c) == cpc' = there /\ cnow' = c

CleanupBegins ==
  /\ cpc = "idle"
  /\ CleanupGoto("sessions", now)
  /\ UNCHANGED <<now, sessions, devices, drawn, request, used>>

Unexpired(table, s) == IF table[s] # None /\ table[s].expires <= cnow THEN None ELSE table[s]

\* One of the two statements fails: the other still runs.
DeleteExpiredSessions(fails) ==
  /\ cpc = "sessions"
  /\ CleanupGoto("devices", now)
  /\ sessions' = IF fails THEN sessions ELSE [t \in Tokens |-> Unexpired(sessions, t)]
  /\ UNCHANGED <<now, devices, drawn, request, used>>

\* Mutant of Remembered: the device goes with the session of its login.
RememberedAsSession(d) == IF devices[d] # None /\ devices[d].created + MaxAge <= cnow THEN None ELSE devices[d]

Remembered(d) == Unexpired(devices, d)

DeleteExpiredDevices(fails) ==
  /\ cpc = "devices"
  /\ CleanupGoto("idle", 0)
  /\ devices' = IF fails THEN devices ELSE [d \in Devices |-> Remembered(d)]
  /\ UNCHANGED <<now, sessions, drawn, request, used>>

Tick ==
  /\ now < MaxTime
  /\ \A q \in Requests : clock[q] # 0 => now < clock[q] + Delay
  /\ cpc # "idle" => now < cnow + Delay
  /\ now' = now + 1
  /\ UNCHANGED <<sessions, devices, drawn, request, used, cleanup>>

Init ==
  /\ now = 1
  /\ sessions = [t \in Tokens |-> None]
  /\ devices = [d \in Devices |-> IF d \in Earlier THEN [created |-> now, expires |-> now + DeviceMax]
                                                    ELSE None]
  /\ drawn = Earlier
  /\ rpc = [q \in Requests |-> "idle"]
  /\ token = [q \in Requests |-> None]
  /\ device = [q \in Requests |-> None]
  /\ clock = [q \in Requests |-> 0]
  /\ used = [t \in Tokens |-> 0]
  /\ cpc = "idle"
  /\ cnow = 0

RequestStep(q) ==
  \/ \E old \in (drawn \cap Tokens) \cup {None}, d \in (drawn \cap Devices) \cup {None} : Login(q, old, d)
  \/ KnownDevice(q) \/ Drop(q) \/ Fail(q) \/ Find(q) \/ FindNone(q) \/ Touch(q) \/ Run(q) \/ Logout(q)
  \/ \E t \in Tokens : CreateSession(q, t)
  \/ \E d \in Devices : CreateDevice(q, d)
  \/ \E t \in drawn \cap Tokens : Arrive(q, t)

Next == \/ \E q \in Requests : RequestStep(q)
        \/ SetPassword \/ CleanupBegins \/ Tick
        \/ \E fails \in BOOLEAN : DeleteExpiredSessions(fails) \/ DeleteExpiredDevices(fails)

Spec == Init /\ [][Next]_vars

-----------------------------------------------------------------------------
(* Properties.                                                             *)

\* A session that was deleted, by logout, by a password change or by a new
\* login, never comes back, and one that expired is never valid again unless a
\* touch read the clock before: no request under way revives it (TouchSession
\* is an update that asks for expires_at > now, not an upsert).
EndedForGood ==
  [][\A t \in drawn \cap Tokens :
       /\ sessions[t] = None => sessions'[t] = None
       /\ Valid(t)' /\ ~Valid(t) =>
            \E q \in Requests : rpc[q] = "touch" /\ token[q] = t /\ clock[q] < sessions[t].expires]_vars

\* However often it is used, a session ends SessionMax after its login, and
\* SessionIdle after its last use.
SessionsEnd ==
  \A t \in Tokens : Valid(t) => now < sessions[t].created + MaxAge /\ now < used[t] + Idle

\* Who keeps using a session keeps it: though it is touched only once a minute,
\* by requests whose clocks may be out of order, it expires no earlier than
\* SessionIdle less that minute after its last use (or SessionMax after the
\* login), and before that nothing but a login, a logout or a password change
\* removes it; the cleanup does not.
StaysWhileUsed ==
  [][\A t \in drawn \cap Tokens : Valid(t) /\ ~Valid(t)' =>
       \/ \E q \in Requests : rpc[q] \in {"drop", "logout"} /\ token[q] = t
       \/ SetPassword
       \/ now' + TouchGap > used[t] + Idle
       \/ now' >= sessions[t].created + MaxAge]_vars

\* A device is known no longer than DeviceMax after the login that created it,
\* and before that only a password change removes it: not the cleanup, whose
\* clock is read before its statement runs, and not the logins between, of this
\* device or of another one.  Once removed it stays unknown.
DeviceStaysKnown ==
  [][\A d \in drawn \cap Devices :
       /\ Known(d) => now < devices[d].created + DeviceMax
       /\ Known(d) /\ ~Known(d)' => SetPassword \/ now' >= devices[d].created + DeviceMax
       /\ devices[d] = None => devices'[d] = None]_vars
=============================================================================
