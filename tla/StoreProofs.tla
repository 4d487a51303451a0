---------------------------- MODULE StoreProofs ----------------------------
(***************************************************************************)
(* Proofs about the two components whose subject is what the database file *)
(* holds: first Sessions, then Startup.                                    *)
(***************************************************************************)
EXTENDS Sessions, Startup, TLAPS

-----------------------------------------------------------------------------
(***************************************************************************)
(* Sessions and devices end when they should and not before, for every     *)
(* number of tokens and requests and all lengths of time.                  *)
(*                                                                         *)
(* The inductive invariant bounds a session's expiry by its age and by its *)
(* last use: SessionsEnd says so only of the moment now.  That clocks are  *)
(* never ahead of now is what keeps the cleanup from a valid row.          *)
(***************************************************************************)

SessionRow == [created : Nat, expires : Nat, seen : Nat]

DeviceRow == [created : Nat, expires : Nat]

Places == {"idle", "known", "drop", "create", "device", "find", "touch", "run", "logout"}

Types ==
  /\ now \in Nat
  /\ sessions \in [Tokens -> SessionRow \cup {None}]
  /\ devices \in [Devices -> DeviceRow \cup {None}]
  /\ token \in [Requests -> Tokens \cup {None}]
  /\ device \in [Requests -> Devices \cup {None}]
  /\ clock \in [Requests -> Nat]
  /\ rpc \in [Requests -> Places]
  /\ used \in [Tokens -> Nat]
  /\ cnow \in Nat

\* A request that has found a session, or looks for one, names one.
Named == \A q \in Requests :
           /\ rpc[q] \in {"find", "touch", "run", "logout"} => token[q] \in Tokens
           /\ rpc[q] = "known" => device[q] \in Devices

\* Clocks are read before they are used.
ClocksPast == cnow <= now /\ \A q \in Requests : clock[q] <= now

\* The row's expiry respects the session's age and its last use.
SessionBound ==
  \A t \in Tokens : sessions[t] # None =>
    /\ sessions[t].expires <= sessions[t].created + MaxAge
    /\ sessions[t].expires <= used[t] + Idle

DeviceBound == \A d \in Devices : devices[d] # None => devices[d].expires = devices[d].created + DeviceMax

\* A touch that waits has a clock at most Delay old.
TouchFresh == /\ now > 0
              /\ \A q \in Requests : /\ clock[q] # 0 => now <= clock[q] + Delay
                                     /\ rpc[q] = "touch" => clock[q] # 0

\* The row's expiry follows from its last touch, and the session was not used
\* a whole TouchGap after that without another one.
SeenBound ==
  \A t \in Tokens :
    /\ used[t] <= now
    /\ sessions[t] # None =>
         /\ sessions[t].expires = Smaller(sessions[t].seen + Idle, sessions[t].created + MaxAge)
         /\ used[t] < sessions[t].seen + TouchGap

IInv == Types /\ Named /\ ClocksPast /\ SessionBound /\ DeviceBound /\ TouchFresh /\ SeenBound

\* The initial state satisfies the invariant.
LEMMA InitHolds == Init => IInv
<1>1. Init => Types
  BY AgeAssumption, EarlierAssumption DEF Init, Types, Places, DeviceRow
<1>2. Init => Named
  BY DEF Init, Named
<1>3. Init => ClocksPast
  BY DEF Init, ClocksPast
<1>4. Init => SessionBound /\ DeviceBound
  BY DEF Init, SessionBound, DeviceBound
<1>5. Init => TouchFresh /\ SeenBound
  BY DEF Init, TouchFresh, SeenBound
<1> QED BY <1>1, <1>2, <1>3, <1>4, <1>5 DEF IInv

\* The steps of a request that change neither table.
LEMMA QuietSteps ==
  ASSUME IInv, NEW q \in Requests,
         \/ \E old \in (drawn \cap Tokens) \cup {None}, d \in (drawn \cap Devices) \cup {None} : Login(q, old, d)
         \/ KnownDevice(q) \/ Fail(q) \/ FindNone(q) \/ Run(q)
         \/ \E t \in drawn \cap Tokens : Arrive(q, t)
  PROVE  IInv'
<1> USE AgeAssumption, NoneAssumption
    DEF IInv, Types, Places, Named, ClocksPast, SessionBound,
        DeviceBound, TouchFresh, SeenBound, Smaller, GotoAs, Goto, Return, cleanup
<1>1. CASE \E old \in (drawn \cap Tokens) \cup {None}, d \in (drawn \cap Devices) \cup {None} : Login(q, old, d)
  BY <1>1 DEF Login
<1>2. CASE KnownDevice(q)
  BY <1>2 DEF KnownDevice
<1>3. CASE Fail(q)
  BY <1>3 DEF Fail
<1>4. CASE FindNone(q)
  BY <1>4 DEF FindNone
<1>5. CASE Run(q)
  BY <1>5 DEF Run
<1>6. CASE \E t \in drawn \cap Tokens : Arrive(q, t)
  BY <1>6 DEF Arrive
<1> QED BY <1>1, <1>2, <1>3, <1>4, <1>5, <1>6

\* The steps of a request that change a row, or when it was used.
LEMMA RowSteps ==
  ASSUME IInv, NEW q \in Requests,
         \/ Drop(q) \/ Find(q) \/ Touch(q) \/ Logout(q)
         \/ \E t \in Tokens : CreateSession(q, t)
         \/ \E d \in Devices : CreateDevice(q, d)
  PROVE  IInv'
<1> USE AgeAssumption, NoneAssumption
    DEF IInv, Types, Places, Named, ClocksPast, SessionBound,
        DeviceBound, TouchFresh, SeenBound, Smaller, GotoAs, Goto, Return, cleanup, SessionRow, DeviceRow
<1>1. CASE Drop(q)
  BY <1>1 DEF Drop
<1>2. CASE Find(q)
  BY <1>2 DEF Find, Stale, Found, Larger
<1>3. CASE Touch(q)
  <2> DEFINE t == token[q]
  <2>1. t \in Tokens /\ clock[q] \in Nat
    BY <1>3 DEF Touch
  <2>2. CASE Touchable(sessions[t], clock[q])
    <3>1. sessions[t] \in SessionRow /\ sessions[t] # None
      BY <2>1, <2>2 DEF Touchable, Found
    <3>2. /\ sessions' = [sessions EXCEPT ![t] = [created |-> sessions[t].created, seen |-> clock[q],
                                                    expires |-> Extended(sessions[t], clock[q])]]
          /\ used' = [used EXCEPT ![t] = Larger(used[t], clock[q])]
      BY <1>3, <2>1, <2>2, <3>1 DEF Touch
    <3>3. /\ Extended(sessions[t], clock[q]) \in Nat
          /\ Extended(sessions[t], clock[q]) <= sessions[t].created + MaxAge
          /\ Extended(sessions[t], clock[q]) <= clock[q] + Idle
          /\ Larger(used[t], clock[q]) \in Nat
          /\ Larger(used[t], clock[q]) >= clock[q]
          /\ Larger(used[t], clock[q]) <= now
          /\ Larger(used[t], clock[q]) < clock[q] + TouchGap
      BY <1>3, <2>1, <3>1 DEF Touch, Extended, Smaller, Larger
    <3>4. Types' /\ Named'
      BY <1>3, <2>1, <3>1, <3>2, <3>3 DEF Touch
    <3>5. ClocksPast' /\ DeviceBound' /\ TouchFresh'
      BY <1>3, <3>2 DEF Touch
    <3>6. SessionBound'
      BY <1>3, <2>1, <3>1, <3>2, <3>3 DEF Touch
    <3>7. SeenBound'
      BY <1>3, <2>1, <3>1, <3>2, <3>3 DEF Touch, Extended
    <3> QED BY <3>4, <3>5, <3>6, <3>7 DEF IInv
  <2>3. CASE ~Touchable(sessions[t], clock[q])
    BY <1>3, <2>1, <2>3 DEF Touch
  <2> QED BY <2>2, <2>3
<1>4. CASE Logout(q)
  BY <1>4 DEF Logout
<1>5. CASE \E t \in Tokens : CreateSession(q, t)
  BY <1>5 DEF CreateSession
<1>6. CASE \E d \in Devices : CreateDevice(q, d)
  BY <1>6 DEF CreateDevice
<1> QED BY <1>1, <1>2, <1>3, <1>4, <1>5, <1>6

\* The steps of the password tool, of the cleanup and of time.
LEMMA OtherSteps ==
  ASSUME IInv,
         \/ SetPassword \/ CleanupBegins \/ Tick
         \/ \E fails \in BOOLEAN : DeleteExpiredSessions(fails) \/ DeleteExpiredDevices(fails)
  PROVE  IInv'
<1> USE AgeAssumption, NoneAssumption
    DEF IInv, Types, Named, ClocksPast, SessionBound,
        DeviceBound, TouchFresh, SeenBound, Smaller, CleanupGoto, cleanup, request
<1>1. CASE SetPassword
  BY <1>1 DEF SetPassword
<1>2. CASE CleanupBegins
  BY <1>2 DEF CleanupBegins
<1>3. CASE Tick
  BY <1>3 DEF Tick
<1>4. CASE \E fails \in BOOLEAN : DeleteExpiredSessions(fails)
  BY <1>4 DEF DeleteExpiredSessions, Unexpired
<1>5. CASE \E fails \in BOOLEAN : DeleteExpiredDevices(fails)
  BY <1>5 DEF DeleteExpiredDevices, Remembered, Unexpired
<1> QED BY <1>1, <1>2, <1>3, <1>4, <1>5

\* Every step preserves the invariant.
LEMMA NextHolds == IInv /\ [Next]_vars => IInv'
<1> SUFFICES ASSUME IInv, [Next]_vars PROVE IInv'
  OBVIOUS
<1>1. CASE \E q \in Requests : RequestStep(q)
  BY <1>1, QuietSteps, RowSteps DEF RequestStep
<1>2. CASE ~(\E q \in Requests : RequestStep(q)) /\ Next
  BY <1>2, OtherSteps DEF Next
<1>3. CASE UNCHANGED vars
  BY <1>3
  DEF vars, request, cleanup, IInv, Types, Named, ClocksPast, SessionBound,
      DeviceBound, TouchFresh, SeenBound
<1> QED BY <1>1, <1>2, <1>3

\* The inductive invariant holds throughout.
THEOREM Invariant == Spec => []IInv
  BY InitHolds, NextHolds, PTL DEF Spec

\* A session ends SessionMax after its login and SessionIdle after its last use,
\* whatever requests touch it and in whichever order.
THEOREM SessionsDoEnd == Spec => []SessionsEnd
<1>1. IInv => SessionsEnd
  BY AgeAssumption DEF IInv, Types, SessionBound, SessionRow, SessionsEnd, Valid, Found
<1> QED BY <1>1, Invariant, PTL

-----------------------------------------------------------------------------
(* What a step may do to a row.                                            *)

\* A step of a request that leaves both tables and the clock alone.
Reads(q) == sessions' = sessions /\ devices' = devices /\ now' = now

\* The steps of a request: they read, or they are one of the five that write.
LEMMA RequestKinds ==
  ASSUME NEW q \in Requests, RequestStep(q)
  PROVE  \/ Reads(q)
         \/ Drop(q) \/ Touch(q) \/ Logout(q)
         \/ \E t \in Tokens : CreateSession(q, t)
         \/ \E d \in Devices : CreateDevice(q, d)
  BY DEF RequestStep, Reads, Login, KnownDevice, Fail, Find, FindNone, Run, Arrive

\* A deleted session stays deleted, and an expired one is revived by nothing but
\* a touch whose clock was read before it expired.
THEOREM SessionsEndForGood == Spec => EndedForGood
<1> DEFINE Ended(t) ==
      /\ sessions[t] = None => sessions'[t] = None
      /\ Valid(t)' /\ ~Valid(t) =>
           \E q \in Requests : rpc[q] = "touch" /\ token[q] = t /\ clock[q] < sessions[t].expires
<1>1. ASSUME IInv, [Next]_vars, NEW t \in drawn \cap Tokens PROVE Ended(t)
  <2> USE DEF Valid, Found
  <2>1. ASSUME NEW q \in Requests, RequestStep(q) PROVE Ended(t)
    <3>1. CASE Reads(q)
      BY <3>1 DEF Reads
    <3>2. CASE Drop(q)
      BY <3>2 DEF Drop
    <3>3. CASE Touch(q)
      BY <3>3, <1>1 DEF Touch, Touchable, IInv, Types, SessionRow
    <3>4. CASE Logout(q)
      BY <3>4, <1>1 DEF Logout, IInv, Types
    <3>5. CASE \E u \in Tokens : CreateSession(q, u)
      BY <3>5, <1>1 DEF CreateSession, IInv, Types
    <3>6. CASE \E d \in Devices : CreateDevice(q, d)
      BY <3>6 DEF CreateDevice
    <3> QED BY <2>1, <3>1, <3>2, <3>3, <3>4, <3>5, <3>6, RequestKinds
  <2>2. CASE SetPassword
    BY <2>2 DEF SetPassword
  <2>3. CASE CleanupBegins \/ \E fails \in BOOLEAN : DeleteExpiredDevices(fails)
    BY <2>3 DEF CleanupBegins, DeleteExpiredDevices
  <2>4. CASE \E fails \in BOOLEAN : DeleteExpiredSessions(fails)
    BY <2>4 DEF DeleteExpiredSessions, Unexpired
  <2>5. CASE Tick
    BY <2>5, <1>1 DEF Tick, IInv, Types, SessionRow
  <2>6. CASE UNCHANGED vars
    BY <2>6 DEF vars
  <2> QED BY <1>1, <2>1, <2>2, <2>3, <2>4, <2>5, <2>6 DEF Next
<1>2. IInv /\ [Next]_vars => [\A t \in drawn \cap Tokens : Ended(t)]_vars
  BY <1>1
<1> QED BY <1>2, Invariant, PTL DEF Spec, EndedForGood

\* A session in use is not lost: not by touches out of order, not by the cleanup.
THEOREM SessionsStay == Spec => StaysWhileUsed
<1> DEFINE Stays(t) == Valid(t) /\ ~Valid(t)' =>
       \/ \E q \in Requests : rpc[q] \in {"drop", "logout"} /\ token[q] = t
       \/ SetPassword
       \/ now' + TouchGap > used[t] + Idle
       \/ now' >= sessions[t].created + MaxAge
<1>1. ASSUME IInv, [Next]_vars, NEW t \in drawn \cap Tokens PROVE Stays(t)
  <2> USE DEF Valid, Found
  <2>1. ASSUME NEW q \in Requests, RequestStep(q) PROVE Stays(t)
    <3>1. CASE Reads(q)
      BY <3>1 DEF Reads
    <3>2. CASE Drop(q)
      BY <3>2 DEF Drop
    <3>3. CASE Touch(q)
      <4>1. /\ now \in Nat /\ clock[q] \in Nat /\ clock[q] # 0 /\ now <= clock[q] + Delay
            /\ token[q] \in Tokens
        BY <3>3, <1>1 DEF Touch, IInv, Types, Named, TouchFresh
      <4>2. CASE t = token[q] /\ Touchable(sessions[t], clock[q])
        <5>1. sessions[t] \in SessionRow /\ sessions[t] # None
          BY <4>2, <1>1 DEF Touchable, IInv, Types
        <5>2. now' = now /\ sessions'[t] = [sessions[t] EXCEPT !.seen = clock[q],
                                              !.expires = Extended(sessions[t], clock[q])]
          BY <3>3, <4>2, <1>1 DEF Touch, IInv, Types
        <5>3. sessions'[t].expires = Extended(sessions[t], clock[q])
          BY <5>1, <5>2 DEF SessionRow
        <5>4. sessions'[t] # None
          <6>1. Extended(sessions[t], clock[q]) \in Nat
            BY <4>1, <5>1, AgeAssumption DEF Extended, Smaller, SessionRow
          <6> QED BY <4>1, <5>1, <5>2, <6>1, NoneAssumption DEF SessionRow
        <5> QED BY <4>1, <5>1, <5>2, <5>3, <5>4, AgeAssumption DEF Extended, Smaller, SessionRow
      <4>3. CASE ~(t = token[q] /\ Touchable(sessions[t], clock[q]))
        BY <3>3, <4>1, <4>3, <1>1 DEF Touch, IInv, Types
      <4> QED BY <4>2, <4>3
    <3>4. CASE Logout(q)
      BY <3>4, <1>1 DEF Logout, IInv, Types
    <3>5. CASE \E u \in Tokens : CreateSession(q, u)
      BY <3>5, <1>1 DEF CreateSession, IInv, Types
    <3>6. CASE \E d \in Devices : CreateDevice(q, d)
      BY <3>6 DEF CreateDevice
    <3> QED BY <2>1, <3>1, <3>2, <3>3, <3>4, <3>5, <3>6, RequestKinds
  <2>2. CASE SetPassword
    BY <2>2
  <2>3. CASE CleanupBegins \/ \E fails \in BOOLEAN : DeleteExpiredDevices(fails)
    BY <2>3 DEF CleanupBegins, DeleteExpiredDevices
  <2>4. CASE \E fails \in BOOLEAN : DeleteExpiredSessions(fails)
    BY <2>4, <1>1 DEF DeleteExpiredSessions, Unexpired, IInv, Types, SessionRow, ClocksPast
  <2>5. CASE Tick
    BY <2>5, <1>1, AgeAssumption DEF Tick, IInv, Types, SessionRow, SeenBound, Smaller
  <2>6. CASE UNCHANGED vars
    BY <2>6 DEF vars
  <2> QED BY <1>1, <2>1, <2>2, <2>3, <2>4, <2>5, <2>6 DEF Next
<1>2. IInv /\ [Next]_vars => [\A t \in drawn \cap Tokens : Stays(t)]_vars
  BY <1>1
<1> QED BY <1>2, Invariant, PTL DEF Spec, StaysWhileUsed

\* A device is known until it is DeviceMax old or the password changes, and not
\* longer.
THEOREM DevicesStayKnown == Spec => DeviceStaysKnown
<1> DEFINE Ends(d) == Known(d) => now < devices[d].created + DeviceMax
           Stays(d) ==
             /\ Known(d) /\ ~Known(d)' => SetPassword \/ now' >= devices[d].created + DeviceMax
             /\ devices[d] = None => devices'[d] = None
           Both(d) ==
             /\ Known(d) => now < devices[d].created + DeviceMax
             /\ Known(d) /\ ~Known(d)' => SetPassword \/ now' >= devices[d].created + DeviceMax
             /\ devices[d] = None => devices'[d] = None
<1>1. ASSUME IInv, [Next]_vars, NEW d \in drawn \cap Devices PROVE Stays(d)
  <2> USE DEF Known, Found
  <2>1. ASSUME NEW q \in Requests, RequestStep(q) PROVE Stays(d)
    <3>1. CASE Reads(q)
      BY <3>1 DEF Reads
    <3>2. CASE Drop(q) \/ Touch(q) \/ Logout(q) \/ \E t \in Tokens : CreateSession(q, t)
      BY <3>2 DEF Drop, Touch, Logout, CreateSession
    <3>3. CASE \E e \in Devices : CreateDevice(q, e)
      BY <3>3, <1>1 DEF CreateDevice, IInv, Types
    <3> QED BY <2>1, <3>1, <3>2, <3>3, RequestKinds
  <2>2. CASE SetPassword
    BY <2>2 DEF SetPassword
  <2>3. CASE CleanupBegins \/ \E fails \in BOOLEAN : DeleteExpiredSessions(fails)
    BY <2>3 DEF CleanupBegins, DeleteExpiredSessions
  <2>4. CASE \E fails \in BOOLEAN : DeleteExpiredDevices(fails)
    BY <2>4, <1>1 DEF DeleteExpiredDevices, Remembered, Unexpired, IInv, Types, DeviceRow, ClocksPast
  <2>5. CASE Tick
    BY <2>5, <1>1, AgeAssumption DEF Tick, IInv, Types, DeviceRow, DeviceBound
  <2>6. CASE UNCHANGED vars
    BY <2>6 DEF vars
  <2> QED BY <1>1, <2>1, <2>2, <2>3, <2>4, <2>5, <2>6 DEF Next
<1>2. ASSUME IInv, NEW d \in Devices PROVE Ends(d)
  BY <1>2 DEF IInv, Types, DeviceRow, DeviceBound, Known, Found
<1>3. IInv /\ [Next]_vars => [\A d \in drawn \cap Devices : Both(d)]_vars
  BY <1>1, <1>2
<1> QED BY <1>3, Invariant, PTL DEF Spec, DeviceStaysKnown

-----------------------------------------------------------------------------
(***************************************************************************)
(* Startup, for any number of processes and of migrations.  The argument:  *)
(* whoever is between BeginTx and Commit holds the lock, so nobody else    *)
(* writes there (Transactions), and a process has the migrations below the *)
(* one it is at (Progress).                                                *)
(***************************************************************************)

InTx   == {"query", "exec", "commit"}
AtWork == {"admin", "stdin", "set", "copy", "copying", "serve"}
Stages == InTx \cup AtWork \cup {"off", "create", "begin", "close"}

FileTypes ==
  /\ db \in File
  /\ backup \in Copy \cup {Nothing}
  /\ lock \in Procs \cup {Nothing}
  /\ pc \in [Procs -> Stages]
  /\ cmd \in [Procs -> Commands]
  /\ files \in [Procs -> 0 .. Newest]
  /\ ver \in [Procs -> 1 .. Newest + 1]
  /\ stale \in [Procs -> BOOLEAN]

\* The lock is held exactly between BeginTx and the end of the transaction.
Transactions == \A p \in Procs : pc[p] \in InTx <=> lock = p

\* What a process knows about the file from its own steps.
Progress ==
  \A p \in Procs :
    /\ pc[p] = "create" => ver[p] = 1
    /\ pc[p] = "off" => ver[p] = 1
    /\ pc[p] \in InTx => ver[p] <= files[p]
    /\ pc[p] \in InTx \cup {"begin"} => 1 .. (ver[p] - 1) \subseteq db.tables
    /\ pc[p] \in {"exec", "commit"} => ver[p] \notin db.recorded
    /\ pc[p] \in AtWork => 1 .. files[p] \subseteq db.tables

\* A start that is about to write the admin has seen that there is none.
Looked ==
  \A p \in Procs : pc[p] = "set" /\ cmd[p] = "serve" => db.admin = "none" \/ stale[p]

\* The file that a backup is writing is there, and only the tool waits for input.
Tools == \A p \in Procs : /\ pc[p] = "copying" => backup # Nothing
                          /\ pc[p] = "stdin" => cmd[p] = "set-password"

FileInv == FileTypes /\ Transactions /\ Progress /\ SchemaIsWhole /\ Tools
-----------------------------------------------------------------------------
\* A copy that begins, and one that ends, is there and holds what was copied.
LEMMA CopyBegins ==
  ASSUME NEW f \in File, NEW c, c = [of |-> f, complete |-> FALSE]
  PROVE  c \in Copy /\ c # Nothing /\ c.of = f
<1>1. c \in Copy /\ c.of = f
  BY DEF Copy
<1> QED
  BY <1>1, NothingAssumption

LEMMA CopyEnds ==
  ASSUME NEW c \in Copy, NEW d, d = [c EXCEPT !.complete = TRUE]
  PROVE  d \in Copy /\ d # Nothing /\ d.of = c.of /\ c.of \in File
<1>1. d \in Copy /\ d.of = c.of /\ c.of \in File
  BY DEF Copy
<1> QED
  BY <1>1, NothingAssumption

\* Steps of a process in migrate.
LEMMA MigrateKeeps ==
  ASSUME FileInv, NEW p \in Procs,
         \/ CreateTable(p) \/ Begin(p) \/ Skip(p) \/ NotDone(p)
         \/ Exec(p) \/ Commit(p) \/ Opened(p)
  PROVE  FileInv'
<1> USE NewestAssumption, NothingAssumption
    DEF FileInv, FileTypes, Transactions, Progress, SchemaIsWhole, Whole, Tools, File,
        InTx, AtWork, Stages, Commands, Versions, GoesTo
<1>1. CASE CreateTable(p)
  <2>1. db'.tables = db.tables /\ db'.recorded = db.recorded /\ db' \in File
    BY <1>1 DEF CreateTable
  <2> QED
    BY <1>1, <2>1 DEF CreateTable
<1>2. CASE Begin(p)
  BY <1>2 DEF Begin, Free
<1>3. CASE Skip(p)
  BY <1>3 DEF Skip, Rollback, NextFile
<1>4. CASE NotDone(p)
  BY <1>4 DEF NotDone
<1>5. CASE Exec(p)
  BY <1>5 DEF Exec, Before
<1>6. CASE Commit(p)
  <2>1. ver[p] \in Versions /\ lock = p /\ pc[p] = "commit"
    BY <1>6 DEF Commit
  <2>2. /\ db' \in File
        /\ db'.tables = db.tables \cup {ver[p]}
        /\ db'.recorded = db'.tables
    BY <1>6, <2>1 DEF Commit
  <2>3. \A v \in db'.tables : 1 .. v \subseteq db'.tables
    BY <2>1, <2>2
  <2>4. FileTypes' /\ Transactions'
    BY <1>6, <2>1, <2>2 DEF Commit
  <2>5. Progress'
    BY <1>6, <2>1, <2>2 DEF Commit
  <2> QED
    BY <1>6, <2>2, <2>3, <2>4, <2>5 DEF Commit
<1>7. CASE Opened(p)
  BY <1>7 DEF Opened, Proceeds
<1> QED
  BY <1>1, <1>2, <1>3, <1>4, <1>5, <1>6, <1>7

\* The other steps.
LEMMA CommandKeeps ==
  ASSUME FileInv, NEW p \in Procs,
         \/ SetAdmin(p) \/ ReadPassword(p) \/ Backup(p) \/ BackupEnds(p) \/ Close(p) \/ Busy(p) \/ Dies(p)
         \/ \E conf \in BOOLEAN : Admin(p, conf)
         \/ \E c \in Commands, n \in Versions : Start(p, c, n)
  PROVE  FileInv'
<1> USE NewestAssumption, NothingAssumption
    DEF FileInv, FileTypes, Transactions, Progress, SchemaIsWhole, Whole, Tools, File,
        InTx, AtWork, Stages, Commands, Versions, GoesTo
<1>1. CASE SetAdmin(p)
  BY <1>1 DEF SetAdmin
<1>2. CASE Backup(p)
  <2>1. backup' \in Copy \cup {Nothing} /\ (pc'[p] = "copying" => backup' # Nothing)
    BY <1>2, CopyBegins DEF Backup
  <2>2. backup' # Nothing => backup'.of = db \/ backup' = backup
    BY <1>2, CopyBegins DEF Backup
  <2>3. SchemaIsWhole'
    BY <1>2, <2>2 DEF Backup
  <2>4. Tools'
    BY <1>2, <2>1 DEF Backup
  <2> QED
    BY <1>2, <2>1, <2>3, <2>4 DEF Backup
<1>3. CASE ReadPassword(p)
  BY <1>3 DEF ReadPassword
<1>4. CASE BackupEnds(p)
  <2>1. backup' \in Copy /\ backup' # Nothing /\ backup'.of = backup.of /\ backup # Nothing
    BY <1>4, CopyEnds DEF BackupEnds
  <2> QED
    BY <1>4, <2>1 DEF BackupEnds
<1>5. ASSUME Gone(p)
      PROVE  FileInv'
  BY <1>5 DEF Gone
<1>6. CASE Close(p) \/ Busy(p) \/ Dies(p)
  BY <1>5, <1>6 DEF Close, Busy, Dies
<1>7. ASSUME NEW conf \in BOOLEAN, Admin(p, conf)
      PROVE  FileInv'
  BY <1>7 DEF Admin
<1>8. ASSUME NEW c \in Commands, NEW n \in Versions, Start(p, c, n)
      PROVE  FileInv'
  BY <1>8 DEF Start
<1> QED
  BY <1>1, <1>2, <1>3, <1>4, <1>6, <1>7, <1>8

\* The copy in place is a file like any other, and nobody works on it yet.
LEMMA RestoreKeeps ==
  ASSUME FileInv, Restore \/ Discard \/ UNCHANGED fileVars
  PROVE  FileInv'
<1> USE NewestAssumption, NothingAssumption
    DEF FileInv, FileTypes, Transactions, Progress, SchemaIsWhole, Whole, Tools, File,
        InTx, AtWork, Stages, Commands, Versions
<1>1. CASE Restore
  <2>1. backup \in Copy /\ db' = backup.of
    BY <1>1 DEF Restore
  <2>2. db' \in File
    BY <2>1, CopyEnds
  <2> QED
    BY <1>1, <2>1, <2>2 DEF Restore, proc
<1>2. CASE Discard
  BY <1>2 DEF Discard, proc
<1>3. CASE UNCHANGED fileVars
  BY <1>3 DEF fileVars, proc
<1> QED
  BY <1>1, <1>2, <1>3

\* The inductive invariant, for any number of processes and of migrations.
THEOREM FileInvariant == StartupSpec => []FileInv
<1>1. StartupInit => FileInv
  BY NewestAssumption, NothingAssumption
  DEF StartupInit, FileInv, FileTypes, Transactions, Progress, SchemaIsWhole, Whole, Tools, File,
      InTx, AtWork, Stages, Commands, Versions
<1>2. FileInv /\ [StartupNext]_fileVars => FileInv'
  <2> SUFFICES ASSUME FileInv, [StartupNext]_fileVars PROVE FileInv'
    OBVIOUS
  <2>1. ASSUME NEW p \in Procs, Work(p) \/ ReadPassword(p) \/ Dies(p)
        PROVE  FileInv'
    BY <2>1, MigrateKeeps, CommandKeeps DEF Work
  <2>2. ASSUME NEW p \in Procs, \E c \in Commands, n \in Versions : Start(p, c, n)
        PROVE  FileInv'
    BY <2>2, CommandKeeps
  <2>3. CASE Restore \/ Discard \/ UNCHANGED fileVars
    BY <2>3, RestoreKeeps
  <2> QED
    BY <2>1, <2>2, <2>3 DEF StartupNext
<1> QED
  BY <1>1, <1>2, PTL DEF StartupSpec

\* A committed file, and every copy, is the schema after some migrations
\* (applyMigration runs the statements and records the version in one
\* transaction).
THEOREM SchemaSafe == StartupSpec => []SchemaIsWhole
<1>1. FileInv => SchemaIsWhole
  BY DEF FileInv
<1> QED
  BY <1>1, FileInvariant, PTL

\* A migration runs once, after the ones before it (the version is looked up
\* with the write lock held).
THEOREM EachRunsOnce == StartupSpec => []RunsOnce
<1>1. FileInv => RunsOnce
  <2> SUFFICES ASSUME FileInv, NEW p \in Procs, pc[p] = "exec"
               PROVE  db.tables = 1 .. (ver[p] - 1)
    BY DEF RunsOnce
  <2> USE NewestAssumption DEF FileInv, FileTypes, Progress, SchemaIsWhole, Whole, File, InTx, Versions
  <2>1. /\ 1 .. (ver[p] - 1) \subseteq db.tables
        /\ ver[p] \notin db.tables
        /\ ver[p] \in 1 .. Newest + 1
    OBVIOUS
  <2>2. ASSUME NEW v \in db.tables
        PROVE  v \in 1 .. (ver[p] - 1)
    <3>1. v \in 1 .. Newest /\ 1 .. v \subseteq db.tables
      OBVIOUS
    <3>2. ~(ver[p] <= v)
      BY <2>1, <3>1
    <3> QED
      BY <2>1, <3>1, <3>2
  <2> QED
    BY <2>1, <2>2
<1> QED
  BY <1>1, FileInvariant, PTL

\* Open returns a store only when the binary's migrations are all in the file,
\* and they stay there while the command works.
THEOREM OpenIsComplete == StartupSpec => []WorksOnSchema
<1>1. FileInv => WorksOnSchema
  BY DEF FileInv, Progress, WorksOnSchema, AtWork
<1> QED
  BY <1>1, FileInvariant, PTL

-----------------------------------------------------------------------------
\* bootstrap writes over an admin only if it came after bootstrap had looked.
THEOREM AdminIsKept == StartupSpec => BootstrapKeepsAdmin
<1>1. StartupInit => Looked
  BY DEF StartupInit, Looked
<1>2. FileInv /\ Looked /\ [StartupNext]_fileVars => Looked'
  <2> SUFFICES ASSUME FileInv, Looked, [StartupNext]_fileVars PROVE Looked'
    OBVIOUS
  <2> USE DEF FileInv, FileTypes, File, Looked, GoesTo
  <2>1. ASSUME NEW p \in Procs, SetAdmin(p)
        PROVE  Looked'
    BY <2>1 DEF SetAdmin
  <2>2. ASSUME NEW p \in Procs, NEW conf \in BOOLEAN, Admin(p, conf)
        PROVE  Looked'
    BY <2>2 DEF Admin
  <2>3. ASSUME NEW p \in Procs, CreateTable(p) \/ Commit(p)
        PROVE  Looked'
    <3>1. db'.admin = db.admin /\ pc'[p] # "set"
      BY <2>3 DEF CreateTable, Commit
    <3> QED
      BY <2>3, <3>1 DEF CreateTable, Commit
  <2>4. ASSUME NEW p \in Procs,
               \/ Begin(p) \/ Skip(p) \/ NotDone(p)
               \/ Exec(p) \/ Backup(p) \/ BackupEnds(p)
        PROVE  Looked'
    BY <2>4 DEF Begin, Skip, NotDone, Exec, Before, Backup, BackupEnds
  <2>5. ASSUME NEW p \in Procs, Close(p) \/ Busy(p) \/ Dies(p)
        PROVE  Looked'
    BY <2>5 DEF Close, Busy, Dies, Gone
  <2>6. ASSUME NEW p \in Procs, NEW c \in Commands, NEW n \in Versions, Start(p, c, n)
        PROVE  Looked'
    BY <2>6 DEF Start
  <2>7. ASSUME NEW p \in Procs, Opened(p)
        PROVE  Looked'
    <3>1. PICK there \in Proceeds(cmd[p]) : GoesTo(p, there)
      BY <2>7 DEF Opened
    <3>2. there # "set"
      BY <3>1 DEF Proceeds, Commands
    <3> QED
      BY <2>7, <3>1, <3>2 DEF Opened
  <2>8. ASSUME NEW p \in Procs, ReadPassword(p)
        PROVE  Looked'
    BY <2>8 DEF ReadPassword, Tools
  <2>9. CASE Restore \/ Discard \/ UNCHANGED fileVars
    BY <2>9 DEF Restore, Discard, fileVars, proc
  <2> QED
    BY <2>1, <2>2, <2>3, <2>4, <2>5, <2>6, <2>7, <2>8, <2>9 DEF StartupNext, Work
<1>3. Looked /\ [StartupNext]_fileVars
        => [\A p \in Procs :
              SetAdmin(p) /\ cmd[p] = "serve" => db.admin = "none" \/ stale[p]]_fileVars
  BY DEF Looked, SetAdmin
<1> QED
  BY <1>1, <1>2, <1>3, FileInvariant, PTL DEF StartupSpec, BootstrapKeepsAdmin
=============================================================================
