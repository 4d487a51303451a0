-------------------------- MODULE LoginLimitProofs --------------------------
(***************************************************************************)
(* Proofs about LoginLimit for any number of addresses, logins and slots,  *)
(* all limits, all lengths of the window and all Delays.                   *)
(*                                                                         *)
(* The limit of an address is about its last window, in the table or swept *)
(* out of it, and the one before (Last): what lies further back is nearly  *)
(* a window ago whenever a login is let through (Apart).                   *)
(***************************************************************************)
EXTENDS LoginLimit, FiniteSetTheorems, SequenceTheorems, WellFoundedInduction, TLAPS

Places == {"idle", "take", "slot", "verify", "finish"}

Windows == [start : Int, n : Nat]

Types ==
  /\ now \in Nat
  /\ ips \in [IPs -> Windows \cup {None}]
  /\ global \in Windows
  /\ swept \in Int
  /\ lpc \in [Logins -> Places]
  /\ ip \in [Logins -> IPs \cup {None}]
  /\ time \in [Logins -> Nat]
  /\ known \in [Logins -> BOOLEAN]
  /\ tries \in [IPs -> Seq(Nat)]
  /\ granted \in Nat
  /\ forgiven \in Nat

\* A login under way has an address; before take its clock is not old.
Clocks ==
  \A l \in Logins :
    /\ lpc[l] # "idle" => ip[l] \in IPs
    /\ lpc[l] = "take" => time[l] <= now /\ now <= time[l] + Delay

Holders == {l \in Logins : lpc[l] \in {"verify", "finish"}}

\* The tokens, of which there are finitely many.
Tokens == IsFiniteSet(Holders) /\ verify = Cardinality(Holders)

\* The global count misses no login but those made up for by a success.
Counted == granted <= global.n + forgiven

\* The last window of an address, with c logins from start on: those let
\* through before it had older clocks, and those of the window before the
\* previous one clocks that are older still.  It left the table when over.
LastIs(X, w, c, start) ==
  /\ c <= Len(X)
  /\ w # None => c = w.n /\ start = w.start
  /\ w = None => start + Window <= now
  /\ \A i \in 1 .. Len(X) :
       /\ i > Len(X) - c => X[i] < start + Window
       /\ i <= Len(X) - c => X[i] < start + Delay /\ X[i] < now
       /\ i <= Len(X) - c - PerIP => X[i] + Window < now + Delay

Last(X, w) == \E c \in 0 .. PerIP, start \in Int : LastIs(X, w, c, start)

\* Two windows' worth of logins later, a window less twice the Delay is over.
Apart(X) ==
  \A i, m \in 1 .. Len(X) : i + 2 * PerIP <= m => X[i] + Window < X[m] + 2 * Delay

Series == \A a \in IPs : Last(tries[a], ips[a]) /\ Apart(tries[a])

IInv == Types /\ Clocks /\ Tokens /\ Counted /\ Series

-----------------------------------------------------------------------------
(* Lemmas.                                                                 *)

\* The constants are positive, as numbers the provers can use.
LEMMA Numbers == /\ Window \in Nat /\ PerIP \in Nat /\ Global \in Nat /\ Delay \in Nat
                 /\ Window > 0 /\ PerIP > 0 /\ Global > 0
BY LimitAssumption, BoundAssumption

\* A set of natural numbers with an upper bound has a greatest element.
LEMMA NatMax ==
  ASSUME NEW n \in Nat, NEW T \in SUBSET (0 .. n), T # {}
  PROVE  \E x \in T : \A y \in T : y <= x
<1> DEFINE R == OpToRel(<, Nat)
           U == {n - y : y \in T}
<1>1. IsWellFoundedOn(R, Nat)
  BY NatLessThanWellFounded
<1>2. U \subseteq Nat /\ U # {}
  <2>1. \A y \in T : n - y \in Nat
    OBVIOUS
  <2> QED BY <2>1
<1> HIDE DEF R, U
<1>3. PICK x \in U : \A y \in U : ~(<<y, x>> \in R)
  BY <1>1, <1>2, WFMin, Zenon
<1>4. \A y \in U : ~(<<y, x>> \in OpToRel(<, Nat))
  BY <1>3 DEF R
<1>5. \A y \in U : ~(y < x)
  BY <1>2, <1>4 DEF OpToRel
<1>6. PICK z \in T : x = n - z
  BY <1>3 DEF U
<1>7. \A y \in T : n - y \in U
  BY DEF U
<1>8. \A y \in T : ~(n - y < n - z)
  BY <1>5, <1>6, <1>7
<1> QED BY <1>8

\* Indices that lie less than limit apart are at most limit many.
LEMMA CountClose ==
  ASSUME NEW n \in Nat, NEW limit \in Nat \ {0}, NEW W \in SUBSET (1 .. n),
         \A i, m \in W : m < i + limit
  PROVE  Cardinality(W) <= limit
<1>1. CASE W = {}
  BY <1>1, FS_EmptySet
<1>2. CASE W # {}
  <2>1. PICK x \in W : \A y \in W : y <= x
    <3>1. W \in SUBSET (0 .. n)
      OBVIOUS
    <3> QED BY <1>2, <3>1, NatMax
  <2>2. x \in Nat /\ W \subseteq x - limit + 1 .. x
    BY <2>1
  <2>3. IsFiniteSet(x - limit + 1 .. x) /\ Cardinality(x - limit + 1 .. x) = limit
    BY <2>2, FS_Interval
  <2> QED BY <2>2, <2>3, FS_Subset
<1> QED BY <1>1, <1>2

\* A login is let through with a clock t.  w was the address's window in the
\* table when take began; v is the one it is counted in: w with one login more,
\* or a new one because there is none or it is over.
LEMMA SeriesGrows ==
  ASSUME now \in Nat, NEW X \in Seq(Nat), NEW w \in Windows \cup {None},
         NEW t \in Nat, t <= now, now <= t + Delay, NEW v \in Windows,
         \/ w # None /\ ~Over(w, t) /\ w.n < PerIP /\ v.start = w.start /\ v.n = w.n + 1
         \/ (w = None \/ Over(w, t)) /\ v.start = t /\ v.n = 1,
         Last(X, w), Apart(X)
  PROVE  Append(X, t) \in Seq(Nat) /\ Last(Append(X, t), v) /\ Apart(Append(X, t))
<1> USE Numbers
<1> DEFINE Y == Append(X, t)
<1>1. PICK x \in Nat : x = Len(X) /\ X \in [1 .. x -> Nat]
  BY LenProperties
<1>2. /\ Y \in Seq(Nat) /\ Len(Y) = x + 1 /\ Y \in [1 .. x + 1 -> Nat]
      /\ Y[x + 1] = t /\ \A i \in 1 .. x : Y[i] = X[i]
  <2>1. /\ Y \in Seq(Nat) /\ Len(Y) = Len(X) + 1
        /\ Y[Len(X) + 1] = t /\ \A i \in 1 .. Len(X) : Y[i] = X[i]
    BY AppendProperties
  <2> HIDE DEF Y
  <2>2. Y \in [1 .. Len(Y) -> Nat]
    BY <2>1, LenProperties
  <2> QED BY <1>1, <2>1, <2>2
<1> HIDE DEF Y
<1>3. PICK c \in 0 .. PerIP, start \in Int : LastIs(X, w, c, start)
  BY DEF Last
<1>4. /\ c <= x
      /\ w # None => c = w.n /\ start = w.start
      /\ w = None => start + Window <= now
      /\ \A i \in 1 .. x :
           /\ i > x - c => X[i] < start + Window
           /\ i <= x - c => X[i] < start + Delay /\ X[i] < now
           /\ i <= x - c - PerIP => X[i] + Window < now + Delay
  BY <1>1, <1>3 DEF LastIs
<1>5. \A i, m \in 1 .. x : i + 2 * PerIP <= m => X[i] + Window < X[m] + 2 * Delay
  BY <1>1 DEF Apart
<1>6. \A i \in 1 .. x + 1 : i \in 1 .. x \/ i = x + 1
  OBVIOUS
<1>7. \A i \in 1 .. x : X[i] \in Nat
  BY <1>1
<1>8. Last(Y, v) /\ \A i \in 1 .. x : i <= x + 1 - 2 * PerIP => X[i] + Window < now + Delay
  <2>1. CASE w # None /\ ~Over(w, t) /\ w.n < PerIP /\ v.start = w.start /\ v.n = w.n + 1
    <3>1. c = w.n /\ start = w.start /\ c + 1 \in 0 .. PerIP /\ t < start + Window
      BY <1>4, <2>1 DEF Over, Windows
    <3>2. ASSUME NEW i \in 1 .. x + 1
          PROVE  /\ i > x + 1 - (c + 1) => Y[i] < start + Window
                 /\ i <= x + 1 - (c + 1) => Y[i] < start + Delay /\ Y[i] < now
                 /\ i <= x + 1 - (c + 1) - PerIP => Y[i] + Window < now + Delay
      <4>0. x + 1 - (c + 1) = x - c
        OBVIOUS
      <4>1. CASE i \in 1 .. x
        <5>1. Y[i] = X[i]
          BY <1>2, <4>1
        <5> QED BY <1>4, <4>0, <4>1, <5>1
      <4>2. CASE i = x + 1
        <5>1. /\ Y[i] = t
              /\ ~(i <= x + 1 - (c + 1)) /\ ~(i <= x + 1 - (c + 1) - PerIP)
          BY <1>2, <4>2
        <5>2. t < start + Window
          BY <3>1
        <5> QED BY <5>1, <5>2, Zenon
      <4> QED BY <1>6, <4>1, <4>2
    <3>3. LastIs(Y, v, c + 1, start)
      <4>1. v # None /\ c + 1 = v.n /\ start = v.start
        BY <2>1, <3>1, NullAssumption DEF Windows
      <4>2. c + 1 <= x + 1
        BY <1>4
      <4> QED BY <1>2, <3>2, <4>1, <4>2 DEF LastIs
    <3>4. ASSUME NEW i \in 1 .. x, i <= x + 1 - 2 * PerIP PROVE X[i] + Window < now + Delay
      <4>0. c + 1 <= PerIP
        BY <3>1
      <4>1. i <= x - c - PerIP
        BY <3>4, <4>0, SMTT(30)
      <4> QED BY <1>4, <4>1
    <3> QED BY <3>1, <3>3, <3>4 DEF Last
  <2>2. CASE (w = None \/ Over(w, t)) /\ v.start = t /\ v.n = 1
    <3>1. start + Window <= now
      BY <1>4, <2>2 DEF Over, Windows
    <3>2. ASSUME NEW i \in 1 .. x
          PROVE  /\ X[i] < now
                 /\ i <= x - PerIP => X[i] + Window < now + Delay
      <4>1. CASE i > x - c
        BY <1>4, <1>7, <3>1, <4>1
      <4>2. CASE i <= x - c
        BY <1>4, <1>7, <3>1, <4>2
      <4> QED BY <4>1, <4>2
    <3>3. ASSUME NEW i \in 1 .. x + 1
          PROVE  /\ i > x + 1 - 1 => Y[i] < t + Window
                 /\ i <= x + 1 - 1 => Y[i] < t + Delay /\ Y[i] < now
                 /\ i <= x + 1 - 1 - PerIP => Y[i] + Window < now + Delay
      <4>1. CASE i \in 1 .. x
        <5>1. Y[i] = X[i] /\ X[i] \in Nat
          BY <1>2, <1>7, <4>1
        <5>2. X[i] < now /\ (i <= x - PerIP => X[i] + Window < now + Delay)
          BY <3>2, <4>1
        <5> QED BY <4>1, <5>1, <5>2
      <4>2. CASE i = x + 1
        BY <1>2, <4>2
      <4> QED BY <1>6, <4>1, <4>2
    <3>4. LastIs(Y, v, 1, t)
      BY <1>2, <2>2, <3>3, NullAssumption DEF LastIs, Windows
    <3>5. \A i \in 1 .. x : i <= x + 1 - 2 * PerIP => X[i] + Window < now + Delay
      BY <3>2
    <3> QED BY <3>4, <3>5 DEF Last
  <2> QED BY <2>1, <2>2
<1>9. Apart(Y)
  <2>1. ASSUME NEW i \in 1 .. x + 1, NEW m \in 1 .. x + 1, i + 2 * PerIP <= m
        PROVE  Y[i] + Window < Y[m] + 2 * Delay
    <3>1. i \in 1 .. x /\ Y[i] = X[i]
      BY <1>2, <2>1
    <3>2. CASE m \in 1 .. x
      <4>1. X[i] + Window < X[m] + 2 * Delay /\ Y[m] = X[m]
        BY <1>2, <1>5, <2>1, <3>1, <3>2
      <4> QED BY <3>1, <4>1
    <3>3. CASE m = x + 1
      <4>1. X[i] + Window < now + Delay /\ Y[m] = t /\ X[i] \in Nat
        BY <1>2, <1>7, <1>8, <2>1, <3>1, <3>3
      <4> QED BY <3>1, <4>1
    <3> QED BY <1>6, <3>2, <3>3
  <2> QED BY <1>2, <2>1 DEF Apart
<1> QED BY <1>2, <1>8, <1>9 DEF Y

\* A window that is over is gone or not, it makes no difference.
LEMMA SweepKeeps ==
  ASSUME now \in Nat, NEW X \in Seq(Nat), NEW w \in Windows, w # None,
         NEW t \in Nat, t <= now, Over(w, t), Last(X, w)
  PROVE  Last(X, None)
<1>1. PICK c \in 0 .. PerIP, start \in Int : LastIs(X, w, c, start)
  BY DEF Last
<1>2. start + Window <= now
  BY <1>1, Numbers DEF LastIs, Over, Windows
<1>3. LastIs(X, None, c, start)
  BY <1>1, <1>2 DEF LastIs
<1> QED BY <1>3 DEF Last

\* Time passes.
LEMMA LastLater ==
  ASSUME now \in Nat, now' \in Nat, now <= now', NEW X \in Seq(Nat), NEW w, Last(X, w)
  PROVE  Last(X, w)'
<1> USE Numbers
<1>1. PICK c \in 0 .. PerIP, start \in Int : LastIs(X, w, c, start)
  BY DEF Last
<1>2. PICK x \in Nat : x = Len(X) /\ X \in [1 .. x -> Nat]
  BY LenProperties
<1>3. /\ c <= x
      /\ w # None => c = w.n /\ start = w.start
      /\ w = None => start + Window <= now
  BY <1>1, <1>2 DEF LastIs
<1>4. ASSUME NEW i \in 1 .. x
      PROVE  /\ i > x - c => X[i] < start + Window
             /\ i <= x - c => X[i] < start + Delay /\ X[i] < now'
             /\ i <= x - c - PerIP => X[i] + Window < now' + Delay
  <2>1. X[i] \in Nat
    BY <1>2
  <2>2. /\ i > x - c => X[i] < start + Window
        /\ i <= x - c => X[i] < start + Delay /\ X[i] < now
        /\ i <= x - c - PerIP => X[i] + Window < now + Delay
    BY <1>1, <1>2 DEF LastIs
  <2> QED BY <2>1, <2>2
<1>5. w = None => start + Window <= now'
  BY <1>3
<1>6. LastIs(X, w, c, start)'
  BY <1>2, <1>3, <1>4, <1>5 DEF LastIs
<1> QED BY <1>6 DEF Last

\* What take finds.
LEMMA TakeFinds ==
  ASSUME Types, Clocks, NEW l \in Logins, lpc[l] = "take"
  PROVE  /\ ip[l] \in IPs /\ time[l] \in Nat /\ time[l] <= now /\ now <= time[l] + Delay
         /\ Swept(time[l]).at \in Int
         /\ Table(l) \in [IPs -> Windows \cup {None}]
         /\ \A b \in IPs : \/ Table(l)[b] = ips[b]
                           \/ ips[b] # None /\ Over(ips[b], time[l]) /\ Table(l)[b] = None
         /\ \/ Own(l) = ips[ip[l]] /\ Own(l) # None /\ ~Over(ips[ip[l]], time[l])
            \/ Own(l) = None /\ (ips[ip[l]] = None \/ Over(ips[ip[l]], time[l]))
         /\ Renewed(time[l]) \in Windows
<1>1. ip[l] \in IPs /\ time[l] \in Nat /\ time[l] <= now /\ now <= time[l] + Delay
  BY DEF Types, Clocks
<1>2. /\ Table(l) \in [IPs -> Windows \cup {None}]
      /\ \A b \in IPs : \/ Table(l)[b] = ips[b]
                        \/ ips[b] # None /\ Over(ips[b], time[l]) /\ Table(l)[b] = None
      /\ Swept(time[l]).at \in Int
  <2>1. CASE time[l] - swept >= Window \/ Cardinality(Kept) >= MaxIPs
    BY <1>1, <2>1 DEF Table, Swept, Types
  <2>2. CASE ~(time[l] - swept >= Window \/ Cardinality(Kept) >= MaxIPs)
    BY <1>1, <2>2 DEF Table, Swept, Types
  <2> QED BY <2>1, <2>2
<1>3. \/ Own(l) = ips[ip[l]] /\ Own(l) # None /\ ~Over(ips[ip[l]], time[l])
      \/ Own(l) = None /\ (ips[ip[l]] = None \/ Over(ips[ip[l]], time[l]))
  BY <1>1, <1>2 DEF Own
<1>4. Renewed(time[l]) \in Windows
  BY <1>1 DEF Renewed, Types, Windows
<1> QED BY <1>1, <1>2, <1>3, <1>4

\* take refuses if and only if it names a time to wait.
LEMMA WaitIsRefusal ==
  ASSUME Types, Clocks, NEW l \in Logins, lpc[l] = "take"
  PROVE  Wait(l) > 0 <=> OwnFull(l) \/ GlobalFull(l) \/ TableFull(l)
<1> USE Numbers
<1>0. time[l] \in Nat /\ Renewed(time[l]) \in Windows /\ ip[l] \in IPs
  BY TakeFinds
<1>1. CASE OwnFull(l)
  <2>1. Own(l) # None
    BY <1>1 DEF OwnFull
  <2>2. Own(l) = ips[ip[l]] /\ ~Over(ips[ip[l]], time[l]) /\ ips[ip[l]] \in Windows
    BY <1>0, <2>1, TakeFinds DEF Types
  <2>3. Own(l).start + Window - time[l] > 0
    BY <1>0, <2>2 DEF Over, Windows
  <2>4. Wait(l) = Own(l).start + Window - time[l]
    BY <1>1 DEF Wait
  <2> QED BY <1>1, <2>3, <2>4
<1>2. CASE ~OwnFull(l) /\ GlobalFull(l)
  <2>1. Renewed(time[l]).n >= Global
    BY <1>2 DEF GlobalFull
  <2>2. Renewed(time[l]) = global /\ ~Over(global, time[l])
    BY <2>1 DEF Renewed
  <2>3. Renewed(time[l]).start + Window - time[l] > 0
    BY <1>0, <2>2 DEF Over, Windows
  <2>4. Wait(l) = Renewed(time[l]).start + Window - time[l]
    BY <1>2 DEF Wait
  <2> QED BY <1>2, <2>3, <2>4
<1>3. CASE ~OwnFull(l) /\ ~GlobalFull(l) /\ TableFull(l)
  <2>1. Wait(l) = Window
    BY <1>3 DEF Wait
  <2> QED BY <1>3, <2>1
<1>4. CASE ~OwnFull(l) /\ ~GlobalFull(l) /\ ~TableFull(l)
  <2>1. Wait(l) = 0
    BY <1>4 DEF Wait
  <2> QED BY <1>4, <2>1
<1> QED BY <1>1, <1>2, <1>3, <1>4

\* A login that take refuses leaves the table and the global window, swept and
\* renewed.
LEMMA TakeRefuses ==
  ASSUME Types, Clocks, NEW l \in Logins, Take(l), Wait(l) > 0
  PROVE  /\ ips' = Table(l) /\ global' = Renewed(time[l]) /\ Forget(l) /\ tries' = tries
         /\ granted' = (IF Renewed(time[l]) = global THEN granted ELSE 0)
BY WaitIsRefusal DEF Take, Types

\* A login that it lets through is counted twice.
LEMMA TakeCounts ==
  ASSUME Types, Clocks, NEW l \in Logins, Take(l), ~(Wait(l) > 0)
  PROVE  LET w == Own(l)  g == Renewed(time[l])
             v == IF w = None THEN [start |-> time[l], n |-> 1] ELSE [w EXCEPT !.n = @ + 1]
         IN  /\ ~OwnFull(l) /\ ~GlobalFull(l) /\ ~TableFull(l)
             /\ ips' = [Table(l) EXCEPT ![ip[l]] = v]
             /\ global' = [g EXCEPT !.n = @ + 1]
             /\ lpc' = [lpc EXCEPT ![l] = "slot"]
             /\ tries' = [tries EXCEPT ![ip[l]] = Append(@, time[l])]
             /\ UNCHANGED <<ip, time, known>>
             /\ granted' = (IF g = global THEN granted ELSE 0) + 1
BY WaitIsRefusal DEF Take, Goto

-----------------------------------------------------------------------------
(* The inductive invariant.                                                *)

LEMMA InitIInv == Init => IInv
<1> SUFFICES ASSUME Init PROVE IInv
  OBVIOUS
<1> USE Numbers
<1>1. Types
  <2>1. <<>> \in Seq(Nat)
    BY EmptySeq
  <2> QED BY <2>1 DEF Init, Types, Places, Windows
<1>2. Clocks /\ Counted
  BY DEF Init, Clocks, Counted
<1>3. Tokens
  <2>1. Holders = {}
    BY DEF Init, Holders
  <2> QED BY <2>1, FS_EmptySet DEF Init, Tokens
<1>4. Series
  <2>1. Len(<<>>) = 0
    BY EmptySeq
  <2>2. LastIs(<<>>, None, 0, -Window)
    BY <2>1 DEF Init, LastIs
  <2>3. Last(<<>>, None) /\ Apart(<<>>)
    BY <2>1, <2>2 DEF Last, Apart
  <2> QED BY <2>3 DEF Init, Series
<1> QED BY <1>1, <1>2, <1>3, <1>4 DEF IInv

\* Only the steps of the channel change who holds a token.
LEMMA SameHolders ==
  ASSUME Tokens, verify' = verify,
         \A l \in Logins : lpc'[l] \in {"verify", "finish"} <=> lpc[l] \in {"verify", "finish"}
  PROVE  Tokens'
<1>1. Holders' = Holders
  BY DEF Holders
<1> QED BY <1>1 DEF Tokens

\* A handler that returns gives its token back.
LEMMA ReleaseKeeps ==
  ASSUME Types, Tokens, NEW l \in Logins, lpc[l] \in {"verify", "finish"},
         verify' = verify - 1, lpc' = [lpc EXCEPT ![l] = "idle"]
  PROVE  Tokens'
<1>1. Holders' = Holders \ {l} /\ l \in Holders
  BY DEF Holders, Types
<1>2. /\ IsFiniteSet(Holders \ {l})
      /\ Cardinality(Holders \ {l}) = Cardinality(Holders) - 1
  BY <1>1, FS_RemoveElement DEF Tokens
<1> QED BY <1>1, <1>2 DEF Tokens

\* The table and the tries are described address by address while the clock
\* stands still.
LEMMA SeriesNow ==
  ASSUME now' = now, \A b \in IPs : Last(tries'[b], ips'[b]) /\ Apart(tries'[b])
  PROVE  Series'
<1> SUFFICES ASSUME NEW b \in IPs PROVE Last(tries[b], ips[b])' /\ Apart(tries[b])'
  BY DEF Series
<1>1. Last(tries'[b], ips'[b]) /\ Apart(tries'[b])
  OBVIOUS
<1>2. PICK c \in 0 .. PerIP, start \in Int : LastIs(tries'[b], ips'[b], c, start)
  BY <1>1 DEF Last
<1>3. LastIs(tries[b], ips[b], c, start)'
  BY <1>2 DEF LastIs
<1> QED BY <1>1, <1>3 DEF Last, Apart

LEMMA TakeKeeps ==
  ASSUME IInv, NEW l \in Logins, Take(l)
  PROVE  IInv'
<1> USE Numbers
<1> DEFINE a == ip[l]
           t == time[l]
           g == Renewed(t)
<1>0. Types /\ Clocks /\ Tokens /\ Counted /\ Series
  BY DEF IInv
<1>1. lpc[l] = "take" /\ now' = now /\ verify' = verify /\ swept' = Swept(t).at
  BY DEF Take
<1>2. /\ a \in IPs /\ t \in Nat /\ t <= now /\ now <= t + Delay
      /\ Swept(t).at \in Int
      /\ Table(l) \in [IPs -> Windows \cup {None}]
      /\ g \in Windows
  BY <1>0, <1>1, TakeFinds
<1>3. forgiven' = IF g = global THEN forgiven ELSE 0
  BY DEF Take
<1>4. ASSUME NEW b \in IPs PROVE Last(tries[b], Table(l)[b])
  <2>1. \/ Table(l)[b] = ips[b]
        \/ ips[b] # None /\ Over(ips[b], t) /\ Table(l)[b] = None
    BY <1>0, <1>1, TakeFinds
  <2>2. Last(tries[b], ips[b]) /\ tries[b] \in Seq(Nat) /\ ips[b] \in Windows \cup {None}
    BY <1>0 DEF Series, Types
  <2>3. ips[b] # None => ips[b] \in Windows
    BY <2>2
  <2> QED BY <1>0, <1>2, <2>1, <2>2, <2>3, SweepKeeps DEF Types
<1>5. global \in Windows /\ granted \in Nat /\ forgiven \in Nat /\ granted <= global.n + forgiven
  BY <1>0 DEF Types, Counted
<1>6. (IF g = global THEN granted ELSE 0) <= g.n + forgiven'
  BY <1>2, <1>3, <1>5 DEF Windows
<1>7. CASE Wait(l) > 0
  <2>1. /\ ips' = Table(l) /\ global' = g /\ Forget(l) /\ tries' = tries
        /\ granted' = (IF g = global THEN granted ELSE 0)
    BY <1>0, <1>7, TakeRefuses
  <2>2. Types'
    BY <1>0, <1>1, <1>2, <1>3, <2>1 DEF Types, Forget, Places
  <2>3. Clocks'
    BY <1>0, <1>1, <2>1 DEF Types, Clocks, Forget
  <2>4. Tokens'
    BY <1>0, <1>1, <2>1, SameHolders DEF Types, Forget
  <2>5. Counted'
    BY <1>6, <2>1 DEF Counted
  <2>6. Series'
    <3>1. \A b \in IPs : Last(tries[b], Table(l)[b]) /\ Apart(tries[b])
      BY <1>0, <1>4 DEF Series
    <3>2. \A b \in IPs : Last(tries'[b], ips'[b]) /\ Apart(tries'[b])
      BY <2>1, <3>1
    <3> QED BY <1>1, <3>2, SeriesNow
  <2> QED BY <2>2, <2>3, <2>4, <2>5, <2>6 DEF IInv
<1>8. CASE ~(Wait(l) > 0)
  <2> DEFINE w == Own(l)
             v == IF w = None THEN [start |-> t, n |-> 1] ELSE [w EXCEPT !.n = @ + 1]
  <2>1. /\ ~OwnFull(l) /\ ips' = [Table(l) EXCEPT ![a] = v]
        /\ global' = [g EXCEPT !.n = @ + 1]
        /\ lpc' = [lpc EXCEPT ![l] = "slot"]
        /\ tries' = [tries EXCEPT ![a] = Append(@, t)]
        /\ UNCHANGED <<ip, time, known>>
        /\ granted' = (IF g = global THEN granted ELSE 0) + 1
    BY <1>0, <1>8, TakeCounts
  <2>2. \/ w = ips[a] /\ w # None /\ ~Over(ips[a], t)
        \/ w = None /\ (ips[a] = None \/ Over(ips[a], t))
    BY <1>0, <1>1, TakeFinds
  <2>3. ips[a] \in Windows \cup {None} /\ tries[a] \in Seq(Nat)
    BY <1>0, <1>2 DEF Types
  <2>4. /\ v \in Windows
        /\ \/ /\ ips[a] # None /\ ~Over(ips[a], t) /\ ips[a].n < PerIP
              /\ v.start = ips[a].start /\ v.n = ips[a].n + 1
           \/ (ips[a] = None \/ Over(ips[a], t)) /\ v.start = t /\ v.n = 1
    <3>1. CASE w = None
      BY <1>2, <2>2, <3>1 DEF Windows
    <3>2. CASE w # None
      <4>1. w = ips[a] /\ w \in Windows /\ ~Over(ips[a], t) /\ ~(w.n >= PerIP)
        BY <2>1, <2>2, <2>3, <3>2 DEF OwnFull
      <4> QED BY <3>2, <4>1 DEF Windows
    <3> QED BY <3>1, <3>2
  <2> HIDE DEF w, v
  <2>5. /\ Append(tries[a], t) \in Seq(Nat)
        /\ Last(Append(tries[a], t), v) /\ Apart(Append(tries[a], t))
    <3>1. now \in Nat /\ Last(tries[a], ips[a]) /\ Apart(tries[a])
      BY <1>0, <1>2 DEF Types, Series
    <3> QED BY <1>2, <2>3, <2>4, <3>1, SeriesGrows
  <2>6. global'.n = g.n + 1 /\ global' \in Windows
    BY <1>2, <2>1 DEF Windows
  <2>7. Types'
    <3>1. ips' \in [IPs -> Windows \cup {None}]
      BY <1>2, <2>1, <2>4
    <3>2. tries' \in [IPs -> Seq(Nat)]
      BY <1>0, <2>1, <2>5 DEF Types
    <3>3. lpc' \in [Logins -> Places]
      BY <1>0, <2>1 DEF Types, Places
    <3>4. granted' \in Nat /\ forgiven' \in Nat
      BY <1>3, <1>5, <2>1
    <3>5. UNCHANGED <<now, ip, time, known>> /\ swept' \in Int
      BY <1>1, <1>2, <2>1
    <3> QED BY <1>0, <2>6, <3>1, <3>2, <3>3, <3>4, <3>5 DEF Types
  <2>8. Clocks'
    BY <1>0, <1>1, <2>1 DEF Types, Clocks
  <2>9. Tokens'
    BY <1>0, <1>1, <2>1, SameHolders DEF Types
  <2>10. Counted'
    <3>1. g.n \in Nat /\ forgiven' \in Nat
      BY <1>2, <2>7 DEF Windows, Types
    <3> QED BY <1>5, <1>6, <2>1, <2>6, <3>1 DEF Counted
  <2>11. Series'
    <3> SUFFICES ASSUME NEW b \in IPs PROVE Last(tries'[b], ips'[b]) /\ Apart(tries'[b])
      BY <1>1, SeriesNow
    <3>1. CASE b = a
      <4>1. tries'[b] = Append(tries[a], t) /\ ips'[b] = v
        BY <1>0, <1>2, <2>1, <3>1 DEF Types
      <4> QED BY <2>5, <4>1
    <3>2. CASE b # a
      <4>1. tries'[b] = tries[b] /\ ips'[b] = Table(l)[b]
        BY <1>0, <1>2, <2>1, <3>2 DEF Types
      <4> QED BY <1>0, <1>4, <4>1 DEF Series
    <3> QED BY <3>1, <3>2
  <2> QED BY <2>7, <2>8, <2>9, <2>10, <2>11 DEF IInv
<1> QED BY <1>7, <1>8

\* The table, the tries and the clock stay.
LEMMA SeriesKeep ==
  ASSUME Series, UNCHANGED <<now, ips, tries>>
  PROVE  Series'
<1>1. ASSUME NEW X, NEW w, NEW c, NEW start
      PROVE  LastIs(X, w, c, start)' <=> LastIs(X, w, c, start)
  BY DEF LastIs
<1>2. ASSUME NEW a \in IPs
      PROVE  Last(tries[a], ips[a])' /\ Apart(tries[a])'
  <2>1. Last(tries[a], ips[a]) /\ Apart(tries[a])
    BY DEF Series
  <2>2. PICK c \in 0 .. PerIP, start \in Int : LastIs(tries[a], ips[a], c, start)
    BY <2>1 DEF Last
  <2>3. LastIs(tries[a], ips[a], c, start)'
    BY <1>1, <2>2
  <2>4. Last(tries[a], ips[a])'
    BY <2>3 DEF Last
  <2>5. Apart(tries[a])'
    BY <2>1 DEF Apart
  <2> QED
    BY <2>4, <2>5
<1> QED
  BY <1>2 DEF Series

LEMMA ForgiveKeeps ==
  ASSUME IInv, NEW l \in Logins, Forgive(l)
  PROVE  IInv'
<1> USE Numbers
<1>0. Types /\ Clocks /\ Tokens /\ Counted /\ Series
  BY DEF IInv
<1>1. /\ lpc[l] = "verify" /\ lpc' = [lpc EXCEPT ![l] = "finish"]
      /\ ips' = [ips EXCEPT ![ip[l]] = None]
      /\ global' = [global EXCEPT !.n = Forgiven(@)]
      /\ tries' = [tries EXCEPT ![ip[l]] = <<>>]
      /\ forgiven' = forgiven + 1
      /\ UNCHANGED <<now, swept, verify, ip, time, known, granted>>
  BY DEF Forgive, Goto
<1>2. global \in Windows /\ global.n \in Nat
  BY <1>0 DEF Types, Windows
<1>3. /\ global' \in Windows /\ global'.n \in Nat
      /\ global'.n = Forgiven(global.n) /\ global'.n + 1 >= global.n
  BY <1>1, <1>2 DEF Forgiven, Windows
<1>4. Types'
  <2>1. <<>> \in Seq(Nat)
    BY EmptySeq
  <2>2. ips' \in [IPs -> Windows \cup {None}] /\ tries' \in [IPs -> Seq(Nat)]
    BY <1>0, <1>1, <2>1 DEF Types
  <2>3. lpc' \in [Logins -> Places] /\ forgiven' \in Nat
    BY <1>0, <1>1 DEF Types, Places
  <2> QED BY <1>0, <1>1, <1>3, <2>2, <2>3 DEF Types
<1>5. Clocks'
  BY <1>0, <1>1 DEF Types, Clocks
<1>6. Tokens'
  BY <1>0, <1>1, SameHolders DEF Types
<1>7. Counted'
  <2>1. granted \in Nat /\ forgiven \in Nat /\ granted <= global.n + forgiven
    BY <1>0 DEF Types, Counted
  <2> QED BY <1>1, <1>2, <1>3, <2>1 DEF Counted
<1>8. Series'
  <2> SUFFICES ASSUME NEW b \in IPs PROVE Last(tries'[b], ips'[b]) /\ Apart(tries'[b])
    BY <1>1, SeriesNow
  <2>1. CASE b = ip[l]
    <3>1. tries'[b] = <<>> /\ ips'[b] = None /\ Len(<<>>) = 0
      BY <1>0, <1>1, <2>1, EmptySeq DEF Types
    <3>2. now - Window \in Int /\ (now - Window) + Window <= now
      BY <1>0 DEF Types
    <3>3. LastIs(<<>>, None, 0, now - Window)
      BY <3>1, <3>2 DEF LastIs
    <3> QED BY <3>1, <3>2, <3>3 DEF Last, Apart
  <2>2. CASE b # ip[l]
    <3>1. tries'[b] = tries[b] /\ ips'[b] = ips[b]
      BY <1>0, <1>1, <2>2 DEF Types
    <3> QED BY <1>0, <3>1 DEF Series
  <2> QED BY <2>1, <2>2
<1> QED BY <1>4, <1>5, <1>6, <1>7, <1>8 DEF IInv

LEMMA TickKeeps ==
  ASSUME IInv, Tick
  PROVE  IInv'
<1>0. Types /\ Clocks /\ Tokens /\ Counted /\ Series
  BY DEF IInv
<1>1. /\ now \in Nat /\ now' = now + 1
      /\ UNCHANGED <<ips, global, swept, verify, lpc, ip, time, known, tries, granted, forgiven>>
      /\ \A l \in Logins : lpc[l] = "take" => now < time[l] + Delay
  BY <1>0 DEF Tick, Types, limiter, login, ghost
<1>2. Types'
  BY <1>0, <1>1 DEF Types
<1>3. Clocks'
  <2> SUFFICES ASSUME NEW l \in Logins
               PROVE  /\ lpc[l] # "idle" => ip[l] \in IPs
                      /\ lpc[l] = "take" => time[l] <= now + 1 /\ now + 1 <= time[l] + Delay
    BY <1>1 DEF Clocks
  <2> QED BY <1>0, <1>1, Numbers DEF Types, Clocks
<1>4. Tokens' /\ Counted'
  BY <1>0, <1>1, SameHolders DEF Counted
<1>5. Series'
  <2> SUFFICES ASSUME NEW b \in IPs PROVE Last(tries[b], ips[b])' /\ Apart(tries[b])'
    BY DEF Series
  <2>1. tries[b] \in Seq(Nat) /\ Last(tries[b], ips[b]) /\ Apart(tries[b])
    BY <1>0 DEF Types, Series
  <2>2. now' \in Nat /\ now <= now'
    BY <1>1
  <2>3. ASSUME NEW X \in Seq(Nat), NEW w, Last(X, w), X = tries[b], w = ips[b]
        PROVE  Last(tries[b], ips[b])'
    <3>1. Last(X, w)'
      BY <1>1, <2>2, <2>3, LastLater
    <3> QED BY <1>1, <2>3, <3>1 DEF Last, LastIs
  <2>4. Apart(tries[b])'
    BY <1>1, <2>1 DEF Apart
  <2> QED BY <2>1, <2>3, <2>4
<1> QED BY <1>2, <1>3, <1>4, <1>5 DEF IInv

LEMMA IInvStep == IInv /\ [Next]_vars => IInv'
<1> SUFFICES ASSUME IInv, [Next]_vars PROVE IInv'
  OBVIOUS
<1>0. Types /\ Clocks /\ Tokens /\ Counted /\ Series
  BY DEF IInv
<1>1. CASE UNCHANGED vars
  <2>1. /\ UNCHANGED <<now, ips, global, swept, verify, lpc, ip, time, known>>
        /\ UNCHANGED <<tries, granted, forgiven>>
    BY <1>1 DEF vars, limiter, login, ghost
  <2> QED BY <1>0, <2>1, SeriesKeep, SameHolders DEF IInv, Types, Clocks, Counted
<1>2. CASE Tick
  BY <1>2, TickKeeps
<1>3. ASSUME NEW l \in Logins, Take(l) PROVE IInv'
  BY <1>3, TakeKeeps
<1>4. ASSUME NEW l \in Logins, Forgive(l) PROVE IInv'
  BY <1>4, ForgiveKeeps
<1>5. ASSUME NEW l \in Logins, Acquire(l) PROVE IInv'
  <2>1. /\ lpc[l] = "slot" /\ lpc' = [lpc EXCEPT ![l] = "verify"] /\ verify' = verify + 1
        /\ UNCHANGED <<now, ips, global, swept, ip, time, known, tries, granted, forgiven>>
    BY <1>5 DEF Acquire, Goto, limiter, ghost
  <2>2. Types' /\ Clocks' /\ Counted'
    BY <1>0, <2>1 DEF Types, Clocks, Counted, Places
  <2>3. Tokens'
    <3>1. Holders' = Holders \cup {l} /\ l \notin Holders
      BY <1>0, <2>1 DEF Holders, Types
    <3>2. /\ IsFiniteSet(Holders \cup {l})
          /\ Cardinality(Holders \cup {l}) = Cardinality(Holders) + 1
      BY <1>0, <3>1, FS_AddElement DEF Tokens
    <3> QED BY <1>0, <2>1, <3>1, <3>2 DEF Tokens
  <2> QED BY <1>0, <2>1, <2>2, <2>3, SeriesKeep DEF IInv
<1>6. ASSUME NEW l \in Logins, Abandon(l) \/ Reject(l) \/ Finish(l) PROVE IInv'
  <2>1. /\ Forget(l)
        /\ UNCHANGED <<now, ips, global, swept, tries, granted, forgiven>>
    BY <1>6 DEF Abandon, Reject, Finish, limiter, ghost
  <2>2. Types' /\ Clocks' /\ Counted'
    BY <1>0, <2>1 DEF Types, Clocks, Counted, Places, Forget
  <2>3. CASE Abandon(l)
    <3>1. Tokens'
      BY <1>0, <2>1, <2>3, SameHolders DEF Types, Abandon, Forget
    <3> QED BY <1>0, <2>1, <2>2, <3>1, SeriesKeep DEF IInv
  <2>4. CASE Reject(l) \/ Finish(l)
    <3>1. Tokens'
      BY <1>0, <2>1, <2>4, ReleaseKeeps DEF Reject, Finish, Forget
    <3> QED BY <1>0, <2>1, <2>2, <3>1, SeriesKeep DEF IInv
  <2> QED BY <1>6, <2>3, <2>4
<1>7. ASSUME NEW l \in Logins, NEW a \in IPs, NEW k \in BOOLEAN, Arrive(l, a, k) PROVE IInv'
  <2>1. /\ lpc[l] = "idle" /\ lpc' = [lpc EXCEPT ![l] = "take"]
        /\ ip' = [ip EXCEPT ![l] = a] /\ time' = [time EXCEPT ![l] = now]
        /\ known' = [known EXCEPT ![l] = k]
        /\ UNCHANGED <<now, ips, global, swept, verify, tries, granted, forgiven>>
    BY <1>7 DEF Arrive, Goto, limiter, ghost
  <2>2. Types' /\ Counted'
    BY <1>0, <2>1 DEF Types, Counted, Places
  <2>3. Clocks'
    BY <1>0, <2>1, Numbers DEF Types, Clocks
  <2>4. Tokens'
    BY <1>0, <2>1, SameHolders DEF Types
  <2> QED BY <1>0, <2>1, <2>2, <2>3, <2>4, SeriesKeep DEF IInv
<1> QED BY <1>1, <1>2, <1>3, <1>4, <1>5, <1>6, <1>7 DEF Next, Handle

\* The limiter, the tokens and what was let through stay as IInv describes them.
THEOREM Inductive == Spec => []IInv
BY InitIInv, IInvStep, PTL DEF Spec

-----------------------------------------------------------------------------
(* The properties.                                                         *)

\* No token of server.verify is lost or made up on any path through login.
THEOREM NoTokenLost == Spec => []SlotsExact
<1>1. IInv => SlotsExact
  BY DEF IInv, Tokens, Holders, SlotsExact
<1> QED BY <1>1, Inductive, PTL

\* Whatever is swept, and whichever clocks the logins carry, an address gets at
\* most two windows' worth of tries in a span of a window less twice the Delay.
THEOREM AddressLimit == Spec => []PerIPLimit
<1>1. IInv => PerIPLimit
  <2> SUFFICES ASSUME IInv, NEW a \in IPs, NEW t \in 0 .. MaxTime
               PROVE  Cardinality({i \in DOMAIN tries[a] :
                        t <= tries[a][i] /\ tries[a][i] + 2 * Delay <= t + Window}) <= 2 * PerIP
    BY DEF PerIPLimit
  <2> USE Numbers
  <2> DEFINE W == {i \in DOMAIN tries[a] :
                     t <= tries[a][i] /\ tries[a][i] + 2 * Delay <= t + Window}
  <2>1. PICK x \in Nat : x = Len(tries[a]) /\ tries[a] \in [1 .. x -> Nat]
    BY LenProperties DEF IInv, Types
  <2>2. t \in Nat /\ 2 * PerIP \in Nat \ {0}
    BY BoundAssumption
  <2>3. \A i, m \in 1 .. x : i + 2 * PerIP <= m =>
          tries[a][i] + Window < tries[a][m] + 2 * Delay
    BY <2>1 DEF IInv, Series, Apart
  <2>4. W \in SUBSET (1 .. x)
    BY <2>1
  <2>5. ASSUME NEW i \in W, NEW m \in W PROVE m < i + 2 * PerIP
    <3>1. i \in 1 .. x /\ m \in 1 .. x /\ tries[a][i] \in Nat /\ tries[a][m] \in Nat
      BY <2>1, <2>4
    <3>2. t <= tries[a][i] /\ tries[a][m] + 2 * Delay <= t + Window
      OBVIOUS
    <3>3. ~(tries[a][i] + Window < tries[a][m] + 2 * Delay)
      BY <2>2, <3>1, <3>2
    <3>4. ~(i + 2 * PerIP <= m)
      BY <2>3, <3>1, <3>3
    <3> QED BY <3>1, <3>4
  <2> HIDE DEF W
  <2>6. Cardinality(W) <= 2 * PerIP
    BY <2>2, <2>4, <2>5, CountClose
  <2> QED BY <2>6 DEF W
<1> QED BY <1>1, Inductive, PTL

\* take never refuses a login with a time to wait of zero, which the handler
\* would take for leave: who is let through was counted, at both limits.
THEOREM CountedIfLet == Spec => LetThroughIsCounted
<1>1. ASSUME IInv, [Next]_vars, NEW l \in Logins, lpc[l] = "take", lpc'[l] = "slot"
      PROVE  /\ Take(l) /\ ~(Wait(l) > 0)
             /\ ips'[ip[l]] # None
             /\ ips'[ip[l]].n = (IF Own(l) = None THEN 0 ELSE Own(l).n) + 1
             /\ global'.n = Renewed(time[l]).n + 1
  <2>0. Types /\ Clocks
    BY <1>1 DEF IInv
  <2>1. Take(l)
    BY <1>1, <2>0 DEF Next, Handle, Take, Acquire, Abandon, Reject, Forgive, Finish, Arrive,
                      Goto, Forget, Tick, vars, login, Types
  <2>2. ~(Wait(l) > 0)
    BY <1>1, <2>0, <2>1, TakeRefuses DEF Forget, Types
  <2> DEFINE v == IF Own(l) = None THEN [start |-> time[l], n |-> 1]
                                   ELSE [Own(l) EXCEPT !.n = @ + 1]
  <2>3. /\ ips' = [Table(l) EXCEPT ![ip[l]] = v]
        /\ global' = [Renewed(time[l]) EXCEPT !.n = @ + 1]
    BY <2>0, <2>1, <2>2, TakeCounts
  <2>4. /\ ip[l] \in IPs /\ Renewed(time[l]) \in Windows /\ time[l] \in Nat
        /\ Table(l) \in [IPs -> Windows \cup {None}]
    BY <1>1, <2>0, TakeFinds
  <2>5. Own(l) = None \/ Own(l) \in Windows
    BY <2>4 DEF Own
  <2>6. v \in Windows /\ v.n = (IF Own(l) = None THEN 0 ELSE Own(l).n) + 1
    BY <2>4, <2>5 DEF Windows
  <2> HIDE DEF v
  <2>7. ips'[ip[l]] = v
    BY <2>3, <2>4
  <2>8. global'.n = Renewed(time[l]).n + 1
    BY <2>3, <2>4 DEF Windows
  <2>9. v # None
    BY <2>6, NullAssumption DEF Windows
  <2> QED BY <2>1, <2>2, <2>6, <2>7, <2>8, <2>9
<1>2. IInv /\ [Next]_vars =>
        [\A l \in Logins : lpc[l] = "take" /\ lpc'[l] = "slot" =>
           /\ ips'[ip[l]] # None
           /\ ips'[ip[l]].n = (IF Own(l) = None THEN 0 ELSE Own(l).n) + 1
           /\ global'.n = Renewed(time[l]).n + 1]_vars
  BY <1>1
<1> QED BY <1>2, Inductive, PTL DEF Spec, LetThroughIsCounted

\* The global limit binds logins from unknown devices, whatever known devices
\* and successes do to the count (take and forgive).
THEOREM EveryonesLimit == Spec => GlobalLimit
<1>1. ASSUME IInv, [Next]_vars, NEW l \in Logins,
             lpc[l] = "take", lpc'[l] = "slot", ~known[l]
      PROVE  granted' <= Global + forgiven'
  <2> USE Numbers
  <2> DEFINE g == Renewed(time[l])
  <2>0. Types /\ Clocks /\ Counted
    BY <1>1 DEF IInv
  <2>1. Take(l)
    BY <1>1, <2>0 DEF Next, Handle, Take, Acquire, Abandon, Reject, Forgive, Finish, Arrive,
                      Goto, Forget, Tick, vars, login, Types
  <2>2. ~(Wait(l) > 0)
    BY <1>1, <2>0, <2>1, TakeRefuses DEF Forget, Types
  <2>3. ~GlobalFull(l) /\ granted' = (IF g = global THEN granted ELSE 0) + 1
    BY <2>0, <2>1, <2>2, TakeCounts
  <2>4. g \in Windows /\ time[l] \in Nat
    BY <1>1, <2>0, TakeFinds
  <2>5. g.n < Global /\ g.n \in Nat
    BY <1>1, <2>3, <2>4 DEF GlobalFull, Windows
  <2>6. forgiven' = IF g = global THEN forgiven ELSE 0
    BY <2>1 DEF Take
  <2>7. granted \in Nat /\ forgiven \in Nat /\ granted <= global.n + forgiven
    BY <2>0 DEF Types, Counted
  <2> HIDE DEF g
  <2> QED BY <2>3, <2>5, <2>6, <2>7
<1>2. IInv /\ [Next]_vars =>
        [\A l \in Logins : lpc[l] = "take" /\ lpc'[l] = "slot" /\ ~known[l] =>
           granted' <= Global + forgiven']_vars
  BY <1>1
<1> QED BY <1>2, Inductive, PTL DEF Spec, GlobalLimit
=============================================================================
