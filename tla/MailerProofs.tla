---------------------------- MODULE MailerProofs ----------------------------
(***************************************************************************)
(* Proofs about Mailer for every number of senders and recipients, all     *)
(* limits and all lengths of the hour and the Delay.                       *)
(*                                                                         *)
(* That the limits hold is a fact about the list of one kind and the mails *)
(* it let through: the list is the end of the history, read off earlier    *)
(* clocks (Matched), what was cut off it is nearly an hour ago (Gone), and *)
(* so a mail is let through nearly an hour after the one that many places  *)
(* before it (Spread).                                                     *)
(***************************************************************************)
EXTENDS Mailer, FiniteSetTheorems, SequenceTheorems, WellFoundedInduction, TLAPS

Places == {"idle", "lock", "dial", "talk", "rcpt", "data", "quit", "lost", "late"}

Types ==
  /\ now \in Nat
  /\ sent \in [Kinds -> Seq(Nat)]
  /\ grants \in [Kinds -> Seq(Nat)]
  /\ spc \in [Senders -> Places]
  /\ kind \in [Senders -> Kinds \cup {None}]
  /\ time \in [Senders -> Nat]
  /\ rcpt \in [Senders -> Nat]
  /\ taken \in [Senders -> Nat]

\* A sender that wants the mutex knows its kind and a clock that is not old.
Waiting ==
  \A s \in Senders : spc[s] = "lock" =>
    kind[s] \in Kinds /\ time[s] <= now /\ now <= time[s] + Delay

\* How far the dialogue has come: the message is sent only when every recipient
\* was accepted.
Dialogue ==
  \A s \in Senders :
    /\ spc[s] \in {"idle", "lock", "dial", "talk"} => rcpt[s] = 0
    /\ spc[s] = "rcpt" => rcpt[s] < To
    /\ spc[s] = "data" => rcpt[s] = To
    /\ taken[s] \in {0, To}
    /\ spc[s] = "quit" => taken[s] = To

\* Mails were let through one after the other, all by now.
Ordered(G) == /\ \A i, j \in 1 .. Len(G) : i <= j => G[i] <= G[j]
              /\ \A i \in 1 .. Len(G) : G[i] <= now

\* The list L belongs to the last of the mails G: each was let through at most
\* Delay after the time in the list.
Matched(L, G) ==
  /\ Len(L) <= Len(G)
  /\ \A j \in 1 .. Len(L) : LET g == G[j + Len(G) - Len(L)]
                            IN  L[j] <= g /\ g <= L[j] + Delay

\* The mails before those were let through an hour ago, less the Delay.
Gone(L, G) == \A i \in 1 .. Len(G) - Len(L) : G[i] + Hour <= now + Delay

\* Between a mail and the one limit places later lies an hour, less the Delay.
Spread(G, limit) ==
  \A i, m \in 1 .. Len(G) : i + limit <= m => G[i] + Hour <= G[m] + Delay

Lists ==
  \A k \in Kinds : /\ Ordered(grants[k])
                   /\ Matched(sent[k], grants[k])
                   /\ Gone(sent[k], grants[k])
                   /\ Spread(grants[k], Limit[k])

IInv == Types /\ Waiting /\ Dialogue /\ Lists

-----------------------------------------------------------------------------
(* Lemmas.                                                                 *)

\* A set of natural numbers with an upper bound has a greatest element.
LEMMA NatMax ==
  ASSUME NEW n \in Nat, NEW T \in SUBSET (0 .. n), T # {}
  PROVE  \E x \in T : \A y \in T : y <= x
<1> DEFINE R == OpToRel(<, Nat)
           U == {n - y : y \in T}
<1>1. IsWellFoundedOn(R, Nat)
  BY NatLessThanWellFounded
<1>2. U \subseteq Nat /\ U # {}
  <2>1. \A y \in T : n - y \in Nat
    OBVIOUS
  <2> QED BY <2>1
<1> HIDE DEF R, U
<1>3. PICK x \in U : \A y \in U : ~(<<y, x>> \in R)
  BY <1>1, <1>2, WFMin, Zenon
<1>4. \A y \in U : ~(<<y, x>> \in OpToRel(<, Nat))
  BY <1>3 DEF R
<1>5. \A y \in U : ~(y < x)
  BY <1>2, <1>4 DEF OpToRel
<1>6. PICK z \in T : x = n - z
  BY <1>3 DEF U
<1>7. \A y \in T : n - y \in U
  BY DEF U
<1>8. \A y \in T : ~(n - y < n - z)
  BY <1>5, <1>6, <1>7
<1> QED BY <1>8

\* Indices that lie less than limit apart are at most limit many.
LEMMA CountClose ==
  ASSUME NEW n \in Nat, NEW limit \in Nat \ {0}, NEW W \in SUBSET (1 .. n),
         \A i, m \in W : m < i + limit
  PROVE  Cardinality(W) <= limit
<1>1. CASE W = {}
  BY <1>1, FS_EmptySet
<1>2. CASE W # {}
  <2>1. PICK x \in W : \A y \in W : y <= x
    <3>1. W \in SUBSET (0 .. n)
      OBVIOUS
    <3> QED BY <1>2, <3>1, NatMax
  <2>2. x \in Nat /\ W \subseteq x - limit + 1 .. x
    BY <2>1
  <2>3. IsFiniteSet(x - limit + 1 .. x) /\ Cardinality(x - limit + 1 .. x) = limit
    BY <2>2, FS_Interval
  <2> QED BY <2>2, <2>3, FS_Subset
<1> QED BY <1>1, <1>2

\* The loop of reserve: what it keeps is the list from its first young entry on.
LEMMA KeptIs ==
  ASSUME NEW list \in Seq(Nat), NEW s
  PROVE  \E n \in 0 .. Len(list) :
           /\ Kept(list, s) = SubSeq(list, n + 1, Len(list))
           /\ \A j \in 1 .. n : Old(list[j], s)
           /\ n < Len(list) => ~Old(list[n + 1], s)
<1> DEFINE cut == {i \in 0 .. Len(list) : \A j \in 1 .. i : Old(list[j], s)}
           n   == CHOOSE i \in cut : \A j \in cut : j <= i
<1>1. Len(list) \in Nat
  BY LenProperties
<1>2. 0 \in cut /\ cut \in SUBSET (0 .. Len(list))
  BY <1>1
<1> HIDE DEF cut
<1>3. n \in cut /\ \A j \in cut : j <= n
  <2>1. \E i \in cut : \A j \in cut : j <= i
    BY <1>1, <1>2, NatMax
  <2> QED BY <2>1, Zenon
<1> HIDE DEF n
<1>4. n \in 0 .. Len(list) /\ \A j \in 1 .. n : Old(list[j], s)
  BY <1>3 DEF cut
<1>5. n < Len(list) => ~Old(list[n + 1], s)
  <2> SUFFICES ASSUME n < Len(list), Old(list[n + 1], s) PROVE FALSE
    OBVIOUS
  <2>1. n + 1 \in 0 .. Len(list) /\ \A j \in 1 .. n + 1 : Old(list[j], s)
    BY <1>1, <1>4
  <2>2. n + 1 \in cut
    BY <2>1 DEF cut
  <2> QED BY <1>3, <1>4, <2>2
<1>6. Kept(list, s) = SubSeq(list, n + 1, Len(list))
  BY Zenon DEF Kept, cut, n
<1> QED BY <1>4, <1>5, <1>6

\* The same as functions and numbers: entries that the clock T calls old belong
\* to mails let through an hour before N, less the Delay; from the first that
\* it does not call old on, all mails were let through within the hour.
LEMMA CutGone ==
  ASSUME NEW a \in Nat, NEW b \in 0 .. a, NEW n \in 0 .. b,
         NEW G \in [1 .. a -> Nat], NEW L \in [1 .. b -> Nat],
         NEW N \in Nat, NEW T \in Nat, T <= N,
         \A i, j \in 1 .. a : i <= j => G[i] <= G[j],
         \A j \in 1 .. b : L[j] <= G[j + a - b] /\ G[j + a - b] <= L[j] + Delay,
         \A i \in 1 .. a - b : G[i] + Hour <= N + Delay,
         \A j \in 1 .. n : L[j] + Hour <= T,
         n < b => ~(L[n + 1] + Hour <= T)
  PROVE  /\ \A i \in 1 .. a - (b - n) : G[i] + Hour <= N + Delay
         /\ \A i \in 1 .. a : i > a - (b - n) => G[i] + Hour > T
<1> USE HourAssumption
<1>1. ASSUME NEW i \in 1 .. a - (b - n) PROVE G[i] + Hour <= N + Delay
  <2>1. CASE i <= a - b
    <3>1. i \in 1 .. a - b
      BY <2>1
    <3> QED BY <3>1
  <2>2. CASE i > a - b
    <3>1. PICK j \in 1 .. n : j + a - b = i
      <4>1. i - (a - b) \in 1 .. n /\ (i - (a - b)) + a - b = i
        BY <2>2
      <4> QED BY <4>1
    <3>2. j \in 1 .. b /\ i \in 1 .. a
      OBVIOUS
    <3>3. G[i] <= L[j] + Delay /\ L[j] + Hour <= T
      BY <3>1, <3>2
    <3>4. G[i] \in Nat /\ L[j] \in Nat
      BY <3>2
    <3>5. \A x, y \in Nat : x <= y + Delay /\ y + Hour <= T => x + Hour <= N + Delay
      OBVIOUS
    <3> QED BY <3>3, <3>4, <3>5, ZenonT(30)
  <2> QED BY <2>1, <2>2
<1>2. ASSUME NEW i \in 1 .. a, i > a - (b - n) PROVE G[i] + Hour > T
  <2>1. n < b /\ n + 1 \in 1 .. b /\ (n + 1) + a - b \in 1 .. a /\ (n + 1) + a - b <= i
    BY <1>2
  <2>2. L[n + 1] <= G[(n + 1) + a - b] /\ G[(n + 1) + a - b] <= G[i]
    BY <2>1
  <2>3. L[n + 1] \in Nat /\ G[(n + 1) + a - b] \in Nat /\ G[i] \in Nat
    BY <2>1
  <2>4. ~(L[n + 1] + Hour <= T)
    BY <2>1
  <2>5. \A x, y, z \in Nat : x <= y /\ y <= z /\ ~(x + Hour <= T) => z + Hour > T
    OBVIOUS
  <2> QED BY <2>2, <2>3, <2>4, <2>5, ZenonT(30)
<1> QED BY <1>1, <1>2

\* What the loop leaves of a list still belongs to the last mails, the ones it
\* cuts off are gone, and all that stay were let through within the hour.
LEMMA KeptMatches ==
  ASSUME NEW L \in Seq(Nat), NEW G \in Seq(Nat), now \in Nat,
         NEW s \in Senders, time[s] \in Nat, time[s] <= now,
         Ordered(G), Matched(L, G), Gone(L, G)
  PROVE  /\ Kept(L, s) \in Seq(Nat)
         /\ Matched(Kept(L, s), G)
         /\ Gone(Kept(L, s), G)
         /\ \A i \in 1 .. Len(G) : i > Len(G) - Len(Kept(L, s)) => G[i] + Hour > time[s]
<1>1. PICK a \in Nat, b \in Nat : /\ a = Len(G) /\ b = Len(L)
                                  /\ G \in [1 .. a -> Nat] /\ L \in [1 .. b -> Nat]
  BY LenProperties
<1>2. PICK n \in 0 .. b : /\ Kept(L, s) = SubSeq(L, n + 1, b)
                          /\ \A j \in 1 .. n : Old(L[j], s)
                          /\ n < b => ~Old(L[n + 1], s)
  BY <1>1, KeptIs
<1>3. /\ Kept(L, s) \in Seq(Nat)
      /\ Len(Kept(L, s)) = b - n
      /\ \A i \in 1 .. b - n : Kept(L, s)[i] = L[n + i]
  <2> DEFINE K == SubSeq(L, n + 1, b)
  <2>1. n + 1 \in Int /\ b \in Int /\ \A i \in n + 1 .. b : L[i] \in Nat
    BY <1>1
  <2>2. /\ K \in Seq(Nat)
        /\ Len(K) = IF n + 1 <= b THEN b - (n + 1) + 1 ELSE 0
        /\ \A i \in 1 .. b - (n + 1) + 1 : K[i] = L[(n + 1) + i - 1]
    BY <2>1, SubSeqProperties
  <2> HIDE DEF K
  <2>3. Len(K) = b - n
    BY <2>2
  <2>4. ASSUME NEW i \in 1 .. b - n PROVE K[i] = L[n + i]
    <3>1. i \in 1 .. b - (n + 1) + 1 /\ (n + 1) + i - 1 = n + i
      OBVIOUS
    <3>2. K[i] = L[(n + 1) + i - 1]
      BY <2>2, <3>1
    <3> QED BY <3>1, <3>2
  <2>5. Kept(L, s) = K
    BY <1>2 DEF K
  <2> QED BY <2>2, <2>3, <2>4, <2>5
<1>4. b <= a /\ \A j \in 1 .. b : L[j] <= G[j + a - b] /\ G[j + a - b] <= L[j] + Delay
  BY <1>1 DEF Matched
<1>5. Matched(Kept(L, s), G)
  <2>1. ASSUME NEW j \in 1 .. b - n
        PROVE  LET g == G[j + a - (b - n)]
               IN  Kept(L, s)[j] <= g /\ g <= Kept(L, s)[j] + Delay
    <3>1. n + j \in 1 .. b /\ (n + j) + a - b = j + a - (b - n) /\ Kept(L, s)[j] = L[n + j]
      BY <1>1, <1>3, <2>1
    <3> QED BY <1>4, <3>1
  <2> QED BY <1>1, <1>3, <1>4, <2>1 DEF Matched
<1>6. /\ \A i, j \in 1 .. a : i <= j => G[i] <= G[j]
      /\ \A i \in 1 .. a - b : G[i] + Hour <= now + Delay
  BY <1>1 DEF Ordered, Gone
<1>7. /\ \A j \in 1 .. n : L[j] + Hour <= time[s]
      /\ n < b => ~(L[n + 1] + Hour <= time[s])
  BY <1>2 DEF Old
<1>8. /\ \A i \in 1 .. a - (b - n) : G[i] + Hour <= now + Delay
      /\ \A i \in 1 .. a : i > a - (b - n) => G[i] + Hour > time[s]
  <2>1. b \in 0 .. a
    BY <1>4
  <2> QED BY <1>1, <1>4, <1>6, <1>7, <2>1, CutGone
<1>9. Gone(Kept(L, s), G)
  BY <1>1, <1>3, <1>8 DEF Gone
<1> QED BY <1>1, <1>3, <1>5, <1>8, <1>9

\* A mail let through now, with a clock t that is not older than Delay, when
\* the list has fewer than limit entries.
LEMMA GrantKeeps ==
  ASSUME NEW K \in Seq(Nat), NEW G \in Seq(Nat), now \in Nat, NEW limit \in Nat \ {0},
         NEW t \in Nat, t <= now, now <= t + Delay,
         Ordered(G), Matched(K, G), Gone(K, G), Spread(G, limit), Len(K) < limit
  PROVE  /\ Append(K, t) \in Seq(Nat) /\ Append(G, now) \in Seq(Nat)
         /\ Ordered(Append(G, now))
         /\ Matched(Append(K, t), Append(G, now))
         /\ Gone(Append(K, t), Append(G, now))
         /\ Spread(Append(G, now), limit)
<1> DEFINE H == Append(G, now)
           M == Append(K, t)
<1> USE HourAssumption
<1>1. PICK a \in Nat, b \in Nat : /\ a = Len(G) /\ b = Len(K)
                                  /\ G \in [1 .. a -> Nat] /\ K \in [1 .. b -> Nat]
  BY LenProperties
<1>2. /\ H \in Seq(Nat) /\ Len(H) = a + 1 /\ H \in [1 .. a + 1 -> Nat]
      /\ H[a + 1] = now /\ \A i \in 1 .. a : H[i] = G[i]
  <2>1. /\ H \in Seq(Nat) /\ Len(H) = Len(G) + 1
        /\ H[Len(G) + 1] = now /\ \A i \in 1 .. Len(G) : H[i] = G[i]
    BY AppendProperties
  <2> HIDE DEF H
  <2>2. H \in [1 .. Len(H) -> Nat]
    BY <2>1, LenProperties
  <2> QED BY <1>1, <2>1, <2>2
<1>3. /\ M \in Seq(Nat) /\ Len(M) = b + 1 /\ M \in [1 .. b + 1 -> Nat]
      /\ M[b + 1] = t /\ \A i \in 1 .. b : M[i] = K[i]
  <2>1. /\ M \in Seq(Nat) /\ Len(M) = Len(K) + 1
        /\ M[Len(K) + 1] = t /\ \A i \in 1 .. Len(K) : M[i] = K[i]
    BY AppendProperties
  <2> HIDE DEF M
  <2>2. M \in [1 .. Len(M) -> Nat]
    BY <2>1, LenProperties
  <2> QED BY <1>1, <2>1, <2>2
<1> HIDE DEF H, M
<1>4. /\ \A i, j \in 1 .. a : i <= j => G[i] <= G[j]
      /\ \A i \in 1 .. a : G[i] <= now
      /\ b <= a
      /\ \A j \in 1 .. b : K[j] <= G[j + a - b] /\ G[j + a - b] <= K[j] + Delay
      /\ \A i \in 1 .. a - b : G[i] + Hour <= now + Delay
      /\ \A i, m \in 1 .. a : i + limit <= m => G[i] + Hour <= G[m] + Delay
      /\ b < limit
  BY <1>1 DEF Ordered, Matched, Gone, Spread
<1>5. Ordered(H)
  <2>1. ASSUME NEW i \in 1 .. a + 1 PROVE H[i] <= now
    <3>1. CASE i \in 1 .. a
      BY <1>2, <1>4, <3>1
    <3>2. CASE i = a + 1
      BY <1>2, <3>2
    <3> QED BY <3>1, <3>2
  <2>2. ASSUME NEW i \in 1 .. a + 1, NEW j \in 1 .. a + 1, i <= j PROVE H[i] <= H[j]
    <3>1. CASE j \in 1 .. a
      <4>1. i \in 1 .. a
        BY <2>2, <3>1
      <4>2. G[i] <= G[j] /\ H[i] = G[i] /\ H[j] = G[j]
        BY <1>2, <1>4, <2>2, <3>1, <4>1
      <4> QED BY <4>2
    <3>2. CASE j = a + 1
      BY <1>2, <2>1, <3>2
    <3> QED BY <3>1, <3>2
  <2> QED BY <1>2, <2>1, <2>2 DEF Ordered
<1>6. Matched(M, H)
  <2>1. ASSUME NEW j \in 1 .. b + 1
        PROVE  M[j] <= H[j + (a + 1) - (b + 1)] /\ H[j + (a + 1) - (b + 1)] <= M[j] + Delay
    <3>1. j + (a + 1) - (b + 1) = j + a - b
      OBVIOUS
    <3>2. CASE j \in 1 .. b
      <4>1. j + a - b \in 1 .. a
        BY <1>4, <3>2
      <4>2. K[j] <= G[j + a - b] /\ G[j + a - b] <= K[j] + Delay
        BY <1>4, <3>2
      <4>3. M[j] = K[j] /\ H[j + a - b] = G[j + a - b]
        BY <1>2, <1>3, <3>2, <4>1
      <4> QED BY <3>1, <4>2, <4>3
    <3>3. CASE j = b + 1
      <4>1. j + a - b = a + 1
        BY <3>3
      <4>2. M[j] = t /\ H[j + a - b] = now
        BY <1>2, <1>3, <3>3, <4>1
      <4> QED BY <3>1, <4>2
    <3> QED BY <3>2, <3>3
  <2>2. b + 1 <= a + 1
    BY <1>4
  <2> QED BY <1>2, <1>3, <2>1, <2>2 DEF Matched
<1>7. Gone(M, H)
  <2>1. ASSUME NEW i \in 1 .. (a + 1) - (b + 1) PROVE H[i] + Hour <= now + Delay
    <3>1. i \in 1 .. a /\ i \in 1 .. a - b
      BY <1>4
    <3>2. G[i] + Hour <= now + Delay /\ H[i] = G[i]
      BY <1>2, <1>4, <3>1
    <3> QED BY <3>2
  <2> QED BY <1>2, <1>3, <2>1 DEF Gone
<1>8. Spread(H, limit)
  <2>1. ASSUME NEW i \in 1 .. a + 1, NEW m \in 1 .. a + 1, i + limit <= m
        PROVE  H[i] + Hour <= H[m] + Delay
    <3>1. i \in 1 .. a /\ H[i] = G[i]
      BY <1>2, <2>1
    <3>2. CASE m \in 1 .. a
      <4>1. H[m] = G[m] /\ G[i] + Hour <= G[m] + Delay
        BY <1>2, <1>4, <2>1, <3>1, <3>2
      <4> QED BY <3>1, <4>1
    <3>3. CASE m = a + 1
      <4>1. i \in 1 .. a - b
        BY <1>4, <2>1, <3>3
      <4>2. G[i] + Hour <= now + Delay /\ H[m] = now
        BY <1>2, <1>4, <3>3, <4>1
      <4> QED BY <3>1, <4>2
    <3> QED BY <3>2, <3>3
  <2> QED BY <1>2, <2>1 DEF Spread
<1> QED BY <1>2, <1>3, <1>5, <1>6, <1>7, <1>8 DEF H, M

-----------------------------------------------------------------------------
(* The inductive invariant.                                                *)

LEMMA InitIInv == Init => IInv
<1> SUFFICES ASSUME Init PROVE IInv
  OBVIOUS
<1>1. Types
  <2>1. <<>> \in Seq(Nat)
    BY EmptySeq
  <2> QED BY <2>1 DEF Init, Types, Places
<1>2. Waiting /\ Dialogue
  BY MailAssumption DEF Init, Waiting, Dialogue
<1>3. Lists
  <2> SUFFICES ASSUME NEW k \in Kinds PROVE /\ Ordered(<<>>)
                                            /\ Matched(<<>>, <<>>)
                                            /\ Gone(<<>>, <<>>)
                                            /\ Spread(<<>>, Limit[k])
    BY DEF Init, Lists
  <2>1. Len(<<>>) = 0
    BY EmptySeq
  <2> HIDE DEF Init
  <2> QED BY <2>1 DEF Ordered, Matched, Gone, Spread
<1> QED BY <1>1, <1>2, <1>3 DEF IInv

\* Steps that leave the lists and the clock alone.
LEMMA ListsKeep ==
  ASSUME Lists, UNCHANGED <<now, sent, grants>>
  PROVE  Lists'
BY DEF Lists, Ordered, Matched, Gone, Spread

\* send returns: nothing of the sender is left.
LEMMA DoneKeeps ==
  ASSUME IInv, NEW s \in Senders, Done(s)
  PROVE  /\ Waiting' /\ Dialogue'
         /\ spc' \in [Senders -> Places]
         /\ kind' \in [Senders -> Kinds \cup {None}]
         /\ time' \in [Senders -> Nat]
         /\ rcpt' \in [Senders -> Nat]
         /\ taken' \in [Senders -> Nat]
<1> USE DEF IInv, Types
<1>1. /\ spc' \in [Senders -> Places]
      /\ kind' \in [Senders -> Kinds \cup {None}]
      /\ time' \in [Senders -> Nat]
      /\ rcpt' \in [Senders -> Nat]
      /\ taken' \in [Senders -> Nat]
  BY DEF Done, Places
<1>2. Waiting'
  BY DEF Done, Waiting
<1>3. Dialogue'
  BY DEF Done, Dialogue
<1> QED BY <1>1, <1>2, <1>3

\* What a sender that has the mutex finds: its list, its history, its limit.
LEMMA AtLock ==
  ASSUME IInv, NEW s \in Senders, spc[s] = "lock"
  PROVE  /\ kind[s] \in Kinds /\ now \in Nat
         /\ time[s] \in Nat /\ time[s] <= now /\ now <= time[s] + Delay
         /\ sent[kind[s]] \in Seq(Nat) /\ grants[kind[s]] \in Seq(Nat)
         /\ Limit[kind[s]] \in Nat \ {0}
         /\ Ordered(grants[kind[s]]) /\ Spread(grants[kind[s]], Limit[kind[s]])
         /\ Matched(sent[kind[s]], grants[kind[s]]) /\ Gone(sent[kind[s]], grants[kind[s]])
BY LimitAssumption DEF IInv, Types, Waiting, Lists

LEMMA RefuseKeeps ==
  ASSUME IInv, NEW s \in Senders, Refuse(s)
  PROVE  IInv'
<1> DEFINE q == kind[s]
           K == Kept(sent[q], s)
<1>1. /\ spc[s] = "lock" /\ sent' = [sent EXCEPT ![q] = K]
      /\ Done(s) /\ now' = now /\ grants' = grants
  BY DEF Refuse, List, Done
<1>2. K \in Seq(Nat) /\ Matched(K, grants[q]) /\ Gone(K, grants[q])
  BY <1>1, AtLock, KeptMatches
<1> HIDE DEF K
<1>3. sent' \in [Kinds -> Seq(Nat)]
  BY <1>1, <1>2 DEF IInv, Types
<1>4. Lists'
  <2> SUFFICES ASSUME NEW k \in Kinds
               PROVE  /\ Ordered(grants[k])'
                      /\ Matched(sent'[k], grants[k])
                      /\ Gone(sent'[k], grants[k])
                      /\ Spread(grants[k], Limit[k])
    BY <1>1 DEF Lists, Gone, Spread, Matched
  <2>1. Ordered(grants[k])' /\ Spread(grants[k], Limit[k])
    BY <1>1 DEF IInv, Lists, Ordered
  <2>2. CASE k = q
    BY <1>1, <1>2, <2>1, <2>2 DEF IInv, Types
  <2>3. CASE k # q
    BY <1>1, <2>1, <2>3 DEF IInv, Types, Lists
  <2> QED BY <2>2, <2>3
<1> QED BY <1>1, <1>3, <1>4, DoneKeeps DEF IInv, Types

LEMMA GrantIs ==
  ASSUME IInv, NEW s \in Senders, Grant(s)
  PROVE  IInv'
<1> DEFINE q == kind[s]
           K == Kept(sent[q], s)
           M == Append(K, time[s])
           H == Append(grants[q], now)
<1>1. /\ spc[s] = "lock" /\ ~(Len(K) >= Limit[q])
      /\ sent' = [sent EXCEPT ![q] = M]
      /\ grants' = [grants EXCEPT ![q] = H]
      /\ now' = now
  BY DEF Grant, List, Full
<1>2. K \in Seq(Nat) /\ Matched(K, grants[q]) /\ Gone(K, grants[q])
  BY <1>1, AtLock, KeptMatches
<1>3. Len(K) < Limit[q]
  <2>1. Len(K) \in Nat /\ Limit[q] \in Nat
    BY <1>1, <1>2, AtLock, LenProperties
  <2> QED BY <1>1, <2>1
<1> HIDE DEF K
<1>4. /\ M \in Seq(Nat) /\ H \in Seq(Nat) /\ Ordered(H) /\ Matched(M, H)
      /\ Gone(M, H) /\ Spread(H, Limit[q])
  BY <1>1, <1>2, <1>3, AtLock, GrantKeeps
<1> HIDE DEF M, H
<1>5. Types'
  BY <1>1, <1>4 DEF IInv, Types, Grant, smtp, Places
<1>6. Waiting'
  BY DEF IInv, Types, Waiting, Grant
<1>7. Dialogue'
  BY DEF IInv, Types, Dialogue, Grant, smtp
<1>8. Lists'
  <2> SUFFICES ASSUME NEW k \in Kinds
               PROVE  /\ Ordered(grants'[k])
                      /\ Matched(sent'[k], grants'[k])
                      /\ Gone(sent'[k], grants'[k])
                      /\ Spread(grants'[k], Limit[k])
    BY <1>1 DEF Lists, Gone, Spread, Matched, Ordered
  <2>1. CASE k = q
    <3>1. grants'[k] = H /\ sent'[k] = M
      BY <1>1, <2>1 DEF IInv, Types
    <3> QED BY <1>4, <2>1, <3>1
  <2>2. CASE k # q
    <3>1. grants'[k] = grants[k] /\ sent'[k] = sent[k]
      BY <1>1, <2>2 DEF IInv, Types
    <3> QED BY <3>1 DEF IInv, Lists
  <2> QED BY <2>1, <2>2
<1> QED BY <1>5, <1>6, <1>7, <1>8 DEF IInv

LEMMA TickKeeps ==
  ASSUME IInv, Tick
  PROVE  IInv'
<1>1. /\ now \in Nat /\ now' = now + 1 /\ Delay \in Nat /\ Hour \in Nat
      /\ UNCHANGED <<sent, spc, kind, time, grants, rcpt, taken>>
      /\ \A s \in Senders : spc[s] = "lock" => now < time[s] + Delay
  BY HourAssumption DEF IInv, Types, Tick, smtp
<1>2. Types'
  BY <1>1 DEF IInv, Types
<1>3. Waiting'
  <2> SUFFICES ASSUME NEW s \in Senders, spc[s] = "lock"
               PROVE  kind[s] \in Kinds /\ time[s] <= now + 1 /\ now + 1 <= time[s] + Delay
    BY <1>1 DEF Waiting
  <2> QED BY <1>1 DEF IInv, Types, Waiting
<1>4. Dialogue'
  BY <1>1 DEF IInv, Dialogue
<1>5. Lists'
  <2> SUFFICES ASSUME NEW k \in Kinds
               PROVE  /\ Ordered(grants[k])'
                      /\ Matched(sent[k], grants[k])
                      /\ Gone(sent[k], grants[k])'
                      /\ Spread(grants[k], Limit[k])
    BY <1>1 DEF Lists, Spread, Matched
  <2>1. /\ Ordered(grants[k]) /\ Matched(sent[k], grants[k])
        /\ Gone(sent[k], grants[k]) /\ Spread(grants[k], Limit[k])
    BY DEF IInv, Lists
  <2>2. PICK a \in Nat, b \in Nat : /\ a = Len(grants[k]) /\ b = Len(sent[k])
                                    /\ grants[k] \in [1 .. a -> Nat]
    BY LenProperties DEF IInv, Types
  <2>3. b <= a
    BY <2>1, <2>2 DEF Matched
  <2>4. Ordered(grants[k])'
    <3>1. \A i \in 1 .. a : grants[k][i] <= now + 1
      BY <1>1, <2>1, <2>2 DEF Ordered
    <3> QED BY <1>1, <2>1, <2>2, <3>1 DEF Ordered
  <2>5. Gone(sent[k], grants[k])'
    <3>1. ASSUME NEW i \in 1 .. a - b PROVE grants[k][i] + Hour <= (now + 1) + Delay
      <4>1. i \in 1 .. a
        BY <2>3
      <4>2. grants[k][i] \in Nat
        BY <2>2, <4>1
      <4>3. grants[k][i] + Hour <= now + Delay
        BY <2>1, <2>2 DEF Gone
      <4> QED BY <1>1, <4>2, <4>3
    <3> QED BY <1>1, <2>2, <3>1 DEF Gone
  <2> QED BY <2>1, <2>4, <2>5
<1> QED BY <1>2, <1>3, <1>4, <1>5 DEF IInv

LEMMA IInvStep == IInv /\ [Next]_vars => IInv'
<1> SUFFICES ASSUME IInv, [Next]_vars PROVE IInv'
  OBVIOUS
<1>1. CASE UNCHANGED vars
  <2>1. UNCHANGED <<now, sent, spc, kind, time, grants, rcpt, taken>>
    BY <1>1 DEF vars, smtp
  <2> QED BY <2>1, ListsKeep DEF IInv, Types, Waiting, Dialogue
<1>2. CASE Tick
  BY <1>2, TickKeeps
<1>3. ASSUME NEW s \in Senders, Send(s) PROVE IInv'
  <2>1. CASE Grant(s)
    BY <2>1, GrantIs
  <2>2. CASE Refuse(s)
    BY <2>2, RefuseKeeps
  <2>3. CASE Call(s)
    <3>1. spc'[s] = Follows(s) /\ Follows(s) \in {"talk", "rcpt", "data"}
      BY <2>3 DEF Call, Follows, Calls, IInv, Types
    <3>2. Types'
      BY <2>3, <3>1 DEF Call, IInv, Types, Places
    <3>3. Waiting'
      BY <2>3, <3>1 DEF Call, IInv, Types, Waiting
    <3>4. Dialogue'
      BY <2>3, <3>1, MailAssumption DEF Call, Calls, Follows, IInv, Types, Dialogue
    <3> QED BY <2>3, <3>2, <3>3, <3>4, ListsKeep DEF Call, IInv
  <2>4. CASE CallFails(s) \/ Quit(s)
    <3>1. Done(s) /\ UNCHANGED <<now, sent, grants>>
      BY <2>4 DEF CallFails, Quit, Done
    <3> QED BY <3>1, DoneKeeps, ListsKeep DEF IInv, Types
  <2>5. CASE Expire(s)
    <3>1. Types'
      BY <2>5 DEF Expire, IInv, Types, Places
    <3>2. Waiting' /\ Dialogue'
      BY <2>5 DEF Expire, IInv, Types, Waiting, Dialogue
    <3> QED BY <2>5, <3>1, <3>2, ListsKeep DEF Expire, IInv
  <2>6. ASSUME NEW there \in {"quit", "lost"}, Take(s, there) PROVE IInv'
    <3>1. Types'
      BY <2>6 DEF Take, IInv, Types, Places
    <3>2. Waiting' /\ Dialogue'
      BY <2>6 DEF Take, IInv, Types, Waiting, Dialogue
    <3> QED BY <2>6, <3>1, <3>2, ListsKeep DEF Take, IInv
  <2>7. ASSUME NEW k \in Kinds, Begin(s, k) PROVE IInv'
    <3>1. UNCHANGED <<now, sent, grants, rcpt, taken>>
      BY <2>7 DEF Begin, smtp
    <3>2. Types'
      BY <2>7, <3>1 DEF Begin, IInv, Types, Places
    <3>3. Waiting'
      BY <2>7, <3>1, HourAssumption DEF Begin, IInv, Types, Waiting
    <3>4. Dialogue'
      BY <2>7, <3>1 DEF Begin, IInv, Types, Dialogue
    <3> QED BY <3>1, <3>2, <3>3, <3>4, ListsKeep DEF IInv
  <2> QED BY <1>3, <2>1, <2>2, <2>3, <2>4, <2>5, <2>6, <2>7 DEF Send
<1> QED BY <1>1, <1>2, <1>3 DEF Next

\* The clocks, the lists and the dialogues stay as IInv describes them.
THEOREM Inductive == Spec => []IInv
BY InitIInv, IInvStep, PTL DEF Spec

-----------------------------------------------------------------------------
(* The properties.                                                         *)

\* A mail goes to all recipients or to none, and to all when send returns nil
\* (send, smtp.go), with any number of recipients and senders.
THEOREM EveryoneOrNobody == Spec => []AllOrNobody
<1>1. IInv => AllOrNobody
  BY DEF IInv, Dialogue, AllOrNobody
<1> QED BY <1>1, Inductive, PTL

\* reserve keeps the limit of each kind although it reads the clock before it
\* has the mutex: for every limit and every Delay within the hour.
THEOREM LimitHolds == Spec => []HourlyLimit
<1>1. IInv => HourlyLimit
  <2> SUFFICES ASSUME IInv, NEW k \in Kinds, NEW t \in 0 .. MaxTime
               PROVE  Cardinality({i \in DOMAIN grants[k] :
                        t <= grants[k][i] /\ grants[k][i] + Delay < t + Hour}) <= Limit[k]
    BY DEF HourlyLimit
  <2> DEFINE W == {i \in DOMAIN grants[k] :
                     t <= grants[k][i] /\ grants[k][i] + Delay < t + Hour}
  <2>1. PICK a \in Nat : a = Len(grants[k]) /\ grants[k] \in [1 .. a -> Nat]
    BY LenProperties DEF IInv, Types
  <2>2. Limit[k] \in Nat \ {0} /\ t \in Nat /\ Delay \in Nat /\ Hour \in Nat
    BY LimitAssumption, HourAssumption
  <2>3. \A i, m \in 1 .. a : i + Limit[k] <= m => grants[k][i] + Hour <= grants[k][m] + Delay
    BY <2>1 DEF IInv, Lists, Spread
  <2>4. W \in SUBSET (1 .. a)
    BY <2>1
  <2>5. ASSUME NEW i \in W, NEW m \in W PROVE m < i + Limit[k]
    <3>1. i \in 1 .. a /\ m \in 1 .. a /\ grants[k][i] \in Nat /\ grants[k][m] \in Nat
      BY <2>1, <2>4
    <3>2. t <= grants[k][i] /\ grants[k][m] + Delay < t + Hour
      OBVIOUS
    <3>3. ~(grants[k][i] + Hour <= grants[k][m] + Delay)
      BY <2>2, <3>1, <3>2
    <3>4. ~(i + Limit[k] <= m)
      BY <2>3, <3>1, <3>3
    <3> QED BY <2>2, <3>1, <3>4
  <2> HIDE DEF W
  <2>6. Cardinality(W) <= Limit[k]
    BY <2>2, <2>4, <2>5, CountClose
  <2> QED BY <2>6 DEF W
<1> QED BY <1>1, Inductive, PTL

\* reserve refuses a mail only when as many of its kind as the limit allows
\* went out during the last hour and the Delay.
THEOREM RefusalIsDue == Spec => RefusedOnlyWhenFull
<1>1. ASSUME IInv, NEW s \in Senders, Refuse(s)
      PROVE  Cardinality({i \in DOMAIN grants[kind[s]] :
                grants[kind[s]][i] + Hour + Delay > time[s]}) >= Limit[kind[s]]
  <2> DEFINE G == grants[kind[s]]
             K == Kept(sent[kind[s]], s)
             W == {i \in DOMAIN G : G[i] + Hour + Delay > time[s]}
  <2>1. spc[s] = "lock" /\ Len(K) >= Limit[kind[s]]
    BY <1>1 DEF Refuse, List, Full
  <2>2. /\ K \in Seq(Nat) /\ Matched(K, G)
        /\ \A i \in 1 .. Len(G) : i > Len(G) - Len(K) => G[i] + Hour > time[s]
    BY <1>1, <2>1, AtLock, KeptMatches
  <2>3. G \in Seq(Nat) /\ time[s] \in Nat /\ Limit[kind[s]] \in Nat
    BY <1>1, <2>1, AtLock
  <2> HIDE DEF K, G
  <2>4. PICK a \in Nat, b \in Nat : a = Len(G) /\ b = Len(K) /\ G \in [1 .. a -> Nat]
    BY <2>2, <2>3, LenProperties
  <2>5. b <= a
    BY <2>2, <2>4 DEF Matched
  <2>6. ASSUME NEW i \in a - b + 1 .. a PROVE i \in W
    <3>1. i \in 1 .. a /\ i > a - b
      BY <2>5
    <3>2. G[i] \in Nat /\ G[i] + Hour > time[s]
      BY <2>2, <2>4, <3>1
    <3>3. G[i] + Hour + Delay > time[s]
      BY <2>3, <3>2, HourAssumption
    <3> QED BY <2>4, <3>1, <3>3
  <2>7. W \subseteq 1 .. a
    BY <2>4
  <2> HIDE DEF W
  <2>8. a - b + 1 .. a \subseteq W
    BY <2>6
  <2>9. IsFiniteSet(W)
    <3>1. IsFiniteSet(1 .. a)
      BY FS_Interval
    <3> QED BY <2>7, <3>1, FS_Subset
  <2>10. Cardinality(a - b + 1 .. a) = b
    BY <2>5, FS_Interval
  <2>11. Cardinality(W) \in Nat /\ b <= Cardinality(W)
    BY <2>8, <2>9, <2>10, FS_Subset, FS_CardinalityType
  <2>12. Cardinality(W) >= Limit[kind[s]]
    BY <2>1, <2>3, <2>4, <2>11
  <2> QED BY <2>12 DEF W, G
<1>2. IInv /\ [Next]_vars =>
        [\A s \in Senders : Refuse(s) =>
           Cardinality({i \in DOMAIN grants[kind[s]] :
             grants[kind[s]][i] + Hour + Delay > time[s]}) >= Limit[kind[s]]]_vars
  BY <1>1
<1> QED BY <1>2, Inductive, PTL DEF Spec, RefusedOnlyWhenFull
=============================================================================
