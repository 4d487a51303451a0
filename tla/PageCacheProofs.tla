--------------------------- MODULE PageCacheProofs ---------------------------
(***************************************************************************)
(* Proofs about PageCache for every set of keys, entries, requests and     *)
(* admins, every cacheTTL and every bound.                                 *)
(*                                                                         *)
(* FreshAfterClear speaks of requests that have their answer.  It holds    *)
(* because an entry belongs to one period between two calls of clearCache: *)
(* all requests that hold it looked it up in that period (SamePeriod), and *)
(* while it is in the map that period is the current one (InMap).          *)
(***************************************************************************)
EXTENDS PageCache, TLAPS

\* An entry of the map belongs to the current period, and so does its page.
InMap ==
  \A k \in Keys : cache[k] # None =>
    /\ body[cache[k]] # None => body[cache[k]] >= cleared
    /\ \A r \in Readers : entry[r] = cache[k] => since[r] = cleared

\* Requests with the same entry looked it up in the same period.
SamePeriod ==
  \A r, s \in Readers : entry[r] # None /\ entry[r] = entry[s] => since[r] = since[s]

\* A page in an entry, or in the hands of a request, is of the period in which
\* the request looked the entry up.
OfPeriod ==
  \A r \in Readers :
    /\ since[r] <= db
    /\ entry[r] # None /\ body[entry[r]] # None => body[entry[r]] >= since[r]
    /\ rpc[r] \in {"build", "answer"} => page[r] >= since[r]


Periods == cleared <= db /\ InMap /\ SamePeriod /\ OfPeriod

\* Every change a page leaves out was committed after the page's stamp.
Stamped ==
  /\ \A e \in Entries :
       /\ at[e] <= now
       /\ body[e] # None => \A v \in body[e] + 1 .. db : commits[v] >= at[e]
  /\ \A r \in Readers :
       /\ time[r] <= now
       /\ rpc[r] = "build" => \A v \in page[r] + 1 .. db : commits[v] >= time[r]

IInv == TypeOK /\ Periods /\ Stamped /\ PageIsRecent

-----------------------------------------------------------------------------
\* The initial states satisfy the invariant.
LEMMA InitIInv == Init => IInv
<1> SUFFICES ASSUME Init PROVE IInv
  OBVIOUS
<1>1. TypeOK
  BY NoneAssumption, BoundAssumption DEF Init, TypeOK, Times, Versions
<1>2. Periods
  BY DEF Init, Periods, InMap, SamePeriod, OfPeriod
<1>3. Stamped /\ PageIsRecent
  BY DEF Init, Stamped, PageIsRecent
<1> QED
  BY <1>1, <1>2, <1>3 DEF IInv

\* Steps of a public request keep the types.
LEMMA TypeRequest ==
  ASSUME TypeOK, NEW r \in Readers,
         Serve(r) \/ \E k \in Keys : Lookup(r, k) \/ \E e \in Entries : AddEntry(r, k, e)
  PROVE  TypeOK'
<1> USE NoneAssumption, BoundAssumption
    DEF TypeOK, Times, Versions, Goto, Leave, Forget, data, entries
<1>1. ASSUME NEW k \in Keys, Lookup(r, k)
      PROVE  TypeOK'
  BY <1>1 DEF Lookup
<1>2. ASSUME NEW k \in Keys, NEW e \in Entries, AddEntry(r, k, e)
      PROVE  TypeOK'
  BY <1>2 DEF AddEntry, Unused
<1>3. CASE Enter(r)
  <2>1. entry[r] \in Entries
    BY <1>3 DEF Enter
  <2> QED
    BY <1>3, <2>1, SMTT(30) DEF Enter
<1>4. CASE Hit(r)
  <2>1. entry[r] \in Entries /\ body[entry[r]] \in Versions
    BY <1>4 DEF Hit, Expired
  <2> QED
    BY <1>4, <2>1 DEF Hit
<1>5. CASE Read(r)
  BY <1>5 DEF Read
<1>6. CASE Store(r)
  BY <1>6 DEF Store, Stamp
<1>7. CASE BuildFails(r)
  BY <1>7 DEF BuildFails
<1>8. CASE Answer(r)
  BY <1>8 DEF Answer
<1> QED
  BY <1>1, <1>2, <1>3, <1>4, <1>5, <1>6, <1>7, <1>8 DEF Serve

\* So do the other steps.
LEMMA TypeOther ==
  ASSUME TypeOK, \/ \E a \in Admins : AdminWrites(a) \/ ClearCache(a)
                 \/ MonitorWrites \/ Tick \/ UNCHANGED vars
  PROVE  TypeOK'
<1> USE NoneAssumption, BoundAssumption
    DEF TypeOK, Times, Versions, data, entries, requests
<1>1. ASSUME NEW a \in Admins, AdminWrites(a)
      PROVE  TypeOK'
  BY <1>1 DEF AdminWrites, Commit
<1>2. ASSUME NEW a \in Admins, ClearCache(a)
      PROVE  TypeOK'
  BY <1>2 DEF ClearCache, Emptied
<1>3. CASE MonitorWrites
  BY <1>3 DEF MonitorWrites, Commit
<1>4. CASE Tick
  BY <1>4 DEF Tick
<1>5. CASE UNCHANGED vars
  BY <1>5 DEF vars
<1> QED
  BY <1>1, <1>2, <1>3, <1>4, <1>5

-----------------------------------------------------------------------------
\* Steps of a public request keep every page in its period.
LEMMA PeriodsRequest ==
  ASSUME TypeOK, Periods, NEW r \in Readers,
         Serve(r) \/ \E k \in Keys : Lookup(r, k) \/ \E e \in Entries : AddEntry(r, k, e)
  PROVE  Periods'
<1> USE NoneAssumption, BoundAssumption
    DEF TypeOK, Times, Versions, Goto, Leave, Forget, data, entries,
        Periods, InMap, SamePeriod, OfPeriod
<1>1. ASSUME NEW k \in Keys, Lookup(r, k)
      PROVE  Periods'
  BY <1>1 DEF Lookup
<1>2. ASSUME NEW k \in Keys, NEW e \in Entries, AddEntry(r, k, e)
      PROVE  Periods'
  BY <1>2 DEF AddEntry, Unused
<1>3. CASE Enter(r)
  BY <1>3 DEF Enter
<1>4. CASE Hit(r)
  BY <1>4 DEF Hit, Expired
<1>5. CASE Read(r)
  BY <1>5 DEF Read
<1>6. CASE Store(r)
  BY <1>6 DEF Store
<1>7. CASE BuildFails(r)
  BY <1>7 DEF BuildFails
<1>8. CASE Answer(r)
  BY <1>8 DEF Answer
<1> QED
  BY <1>1, <1>2, <1>3, <1>4, <1>5, <1>6, <1>7, <1>8 DEF Serve

\* So do the other steps: clearCache begins a period with an empty map.
LEMMA PeriodsOther ==
  ASSUME TypeOK, Periods,
         \/ \E a \in Admins : AdminWrites(a) \/ ClearCache(a)
         \/ MonitorWrites \/ Tick \/ UNCHANGED vars
  PROVE  Periods'
<1> USE NoneAssumption, BoundAssumption
    DEF TypeOK, Times, Versions, data, entries, requests, Periods, InMap, SamePeriod, OfPeriod
<1>1. ASSUME NEW a \in Admins, AdminWrites(a)
      PROVE  Periods'
  BY <1>1 DEF AdminWrites, Commit
<1>2. ASSUME NEW a \in Admins, ClearCache(a)
      PROVE  Periods'
  BY <1>2 DEF ClearCache, Emptied
<1>3. CASE MonitorWrites
  BY <1>3 DEF MonitorWrites, Commit
<1>4. CASE Tick
  BY <1>4 DEF Tick
<1>5. CASE UNCHANGED vars
  BY <1>5 DEF vars
<1> QED
  BY <1>1, <1>2, <1>3, <1>4, <1>5

-----------------------------------------------------------------------------
\* Steps of a public request keep the stamps, and give recent answers.
LEMMA StampedRequest ==
  ASSUME TypeOK, Stamped, PageIsRecent, NEW r \in Readers,
         Serve(r) \/ \E k \in Keys : Lookup(r, k) \/ \E e \in Entries : AddEntry(r, k, e)
  PROVE  Stamped' /\ PageIsRecent'
<1> USE NoneAssumption, BoundAssumption, TTLAssumption
    DEF TypeOK, Times, Versions, Goto, Leave, Forget, data, entries, Stamped, PageIsRecent
<1>1. ASSUME NEW k \in Keys, Lookup(r, k)
      PROVE  Stamped' /\ PageIsRecent'
  BY <1>1 DEF Lookup
<1>2. ASSUME NEW k \in Keys, NEW e \in Entries, AddEntry(r, k, e)
      PROVE  Stamped' /\ PageIsRecent'
  BY <1>2 DEF AddEntry
<1>3. CASE Enter(r)
  BY <1>3 DEF Enter
<1>4. CASE Hit(r)
  <2>1. /\ entry[r] \in Entries /\ body[entry[r]] \in Versions
        /\ time[r] < at[entry[r]] + TTL
    BY <1>4 DEF Hit, Expired
  <2>2. \A v \in body[entry[r]] + 1 .. db : commits[v] + TTL > time[r]
    <3>1. at[entry[r]] \in Nat /\ time[r] \in Nat /\ body[entry[r]] \in Nat
      BY <2>1
    <3>2. body[entry[r]] # None
      BY <2>1
    <3>3. TAKE v \in body[entry[r]] + 1 .. db
    <3>4. commits[v] >= at[entry[r]] /\ commits[v] \in Nat
      BY <2>1, <3>1, <3>2
    <3> QED
      BY <2>1, <3>1, <3>4
  <2>3. PageIsRecent'
    BY <1>4, <2>1, <2>2 DEF Hit
  <2>4. Stamped'
    BY <1>4 DEF Hit
  <2> QED
    BY <2>3, <2>4
<1>5. CASE Read(r)
  BY <1>5 DEF Read
<1>6. CASE Store(r)
  <2>1. entry[r] \in Entries
    BY <1>6 DEF Store
  <2>2. Stamped'
    BY <1>6, <2>1 DEF Store, Stamp
  <2>3. \A v \in page[r] + 1 .. db : commits[v] + TTL > time[r]
    BY <1>6 DEF Store
  <2>4. PageIsRecent'
    BY <1>6, <2>3 DEF Store
  <2> QED
    BY <2>2, <2>4
<1>7. CASE BuildFails(r)
  <2>1. Stamped'
    BY <1>7 DEF BuildFails
  <2>2. PageIsRecent'
    BY <1>7 DEF BuildFails
  <2> QED
    BY <2>1, <2>2
<1>8. CASE Answer(r)
  BY <1>8 DEF Answer
<1> QED
  BY <1>1, <1>2, <1>3, <1>4, <1>5, <1>6, <1>7, <1>8 DEF Serve

\* A commit is stamped with the clock, which no stamp is ahead of.
LEMMA StampedCommit ==
  ASSUME TypeOK, Stamped, PageIsRecent, Commit
  PROVE  Stamped' /\ PageIsRecent'
<1> USE NoneAssumption, BoundAssumption, TTLAssumption
    DEF TypeOK, Times, Versions, Commit, entries, requests
<1>1. ASSUME NEW v \in 1 .. db'
      PROVE  commits'[v] = IF v = db + 1 THEN now ELSE commits[v]
  BY <1>1
<1>2. Stamped'
  BY <1>1 DEF Stamped
<1>3. PageIsRecent'
  BY <1>1 DEF Stamped, PageIsRecent
<1> QED
  BY <1>2, <1>3

\* The other steps keep the stamps.
LEMMA StampedOther ==
  ASSUME TypeOK, Stamped, PageIsRecent,
         (\E a \in Admins : ClearCache(a)) \/ Tick \/ UNCHANGED vars
  PROVE  Stamped' /\ PageIsRecent'
<1> USE NoneAssumption, BoundAssumption
    DEF TypeOK, Times, Versions, data, entries, requests, Stamped, PageIsRecent
<1>1. ASSUME NEW a \in Admins, ClearCache(a)
      PROVE  Stamped' /\ PageIsRecent'
  BY <1>1 DEF ClearCache, Emptied
<1>2. CASE Tick
  BY <1>2 DEF Tick
<1>3. CASE UNCHANGED vars
  BY <1>3 DEF vars
<1> QED
  BY <1>1, <1>2, <1>3

-----------------------------------------------------------------------------
\* Every step keeps the invariant.
LEMMA NextIInv == IInv /\ [Next]_vars => IInv'
<1> SUFFICES ASSUME IInv, [Next]_vars PROVE IInv'
  OBVIOUS
<1>1. ASSUME NEW r \in Readers,
             Serve(r) \/ \E k \in Keys : Lookup(r, k) \/ \E e \in Entries : AddEntry(r, k, e)
      PROVE  IInv'
  BY <1>1, TypeRequest, PeriodsRequest, StampedRequest DEF IInv
<1>2. CASE (\E a \in Admins : AdminWrites(a)) \/ MonitorWrites
  <2>1. Commit
    BY <1>2 DEF AdminWrites, MonitorWrites
  <2> QED
    BY <1>2, <2>1, TypeOther, PeriodsOther, StampedCommit DEF IInv
<1>3. CASE (\E a \in Admins : ClearCache(a)) \/ Tick \/ UNCHANGED vars
  BY <1>3, TypeOther, PeriodsOther, StampedOther DEF IInv
<1> QED
  BY <1>1, <1>2, <1>3 DEF Next

\* The inductive invariant holds in every reachable state of the cache.
THEOREM Invariant == Spec => []IInv
  BY InitIInv, NextIInv, PTL DEF Spec

\* The types hold, and an entry's lock is held exactly by the request inside
\* get: no path through get, the failed build included, keeps or loses it.
THEOREM TypeCorrect == Spec => []TypeOK
<1>1. IInv => TypeOK
  BY DEF IInv
<1> QED
  BY Invariant, <1>1, PTL

\* After clearCache no request gets a page from before the change, whatever
\* builds were under way when the map was emptied.
THEOREM ClearIsEffective == Spec => []FreshAfterClear
<1>1. IInv => FreshAfterClear
  BY DEF IInv, Periods, OfPeriod, FreshAfterClear
<1> QED
  BY Invariant, <1>1, PTL

\* No answer leaves out a change that is cacheTTL old or older.
THEOREM PagesAreRecent == Spec => []PageIsRecent
<1>1. IInv => PageIsRecent
  BY DEF IInv
<1> QED
  BY Invariant, <1>1, PTL
=============================================================================
