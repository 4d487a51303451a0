----------------------------- MODULE PageCache -----------------------------
(***************************************************************************)
(* The cache of the public pages (internal/web/public.go: cached.get,      *)
(* fromCache, clearCache) with the requests that read through it and the   *)
(* admin handlers that clear it after a change.                            *)
(*                                                                         *)
(* The map of entries has a lock of its own, held only to look an entry up *)
(* or to empty the map; every entry has a second lock, held while its page *)
(* is built.  So an admin may empty the map while a page is being built    *)
(* from what the database held before the change.                          *)
(*                                                                         *)
(* The database is its version, the number of commits so far: of an admin  *)
(* handler, which is followed by clearCache, or of the monitor, which is   *)
(* not.  A page is the version its build began to read.                    *)
(***************************************************************************)
EXTENDS Naturals

CONSTANTS
  Keys,        \* "status/de", "status/en", "api"
  Entries,     \* cached structs; one nothing refers to is used again
  Readers,     \* goroutines that serve public requests
  Admins,      \* goroutines that serve save, pause and remove
  TTL,         \* cacheTTL
  MaxTime,     \* bound on the clock
  MaxVersion,  \* bound on the commits
  None

ASSUME TTLAssumption  == TTL \in Nat \ {0}
ASSUME NoneAssumption == None \notin Entries \cup Readers \cup Nat
ASSUME BoundAssumption == MaxTime \in Nat /\ MaxVersion \in Nat

VARIABLES
  now,      \* the clock
  commits,  \* commits[v]: when version v was committed
  db,       \* the version of the database
  cleared,  \* its version when the map was last emptied
  cache,    \* s.cache: the entry of a key, or None
  body,     \* the page of an entry, or None
  at,       \* c.at
  lock,     \* who holds c.mu
  rpc,      \* where a public request is
  entry,    \* its entry
  time,     \* t, the clock read with the lock held
  page,     \* the version its build read, then its answer
  since,    \* the value of cleared when it looked its entry up
  apc       \* where an admin request is

data     == <<now, commits, db>>
entries  == <<cache, body, at, lock>>
requests == <<rpc, entry, time, page, since>>
vars     == <<data, cleared, entries, requests, apc>>

Unused(e) == (\A k \in Keys : cache[k] # e) /\ (\A r \in Readers : entry[r] # e)

Goto(r, here, there) == rpc[r] = here /\ rpc' = [rpc EXCEPT ![r] = there]

-----------------------------------------------------------------------------
(* A public request: status or api.                                        *)

\* fromCache: the entry of the key, under cacheMu ...
Lookup(r, k) ==
  /\ Goto(r, "idle", "wait")
  /\ cache[k] # None
  /\ entry' = [entry EXCEPT ![r] = cache[k]]
  /\ since' = [since EXCEPT ![r] = cleared]
  /\ UNCHANGED <<data, cleared, entries, time, page, apc>>

\* ... or a new one.
AddEntry(r, k, e) ==
  /\ Goto(r, "idle", "wait")
  /\ cache[k] = None
  /\ Unused(e)
  /\ cache' = [cache EXCEPT ![k] = e]
  /\ body' = [body EXCEPT ![e] = None]
  /\ at' = [at EXCEPT ![e] = 0]
  /\ entry' = [entry EXCEPT ![r] = e]
  /\ since' = [since EXCEPT ![r] = cleared]
  /\ UNCHANGED <<data, cleared, lock, time, page, apc>>

\* get: c.mu is taken and the clock read.
Enter(r) ==
  /\ Goto(r, "wait", "test")
  /\ lock[entry[r]] = None
  /\ lock' = [lock EXCEPT ![entry[r]] = r]
  /\ time' = [time EXCEPT ![r] = now]
  /\ UNCHANGED <<data, cleared, cache, body, at, entry, page, since, apc>>

Expired(r) == body[entry[r]] = None \/ time[r] >= at[entry[r]] + TTL

Leave(r) == lock' = [lock EXCEPT ![entry[r]] = None]

Hit(r) ==
  /\ Goto(r, "test", "answer")
  /\ ~Expired(r)
  /\ page' = [page EXCEPT ![r] = body[entry[r]]]
  /\ Leave(r)
  /\ UNCHANGED <<data, cleared, cache, body, at, entry, time, since, apc>>

\* build reads the database.
Read(r) ==
  /\ Goto(r, "test", "build")
  /\ Expired(r)
  /\ page' = [page EXCEPT ![r] = db]
  /\ UNCHANGED <<data, cleared, entries, entry, time, since, apc>>

\* Mutant of Stamp: the clock is read again after the build.
StampAfter(r) == now

Stamp(r) == time[r]

Store(r) ==
  /\ Goto(r, "build", "answer")
  /\ body' = [body EXCEPT ![entry[r]] = page[r]]
  /\ at' = [at EXCEPT ![entry[r]] = Stamp(r)]
  /\ Leave(r)
  /\ UNCHANGED <<data, cleared, cache, entry, time, page, since, apc>>

Forget(r) ==
  /\ entry' = [entry EXCEPT ![r] = None]
  /\ time' = [time EXCEPT ![r] = 0]
  /\ page' = [page EXCEPT ![r] = 0]
  /\ since' = [since EXCEPT ![r] = 0]

\* Mutant of BuildFails: a failed build is tried again, with the lock held.
BuildFailsRetries(r) ==
  /\ Goto(r, "build", "test")
  /\ UNCHANGED <<data, cleared, entries, entry, time, page, since, apc>>

\* A query fails or the 10 seconds are over: the entry stays as it is.
BuildFails(r) ==
  /\ Goto(r, "build", "idle")
  /\ Leave(r)
  /\ Forget(r)
  /\ UNCHANGED <<data, cleared, cache, body, at, apc>>

\* The page is written to the client.
Answer(r) ==
  /\ Goto(r, "answer", "idle")
  /\ Forget(r)
  /\ UNCHANGED <<data, cleared, entries, apc>>

-----------------------------------------------------------------------------
(* Changes of the database.                                                *)

Commit ==
  /\ db < MaxVersion
  /\ db' = db + 1
  /\ commits' = [commits EXCEPT ![db + 1] = now]
  /\ UNCHANGED <<now, cleared, entries, requests>>

\* The monitor stores a check or an incident.
MonitorWrites == Commit /\ apc' = apc

\* save, pause and remove: the change and Reload or Delete ...
AdminWrites(a) ==
  /\ apc[a] = "idle"
  /\ Commit
  /\ apc' = [apc EXCEPT ![a] = "clear"]

\* Mutant of Emptied: the entries stay and lose their pages.
EmptiedInPlace ==
  /\ cache' = cache
  /\ body' = [e \in Entries |-> None]

Emptied ==
  /\ cache' = [k \in Keys |-> None]
  /\ body' = body

\* ... then clearCache.
ClearCache(a) ==
  /\ apc[a] = "clear"
  /\ apc' = [apc EXCEPT ![a] = "idle"]
  /\ Emptied
  /\ cleared' = db
  /\ UNCHANGED <<data, at, lock, requests>>

Tick ==
  /\ now < MaxTime
  /\ now' = now + 1
  /\ UNCHANGED <<commits, db, cleared, entries, requests, apc>>

Init ==
  /\ now = 0
  /\ commits = [v \in 1 .. MaxVersion |-> 0]
  /\ db = 0
  /\ cleared = 0
  /\ cache = [k \in Keys |-> None]
  /\ body = [e \in Entries |-> None]
  /\ at = [e \in Entries |-> 0]
  /\ lock = [e \in Entries |-> None]
  /\ rpc = [r \in Readers |-> "idle"]
  /\ entry = [r \in Readers |-> None]
  /\ time = [r \in Readers |-> 0]
  /\ page = [r \in Readers |-> 0]
  /\ since = [r \in Readers |-> 0]
  /\ apc = [a \in Admins |-> "idle"]

Serve(r) == Enter(r) \/ Hit(r) \/ Read(r) \/ Store(r) \/ BuildFails(r) \/ Answer(r)

Next == \/ \E r \in Readers : Serve(r)
        \/ \E r \in Readers, k \in Keys : Lookup(r, k) \/ \E e \in Entries : AddEntry(r, k, e)
        \/ \E a \in Admins : AdminWrites(a) \/ ClearCache(a)
        \/ MonitorWrites
        \/ Tick

Spec == Init /\ [][Next]_vars

\* Goroutines run, a build ends by its timeout, and c.mu is a Go mutex, which
\* hands itself to a waiter that starves.
FairSpec == Spec /\ \A r \in Readers : WF_vars(Serve(r)) /\ SF_vars(Enter(r))

-----------------------------------------------------------------------------
(* Properties.                                                             *)

Times    == 0 .. MaxTime
Versions == 0 .. MaxVersion

\* The type of every variable; c.mu of an entry is held exactly by the request
\* between Enter and the end of get.
TypeOK ==
  /\ now \in Times
  /\ commits \in [1 .. MaxVersion -> Times]
  /\ db \in Versions /\ cleared \in Versions
  /\ cache \in [Keys -> Entries \cup {None}]
  /\ body \in [Entries -> Versions \cup {None}]
  /\ at \in [Entries -> Times]
  /\ lock \in [Entries -> Readers \cup {None}]
  /\ rpc \in [Readers -> {"idle", "wait", "test", "build", "answer"}]
  /\ entry \in [Readers -> Entries \cup {None}]
  /\ time \in [Readers -> Times]
  /\ page \in [Readers -> Versions]
  /\ since \in [Readers -> Versions]
  /\ apc \in [Admins -> {"idle", "clear"}]
  /\ \A r \in Readers : rpc[r] = "idle" <=> entry[r] = None
  /\ \A r \in Readers, e \in Entries :
       lock[e] = r <=> entry[r] = e /\ rpc[r] \in {"test", "build"}

\* Once clearCache of an admin's change has returned, no request that begins
\* later gets a page from before that change, not even from a build that was
\* under way when the map was emptied.
FreshAfterClear == \A r \in Readers : rpc[r] = "answer" => page[r] >= since[r]

\* A page is at most cacheTTL old: an answer leaves out no change committed
\* cacheTTL or longer before the request had the entry's lock, however long
\* the build of the page took.
PageIsRecent ==
  \A r \in Readers : rpc[r] = "answer" =>
    \A v \in page[r] + 1 .. db : commits[v] + TTL > time[r]

\* Every request is answered or fails: none waits for ever for an entry's lock.
RequestEnds == \A r \in Readers : rpc[r] = "wait" ~> rpc[r] = "idle"
=============================================================================
