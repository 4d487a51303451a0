---------------------------- MODULE CheckerProofs ----------------------------
(***************************************************************************)
(* A check reaches only the machines its target may reach, for every set   *)
(* of addresses, every answer of every lookup, every list of own addresses *)
(* and every PRIVATE_ALLOW; and its result is what the answers deserve     *)
(* (the second part).                                                      *)
(*                                                                         *)
(* OnlyAllowedReached is not inductive: what `allowed` lets through depends *)
(* on `extra`, which a lookup filled earlier.  The invariant adds that     *)
(* `extra` holds addresses only for a target whose connect_to is listed    *)
(* (ExtraIsListed) and, for that, that the request under way belongs to    *)
(* the target's kind (StageOfKind).                                        *)
(***************************************************************************)
EXTENDS Checker, SequenceTheorems, TLAPS

\* Only a listed connect_to of an http or fivem target fills extra.
ListedTarget == target.kind # "tcp" /\ target.connectTo \in PrivateAllow

ExtraIsListed == extra # {} => ListedTarget

\* The request under way is one of the target's kind.
StageOfKind == Busy /\ target.kind = "tcp" => stage = "tcp"

\* Before the target is saved nothing was looked up.
NothingYet == pc = "form" => extra = {} /\ reached = {}

Known == queue \in Seq(Address) /\ reached \subseteq Address

IInv == Known /\ NothingYet /\ StageOfKind /\ ExtraIsListed /\ OnlyAllowedReached

-----------------------------------------------------------------------------
\* Unmap and Embedded change the notation and keep the machine.
LEMMA SameMachine ==
  ASSUME NEW a \in Address
  PROVE  /\ Unmap(a) \in Address
         /\ Unmap(a).class = a.class /\ Unmap(a).host = a.host
         /\ Embedded(Unmap(a)) = [form |-> "plain", class |-> a.class, host |-> a.host]
  BY DEF Unmap, Embedded, Address, Form

\* What Control lets through may be reached: own addresses are found behind
\* every notation, and a private machine needs a listed connect_to.
LEMMA AllowedIsReachable ==
  ASSUME NEW a \in Address, allowed(a, extra, selfAddrs), ExtraIsListed
  PROVE  Reachable(a)
<1> DEFINE ip == Embedded(Unmap(a))
<1>1. ip = [form |-> "plain", class |-> a.class, host |-> a.host]
  BY SameMachine
<1>2. ip \notin selfAddrs /\ ip.class \notin {"reserved", "loopback"}
  BY DEF allowed
<1>3. ip.class = "private" => Unmap(a) \in extra
  BY DEF allowed
<1>4. a.class \in Class
  BY DEF Address
<1>5. a.class = "public" \/ (a.class = "private" /\ ListedTarget)
  BY <1>1, <1>2, <1>3, <1>4 DEF Class, ExtraIsListed
<1>6. ASSUME NEW s \in SelfAnswer, s.form \in {"plain", "mapped", "zoned"}, s.class = "public",
             s.host = a.host, s.class = a.class
      PROVE  FALSE
  <2>1. s \in Address
    BY AddrsAssumption
  <2>2. Unmap(s) = [form |-> "plain", class |-> s.class, host |-> s.host]
    BY <1>6, <2>1 DEF Unmap, Address, Form
  <2>3. Unmap(s) \in selfAddrs
    BY <1>6, <2>2 DEF selfAddrs
  <2> QED
    BY <1>1, <1>2, <1>6, <2>2, <2>3
<1> QED
  BY <1>5, <1>6 DEF Reachable, ListedTarget

\* The initial state satisfies the invariant.
LEMMA InitIInv == Init => IInv
  BY DEF Init, IInv, Known, NothingYet, StageOfKind, Busy, ExtraIsListed, OnlyAllowedReached

\* A step that leaves the target, extra, reached and queue alone keeps the
\* invariant if it goes on with the same request or ends the check.
LEMMA QuietStep ==
  ASSUME IInv, pc # "form", UNCHANGED <<target, queue, extra, reached>>, pc' # "form",
         Busy' => Busy /\ (stage' = stage \/ (stage # "tcp" /\ stage' # "tcp"))
  PROVE  IInv'
<1>1. Known' /\ NothingYet' /\ ExtraIsListed' /\ OnlyAllowedReached'
  BY DEF IInv, Known, NothingYet, ExtraIsListed, ListedTarget, OnlyAllowedReached, Reachable
<1>2. StageOfKind'
  BY DEF IInv, StageOfKind
<1> QED
  BY <1>1, <1>2 DEF IInv

\* Saving and starting a check.
LEMMA StartStep == IInv /\ (Save \/ Run) => IInv'
<1> SUFFICES ASSUME IInv, Save \/ Run PROVE IInv'
  OBVIOUS
<1> USE DEF IInv, Known, NothingYet
<1>1. CASE Save
  BY <1>1 DEF Save, StageOfKind, Busy, ExtraIsListed, OnlyAllowedReached
<1>2. CASE Run
  <2>1. UNCHANGED <<target, queue, extra>> /\ reached' = {} /\ pc = "idle"
    BY <1>2 DEF Run
  <2>2. /\ pc' \in {"idle", "dial"}
        /\ pc' = "dial" /\ target.kind = "tcp" => stage' = "tcp"
    BY <1>2 DEF Run, StartHTTP, Finish, Request
  <2> QED
    BY <2>1, <2>2 DEF StageOfKind, Busy, ExtraIsListed, ListedTarget, OnlyAllowedReached
<1> QED
  BY <1>1, <1>2

\* A failed call ends the check.
LEMMA FailedStep ==
  ASSUME IInv, Busy, NEW e, Failed(e), UNCHANGED <<target, queue, extra, reached>>
  PROVE  IInv'
<1>1. pc' = "idle" /\ pc # "form"
  BY DEF Failed, Reject, Finish, Busy
<1>2. ~Busy'
  BY <1>1 DEF Busy
<1> QED
  BY <1>1, <1>2, QuietStep

\* Lookups and dials.
LEMMA DialKeeps == IInv /\ DialStep => IInv'
<1> SUFFICES ASSUME IInv, DialStep PROVE IInv'
  OBVIOUS
<1> USE DEF IInv
<1>1. CASE LookupName
  <2>1. PICK ips \in Replies : queue' = ips
    BY <1>1 DEF LookupName
  <2>2. ips \in Seq(Address)
    BY AddrsAssumption DEF Replies, SeqOf
  <2>3. Busy /\ Busy' /\ pc' = "connect"
    BY <1>1 DEF LookupName, Busy
  <2> QED
    BY <1>1, <2>1, <2>2, <2>3 DEF LookupName, Known, NothingYet, StageOfKind, ExtraIsListed,
       OnlyAllowedReached, Reachable
<1>2. CASE LookupListed
  <2>1. PICK ips \in Replies : queue' = [i \in DOMAIN ips |-> Unmap(ips[i])]
    BY <1>2 DEF LookupListed
  <2>2. ips \in Seq(Address)
    BY AddrsAssumption DEF Replies, SeqOf
  <2>3. \A i \in DOMAIN ips : Unmap(ips[i]) \in Address
    BY <2>2, SameMachine
  <2>4. queue' \in Seq(Address)
    BY <2>1, <2>2, <2>3
  <2>5. Busy /\ Busy' /\ pc' = "connect"
    BY <1>2 DEF LookupListed, Busy
  <2>6. ListedTarget
    BY <1>2, <2>5 DEF LookupListed, Listed, ViaProxy, StageOfKind, ListedTarget
  <2> QED
    BY <1>2, <2>4, <2>5, <2>6 DEF LookupListed, Known, NothingYet, StageOfKind, ExtraIsListed,
       ListedTarget, OnlyAllowedReached, Reachable
<1>3. CASE LookupFails
  BY <1>3, FailedStep DEF LookupFails, Busy
<1>4. CASE Refuse
  <2>1. queue' \in Seq(Address)
    BY <1>4 DEF Refuse, Known
  <2> QED
    BY <1>4, <2>1 DEF Refuse, Known, NothingYet, StageOfKind, Busy, ExtraIsListed, ListedTarget,
       OnlyAllowedReached, Reachable
<1>5. CASE ConnectFails \/ Connect
  <2>1. Head(queue) \in Address /\ allowed(Head(queue), extra, selfAddrs)
    BY <1>5 DEF ConnectFails, Connect, Known
  <2>2. Reachable(Head(queue))
    BY <2>1, AllowedIsReachable
  <2>3. /\ UNCHANGED <<target, stage, extra>> /\ Busy
        /\ reached' = reached \cup {Head(queue)}
        /\ queue' \in Seq(Address)
        /\ pc' # "form"
    BY <1>5 DEF ConnectFails, Connect, Known, Busy, Finish
  <2> QED
    BY <2>1, <2>2, <2>3 DEF Known, NothingYet, StageOfKind, ExtraIsListed, ListedTarget,
       OnlyAllowedReached, Reachable
<1>6. CASE DialFails
  BY <1>6, FailedStep DEF DialFails, Busy
<1> QED
  BY <1>1, <1>2, <1>3, <1>4, <1>5, <1>6 DEF DialStep

\* Answers of the peer, and the end of the context.
LEMMA PeerKeeps == IInv /\ (PeerStep \/ Deadline \/ Cancel \/ CallReturns) => IInv'
<1> SUFFICES ASSUME IInv, PeerStep \/ Deadline \/ Cancel \/ CallReturns PROVE IInv'
  OBVIOUS
<1>1. CASE Respond
  <2>1. pc' \in {"idle", "body"}
    BY <1>1 DEF Respond, Reject, Finish
  <2> QED
    BY <1>1, <2>1, QuietStep DEF Respond, Busy
<1>2. CASE BodyFits
  <2>1. pc' = "idle" \/ (pc' = "dial" /\ stage = "info" /\ stage' = "players")
    BY <1>2 DEF BodyFits, Finish, Request
  <2> QED
    BY <1>2, <2>1, QuietStep DEF BodyFits, Busy
<1>3. CASE BodyLacks
  BY <1>3, QuietStep DEF BodyLacks, Finish, Busy
<1>4. CASE ExchangeFails
  BY <1>4, FailedStep DEF ExchangeFails, Busy
<1>5. CASE BodyFails
  BY <1>5, FailedStep DEF BodyFails, Busy
<1>6. CASE Deadline \/ Cancel
  BY <1>6, QuietStep DEF Deadline, Cancel, Busy
<1>7. CASE CallReturns
  BY <1>7, FailedStep DEF CallReturns
<1> QED
  BY <1>1, <1>2, <1>3, <1>4, <1>5, <1>6, <1>7 DEF PeerStep

\* The inductive invariant holds in every reachable state.
THEOREM Invariant == Spec => []IInv
<1>1. ASSUME IInv, [Next]_vars PROVE IInv'
  <2>1. CASE UNCHANGED vars
    BY <1>1, <2>1 DEF vars, IInv, Known, NothingYet, StageOfKind, Busy, ExtraIsListed, ListedTarget,
       OnlyAllowedReached, Reachable
  <2> QED
    BY <1>1, <2>1, StartStep, DialKeeps, PeerKeeps DEF Next
<1> QED
  BY <1>1, InitIInv, PTL DEF Spec

\* A check sends packets only to public machines other than the server's own
\* and, through a listed connect_to, to private ones (dialer, dialConnectTo,
\* allowed): whatever lookups answer and however the addresses are written.
THEOREM ReachesOnlyAllowed == Spec => []OnlyAllowedReached
<1>1. IInv => OnlyAllowedReached
  BY DEF IInv
<1> QED
  BY <1>1, Invariant, PTL

-----------------------------------------------------------------------------
(***************************************************************************)
(* ResultMatches.  While a check runs, what the peer has answered so far   *)
(* and the result kept for it follow from the request under way and from   *)
(* how far it is (Alone, Second).  The row is one that Validate let        *)
(* through (Saved), so that StartHTTP and Run find nothing to blame in it. *)
(***************************************************************************)
Valid(t) == /\ t.kind \in {"http", "tcp", "fivem"}
            /\ t.status \in Statuses
            /\ t.kind = "http" => parseStatus(t.status) /\ checkURL(t.address)

\* Before the first check there is a valid row at most.
Saved == IF pc = "form" THEN result = NoResult ELSE Valid(target)

\* The request under way is one that the target's kind makes.
StageFits ==
  Busy => \/ target.kind = "http" /\ stage = "get"
          \/ target.kind = "tcp" /\ stage = "tcp" /\ pc \in {"dial", "connect"}
          \/ target.kind = "fivem" /\ stage \in {"info", "players"}

Entry(s, c, b) == [stage |-> s, code |-> c, body |-> b]

\* In the first request nothing is decided: there is no answer, or one whose
\* code is wanted and whose body is still to be read.
Alone ==
  Busy /\ stage # "players" =>
    \/ pc # "body" /\ answers = <<>>
    \/ /\ pc = "body" /\ ~NoBody
       /\ \E c \in Codes : Wanted(c) /\ answers = <<Entry(stage, c, "unread")>>

\* In the second request the server is known to be up.
Served == Entry("info", 200, "fits")

Second ==
  Busy /\ stage = "players" =>
    /\ result = Up
    /\ IF pc = "body" THEN answers = <<Served, Entry("players", 200, "unread")>>
                      ELSE answers = <<Served>>

RInv == Saved /\ StageFits /\ Alone /\ Second /\ ResultMatches

ErrorText == {"ziel gesperrt", "zeitueberschreitung", "verbindung abgelehnt",
              "name nicht aufloesbar", "zertifikat ungueltig", "antwort ungueltig",
              "verbindungsfehler"}

OwnTexts == {"statusangabe ungueltig", "adresse ungueltig", "unbekannte art"}

\* Validate finds what StartHTTP and Run would stumble over.
LEMMA ValidateSuffices ==
  ASSUME NEW t \in Forms, Validate(t) = {}
  PROVE  Valid(t)
<1>1. t.status \in Statuses
  BY DEF Forms
<1>2. t.kind \in {"http", "tcp", "fivem"}
  <2>1. "kind" \notin Validate(t)
    OBVIOUS
  <2> QED
    BY <2>1 DEF Validate
<1>3. t.kind = "http" => parseStatus(t.status)
  <2>1. "expect_status" \notin Validate(t)
    OBVIOUS
  <2> QED
    BY <2>1 DEF Validate, badStatus
<1>4. t.kind = "http" => checkURL(t.address)
  <2>1. "address" \notin Validate(t)
    OBVIOUS
  <2> QED
    BY <2>1 DEF Validate, badAddress
<1> QED
  BY <1>1, <1>2, <1>3, <1>4 DEF Valid

\* The texts a check may fail with are not empty.
LEMMA TextsDiffer ==
  \A x \in ErrorText \cup {"status", "stichwort fehlt", "none"} : x # NoText /\ x \notin OwnTexts
  BY Zenon DEF ErrorText, OwnTexts, NoText

\* Every error has one of the texts.
LEMMA ErrorTexts ==
  ASSUME NEW e
  PROVE  errText(e) \in ErrorText
<1> DEFINE cases == {i \in DOMAIN Texts : Texts[i].of \cap e # {}}
<1>1. DOMAIN Texts = 1..6
  BY DEF Texts
<1>2. \A i \in 1..6 : Texts[i].text \in ErrorText
  <2>1. /\ Texts[1].text = "ziel gesperrt" /\ Texts[2].text = "zeitueberschreitung"
        /\ Texts[3].text = "verbindung abgelehnt" /\ Texts[4].text = "name nicht aufloesbar"
        /\ Texts[5].text = "zertifikat ungueltig" /\ Texts[6].text = "antwort ungueltig"
    BY DEF Texts
  <2>2. \A i \in {1, 2, 3, 4, 5, 6} : Texts[i].text \in ErrorText
    BY <2>1, Zenon DEF ErrorText
  <2> QED
    BY <2>2
<1>3. CASE cases = {}
  BY <1>3 DEF errText, ErrorText
<1>4. CASE cases # {}
  <2>1. \E m \in cases : \A i \in cases : m <= i
    <3> HIDE DEF cases
    <3>1. cases \subseteq 1..6
      BY <1>1 DEF cases
    <3>2. PICK x \in 1..6 : x \in cases
      BY <1>4, <3>1
    <3>4. 1 \in cases \/ 2 \in cases \/ 3 \in cases \/ 4 \in cases \/ 5 \in cases \/ 6 \in cases
      BY <3>2
    <3>3. \A i \in cases : i \in {1, 2, 3, 4, 5, 6}
      BY <3>1
    <3> QED
      BY <3>3, <3>4
  <2>2. Min(cases) \in cases
    BY <2>1 DEF Min
  <2>3. errText(e) = Texts[Min(cases)].text
    BY <1>4 DEF errText
  <2> QED
    BY <1>1, <1>2, <2>2, <2>3
<1> QED
  BY <1>3, <1>4

\* A code is wanted exactly when some range of the row holds it.
LEMMA RangesHold ==
  ASSUME NEW s \in Statuses, NEW c \in Codes
  PROVE  statusOK(s, c) <=> c \in UNION {s[j].lo .. s[j].hi : j \in DOMAIN s}
<1>1. c \in Int /\ s \in Seq(Span)
  BY StatusAssumption
<1>2. ASSUME NEW j \in DOMAIN s
      PROVE  s[j].lo \in Int /\ s[j].hi \in Int
  <2>1. j \in 1..Len(s)
    BY <1>1
  <2>2. s[j] \in Span
    BY <1>1, <2>1
  <2> QED
    BY <2>2 DEF Span
<1>3. \A j \in DOMAIN s : s[j].lo <= c /\ c <= s[j].hi <=> c \in s[j].lo .. s[j].hi
  BY <1>1, <1>2
<1> QED
  BY <1>3 DEF statusOK

\* A check that ends in its first request, its answers not deserving better,
\* is down.
LEMMA EndsDown ==
  ASSUME NEW x \in ErrorText \cup {"status", "stichwort fehlt"},
         Finish(Down(x)), Valid(target), UNCHANGED target, ~Earned',
         \A i \in DOMAIN answers' : answers'[i].stage # "players"
  PROVE  RInv'
<1>1. x # NoText /\ x \notin OwnTexts
  BY TextsDiffer
<1>2. pc' = "idle" /\ result' = Down(x)
  BY DEF Finish
<1>3. Saved' /\ ~Busy'
  BY <1>2 DEF Saved, Busy, Valid
<1>4. ResultMatches'
  BY <1>1, <1>2 DEF ResultMatches, Down, OwnTexts
<1> QED
  BY <1>3, <1>4 DEF RInv, StageFits, Alone, Second

\* A check that ends with answers that deserve it is up; the number of
\* players is known if players.json was read.
LEMMA EndsUp ==
  ASSUME NEW p \in BOOLEAN, Finish([ok |-> TRUE, err |-> NoText, players |-> p]),
         Valid(target), UNCHANGED target, Earned',
         p <=> \E i \in DOMAIN answers' : answers'[i].stage = "players" /\ answers'[i].body = "fits"
  PROVE  RInv'
<1>1. pc' = "idle" /\ result' = [ok |-> TRUE, err |-> NoText, players |-> p]
  BY DEF Finish
<1>2. Saved' /\ ~Busy'
  BY <1>1 DEF Saved, Busy, Valid
<1>3. NoText \notin OwnTexts
  BY Zenon DEF NoText, OwnTexts
<1>4. ResultMatches'
  BY <1>1, <1>3 DEF ResultMatches, OwnTexts
<1> QED
  BY <1>2, <1>4 DEF RInv, StageFits, Alone, Second

\* One answer whose body was not read to the end, or was not what is asked
\* for, deserves "up" only where its code alone decides.
LEMMA NotEarned ==
  ASSUME NEW c \in Codes, NEW b \in {"unread", "lacks"}, target.kind # "tcp",
         target.kind = "http" => ~statusOK(target.status, c) \/ target.keyword # "none",
         Valid(target), UNCHANGED target, answers' = <<Entry(stage, c, b)>>
  PROVE  ~Earned'
<1>1. DOMAIN answers' = {1} /\ answers'[1] = Entry(stage, c, b)
  OBVIOUS
<1>2. target.status \in Statuses
  BY DEF Valid
<1>3. b # "fits"
  OBVIOUS
<1> QED
  BY <1>1, <1>2, <1>3, RangesHold DEF Earned, Entry, Valid

\* A failing call ends the check as Reject says: the first request decides.
LEMMA FailedCall ==
  ASSUME RInv, Busy, NEW e, Failed(e), UNCHANGED <<target, answers>>
  PROVE  RInv'
<1>1. Valid(target) /\ pc # "form"
  BY DEF RInv, Saved, Busy
<1>2. CASE stage = "players"
  <2>1. target.kind = "fivem" /\ result = Up
    BY <1>2 DEF RInv, StageFits, Second
  <2>2. Finish([ok |-> TRUE, err |-> NoText, players |-> FALSE])
    BY <1>2, <2>1 DEF Failed, Reject, Finish, Up
  <2>3. answers = <<Served>> \/ answers = <<Served, Entry("players", 200, "unread")>>
    BY <1>2 DEF RInv, Second
  <2>4. /\ 1 \in DOMAIN answers /\ answers[1] = Served
        /\ \A i \in DOMAIN answers : answers[i] = Served \/ answers[i] = Entry("players", 200, "unread")
    BY <2>3
  <2>5. Earned'
    BY <2>1, <2>4 DEF Earned, Served, Entry
  <2>6. ~\E i \in DOMAIN answers' : answers'[i].stage = "players" /\ answers'[i].body = "fits"
    BY <2>4 DEF Served, Entry
  <2> QED
    BY <1>1, <2>2, <2>5, <2>6, EndsUp
<1>3. CASE stage # "players"
  <2>1. Finish(Down(errText(e))) /\ errText(e) \in ErrorText
    BY <1>3, ErrorTexts DEF Failed, Reject
  <2>2. ~Earned' /\ \A i \in DOMAIN answers' : answers'[i].stage # "players"
    <3>1. CASE answers = <<>>
      BY <3>1 DEF Earned
    <3>2. CASE pc = "body" /\ ~NoBody /\ \E c \in Codes : answers = <<Entry(stage, c, "unread")>>
      <4>1. PICK c \in Codes : answers = <<Entry(stage, c, "unread")>>
        BY <3>2
      <4>2. target.kind # "tcp" /\ (target.kind = "http" => target.keyword # "none")
        BY <3>2 DEF RInv, StageFits, NoBody
      <4>3. ~Earned'
        BY <1>1, <4>1, <4>2, NotEarned
      <4>4. DOMAIN answers' = {1} /\ answers'[1] = Entry(stage, c, "unread")
        BY <4>1
      <4> QED
        BY <1>3, <4>3, <4>4 DEF Entry
    <3> QED
      BY <1>3, <3>1, <3>2 DEF RInv, Alone
  <2> QED
    BY <1>1, <2>1, <2>2, EndsDown
<1> QED
  BY <1>2, <1>3

\* A step within a request, before the peer has said anything.
LEMMA WaitingStep ==
  ASSUME RInv, pc \in {"dial", "connect"}, UNCHANGED <<target, stage, result, answers>>,
         pc' \in {"dial", "connect"} \/ (pc' = "exchange" /\ stage # "tcp")
  PROVE  RInv'
<1>1. Busy /\ Busy' /\ pc # "body" /\ pc' # "body" /\ pc' # "idle" /\ pc # "form" /\ pc' # "form"
  BY DEF Busy
<1>2. Saved' /\ ResultMatches'
  BY <1>1 DEF RInv, Saved, ResultMatches, Valid
<1>3. StageFits'
  BY <1>1 DEF RInv, StageFits
<1>4. Alone' /\ Second'
  BY <1>1 DEF RInv, Alone, Second
<1> QED
  BY <1>2, <1>3, <1>4 DEF RInv

\* Saving and starting a check.
LEMMA RStart == RInv /\ (Save \/ Run) => RInv'
<1> SUFFICES ASSUME RInv, Save \/ Run PROVE RInv'
  OBVIOUS
<1>1. CASE Save
  <2>1. Valid(target)'
    BY <1>1, ValidateSuffices DEF Save
  <2>2. result' = NoResult /\ pc' = "idle" /\ ~Busy'
    BY <1>1 DEF Save, RInv, Saved, Busy
  <2> QED
    BY <2>1, <2>2 DEF RInv, Saved, StageFits, Alone, Second, ResultMatches
<1>2. CASE Run
  <2>1. Valid(target) /\ UNCHANGED target /\ answers' = <<>>
    BY <1>2 DEF Run, RInv, Saved
  <2>2. /\ pc' = "dial" /\ result' = NoResult
        /\ target.kind = "http" => stage' = "get"
        /\ target.kind = "tcp" => stage' = "tcp"
        /\ target.kind = "fivem" => stage' = "info"
    BY <1>2, <2>1 DEF Run, StartHTTP, Request, Valid
  <2>3. Saved' /\ ResultMatches'
    BY <2>1, <2>2 DEF Saved, ResultMatches, Valid
  <2>4. StageFits'
    BY <2>1, <2>2 DEF StageFits, Valid
  <2>5. Alone' /\ Second'
    BY <2>1, <2>2 DEF Alone, Second, Valid
  <2> QED
    BY <2>3, <2>4, <2>5 DEF RInv
<1> QED
  BY <1>1, <1>2

\* Lookups and dials; a connection is all that a TCP target is asked for.
LEMMA RDial == RInv /\ DialStep => RInv'
<1> SUFFICES ASSUME RInv, DialStep PROVE RInv'
  OBVIOUS
<1>1. CASE LookupName \/ LookupListed
  BY <1>1, WaitingStep DEF LookupName, LookupListed
<1>2. CASE Refuse \/ ConnectFails
  BY <1>2, WaitingStep DEF Refuse, ConnectFails
<1>3. CASE LookupFails
  BY <1>3, FailedCall DEF LookupFails, Busy
<1>4. CASE DialFails
  BY <1>4, FailedCall DEF DialFails, Busy
<1>5. CASE Connect
  <2>1. CASE stage = "tcp"
    <3>1. Valid(target) /\ UNCHANGED target /\ target.kind = "tcp" /\ answers = <<>>
      BY <1>5, <2>1 DEF Connect, RInv, Saved, StageFits, Alone, Busy
    <3>2. answers' = <<Entry("tcp", 0, "unread")>> /\ Finish(Up)
      BY <1>5, <2>1, <3>1 DEF Connect, Answer, Entry
    <3>3. DOMAIN answers' = {1} /\ answers'[1] = Entry("tcp", 0, "unread")
      BY <3>2
    <3>4. Earned'
      BY <3>1, <3>3 DEF Earned
    <3>5. ~\E i \in DOMAIN answers' : answers'[i].stage = "players" /\ answers'[i].body = "fits"
      BY <3>3 DEF Entry
    <3>6. Finish([ok |-> TRUE, err |-> NoText, players |-> FALSE])
      BY <3>2 DEF Finish, Up
    <3> QED
      BY <3>1, <3>4, <3>5, <3>6, EndsUp
  <2>2. CASE stage # "tcp"
    BY <1>5, <2>2, WaitingStep DEF Connect
  <2> QED
    BY <2>1, <2>2
<1> QED
  BY <1>1, <1>2, <1>3, <1>4, <1>5 DEF DialStep

\* The first answer: its code ends the check or asks for the body.
LEMMA RRespondFirst ==
  ASSUME RInv, Respond, stage # "players"
  PROVE  RInv'
<1>1. PICK c \in Codes :
        /\ Answer(c)
        /\ \/ ~Wanted(c) /\ Reject("status")
           \/ Wanted(c) /\ NoBody /\ Finish(Up)
           \/ Wanted(c) /\ ~NoBody /\ pc' = "body" /\ UNCHANGED result
  BY DEF Respond
<1>2. pc = "exchange" /\ Busy /\ UNCHANGED <<target, stage>> /\ Valid(target)
  BY DEF Respond, Busy, RInv, Saved
<1>3. \/ target.kind = "http" /\ stage = "get"
      \/ target.kind = "fivem" /\ stage = "info"
  BY <1>2 DEF RInv, StageFits
<1>4. answers = <<>>
  BY <1>2 DEF RInv, Alone
<1>5. answers' = <<Entry(stage, c, "unread")>>
  BY <1>1, <1>4 DEF Answer, Entry
<1>6. DOMAIN answers' = {1} /\ answers'[1] = Entry(stage, c, "unread")
  BY <1>5
<1>7. \A i \in DOMAIN answers' : answers'[i].stage # "players"
  BY <1>6 DEF Entry
<1>8. CASE ~Wanted(c) /\ Reject("status")
  <2>1. target.kind = "http" => ~statusOK(target.status, c)
    BY <1>3, <1>8 DEF Wanted
  <2>2. ~Earned'
    BY <1>2, <1>3, <1>5, <2>1, NotEarned
  <2>3. Finish(Down("status"))
    BY <1>8 DEF Reject
  <2> QED
    BY <1>2, <1>7, <2>2, <2>3, EndsDown
<1>9. CASE Wanted(c) /\ NoBody /\ Finish(Up)
  <2>1. target.kind = "http" /\ target.keyword = "none" /\ statusOK(target.status, c)
    BY <1>3, <1>9 DEF NoBody, Wanted
  <2>2. c \in UNION {target.status[j].lo .. target.status[j].hi : j \in DOMAIN target.status}
    BY <1>2, <2>1, RangesHold DEF Valid
  <2>3. Earned'
    BY <1>2, <1>6, <2>1, <2>2 DEF Earned, Entry
  <2>4. Finish([ok |-> TRUE, err |-> NoText, players |-> FALSE])
    BY <1>9 DEF Finish, Up
  <2> QED
    BY <1>2, <1>7, <2>3, <2>4, EndsUp
<1>10. CASE Wanted(c) /\ ~NoBody /\ pc' = "body" /\ UNCHANGED result
  <2>1. Saved' /\ ResultMatches'
    BY <1>2, <1>10 DEF Saved, ResultMatches, Valid
  <2>2. StageFits'
    BY <1>2, <1>3 DEF StageFits
  <2>3. Wanted(c)' /\ ~NoBody'
    BY <1>2, <1>10 DEF Wanted, NoBody
  <2>4. Alone'
    BY <1>2, <1>5, <1>10, <2>3 DEF Alone
  <2> QED
    BY <1>2, <2>1, <2>2, <2>4 DEF RInv, Second
<1> QED
  BY <1>1, <1>8, <1>9, <1>10

\* A second entry behind the first.
LEMMA AppendSecond ==
  ASSUME NEW x, NEW y
  PROVE  Append(<<x>>, y) = <<x, y>>
<1> DEFINE S == {x, y}
           u == Append(<<x>>, y)
           v == <<x, y>>
<1>1. u \in Seq(S)
  OBVIOUS
<1>2. Len(u) = 2
  OBVIOUS
<1>3. u[1] = x
  OBVIOUS
<1>4. u[2] = y
  OBVIOUS
<1>5. v \in Seq(S) /\ Len(v) = 2 /\ v[1] = x /\ v[2] = y
  OBVIOUS
<1> HIDE DEF S, u, v
<1>6. \A i \in 1 .. 2 : u[i] = v[i]
  BY <1>3, <1>4, <1>5
<1>7. u = v
  BY <1>1, <1>2, <1>5, <1>6, SeqEqual
<1> QED
  BY <1>7 DEF u, v

\* The answer of players.json: the check is up whatever it is.
LEMMA RRespondSecond ==
  ASSUME RInv, Respond, stage = "players"
  PROVE  RInv'
<1>1. PICK c \in Codes :
        /\ Answer(c)
        /\ \/ ~Wanted(c) /\ Reject("status")
           \/ Wanted(c) /\ NoBody /\ Finish(Up)
           \/ Wanted(c) /\ ~NoBody /\ pc' = "body" /\ UNCHANGED result
  BY DEF Respond
<1>2. pc = "exchange" /\ Busy /\ UNCHANGED <<target, stage>> /\ Valid(target)
  BY DEF Respond, Busy, RInv, Saved
<1>3. target.kind = "fivem" /\ ~NoBody /\ (Wanted(c) <=> c = 200)
  BY <1>2 DEF RInv, StageFits, NoBody, Wanted
<1>4. answers = <<Served>> /\ result = Up
  BY <1>2 DEF RInv, Second
<1>5. answers' = <<Served, Entry("players", c, "unread")>>
  <2>1. answers' = Append(<<Served>>, Entry("players", c, "unread"))
    BY <1>1, <1>4 DEF Answer, Entry
  <2> QED
    BY <2>1, AppendSecond
<1>6. DOMAIN answers' = {1, 2} /\ answers'[1] = Served /\ answers'[2] = Entry("players", c, "unread")
  BY <1>5
<1>7. CASE ~Wanted(c) /\ Reject("status")
  <2>1. Finish([ok |-> TRUE, err |-> NoText, players |-> FALSE])
    BY <1>4, <1>7 DEF Reject, Finish, Up
  <2>2. Earned'
    BY <1>2, <1>3, <1>6 DEF Earned, Served, Entry
  <2>3. ~\E i \in DOMAIN answers' : answers'[i].stage = "players" /\ answers'[i].body = "fits"
    BY <1>6 DEF Served, Entry
  <2> QED
    BY <1>2, <2>1, <2>2, <2>3, EndsUp
<1>8. CASE Wanted(c) /\ ~NoBody /\ pc' = "body" /\ UNCHANGED result
  <2>1. Saved' /\ ResultMatches'
    BY <1>2, <1>8 DEF Saved, ResultMatches, Valid
  <2>2. StageFits'
    BY <1>2, <1>3 DEF StageFits
  <2>3. Second'
    BY <1>2, <1>3, <1>4, <1>5, <1>8 DEF Second, Up
  <2> QED
    BY <1>2, <2>1, <2>2, <2>3 DEF RInv, Alone
<1> QED
  BY <1>1, <1>3, <1>7, <1>8

\* Reading the body of the last answer.
LEMMA ReadLast ==
  ASSUME NEW s, NEW c, NEW b, Read(b)
  PROVE  /\ answers = <<Entry(s, c, "unread")>> => answers' = <<Entry(s, c, b)>>
         /\ answers = <<Served, Entry(s, c, "unread")>> => answers' = <<Served, Entry(s, c, b)>>
<1>1. [Entry(s, c, "unread") EXCEPT !.body = b] = Entry(s, c, b)
  BY DEF Entry
<1>2. ASSUME answers = <<Entry(s, c, "unread")>> PROVE answers' = <<Entry(s, c, b)>>
  <2>1. answers' = [answers EXCEPT ![1] = [answers[1] EXCEPT !.body = b]]
    BY <1>2 DEF Read
  <2> QED
    BY <1>1, <1>2, <2>1
<1>3. ASSUME answers = <<Served, Entry(s, c, "unread")>> PROVE answers' = <<Served, Entry(s, c, b)>>
  <2>1. answers' = [answers EXCEPT ![2] = [answers[2] EXCEPT !.body = b]]
    BY <1>3 DEF Read
  <2> QED
    BY <1>1, <1>3, <2>1
<1> QED
  BY <1>2, <1>3

\* The body is what the check asks for.
LEMMA RFits ==
  ASSUME RInv, BodyFits
  PROVE  RInv'
<1>1. pc = "body" /\ Busy /\ UNCHANGED target /\ Valid(target) /\ Read("fits")
  BY DEF BodyFits, Busy, RInv, Saved
<1>2. CASE stage # "players"
  <2>1. PICK c \in Codes : Wanted(c) /\ answers = <<Entry(stage, c, "unread")>>
    BY <1>1, <1>2 DEF RInv, Alone
  <2>2. answers' = <<Entry(stage, c, "fits")>>
    BY <1>1, <2>1, ReadLast
  <2>3. DOMAIN answers' = {1} /\ answers'[1] = Entry(stage, c, "fits")
    BY <2>2
  <2>4. CASE stage = "get"
    <3>1. target.kind = "http" /\ statusOK(target.status, c)
      BY <1>1, <2>1, <2>4 DEF RInv, StageFits, Wanted
    <3>2. c \in UNION {target.status[j].lo .. target.status[j].hi : j \in DOMAIN target.status}
      BY <1>1, <3>1, RangesHold DEF Valid
    <3>3. Earned'
      BY <1>1, <2>3, <3>1, <3>2 DEF Earned, Entry
    <3>4. ~\E i \in DOMAIN answers' : answers'[i].stage = "players" /\ answers'[i].body = "fits"
      BY <2>3, <2>4 DEF Entry
    <3>5. Finish([ok |-> TRUE, err |-> NoText, players |-> FALSE])
      BY <2>4 DEF BodyFits, Finish, Up
    <3> QED
      BY <1>1, <3>3, <3>4, <3>5, EndsUp
  <2>5. CASE stage = "info"
    <3>1. target.kind = "fivem" /\ c = 200
      BY <1>1, <2>1, <2>5 DEF RInv, StageFits, Wanted
    <3>2. pc' = "dial" /\ stage' = "players" /\ result' = Up
      BY <2>5 DEF BodyFits, Request
    <3>3. answers' = <<Served>>
      BY <2>2, <2>5, <3>1 DEF Served
    <3>4. Saved' /\ ResultMatches'
      BY <1>1, <3>2 DEF Saved, ResultMatches, Valid
    <3>5. StageFits' /\ Alone'
      BY <1>1, <3>1, <3>2 DEF StageFits, Alone
    <3>6. Second'
      BY <3>2, <3>3 DEF Second, Up
    <3> QED
      BY <3>4, <3>5, <3>6 DEF RInv
  <2> QED
    BY <1>2, <2>4, <2>5 DEF BodyFits
<1>3. CASE stage = "players"
  <2>1. target.kind = "fivem" /\ answers = <<Served, Entry("players", 200, "unread")>>
    BY <1>1, <1>3 DEF RInv, StageFits, Second
  <2>2. answers' = <<Served, Entry("players", 200, "fits")>>
    BY <1>1, <2>1, ReadLast
  <2>3. 1 \in DOMAIN answers' /\ 2 \in DOMAIN answers'
        /\ answers'[1] = Served /\ answers'[2] = Entry("players", 200, "fits")
    BY <2>2
  <2>4. Earned'
    BY <1>1, <2>1, <2>3 DEF Earned, Served, Entry
  <2>5. \E i \in DOMAIN answers' : answers'[i].stage = "players" /\ answers'[i].body = "fits"
    BY <2>3 DEF Entry
  <2>6. Finish([ok |-> TRUE, err |-> NoText, players |-> TRUE])
    BY <1>3 DEF BodyFits, Finish, Up
  <2> QED
    BY <1>1, <2>4, <2>5, <2>6, EndsUp
<1> QED
  BY <1>2, <1>3

\* The body lacks the keyword or names no server.
LEMMA RLacks ==
  ASSUME RInv, BodyLacks
  PROVE  RInv'
<1>1. pc = "body" /\ Busy /\ UNCHANGED target /\ Valid(target) /\ Read("lacks") /\ stage # "players"
  BY DEF BodyLacks, Busy, RInv, Saved
<1>2. PICK c \in Codes : answers = <<Entry(stage, c, "unread")>>
  BY <1>1 DEF RInv, Alone
<1>3. answers' = <<Entry(stage, c, "lacks")>>
  BY <1>1, <1>2, ReadLast
<1>4. DOMAIN answers' = {1} /\ answers'[1] = Entry(stage, c, "lacks")
  BY <1>3
<1>5. target.kind # "tcp" /\ (target.kind = "http" => target.keyword # "none")
  BY <1>1 DEF RInv, StageFits, Alone, NoBody
<1>6. ~Earned'
  BY <1>1, <1>3, <1>5, NotEarned
<1>7. \A i \in DOMAIN answers' : answers'[i].stage # "players"
  BY <1>1, <1>4 DEF Entry
<1>8. PICK x \in ErrorText \cup {"status", "stichwort fehlt"} : Finish(Down(x))
  BY DEF BodyLacks, ErrorText
<1> QED
  BY <1>1, <1>6, <1>7, <1>8, EndsDown

\* The invariant of a check's result holds in every reachable state.
THEOREM Judgement == Spec => []RInv
<1>1. Init => RInv
  BY DEF Init, RInv, Saved, StageFits, Alone, Second, ResultMatches, Busy
<1>2. ASSUME RInv, [Next]_vars PROVE RInv'
  <2>1. CASE UNCHANGED vars \/ Deadline \/ Cancel
    <3>1. UNCHANGED <<target, pc, stage, result, answers>> /\ (Busy' <=> Busy)
      BY <2>1 DEF vars, Deadline, Cancel, Busy
    <3>2. Saved' /\ StageFits' /\ Second'
      BY <1>2, <3>1 DEF RInv, Saved, Valid, StageFits, Second
    <3>3. Alone'
      BY <1>2, <3>1 DEF RInv, Alone, Wanted, NoBody
    <3>4. ResultMatches'
      <4>1. Earned' <=> Earned
        BY <3>1 DEF Earned
      <4> QED
        BY <1>2, <3>1, <4>1 DEF RInv, ResultMatches
    <3> QED
      BY <3>2, <3>3, <3>4 DEF RInv
  <2>2. CASE Respond
    BY <1>2, <2>2, RRespondFirst, RRespondSecond
  <2>3. CASE BodyFits \/ BodyLacks
    BY <1>2, <2>3, RFits, RLacks
  <2>4. CASE ExchangeFails \/ BodyFails
    BY <1>2, <2>4, FailedCall DEF ExchangeFails, BodyFails, Busy
  <2>5. CASE CallReturns
    BY <1>2, <2>5, FailedCall DEF CallReturns
  <2> QED
    BY <1>2, <2>1, <2>2, <2>3, <2>4, <2>5, RStart, RDial DEF Next, PeerStep
<1> QED
  BY <1>1, <1>2, PTL DEF Spec

\* A finished check says "up" exactly when the peer's answers deserve it, with
\* an error text exactly when it says "down" and a number of players exactly
\* when players.json was read (checkHTTP, checkTCP, checkFiveM, Validate): for
\* every status text, every code and every way a call may fail or be cut off.
THEOREM ResultIsEarned == Spec => []ResultMatches
<1>1. RInv => ResultMatches
  BY DEF RInv
<1> QED
  BY <1>1, Judgement, PTL
=============================================================================
