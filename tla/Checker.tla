------------------------------- MODULE Checker -------------------------------
(***************************************************************************)
(* internal/check: one target, from the form that is saved to the results  *)
(* of its checks.  A check is a context with a deadline, one dial (http,   *)
(* tcp) or two (fivem: info.json and players.json), each with a name       *)
(* lookup of its own, and the peer's answers.  Scheduler and Alerting take *)
(* the result of a check as an input, and that it ends as an assumption.   *)
(***************************************************************************)
EXTENDS Integers, Sequences, SequencesExt, FiniteSetsExt

CONSTANTS
  Addrs,         \* addresses that a lookup may answer with
  SelfAnswer,    \* what the lookup of BASE_URL's host answered at start-up
  Proxies,       \* host:port pairs that an admin may enter as connect_to
  PrivateAllow,  \* those of them that PRIVATE_ALLOW lists
  Statuses,      \* texts for expect_status, cut at the commas
  Numbers,       \* triples of interval_s, timeout_ms and fail_threshold
  Codes,         \* status codes of responses
  MaxAnswers     \* bound on the addresses of one lookup

(***************************************************************************)
(* An address is how it is written and which machine it names.  The class  *)
(* of the machine: "private" includes 100.64.0.0/10, "reserved" stands for *)
(* unspecified, link-local, multicast and the prefixes of `blocked`.       *)
(***************************************************************************)
Form == {"plain", "mapped", "zoned", "nat64", "sixTo4"}
Class == {"public", "private", "loopback", "reserved"}
Address == [form : Form, class : Class, host : Nat]

ASSUME AddrsAssumption == Addrs \subseteq Address /\ SelfAnswer \subseteq Address
ASSUME ProxiesAssumption == PrivateAllow \subseteq Proxies

\* A status text is a sequence of ranges.
Span == [lo : Int, hi : Int]

ASSUME StatusAssumption == Statuses \subseteq Seq(Span) /\ Codes \subseteq Int

VARIABLES
  target,   \* the row of the target; NoTarget before it is saved
  pc,       \* where the check is
  stage,    \* which request it makes: tcp, get, info or players
  ctx,      \* the check's context: live, deadline or cancelled
  queue,    \* addresses left to dial
  extra,    \* addresses that may be dialled although they are private
  err,      \* the error a failing dial would return
  result,   \* Result; NoResult before the first check
  reached,  \* history: addresses that got a packet during this check
  answers   \* history: what the peer answered during this check

vars == <<target, pc, stage, ctx, queue, extra, err, result, reached, answers>>

NoTarget == [kind |-> "none"]
NoResult == [ok |-> FALSE, err |-> "none", players |-> FALSE]

-----------------------------------------------------------------------------
(* Status ranges.  A part that is no number is NaN; a single code is a     *)
(* range of one.                                                           *)
NaN == -1

badRange(r) == r.lo = NaN \/ r.hi = NaN \/ r.lo < 100 \/ r.hi > 599 \/ r.lo > r.hi

parseStatus(s) == \A i \in DOMAIN s : ~badRange(s[i])

statusOK(ranges, code) ==
  \E i \in DOMAIN ranges : ranges[i].lo <= code /\ code <= ranges[i].hi

-----------------------------------------------------------------------------
(* What a form may hold, and Validate: the set of fields with an error.    *)
Names == {"name", "nameHidden", "empty"}
Addresses == {"url", "urlHidden", "hostPort", "text"}
Keywords == {"none", "word", "wordHidden", "long"}

Forms ==
  [kind : {"http", "tcp", "fivem", "icmp"}, name : Names, address : Addresses,
   status : Statuses, statusLength : {100, 101}, keyword : Keywords,
   connectTo : Proxies \cup {"none", "text"}, numbers : Numbers]

hidden(text) == text \in {"nameHidden", "urlHidden", "wordHidden"}
checkURL(text) == text \in {"url", "urlHidden"}
hostPort(text) == text \in Proxies \cup {"hostPort"}

Interval(t) == t.numbers[1]
Timeout(t) == t.numbers[2]
Threshold(t) == t.numbers[3]

badAddress(t) ==
  \/ hidden(t.address)
  \/ t.kind = "http" /\ ~checkURL(t.address)
  \/ t.kind \in {"tcp", "fivem"} /\ ~hostPort(t.address)

\* Blanks make a text of any ranges as long as one likes.
badStatus(t) == t.kind = "http" /\ (~parseStatus(t.status) \/ t.statusLength > 100)

badKeyword(t) ==
  \/ t.keyword = "long" \/ hidden(t.keyword)
  \/ t.keyword # "none" /\ t.kind # "http"

badConnectTo(t) == t.connectTo # "none" /\ (t.kind = "tcp" \/ ~hostPort(t.connectTo))

badInterval(t) == Interval(t) < 30 \/ Interval(t) > 86400

MaxTimeout(t) == Min({60000, Interval(t) * 1000 - 1})

badTimeout(t) == ~badInterval(t) /\ (Timeout(t) < 500 \/ Timeout(t) > MaxTimeout(t))

Validate(t) ==
  {f \in {"name", "address", "expect_status", "kind", "keyword", "connect_to",
          "interval_s", "timeout_ms", "fail_threshold"} :
     CASE f = "name" -> t.name # "name"
       [] f = "address" -> badAddress(t)
       [] f = "expect_status" -> badStatus(t)
       [] f = "kind" -> t.kind \notin {"http", "tcp", "fivem"}
       [] f = "keyword" -> badKeyword(t)
       [] f = "connect_to" -> badConnectTo(t)
       [] f = "interval_s" -> badInterval(t)
       [] f = "timeout_ms" -> badTimeout(t)
       [] f = "fail_threshold" -> Threshold(t) \notin 1..20}

-----------------------------------------------------------------------------
(* Which addresses may be dialled.                                         *)
Unmap(a) == IF a.form \in {"mapped", "zoned"} THEN [a EXCEPT !.form = "plain"] ELSE a

\* The IPv4 address inside a NAT64 or 6to4 address.
Embedded(a) == IF a.form \in {"nat64", "sixTo4"} THEN [a EXCEPT !.form = "plain"] ELSE a

selfAddrs == {a \in {Unmap(s) : s \in SelfAnswer} :
                ~(a.form = "plain" /\ a.class \in {"private", "loopback"})}

\* Mutant of allowed: the list of own addresses is compared as written only.
allowedAsWritten(a, listed, block) ==
  LET orig == Unmap(a)
      ip == Embedded(orig)
  IN  /\ orig \notin block
      /\ ip.class \notin {"reserved", "loopback"}
      /\ ip.class = "private" => orig \in listed

\* The field loopback of Checker is set by tests only.
allowed(a, listed, block) ==
  LET orig == Unmap(a)
      ip == Embedded(orig)
  IN  /\ orig \notin block /\ ip \notin block
      /\ ip.class \notin {"reserved", "loopback"}
      /\ ip.class = "private" => orig \in listed

-----------------------------------------------------------------------------
(* An error is the set of what errors.Is and errors.As find in it; errText *)
(* takes the first case that applies.                                      *)
Texts == <<[of |-> {"blocked"}, text |-> "ziel gesperrt"],
           [of |-> {"deadline", "timeout"}, text |-> "zeitueberschreitung"],
           [of |-> {"refused"}, text |-> "verbindung abgelehnt"],
           [of |-> {"dns"}, text |-> "name nicht aufloesbar"],
           [of |-> {"cert"}, text |-> "zertifikat ungueltig"],
           [of |-> {"json", "eof"}, text |-> "antwort ungueltig"]>>

errText(e) ==
  LET cases == {i \in DOMAIN Texts : Texts[i].of \cap e # {}}
  IN  IF cases = {} THEN "verbindungsfehler" ELSE Texts[Min(cases)].text

NoError == {"none"}
Blocked == {"blocked"}
ConnectErrors == {{"refused"}, {"timeout"}, {}}
LookupErrors == {{"dns"}, {"dns", "timeout"}}
ExchangeErrors == {{"cert"}, {"eof"}, {"timeout"}, {}}
BodyErrors == {{"json"}, {"eof"}, {}}
ctxErr == IF ctx = "deadline" THEN {"deadline"} ELSE {"cancelled"}

-----------------------------------------------------------------------------
(* The ways a check ends.                                                  *)
Finish(r) == /\ pc' = "idle"
             /\ result' = r

NoText == ""   \* Result.Err of a check that is up

Up == [ok |-> TRUE, err |-> NoText, players |-> FALSE]
Down(text) == [ok |-> FALSE, err |-> text, players |-> FALSE]

\* Mutant of Reject: a failing players.json is a failing check.
RejectAnyStage(text) == Finish(Down(text))

\* A failing players.json only leaves the number of players out.
Reject(text) == Finish(IF stage = "players" THEN result ELSE Down(text))

Failed(e) == Reject(errText(e))

Request(s) == /\ pc' = "dial"
              /\ stage' = s

Answer(code) == answers' = Append(answers, [stage |-> stage, code |-> code, body |-> "unread"])

-----------------------------------------------------------------------------
(* Saving the form, and Run's dispatch.                                    *)
Save == /\ pc = "form"
        /\ \E t \in Forms : Validate(t) = {} /\ target' = t
        /\ pc' = "idle"
        /\ UNCHANGED <<stage, ctx, queue, extra, err, result, reached, answers>>

\* http.NewRequest parses the address with the same function as checkURL.
StartHTTP ==
  IF ~parseStatus(target.status) THEN Finish(Down("statusangabe ungueltig")) /\ UNCHANGED stage
  ELSE IF ~checkURL(target.address) THEN Finish(Down("adresse ungueltig")) /\ UNCHANGED stage
  ELSE Request("get") /\ result' = NoResult

Run == /\ pc = "idle"
       /\ ctx' = "live"
       /\ reached' = {}
       /\ answers' = <<>>
       /\ CASE target.kind = "http" -> StartHTTP
            [] target.kind = "tcp" -> Request("tcp") /\ result' = NoResult
            [] target.kind = "fivem" -> Request("info") /\ result' = NoResult
            [] OTHER -> Finish(Down("unbekannte art")) /\ UNCHANGED stage
       /\ UNCHANGED <<target, queue, extra, err>>

-----------------------------------------------------------------------------
(* Dialling.  Without connect_to, or when it is not listed, net.Dialer     *)
(* looks the name up and asks Control about every address it tries.  A     *)
(* listed connect_to is looked up first and its addresses are dialled as   *)
(* they are.                                                               *)
ViaProxy == stage # "tcp" /\ target.connectTo # "none"
Listed == ViaProxy /\ target.connectTo \in PrivateAllow

Replies == SeqOf(Addrs, MaxAnswers)

LookupName == /\ pc = "dial" /\ ctx = "live" /\ ~Listed
              /\ \E ips \in Replies \ {<<>>} : queue' = ips
              /\ extra' = {}
              /\ err' = NoError
              /\ pc' = "connect"
              /\ UNCHANGED <<target, stage, ctx, result, reached, answers>>

LookupListed == /\ pc = "dial" /\ ctx = "live" /\ Listed
                /\ \E ips \in Replies : queue' = [i \in DOMAIN ips |-> Unmap(ips[i])]
                /\ extra' = ToSet(queue')
                /\ err' = Blocked
                /\ pc' = "connect"
                /\ UNCHANGED <<target, stage, ctx, result, reached, answers>>

LookupFails == /\ pc = "dial"
               /\ \E e \in LookupErrors : Failed(e)
               /\ UNCHANGED <<target, stage, ctx, queue, extra, err, reached, answers>>

\* net.Dialer returns the error of its first address, dialConnectTo the last one.
Keep(e) == err' = IF Listed \/ err = NoError THEN e ELSE err

Refuse == /\ pc = "connect" /\ ctx = "live" /\ queue # <<>>
          /\ ~allowed(Head(queue), extra, selfAddrs)
          /\ queue' = Tail(queue)
          /\ Keep(Blocked)
          /\ UNCHANGED <<target, pc, stage, ctx, extra, result, reached, answers>>

ConnectFails == /\ pc = "connect" /\ ctx = "live" /\ queue # <<>>
                /\ allowed(Head(queue), extra, selfAddrs)
                /\ reached' = reached \cup {Head(queue)}
                /\ queue' = Tail(queue)
                /\ \E e \in ConnectErrors : Keep(e)
                /\ UNCHANGED <<target, pc, stage, ctx, extra, result, answers>>

Connect == /\ pc = "connect" /\ ctx = "live" /\ queue # <<>>
           /\ allowed(Head(queue), extra, selfAddrs)
           /\ reached' = reached \cup {Head(queue)}
           /\ IF stage = "tcp" THEN Answer(0) /\ Finish(Up)
                               ELSE pc' = "exchange" /\ UNCHANGED <<result, answers>>
           /\ UNCHANGED <<target, stage, ctx, queue, extra, err>>

DialFails == /\ pc = "connect" /\ queue = <<>>
             /\ Failed(err)
             /\ UNCHANGED <<target, stage, ctx, queue, extra, err, reached, answers>>

-----------------------------------------------------------------------------
(* The exchange.  A redirect is a response like any other.                 *)
Wanted(code) == IF stage = "get" THEN statusOK(target.status, code) ELSE code = 200

NoBody == stage = "get" /\ target.keyword = "none"

Respond ==
  /\ pc = "exchange"
  /\ \E code \in Codes :
       /\ Answer(code)
       /\ \/ ~Wanted(code) /\ Reject("status")
          \/ Wanted(code) /\ NoBody /\ Finish(Up)
          \/ Wanted(code) /\ ~NoBody /\ pc' = "body" /\ UNCHANGED result
  /\ UNCHANGED <<target, stage, ctx, queue, extra, err, reached>>

ExchangeFails == /\ pc = "exchange"
                 /\ \E e \in ExchangeErrors : Failed(e)
                 /\ UNCHANGED <<target, stage, ctx, queue, extra, err, reached, answers>>

Read(body) == answers' = [answers EXCEPT ![Len(answers)].body = body]

\* The body holds what is asked for within maxBody or fivemLimit bytes.
BodyFits == /\ pc = "body"
            /\ Read("fits")
            /\ \/ stage = "get" /\ Finish(Up) /\ UNCHANGED stage
               \/ stage = "info" /\ Request("players") /\ result' = Up
               \/ stage = "players" /\ Finish([Up EXCEPT !.players = TRUE]) /\ UNCHANGED stage
            /\ UNCHANGED <<target, ctx, queue, extra, err, reached>>

\* The keyword is missing or lies behind maxBody; info.json names no server.
BodyLacks == /\ pc = "body" /\ stage # "players"
             /\ Read("lacks")
             /\ Finish(Down(IF stage = "get" THEN "stichwort fehlt" ELSE "antwort ungueltig"))
             /\ UNCHANGED <<target, stage, ctx, queue, extra, err, reached>>

BodyFails == /\ pc = "body"
             /\ \E e \in BodyErrors : Failed(e)
             /\ UNCHANGED <<target, stage, ctx, queue, extra, err, reached, answers>>

-----------------------------------------------------------------------------
(* The context.  Its deadline covers all requests of a check; cancel comes *)
(* from stop or from the process's end.  A call under way then returns     *)
(* with the context's error, unless an answer comes first.                 *)
Busy == pc \in {"dial", "connect", "exchange", "body"}

Deadline == /\ Busy /\ ctx = "live"
            /\ ctx' = "deadline"
            /\ UNCHANGED <<target, pc, stage, queue, extra, err, result, reached, answers>>

Cancel == /\ Busy /\ ctx = "live"
          /\ ctx' = "cancelled"
          /\ UNCHANGED <<target, pc, stage, queue, extra, err, result, reached, answers>>

\* Mutant of CallReturns: the body is read without the context.
CallReturnsButBody == /\ pc \in {"dial", "connect", "exchange"} /\ ctx # "live"
                      /\ Failed(ctxErr)
                      /\ UNCHANGED <<target, stage, ctx, queue, extra, err, reached, answers>>

CallReturns == /\ Busy /\ ctx # "live"
               /\ Failed(ctxErr)
               /\ UNCHANGED <<target, stage, ctx, queue, extra, err, reached, answers>>

-----------------------------------------------------------------------------
Init == /\ target = NoTarget
        /\ pc = "form" /\ stage = "get" /\ ctx = "live"
        /\ queue = <<>> /\ extra = {} /\ err = NoError
        /\ result = NoResult
        /\ reached = {} /\ answers = <<>>

DialStep == LookupName \/ LookupListed \/ LookupFails \/ Refuse \/ ConnectFails \/ Connect \/ DialFails
PeerStep == Respond \/ ExchangeFails \/ BodyFits \/ BodyLacks \/ BodyFails

Next == \/ Save \/ Run
        \/ DialStep \/ PeerStep
        \/ Deadline \/ Cancel \/ CallReturns

Spec == Init /\ [][Next]_vars

\* A timer fires, and a call whose context has ended returns.  Nothing is
\* assumed of lookups and peers, which may be silent for ever.
FairSpec == Spec /\ WF_vars(Deadline) /\ WF_vars(CallReturns)

-----------------------------------------------------------------------------
(* Properties.                                                             *)

\* The machines that a target may reach: public ones other than the server's
\* own, and private ones when the target's connect_to is listed.
Reachable(a) ==
  /\ \A s \in SelfAnswer : s.form \in {"plain", "mapped", "zoned"} /\ s.class = "public"
       => ~(s.host = a.host /\ s.class = a.class)
  /\ \/ a.class = "public"
     \/ a.class = "private" /\ target.kind # "tcp" /\ target.connectTo \in PrivateAllow

(* Whatever lookups answer, in whatever notation, and although each request *)
(* looks the name up again: a check only ever sends packets to machines     *)
(* that its target may reach (dialer, dialConnectTo, allowed).              *)
OnlyAllowedReached == \A a \in reached : Reachable(a)

\* What makes a target up, said of the peer's answers alone.
Earned ==
  \E i \in DOMAIN answers :
    LET a == answers[i]
    IN  \/ target.kind = "tcp"
        \/ /\ target.kind = "http"
           /\ a.code \in UNION {target.status[j].lo .. target.status[j].hi : j \in DOMAIN target.status}
           /\ target.keyword = "none" \/ a.body = "fits"
        \/ target.kind = "fivem" /\ a.stage = "info" /\ a.code = 200 /\ a.body = "fits"

(* A finished check says "up" exactly when the peer's answers deserve it,   *)
(* with an error text exactly when it says "down", and a number of players  *)
(* exactly when players.json was read: a late, refused or missing answer to *)
(* the second request of a FiveM check changes nothing (checkFiveM), and a  *)
(* redirect or an error page is judged by its own code (checkHTTP).  The    *)
(* error is none that the row itself causes: Validate keeps such rows out.  *)
ResultMatches ==
  pc = "idle" /\ result # NoResult =>
    /\ result.err \notin {"statusangabe ungueltig", "adresse ungueltig", "unbekannte art"}
    /\ result.ok <=> Earned
    /\ result.ok <=> result.err = NoText
    /\ result.players <=> \E i \in DOMAIN answers : answers[i].stage = "players" /\ answers[i].body = "fits"

(* Every check ends, however silent the peer is: the deadline of Run ends   *)
(* lookups, dials, exchanges and bodies.                                    *)
CheckEnds == Busy ~> ~Busy
=============================================================================
