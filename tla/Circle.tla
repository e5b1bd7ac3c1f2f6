-------------------------------- MODULE Circle ---------------------------------
(***************************************************************************)
(* The friends screen and the search screen (screens/FriendsScreen.tsx,    *)
(* screens/AddFriendScreen.tsx, hooks/useFriends.ts), which show and       *)
(* change three cached queries: the friends, the requests of both          *)
(* directions, and the badge that counts the incoming ones                 *)
(* (hooks/usePendingFriendCount.ts).  A handler of the server is one step  *)
(* here and a person stands in one relation to the user; Friendships has   *)
(* the statements of each handler and the rows of both directions.         *)
(***************************************************************************)
EXTENDS Naturals, Sequences, FiniteSets, Lists

CONSTANTS
  People,    \* the others
  Native,    \* a device on which Alert asks; a browser does not
  MaxCalls,  \* bound on the calls in flight
  MaxTaps,   \* bound on the calls and changes of screen ever made
  MaxEvents, \* bound on failures, on refetches and on what happens elsewhere
  MaxMoves   \* bound on both together

VARIABLES
  rows,    \* the server: per person [kind, id], id being that of the last request
  screen,  \* "friends" or "add"
  cached,  \* per query, what is cached
  fetch,   \* per query, its fetch: [phase, value]
  stale,   \* the queries invalidated while no screen showed them
  busy,    \* processingIds of the friends screen
  asked,   \* the question that is open on the friends screen: [op, who], or Unasked
  sending, sent,  \* sendingId and sentIds of the search screen
  calls,   \* [op, who, phase, answer, old, here], in the order they were sent
  blind,   \* the queries that were given no reason to read again: see Truthful
  taps, events

vars == <<rows, screen, cached, fetch, stale, busy, asked, sending, sent, calls, blind, taps, events>>

Keys == {"friends", "requests", "pending"}
Nobody == "nobody"
NoFetch == [phase |-> "idle", value |-> {}]
SentFetch == [NoFetch EXCEPT !.phase = "sent"]
Unasked == [op |-> "none", who |-> Nobody]

MayTap   == taps < MaxTaps /\ taps + events < MaxMoves /\ taps' = taps + 1
MayOccur == events < MaxEvents /\ taps + events < MaxMoves /\ events' = events + 1

\* A request, or a friend, whose row is known by the person alone.
Request(p) == [p |-> p, id |-> rows[p].id]
Friend(p)  == [p |-> p, id |-> 0]

Incoming == {Request(p) : p \in {q \in People : rows[q].kind = "in"}}
Outgoing == {Request(p) : p \in {q \in People : rows[q].kind = "out"}}
Friends  == {Friend(p)  : p \in {q \in People : rows[q].kind = "friends"}}

Truth(k) == CASE k = "friends"  -> Friends
              [] k = "requests" -> [in |-> Incoming, out |-> Outgoing]
              [] k = "pending"  -> Cardinality(Incoming)

\* The badge is on every screen.
Shown(k) == k = "pending" \/ screen = "friends"

-----------------------------------------------------------------------------
(* The taps.                                                               *)

Call(op, who, key) ==
  /\ MayTap /\ Len(calls) < MaxCalls
  /\ calls' = Append(calls, [op |-> op, who |-> who, phase |-> "sent", answer |-> "ok",
                             old |-> cached[key], here |-> TRUE])

\* Faulty variant: the buttons of a row that is being answered stay enabled.
Free_Always(who) == TRUE

Free(who) == who \notin busy

\* onMutate: the row is taken off and a fetch of its query is cancelled.
Answer(op, who, key, left) ==
  /\ screen = "friends"
  /\ Call(op, who, key)
  /\ busy' = busy \cup {who} /\ asked' = Unasked
  /\ cached' = [cached EXCEPT ![key] = left]
  /\ fetch' = [fetch EXCEPT ![key] = NoFetch]
  /\ UNCHANGED <<rows, screen, stale, sending, sent, blind, events>>

\* The buttons of a row, which is free, while no question covers the screen.
MayPress(who) == screen = "friends" /\ Free(who) /\ asked = Unasked

Accept(r) ==
  MayPress(r) /\ Answer("accept", r, "requests", [cached["requests"] EXCEPT !.in = @ \ {r}])

Decline(r) ==
  MayPress(r) /\ Answer("decline", r, "requests", [cached["requests"] EXCEPT !.in = @ \ {r}])

\* Both are asked about first, in an Alert, which nothing opens in a browser.  It covers the
\* screen, so that a second one is never opened over it.
Ask(op, who) ==
  /\ Native /\ MayPress(who) /\ taps < MaxTaps
  /\ asked' = [op |-> op, who |-> who]
  /\ UNCHANGED <<rows, screen, cached, fetch, stale, busy, sending, sent, calls, blind, taps, events>>

Dismiss ==
  /\ asked # Unasked /\ asked' = Unasked
  /\ UNCHANGED <<rows, screen, cached, fetch, stale, busy, sending, sent, calls, blind, taps, events>>

\* Confirmed, though calls have ended and lists were read since the question was opened:
\* nothing is looked at again.
Cancel ==
  /\ asked.op = "cancel"
  /\ Answer("cancel", asked.who, "requests", [cached["requests"] EXCEPT !.out = @ \ {asked.who}])

RemoveFriend ==
  /\ asked.op = "remove"
  /\ Answer("remove", asked.who, "friends", cached["friends"] \ {asked.who})

\* Only the person the last request went to is remembered as being asked.
SendRequest(p) ==
  /\ screen = "add" /\ p # sending /\ p \notin sent
  /\ Call("send", Friend(p), "requests")
  /\ sending' = p
  /\ UNCHANGED <<rows, screen, cached, fetch, stale, busy, asked, sent, blind, events>>

\* The screens replace each other; what they remembered is gone, and what is stale by
\* invalidation or by its age is read when it is shown again.
Go ==
  /\ MayTap /\ asked = Unasked
  /\ screen' = IF screen = "friends" THEN "add" ELSE "friends"
  /\ busy' = {} /\ sending' = Nobody /\ sent' = {}
  /\ calls' = [i \in DOMAIN calls |-> [calls[i] EXCEPT !.here = FALSE]]
  /\ \E old \in {{}, {"friends", "requests"}} :
       fetch' = [k \in Keys |-> IF screen' = "friends" /\ k \in stale \cup old /\ fetch[k] = NoFetch
                                THEN SentFetch ELSE fetch[k]]
  /\ UNCHANGED <<rows, cached, stale, asked, blind, events>>

-----------------------------------------------------------------------------
(* The server.                                                             *)

\* The relation a call finds, and the one it leaves.  A request is found by its id and its
\* recipient, whom a cancelling sender is not; a friend is removed by either direction's row.
Carries(op, who, kind, id) ==
  CASE op \in {"accept", "decline", "cancel"} -> kind = "in" /\ id = who.id
    [] op = "remove" -> kind # "none"
    [] op = "send"   -> kind = "none"

After(op, row) ==
  CASE op = "accept" -> [row EXCEPT !.kind = "friends"]
    [] op = "send"   -> [kind |-> "out", id |-> row.id + 1]
    [] OTHER         -> [row EXCEPT !.kind = "none"]

Handle(i) ==
  LET c == calls[i]
      row == rows[c.who.p]
      ok == Carries(c.op, c.who, row.kind, row.id)
  IN /\ c.phase = "sent"
     /\ rows' = IF ok THEN [rows EXCEPT ![c.who.p] = After(c.op, @)] ELSE rows
     /\ calls' = [calls EXCEPT ![i].phase = "answered", ![i].answer = IF ok THEN "ok" ELSE "refused"]
     \* A friend who left and asks again, or is asked: the request goes with the friendship.
     /\ blind' = IF c.op = "remove" /\ row.kind \in {"in", "out"} THEN Keys ELSE blind
     /\ UNCHANGED <<screen, cached, fetch, stale, busy, asked, sending, sent, taps, events>>

\* The connection breaks, before or after the server did its part.
Lose(i) ==
  /\ calls[i].answer # "failed" /\ MayOccur
  /\ calls' = [calls EXCEPT ![i].phase = "answered", ![i].answer = "failed"]
  /\ UNCHANGED <<rows, screen, cached, fetch, stale, busy, asked, sending, sent, blind, taps>>

\* The other person, or another device of the user.
Elsewhere(p) ==
  /\ MayOccur /\ blind' = Keys
  /\ \E kind \in CASE rows[p].kind = "none" -> {"in", "out"}
                   [] rows[p].kind \in {"in", "out"} -> {"friends", "none"}
                   [] rows[p].kind = "friends" -> {"none"} :
       rows' = [rows EXCEPT ![p] = [kind |-> kind, id |-> IF @.kind = "none" THEN @.id + 1 ELSE @.id]]
  /\ UNCHANGED <<screen, cached, fetch, stale, busy, asked, sending, sent, calls, taps>>

-----------------------------------------------------------------------------
(* The calls' ends and the three queries.                                  *)

\* Faulty variant: declining reads the requests again and leaves the badge.
Settled_NoBadge(op) ==
  CASE op = "accept" -> Keys
    [] op = "remove" -> {"friends"}
    [] OTHER -> {"requests"}

\* onSettled: the queries that are invalidated whatever came of the call.
Settled(op) ==
  CASE op = "accept"  -> Keys
    [] op = "decline" -> {"requests", "pending"}
    [] op = "remove"  -> {"friends"}
    [] OTHER -> {"requests"}

\* A query that is shown is read again at once; one that is not is marked, and a fetch of it that
\* is under way takes the mark off when it ends.
End(i) ==
  LET c == calls[i]
      keys == Settled(c.op)
      bad == c.answer # "ok" /\ c.op # "send"
      key == IF c.op = "remove" THEN "friends" ELSE "requests"
  IN /\ c.phase = "answered"
     /\ calls' = RemoveAt(calls, i)
     /\ cached' = IF bad THEN [cached EXCEPT ![key] = c.old] ELSE cached
     /\ fetch' = [k \in Keys |-> IF k \in keys /\ Shown(k) THEN SentFetch ELSE fetch[k]]
     /\ stale' = stale \cup {k \in keys : ~Shown(k)}
     /\ blind' = blind \cup {k \in keys : ~Shown(k) /\ fetch[k] # NoFetch}
     /\ busy' = IF c.here THEN busy \ {c.who} ELSE busy
     /\ sending' = IF c.here /\ c.op = "send" THEN Nobody ELSE sending
     /\ sent' = IF c.here /\ c.op = "send" /\ c.answer = "ok" THEN sent \cup {c.who.p} ELSE sent
     /\ UNCHANGED <<rows, screen, asked, taps, events>>

\* One statement reads the friends or the badge; two read the requests.
ReadRows(k) ==
  /\ fetch[k].phase = "sent"
  /\ fetch' = [fetch EXCEPT ![k] = IF k = "requests" THEN [phase |-> "incoming", value |-> Incoming]
                                   ELSE [phase |-> "answered", value |-> Truth(k)]]
  /\ blind' = blind \ {k}
  /\ UNCHANGED <<rows, screen, cached, stale, busy, asked, sending, sent, calls, taps, events>>

ReadOutgoing ==
  /\ fetch["requests"].phase = "incoming"
  /\ fetch' = [fetch EXCEPT !["requests"] =
                 [phase |-> "answered", value |-> [in |-> fetch["requests"].value, out |-> Outgoing]]]
  /\ UNCHANGED <<rows, screen, cached, stale, busy, asked, sending, sent, calls, blind, taps, events>>

Deliver(k) ==
  /\ fetch[k].phase = "answered"
  /\ cached' = [cached EXCEPT ![k] = fetch[k].value]
  /\ fetch' = [fetch EXCEPT ![k] = NoFetch] /\ stale' = stale \ {k}
  /\ UNCHANGED <<rows, screen, busy, asked, sending, sent, calls, blind, taps, events>>

FailFetch(k) ==
  /\ fetch[k] # NoFetch /\ MayOccur
  /\ fetch' = [fetch EXCEPT ![k] = NoFetch] /\ blind' = blind \cup {k}
  /\ UNCHANGED <<rows, screen, cached, stale, busy, asked, sending, sent, calls, taps>>

\* The badge's poll, a pull of the list, or the window's focus.
Refresh(k) ==
  /\ Shown(k) /\ fetch[k] = NoFetch /\ MayOccur
  /\ fetch' = [fetch EXCEPT ![k] = SentFetch]
  /\ UNCHANGED <<rows, screen, cached, stale, busy, asked, sending, sent, calls, blind, taps>>

Init ==
  /\ screen = "friends"
  /\ rows \in [People -> [kind : {"none", "in", "out", "friends"}, id : {1}]]
  /\ cached = [k \in Keys |-> Truth(k)] /\ fetch = [k \in Keys |-> NoFetch]
  /\ stale = {} /\ busy = {} /\ asked = Unasked /\ sending = Nobody /\ sent = {} /\ calls = <<>> /\ blind = {}
  /\ taps = 0 /\ events = 0

Next ==
  \/ Go \/ Dismiss \/ Cancel \/ RemoveFriend \/ ReadOutgoing
  \/ \E r \in cached["requests"].in : Accept(r) \/ Decline(r)
  \/ \E r \in cached["requests"].out : Ask("cancel", r)
  \/ \E f \in cached["friends"] : Ask("remove", f)
  \/ \E p \in People : SendRequest(p) \/ Elsewhere(p)
  \/ \E i \in DOMAIN calls : Handle(i) \/ Lose(i) \/ End(i)
  \/ \E k \in Keys : ReadRows(k) \/ Deliver(k) \/ FailFetch(k) \/ Refresh(k)

Spec == Init /\ [][Next]_vars

-----------------------------------------------------------------------------
(* Properties.                                                             *)

TypeOK ==
  /\ rows \in [People -> [kind : {"none", "in", "out", "friends"}, id : Nat \ {0}]]
  /\ screen \in {"friends", "add"} /\ stale \cup blind \subseteq Keys
  /\ sending \in People \cup {Nobody} /\ sent \subseteq People
  /\ asked.op \in {"none", "cancel", "remove"} /\ (asked.op = "none" <=> asked = Unasked)
  /\ \A k \in Keys : fetch[k].phase \in {"idle", "sent", "incoming", "answered"}

\* Once nothing is under way, what a screen shows is what the server has, whatever calls of the
\* two screens overtook each other and whichever were refused or lost, unless another person or
\* device changed it, its fetch failed, it was marked while a fetch begun on the other screen was
\* under way, or removing a former friend took the friend's new request along.
Truthful ==
  calls = <<>> =>
    \A k \in Keys : Shown(k) /\ fetch[k] = NoFetch /\ k \notin blind => cached[k] = Truth(k)

\* While the screen stays, no row is answered by two calls at once, though the row of a call that
\* is under way comes back whenever the list is read again, and though a question that was asked
\* of a free row is not checked again when it is confirmed.
OneAnswer ==
  \A i, j \in DOMAIN calls :
    i # j /\ calls[i].here /\ calls[j].here /\ calls[i].op # "send" /\ calls[j].op # "send" =>
      calls[i].who # calls[j].who

\* What the question promises ("This will withdraw your friend request"): once the server has
\* answered a cancellation the request is not there any more.
CancelWithdraws ==
  \A i \in DOMAIN calls :
    calls[i].op = "cancel" /\ calls[i].phase = "answered" /\ calls[i].answer # "failed" =>
      calls[i].who \notin Outgoing
=============================================================================
