--------------------------------- MODULE Inbox ---------------------------------
(***************************************************************************)
(* The notification list and the badge that counts what is unread          *)
(* (components/notifications/NotificationScreen.tsx,                       *)
(* hooks/useNotifications.ts, hooks/useUnreadCount.ts), two cached queries *)
(* that the same taps change before the server has answered, against the   *)
(* rows of backend/internal/notifications.  The list is read page by page, *)
(* newest first; the badge is polled.                                      *)
(***************************************************************************)
EXTENDS Integers, Sequences, FiniteSets, Lists

CONSTANTS
  First, Most, \* notifications at first, and in the end
  PageSize,
  MaxCalls,    \* bound on the calls in flight
  MaxTaps,     \* bound on the calls ever made
  MaxEvents    \* bound on failures, polls and what happens elsewhere

VARIABLES
  total, read,   \* the server: notifications 1 .. total, newest last; those that were read
  pages, count,  \* the cached pages, [items, total], and the cached badge
  list,    \* the list's fetch: [kind, want, got]; kind is "idle", "all" or "more"
  badge,   \* the badge's fetch: [phase, count]
  calls,   \* [op, id, phase, answer, old, alone], in the order they were sent
  blind,   \* the queries that were given no reason to read again: see Truthful
  taps, events

vars == <<total, read, pages, count, list, badge, calls, blind, taps, events>>

Ids == 1 .. Most
All == 0                  \* the "id" of a call that marks everything
NoList  == [kind |-> "idle", want |-> 0, got |-> <<>>]
NoBadge == [phase |-> "idle", count |-> 0]
SentBadge == [NoBadge EXCEPT !.phase = "sent"]

MayOccur == events < MaxEvents /\ events' = events + 1

\* ORDER BY created_at DESC with a limit and an offset, as the rows are now.
Page(p) ==
  [items |-> {[id |-> n, read |-> n \in read] :
                n \in {m \in 1 .. total : m + PageSize * p > total /\ m + PageSize * (p - 1) <= total}},
   total |-> total]

Unread == Cardinality((1 .. total) \ read)

\* A read of the list that had begun to answer is dropped.
Dropped == IF list.got # <<>> THEN blind \cup {"list"} ELSE blind

\* What was in flight when something else changed the lists can no longer be put back blindly.
Crossed == [i \in DOMAIN calls |-> [calls[i] EXCEPT !.alone = FALSE]]

-----------------------------------------------------------------------------
(* The taps.                                                               *)

\* setQueryData: what was tapped is shown as read in every page.
MarkedIn(id) ==
  [p \in DOMAIN pages |->
     [pages[p] EXCEPT !.items =
        {IF id \in {x.id, All} THEN [x EXCEPT !.read = TRUE] ELSE x : x \in @}]]

ListedUnread == {x.id : x \in {y \in UNION {pages[p].items : p \in DOMAIN pages} : ~y.read}}

Call(id) ==
  /\ taps < MaxTaps /\ taps' = taps + 1 /\ Len(calls) < MaxCalls
  /\ calls' = Append(Crossed, [id |-> id, phase |-> "sent", answer |-> "ok", old |-> pages,
                               alone |-> calls = <<>> /\ list = NoList /\ badge = NoBadge
                                        /\ count > 0])
  /\ list' = NoList /\ blind' = Dropped
  /\ pages' = MarkedIn(id)

\* Faulty variant: the badge may go below zero.
Lowered_NoFloor(n) == n - 1

\* decrementBy: the badge may say less than what the list shows.
Lowered(n) == IF n > 0 THEN n - 1 ELSE 0

\* A row that is shown as unread; the badge goes down at once.
Press(id) ==
  /\ id \in ListedUnread
  /\ Call(id)
  /\ count' = Lowered(count)
  /\ UNCHANGED <<total, read, badge, events>>

MarkAll ==
  /\ ListedUnread # {}
  /\ Call(All)
  /\ count' = 0
  /\ UNCHANGED <<total, read, badge, events>>

\* The end of the list was reached: the next page, unless it is being read already.  A fetch of
\* the whole list that is under way is dropped for it, and does not come back.
LoadMore ==
  /\ PageSize * Len(pages) < Last(pages).total /\ list.kind # "more"
  /\ list' = [kind |-> "more", want |-> Len(pages) + 1, got |-> pages]
  /\ blind' = IF list.kind = "all" THEN blind \cup {"list"} ELSE blind
  /\ calls' = Crossed
  /\ UNCHANGED <<total, read, pages, count, badge, taps, events>>

-----------------------------------------------------------------------------
(* The calls' answers.                                                     *)

Handle(i) ==
  /\ calls[i].phase = "sent"
  /\ calls' = [calls EXCEPT ![i].phase = "answered"]
  /\ read' = IF calls[i].id = All THEN 1 .. total ELSE read \cup {calls[i].id}
  /\ UNCHANGED <<total, pages, count, list, badge, blind, taps, events>>

\* The connection breaks, before or after the server did its part.
Lose(i) ==
  /\ calls[i].answer = "ok" /\ MayOccur
  /\ calls' = [calls EXCEPT ![i].answer = "failed", ![i].phase = "answered",
                            ![i].alone = @ /\ calls[i].phase = "sent"]
  /\ UNCHANGED <<total, read, pages, count, list, badge, blind, taps>>

\* Faulty variant: the list is read again and the badge is trusted.
Invalidated_List == [list |-> TRUE, badge |-> FALSE]

\* onSuccess: both are read again.
Invalidated == [list |-> TRUE, badge |-> TRUE]

Refetch == [kind |-> "all", want |-> Len(pages), got |-> <<>>]

EndWell(i) ==
  /\ calls[i].phase = "answered" /\ calls[i].answer = "ok"
  /\ calls' = RemoveAt(Crossed, i)
  /\ list' = IF Invalidated.list THEN Refetch ELSE list
  /\ badge' = IF Invalidated.badge THEN SentBadge ELSE badge
  /\ blind' = Dropped
  /\ UNCHANGED <<total, read, pages, count, taps, events>>

\* Faulty variant: the badge is not raised again.
RaisedBy_None == 0

\* handlePress: what the badge was lowered by.
RaisedBy == 1

\* onError puts the pages back as they were when the call was sent, and nothing is read again,
\* but for the badge when everything was to be marked.
EndBadly(i) ==
  LET c == calls[i]
  IN /\ c.phase = "answered" /\ c.answer = "failed"
     /\ calls' = RemoveAt(Crossed, i)
     /\ pages' = c.old
     /\ count' = IF c.id = All THEN count ELSE count + RaisedBy
     /\ badge' = IF c.id = All THEN SentBadge ELSE badge
     /\ blind' = IF c.alone THEN blind ELSE blind \cup {"list", "badge"}
     /\ UNCHANGED <<total, read, list, taps, events>>

-----------------------------------------------------------------------------
(* The two queries.                                                        *)

ReadPage ==
  /\ list.kind # "idle" /\ Len(list.got) < list.want
  /\ list' = [list EXCEPT !.got = Append(@, Page(Len(@) + 1))]
  /\ blind' = IF list.got = <<>> THEN blind \ {"list"} ELSE blind
  /\ UNCHANGED <<total, read, pages, count, badge, calls, taps, events>>

DeliverPages ==
  /\ list.kind # "idle" /\ Len(list.got) = list.want
  /\ pages' = list.got /\ list' = NoList
  /\ calls' = Crossed
  /\ UNCHANGED <<total, read, count, badge, blind, taps, events>>

Count ==
  /\ badge.phase = "sent"
  /\ badge' = [phase |-> "answered", count |-> Unread]
  /\ blind' = blind \ {"badge"}
  /\ UNCHANGED <<total, read, pages, count, list, calls, taps, events>>

DeliverCount ==
  /\ badge.phase = "answered"
  /\ count' = badge.count /\ badge' = NoBadge
  /\ calls' = Crossed
  /\ UNCHANGED <<total, read, pages, list, blind, taps, events>>

FailFetch ==
  /\ MayOccur
  /\ \/ list.kind # "idle" /\ list' = NoList /\ badge' = badge /\ blind' = blind \cup {"list"}
     \/ badge.phase # "idle" /\ badge' = NoBadge /\ list' = list /\ blind' = blind \cup {"badge"}
  /\ UNCHANGED <<total, read, pages, count, calls, taps>>

\* Every half minute, on focus, or when the list is pulled.
Poll ==
  /\ MayOccur
  /\ \/ badge.phase = "idle" /\ badge' = SentBadge /\ list' = list /\ blind' = blind
     \/ list' = Refetch /\ badge' = badge /\ blind' = Dropped
  /\ UNCHANGED <<total, read, pages, count, calls, taps>>

\* A notification arrives, or is read on another device.
Elsewhere ==
  /\ MayOccur /\ blind' = {"list", "badge"}
  /\ \/ total < Most /\ total' = total + 1 /\ read' = read
     \/ \E n \in (1 .. total) \ read : read' = read \cup {n} /\ total' = total
  /\ calls' = Crossed
  /\ UNCHANGED <<pages, count, list, badge, taps>>

Init ==
  /\ total = First /\ read \in SUBSET (1 .. First)
  /\ pages = <<Page(1)>> /\ count = Unread
  /\ list = NoList /\ badge = NoBadge /\ calls = <<>> /\ blind = {} /\ taps = 0 /\ events = 0

Next ==
  \/ MarkAll \/ LoadMore \/ ReadPage \/ DeliverPages \/ Count \/ DeliverCount \/ FailFetch
  \/ Poll \/ Elsewhere
  \/ \E id \in Ids : Press(id)
  \/ \E i \in DOMAIN calls : Handle(i) \/ Lose(i) \/ EndWell(i) \/ EndBadly(i)

Spec == Init /\ [][Next]_vars

-----------------------------------------------------------------------------
(* Properties.                                                             *)

TypeOK ==
  /\ total \in First .. Most /\ read \subseteq 1 .. total /\ count \in Nat
  /\ \A p \in DOMAIN pages : pages[p].items \subseteq [id : Ids, read : BOOLEAN]
  /\ list.kind \in {"idle", "all", "more"} /\ badge.phase \in {"idle", "sent", "answered"}
  /\ blind \subseteq {"list", "badge"}

\* Once nothing is under way, each query shows what the server has, except what happened
\* elsewhere since it was read, a list whose fetch was dropped for its next page, and a call
\* that failed although the server carried it out or while other calls or fetches were under way: the pages
\* are then put back over what the others showed, and the badge raised over what a poll said,
\* until the next poll or pull.
Truthful ==
  calls = <<>> =>
    /\ list = NoList /\ "list" \notin blind => \A p \in DOMAIN pages : pages[p].items = Page(p).items
    /\ badge = NoBadge /\ "badge" \notin blind => count = Unread
=============================================================================
