---------------------------------- MODULE Feed ----------------------------------
(***************************************************************************)
(* The activity feed of a user, "me", with one friend, "fay": the entries  *)
(* that the events of the other modules insert, hide, restore and delete   *)
(* (backend/internal/activity), the request that reads a page of them,     *)
(* batch by batch until enough are visible, and the list that a client     *)
(* puts together from the pages (hooks/useFeed.ts, screens/FeedScreen.tsx).*)
(*                                                                         *)
(* An entry is known by its time and its actor; the two entries of a new   *)
(* friendship are of one transaction and have one time.                    *)
(***************************************************************************)
EXTENDS Integers, Sequences, FiniteSets, Lists

CONSTANTS
  Limit,          \* entries of a page, 20
  BatchSize,      \* rows of a batch, 2 * (Limit + 1)
  MaxIterations,  \* batches of one request, 5
  MaxFirst,       \* bound on the times of the entries there are at first
  MaxPages,       \* bound on the pages a client loads
  MaxEvents       \* bound on what happens afterwards

VARIABLES
  friend, vis,   \* fay is a friend; who sees her habit, "none" when her account is deleted
  rows, clock,   \* feed_entries, and the time of the latest
  emits,         \* changes that are committed and whose event is not handled yet
  job,           \* the request
  pages, fetch,  \* the cached pages, and the fetch that adds to or replaces them
  moved, fresh,  \* entries that changed since pages, or the fetch, were begun to be read
  slipped,       \* an event was lost, or handled after a later one
  events

server == <<friend, vis, rows, clock, emits, slipped>>
client == <<job, pages, fetch, moved, fresh>>
vars == <<server, client, events>>

NoCursor == MaxFirst + MaxEvents + 1
NoFetch  == [kind |-> "idle", want |-> 0, got |-> <<>>]
NoJob    == [phase |-> "idle", actors |-> {}, raw |-> <<>>, kept |-> <<>>, cursor |-> NoCursor,
             turns |-> 0, exhausted |-> FALSE, setting |-> "private", verdict |-> "unknown",
             edges |-> {}]

Row(at, by, kind) == [at |-> at, by |-> by, kind |-> kind, hidden |-> FALSE]
Id(r) == <<r.at, r.by>>
Hers  == {r \in rows : r.by = "fay"}
Habit == {r \in Hers : r.kind = "habit"}
Bond  == {r \in rows : r.kind = "bond"}

MayOccur == events < MaxEvents /\ events' = events + 1

Touch(set) ==
  /\ moved' = moved \cup {Id(r) : r \in set}
  /\ fresh' = fresh \cup {Id(r) : r \in set}

-----------------------------------------------------------------------------
(* What happens elsewhere.                                                 *)

\* insertFeedEntry for an event of one entry; its key was not there before.
Happen(by, kind) ==
  /\ MayOccur
  /\ kind = "habit" => by = "fay"
  /\ by = "fay" => vis # "none"
  /\ clock' = clock + 1 /\ rows' = rows \cup {Row(clock + 1, by, kind)}
  /\ Touch({Row(clock + 1, by, kind)})
  /\ UNCHANGED <<friend, vis, emits, slipped, job, pages, fetch>>

\* A friendship or a visibility changes and is committed; its event follows.
Befriend ==
  /\ MayOccur /\ ~friend /\ vis # "none" /\ friend' = TRUE
  /\ emits' = Append(emits, "accepted")
  /\ Touch(Hers)
  /\ UNCHANGED <<vis, rows, clock, slipped, job, pages, fetch>>

Unfriend ==
  /\ MayOccur /\ friend /\ friend' = FALSE
  /\ emits' = Append(emits, "removed")
  /\ Touch(Hers)
  /\ UNCHANGED <<vis, rows, clock, slipped, job, pages, fetch>>

Rank(v) == CASE v = "public" -> 3 [] v = "friends" -> 2 [] OTHER -> 1

\* Faulty variant: only a habit that was private comes back.
Widens_FromPrivate(old, new) == old = "private" /\ new # "private"

Widens(old, new) == Rank(new) > Rank(old)

SetVisibility(new) ==
  /\ MayOccur /\ vis \notin {new, "none"} /\ vis' = new
  /\ emits' = Append(emits, IF Widens(vis, new) THEN "widened" ELSE "narrowed")
  /\ Touch(Habit)
  /\ UNCHANGED <<friend, rows, clock, slipped, job, pages, fetch>>

Hide(set, flag) == rows' = (rows \ set) \cup {[r EXCEPT !.hidden = flag] : r \in set}

\* Faulty variant: the two entries are not of one transaction, and the second is lost.
NewBond_First(at) == {Row(at, "me", "bond")}

NewBond(at) == {Row(at, "me", "bond"), Row(at, "fay", "bond")}

\* The handlers.  A friendship that was announced before keeps its keys, be its entries hidden.
Handle(i) ==
  LET e == emits[i]
  IN /\ emits' = RemoveAt(emits, i)
     /\ slipped' = (slipped \/ i > 1)
     /\ CASE e = "accepted" /\ Bond = {} ->
               /\ clock < NoCursor - 1 /\ clock' = clock + 1
               /\ rows' = rows \cup NewBond(clock + 1)
               /\ Touch(NewBond(clock + 1))
          [] e = "accepted" /\ Bond # {} -> UNCHANGED <<rows, clock, moved, fresh>>
          [] e = "removed"  -> Hide(Bond, TRUE) /\ Touch(Bond) /\ clock' = clock
          [] e = "narrowed" -> Hide(Habit, TRUE) /\ Touch(Habit) /\ clock' = clock
          [] e = "widened"  -> Hide(Habit, FALSE) /\ Touch(Habit) /\ clock' = clock
     /\ UNCHANGED <<friend, vis, job, pages, fetch, events>>

\* The change is committed and the error of its handler is only logged.
LoseEvent(i) ==
  /\ MayOccur
  /\ emits' = RemoveAt(emits, i) /\ slipped' = TRUE
  /\ UNCHANGED <<friend, vis, rows, clock, client>>

\* fay's account is deleted with her entries and those that name her.
UserDeleted ==
  /\ MayOccur /\ vis # "none" /\ vis' = "none" /\ friend' = FALSE
  /\ rows' = rows \ (Hers \cup Bond) /\ Touch(Hers \cup Bond)
  /\ UNCHANGED <<clock, emits, slipped, job, pages, fetch>>

-----------------------------------------------------------------------------
(* Feed: the request for a page.                                           *)

One(set) == IF set = {} THEN <<>> ELSE <<CHOOSE r \in set : TRUE>>

\* listFeedBatch; the two entries of one time come in either order.
Batch(actors, before, ahead) ==
  LET found == {r \in rows : ~r.hidden /\ r.by \in actors /\ r.at < before}
      of(t) == One({r \in found : r.at = t /\ r.by = ahead})
                 \o One({r \in found : r.at = t /\ r.by # ahead})
      sorted[t \in 0 .. clock] == IF t = 0 THEN <<>> ELSE of(t) \o sorted[t - 1]
  IN IF Len(sorted[clock]) <= BatchSize THEN sorted[clock] ELSE SubSeq(sorted[clock], 1, BatchSize)

Kept(r, verdict) == r.by = "me" \/ r.kind # "habit" \/ verdict = "yes"

\* The batch is filtered; another one is read unless there are enough, or no more, or too many.
Filtered(j) ==
  LET kept == j.kept \o Filter(j.raw, {r \in ToSet(j.raw) : Kept(r, j.verdict)})
      again == j.turns + 1 < MaxIterations /\ Len(kept) <= Limit /\ ~j.exhausted
  IN [j EXCEPT !.kept = kept, !.raw = <<>>, !.turns = @ + 1,
               !.phase = IF again THEN "batch" ELSE "answer"]

ReadFriends ==
  /\ job.phase = "friends"
  /\ job' = [job EXCEPT !.phase = "batch", !.actors = IF friend THEN {"me", "fay"} ELSE {"me"}]
  /\ UNCHANGED <<server, pages, fetch, moved, fresh, events>>

\* A list of friends that cannot be read is an empty one.
FailFriends ==
  /\ job.phase = "friends" /\ MayOccur
  /\ job' = [job EXCEPT !.phase = "batch", !.actors = {"me"}]
  /\ Touch(Hers)
  /\ UNCHANGED <<server, pages, fetch>>

ReadBatch ==
  /\ job.phase = "batch"
  /\ \E ahead \in {"me", "fay"} :
       LET raw == Batch(job.actors, job.cursor, ahead)
           end == IF raw = <<>> THEN job.cursor ELSE Last(raw).at
           j == [job EXCEPT !.raw = raw, !.cursor = end, !.edges = @ \cup {end},
                            !.exhausted = Len(raw) < BatchSize]
           asks == j.verdict = "unknown" /\ \E i \in DOMAIN raw : raw[i] \in Habit
       IN job' = IF asks THEN [j EXCEPT !.phase = "setting"] ELSE Filtered(j)
  /\ UNCHANGED <<server, pages, fetch, moved, fresh, events>>

\* VisibleHabitIDsForViewer: the settings, and then whether the viewer is a friend.
ReadSetting ==
  /\ job.phase = "setting"
  /\ job' = [job EXCEPT !.phase = "verdict", !.setting = vis]
  /\ UNCHANGED <<server, pages, fetch, moved, fresh, events>>

ReadVerdict ==
  /\ job.phase = "verdict"
  /\ LET sees == job.setting = "public" \/ (job.setting = "friends" /\ friend)
     IN job' = Filtered([job EXCEPT !.verdict = IF sees THEN "yes" ELSE "no"])
  /\ UNCHANGED <<server, pages, fetch, moved, fresh, events>>

\* Habits of a friend whose settings cannot be read are left out.
FailVerdict ==
  /\ job.phase \in {"setting", "verdict"} /\ MayOccur
  /\ job' = Filtered([job EXCEPT !.verdict = "no"])
  /\ Touch(Hers)
  /\ UNCHANGED <<server, pages, fetch>>

\* Faulty variant: the next page begins after what was read and not after what is shown.
Cursor_Raw(j, items) == j.cursor

Cursor(j, items) == Last(items).at

\* The answer.  For the properties a page also says down to which time it looked, and at which
\* times a batch or a page ended.
Page(j) ==
  LET more == Len(j.kept) > Limit
      items == IF more THEN SubSeq(j.kept, 1, Limit) ELSE j.kept
      end == IF more THEN Cursor(j, items) ELSE IF j.exhausted THEN 0 ELSE j.cursor
  IN [items |-> items, more |-> more, end |-> end, edges |-> j.edges \cup {end}]

-----------------------------------------------------------------------------
(* The client's query.                                                     *)

Request(cursor) == [NoJob EXCEPT !.phase = "friends", !.cursor = cursor]

\* Pulled, focused or invalidated: every page is read again, from the first.
Refetch ==
  /\ MayOccur /\ (pages # <<>> \/ fetch = NoFetch)
  /\ fetch' = [kind |-> "all", want |-> IF pages = <<>> THEN 1 ELSE Len(pages), got |-> <<>>]
  /\ job' = Request(NoCursor) /\ fresh' = {}
  /\ UNCHANGED <<server, pages, moved>>

\* The end of the list is reached; a fetch of the whole list is dropped for the next page.
LoadMore ==
  /\ pages # <<>> /\ Len(pages) < MaxPages
  /\ Last(pages).more /\ fetch.kind # "more"
  /\ fetch' = [kind |-> "more", want |-> Len(pages) + 1, got |-> pages]
  /\ job' = Request(Last(pages).end) /\ fresh' = {}
  /\ UNCHANGED <<server, pages, moved, events>>

\* A page arrives; a fetch of all goes on from its cursor, or has all there are.
Receive ==
  LET got == Append(fetch.got, Page(job))
      on == Len(got) < fetch.want /\ Last(got).more
  IN /\ job.phase = "answer"
     /\ IF on THEN /\ fetch' = [fetch EXCEPT !.got = got] /\ job' = Request(Last(got).end)
                   /\ UNCHANGED <<pages, moved, fresh>>
        ELSE /\ pages' = got /\ fetch' = NoFetch /\ job' = NoJob
             /\ moved' = IF fetch.kind = "all" THEN fresh ELSE moved
             /\ fresh' = {}
     /\ UNCHANGED <<server, events>>

FailFetch ==
  /\ fetch # NoFetch /\ MayOccur
  /\ fetch' = NoFetch /\ job' = NoJob /\ fresh' = {}
  /\ UNCHANGED <<server, pages, moved>>

Init ==
  /\ friend = TRUE /\ vis \in {"private", "friends", "public"}
  /\ clock \in 0 .. MaxFirst
  /\ \E what \in [1 .. clock -> {"mine", "hers", "habit", "bond"}] :
       /\ Cardinality({t \in 1 .. clock : what[t] = "bond"}) <= 1
       /\ rows = UNION {CASE what[t] = "bond" -> {Row(t, "me", "bond"), Row(t, "fay", "bond")}
                          [] what[t] = "mine" -> {Row(t, "me", "other")}
                          [] what[t] = "hers" -> {Row(t, "fay", "other")}
                          [] what[t] = "habit" -> {Row(t, "fay", "habit")} : t \in 1 .. clock}
  /\ emits = <<>> /\ slipped = FALSE /\ pages = <<>> /\ moved = {} /\ fresh = {} /\ events = 0
  /\ fetch = [NoFetch EXCEPT !.kind = "all", !.want = 1] /\ job = Request(NoCursor)

Next ==
  \/ \E by \in {"me", "fay"}, kind \in {"habit", "other"} : Happen(by, kind)
  \/ Befriend \/ Unfriend \/ UserDeleted
  \/ \E new \in {"private", "friends", "public"} : SetVisibility(new)
  \/ \E i \in DOMAIN emits : Handle(i) \/ LoseEvent(i)
  \/ ReadFriends \/ FailFriends \/ ReadBatch \/ ReadSetting \/ ReadVerdict \/ FailVerdict
  \/ Refetch \/ LoadMore \/ Receive \/ FailFetch

Spec == Init /\ [][Next]_vars

-----------------------------------------------------------------------------
(* Properties.                                                             *)

TypeOK ==
  /\ friend \in BOOLEAN /\ vis \in {"private", "friends", "public", "none"} /\ slipped \in BOOLEAN
  /\ rows \subseteq [at : 1 .. clock, by : {"me", "fay"}, kind : {"habit", "bond", "other"},
                     hidden : BOOLEAN]
  /\ clock < NoCursor /\ Len(pages) <= MaxPages
  /\ fetch.kind \in {"idle", "all", "more"} /\ (fetch = NoFetch <=> job = NoJob)
  /\ job.turns \in 0 .. MaxIterations /\ Len(job.raw) <= BatchSize

\* Where an entry is in the list: its page, and its place in it.
Places == UNION {{<<p, i>> : i \in DOMAIN pages[p].items} : p \in DOMAIN pages}
At(place) == pages[place[1]].items[place[2]]
Above(x, y) == x[1] < y[1] \/ (x[1] = y[1] /\ x[2] < y[2])
End   == Last(pages).end
Edges == UNION {pages[p].edges : p \in DOMAIN pages}

Visible(r) ==
  ~r.hidden /\ (r.by = "me" \/ (friend /\ (r.kind = "habit" => vis \in {"friends", "public"})))

\* The list is in order and says nothing twice, and of the entries that did not change since it
\* was begun it has those the user may see, down to its end, and no other, whatever was hidden
\* in between.  Except that an entry with the time at which a page or a batch ended may be
\* skipped, and that a list ends where five batches were hidden.
NoGaps ==
  LET places == Places
      ids    == {Id(At(x)) : x \in places}
      edges  == Edges
  IN pages # <<>> =>
       /\ \A x, y \in places : Above(x, y) => At(x).at >= At(y).at /\ Id(At(x)) # Id(At(y))
       /\ \A r \in rows : Id(r) \notin moved =>
            /\ Visible(r) /\ r.at > End /\ r.at \notin edges => Id(r) \in ids
            /\ Id(r) \in ids => Visible(r)

\* A public habit's entries are all there once the events are handled, unless one was lost or
\* overtaken (service.go:418); the two entries of a friendship come and go together (:297).
RowsFollow ==
  /\ vis = "public" /\ emits = <<>> /\ ~slipped => \A r \in Habit : ~r.hidden
  /\ \A r \in Bond :
       \E s \in Bond : Bond = {r, s} /\ r.by # s.by /\ r.at = s.at /\ r.hidden = s.hidden
=============================================================================
