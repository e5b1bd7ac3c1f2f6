----------------------------- MODULE BackendProofs -----------------------------
(***************************************************************************)
(* Theorems about the challenge invites (module Invites), the witness      *)
(* links (Links), the reminder scheduler (Reminders), the rate limiters    *)
(* (Limiter), the activity feed (Feed), the notifications (Inbox), the     *)
(* promise section of a habit (PromiseCard) and its score (Consistency),   *)
(* each for every value of its constants.  Each runs alone here and the    *)
(* theorems are about one at a time, so a variable that two of them        *)
(* declare under one name is one variable of this module.                  *)
(***************************************************************************)
EXTENDS Integers, Sequences, FiniteSetTheorems, FunctionTheorems, SequenceTheorems,
        WellFoundedInduction, TLAPS

CONSTANTS
  Users, Ids, Claims, Cap, TTL, Period, MaxDay, MaxCalls,           \* of Invites
  LinkIds, LinkHabits, MaxLinkCalls, MaxLinkTaps, MaxLinkEvents,    \* of Links
  Day, Window, Gap, Times, LastDay, MaxEvents,                      \* of Reminders
  Limit, Addresses, Requests, LimitWindow, ScavengeInterval,
  MaxClock, MaxCome,                                                \* of Limiter
  FeedLimit, BatchSize, MaxIterations, MaxFirst, MaxPages,
  MaxFeedEvents,                                                    \* of Feed
  FirstNotes, MostNotes, PageSize, MaxInboxCalls, MaxInboxTaps,
  MaxInboxEvents,                                                   \* of Inbox
  MaxFlows, MaxCardTaps, MaxCardEvents,                             \* of PromiseCard
  WindowDays, Week, CustomDays, LastScoreDay                        \* of Consistency

VARIABLES
  now, invites, friends, habits, challenges, told, gone, pc, job, writes, crossed, calls,
  native, rows, list, fetch, dialog, view, blind, taps, events,
  local, passed, settings, complete, row, push, pushes, unmarked, excused, sprung,
  clock, buckets, lastScavenge, req, came, refused, newest, late,
  friend, vis, emits, pages, moved, fresh, slipped,
  total, read, count, badge,
  promise, past, due, data, loading, error, showForm, cancelError, flows, begun, latest,
  freq, customDays, created, completions, today

V == INSTANCE Invites WITH Requests <- Claims

L == INSTANCE Links WITH
       Ids <- LinkIds, Habits <- LinkHabits, MaxCalls <- MaxLinkCalls, MaxTaps <- MaxLinkTaps,
       MaxEvents <- MaxLinkEvents

R == INSTANCE Reminders WITH job <- push

B == INSTANCE Limiter WITH Window <- LimitWindow

A == INSTANCE Feed WITH Limit <- FeedLimit, MaxEvents <- MaxFeedEvents

I == INSTANCE Inbox WITH
       First <- FirstNotes, Most <- MostNotes, MaxCalls <- MaxInboxCalls, MaxTaps <- MaxInboxTaps,
       MaxEvents <- MaxInboxEvents

K == INSTANCE PromiseCard WITH MaxTaps <- MaxCardTaps, MaxEvents <- MaxCardEvents

Score == INSTANCE Consistency WITH LastDay <- LastScoreDay

-----------------------------------------------------------------------------
(* Invites.  The invariant: the form of the variables, what each request   *)
(* has written and may rely on, and that an invite is claimed by one       *)
(* request at most.                                                        *)

Phases == {"idle", "insert", "revoke", "notify"} \cup V!Claiming \cup V!Deleting

Shape ==
  /\ pc \in [Claims -> Phases]
  /\ job = [r \in Claims |-> job[r]]
  /\ writes = [r \in Claims |-> [friends    |-> writes[r].friends,
                                 habits     |-> writes[r].habits,
                                 challenges |-> writes[r].challenges]]
  /\ invites = [i \in Ids |-> [status  |-> invites[i].status,
                               creator |-> invites[i].creator,
                               expires |-> invites[i].expires,
                               by      |-> invites[i].by,
                               at      |-> invites[i].at]]

\* The invite is held as the claim found it; the rows it needs are written one by one.
ClaimOK(r) ==
  LET i == job[r].invite
      u == job[r].who
      v == invites[i]
  IN pc[r] \in V!Claiming =>
       /\ i \in Ids /\ v.status = "pending" /\ v.creator # u /\ job[r].at < v.expires
       /\ writes[r].friends = IF pc[r] = "befriend" THEN {} ELSE {V!Pair(v.creator, u)}
       /\ pc[r] \in {"befriend", "habit"} => writes[r].habits = {} /\ writes[r].challenges = {}
       /\ pc[r] \notin {"befriend", "habit"} =>
            \E h : /\ h.invite = i /\ h.owner = u /\ writes[r].habits = {h}
                   /\ writes[r].challenges = IF pc[r] = "challenge" THEN {}
                                             ELSE {V!ChallengeOf(i, u, h, job[r].at)}

\* A deletion takes only rows of its account.
DeleteOK(r) ==
  LET u == job[r].who
  IN pc[r] \in V!Deleting =>
       /\ \A p \in writes[r].friends : u \in p
       /\ \A h \in writes[r].habits : h.owner = u
       /\ \A c \in writes[r].challenges : u \in {c.from, c.to}

RestOK(r) ==
  /\ pc[r] \notin V!Claiming \cup V!Deleting => writes[r] = V!Nothing
  /\ pc[r] = "revoke" => job[r].invite \in Ids
  /\ pc[r] = "notify" =>
       job[r].invite \in Ids /\ invites[job[r].invite].status \in {"claimed", "deleted"}

RequestOK(r) == ClaimOK(r) /\ DeleteOK(r) /\ RestOK(r)

OneClaim ==
  \A r, q \in Claims :
    pc[r] \in V!Claiming /\ pc[q] \in V!Claiming /\ r # q => job[r].invite # job[q].invite

Inv == Shape /\ OneClaim /\ (\A r \in Claims : RequestOK(r)) /\ V!ClaimIsWhole

\* What ClaimIsWhole says of one invite, in its two halves.
MadeNothing(i) == i \notin told /\ V!HabitsMade(i) = {} /\ V!ChallengesMade(i) = {}

MadeAll(i) ==
  LET v == invites[i]
  IN /\ v.by # v.creator /\ v.at < v.expires /\ V!Pair(v.creator, v.by) \in friends
     /\ \E h \in V!HabitsMade(i) :
          /\ h.owner = v.by /\ V!HabitsMade(i) = {h}
          /\ V!ChallengesMade(i) = {V!ChallengeOf(i, v.by, h, v.at)}

WholeAt(i) ==
  /\ invites[i].status \in {"unborn", "pending", "revoked"} => MadeNothing(i)
  /\ invites[i].status = "claimed" /\ {invites[i].creator, invites[i].by} \cap gone = {} =>
       MadeAll(i)

LEMMA EachIsWhole == V!ClaimIsWhole <=> \A i \in Ids : WholeAt(i)
BY DEF V!ClaimIsWhole, WholeAt, MadeNothing, MadeAll

LEMMA InitInv == V!Init => Inv
BY DEF V!Init, Inv, Shape, OneClaim, RequestOK, ClaimOK, DeleteOK, RestOK, V!ClaimIsWhole,
       V!HabitsMade, V!ChallengesMade, Phases, V!Claiming, V!Deleting, V!NoRow, V!Nothing

-----------------------------------------------------------------------------
(* A step of one request leaves the others as they are.                    *)

\* What a step of r may do to an invite that q relies on.
Spared(q) ==
  /\ pc[q] \in V!Claiming => invites'[job[q].invite] = invites[job[q].invite]
  /\ pc[q] = "notify" => invites'[job[q].invite].status \in {"claimed", "deleted"}

Same(q) == pc'[q] = pc[q] /\ job'[q] = job[q] /\ writes'[q] = writes[q]

LEMMA OthersOK ==
  ASSUME NEW q \in Claims, RequestOK(q), Same(q), Spared(q)
  PROVE  RequestOK(q)'
<1>1. ClaimOK(q)'
  <2> SUFFICES ASSUME pc[q] \in V!Claiming PROVE ClaimOK(q)'
    BY DEF ClaimOK, Same, V!Claiming
  <2>1. /\ pc'[q] = pc[q] /\ job'[q] = job[q] /\ writes'[q] = writes[q]
        /\ invites'[job'[q].invite] = invites[job[q].invite]
    BY DEF Same, Spared
  <2>2. ClaimOK(q)
    BY DEF RequestOK
  <2> QED
    BY <2>1, <2>2 DEF ClaimOK, V!ChallengeOf, V!Creator
<1>2. DeleteOK(q)'
  BY DEF RequestOK, DeleteOK, Same
<1>3. RestOK(q)'
  BY DEF RequestOK, RestOK, Same, Spared
<1> QED
  BY <1>1, <1>2, <1>3 DEF RequestOK

\* A request that ends, and one that begins without a claim, hold nothing.
LEMMA EndOK ==
  ASSUME Shape, NEW r \in Claims, V!End(r)
  PROVE  /\ RequestOK(r)' /\ pc'[r] = "idle"
         /\ pc' \in [Claims -> Phases] /\ job' = [q \in Claims |-> job'[q]]
         /\ writes' = [q \in Claims |-> [friends    |-> writes'[q].friends,
                                           habits     |-> writes'[q].habits,
                                           challenges |-> writes'[q].challenges]]
         /\ \A q \in Claims \ {r} : Same(q)
<1>1. /\ pc' = [pc EXCEPT ![r] = "idle"] /\ job' = [job EXCEPT ![r] = V!NoJob]
      /\ writes' = [writes EXCEPT ![r] = V!Nothing]
  BY DEF V!End, V!Go
<1>2. pc'[r] = "idle" /\ writes'[r] = V!Nothing
  BY <1>1 DEF Shape
<1>3. "idle" \in Phases /\ "idle" \notin V!Claiming \cup V!Deleting
  BY DEF Phases, V!Claiming, V!Deleting
<1>4. pc' \in [Claims -> Phases] /\ job' = [q \in Claims |-> job'[q]]
  BY <1>1, <1>3 DEF Shape
<1>5. writes' = [q \in Claims |-> [friends    |-> writes'[q].friends,
                                     habits     |-> writes'[q].habits,
                                     challenges |-> writes'[q].challenges]]
  BY <1>1 DEF Shape, V!Nothing
<1>6. \A q \in Claims \ {r} : Same(q)
  BY <1>1 DEF Shape, Same
<1>7. RequestOK(r)'
  BY <1>2, <1>3 DEF RequestOK, ClaimOK, DeleteOK, RestOK
<1> QED
  BY <1>2, <1>4, <1>5, <1>6, <1>7

\* The invariant holds after a step of r that keeps the form, spares the others, leaves r in
\* order, and locks no invite that another claim holds.
LEMMA StepInv ==
  ASSUME Inv, NEW r \in Claims, Shape', RequestOK(r)', V!ClaimIsWhole',
         \A q \in Claims \ {r} : Same(q) /\ Spared(q),
         pc'[r] \in V!Claiming => job'[r].invite \notin V!LockedInvites(r)
  PROVE  Inv'
<1>1. \A q \in Claims : RequestOK(q)'
  BY OthersOK DEF Inv
<1>2. OneClaim'
  BY DEF Inv, OneClaim, Same, V!LockedInvites
<1> QED
  BY <1>1, <1>2 DEF Inv

\* The tables as they were keep their promise.
LEMMA TablesKept ==
  ASSUME V!ClaimIsWhole, UNCHANGED V!tables
  PROVE  V!ClaimIsWhole'
BY DEF V!ClaimIsWhole, V!tables, V!HabitsMade, V!ChallengesMade, V!ChallengeOf, V!Creator

\* A claim at work holds its lock alone.
LEMMA LockIsKept ==
  ASSUME Inv, NEW r \in Claims, pc[r] \in V!Claiming
  PROVE  job[r].invite \notin V!LockedInvites(r)
BY DEF Inv, OneClaim, V!LockedInvites

\* A handler that ends without a change of the tables.
LEMMA EndInv ==
  ASSUME Inv, NEW r \in Claims, V!End(r), UNCHANGED V!tables
  PROVE  Inv'
<1>1. Shape /\ V!ClaimIsWhole /\ \A q \in Claims : RequestOK(q)
  BY DEF Inv
<1>2. Shape'
  BY <1>1, EndOK DEF Shape, V!tables
<1>3. \A q \in Claims \ {r} : Same(q) /\ Spared(q)
  BY <1>1, EndOK DEF V!tables, Spared, RequestOK, RestOK
<1> QED
  BY <1>1, <1>2, <1>3, EndOK, TablesKept, StepInv DEF V!Claiming

\* The beginning of a handler.
LEMMA BeginInv ==
  ASSUME Inv, NEW r \in Claims, NEW where \in {"insert", "revoke", "befriend", "dropHabits"},
         NEW u, NEW i, V!Begin(r, where, u, i),
         where = "revoke" => i \in Ids,
         where = "befriend" => i \in Ids /\ i \notin V!LockedInvites(r) /\ V!Claimable(invites[i], u)
  PROVE  Inv'
<1> DEFINE j == [who |-> u, invite |-> i, at |-> now]
<1>1. /\ pc[r] = "idle" /\ pc' = [pc EXCEPT ![r] = where] /\ job' = [job EXCEPT ![r] = j]
      /\ UNCHANGED <<V!tables, writes>>
  BY DEF V!Begin, V!Go
<1>2. Shape /\ V!ClaimIsWhole /\ \A q \in Claims : RequestOK(q)
  BY DEF Inv
<1>3. where \in Phases
  BY DEF Phases, V!Claiming, V!Deleting
<1>4. Shape'
  BY <1>1, <1>2, <1>3 DEF Shape, V!tables
<1>5. \A q \in Claims \ {r} : Same(q) /\ Spared(q)
  BY <1>1, <1>2 DEF Shape, Same, V!tables, Spared, RequestOK, RestOK
<1>6. pc'[r] = where /\ job'[r] = j /\ writes'[r] = V!Nothing /\ invites' = invites
  BY <1>1, <1>2 DEF Shape, V!tables, RequestOK, RestOK, V!Claiming, V!Deleting
<1>7. ClaimOK(r)'
  BY <1>6 DEF ClaimOK, V!Claiming, V!Claimable, V!Nothing
<1>8. RequestOK(r)'
  BY <1>6, <1>7 DEF RequestOK, DeleteOK, RestOK, V!Nothing, V!Claiming, V!Deleting
<1>9. pc'[r] \in V!Claiming => job'[r].invite \notin V!LockedInvites(r)
  BY <1>6 DEF V!Claiming
<1> QED
  BY <1>1, <1>2, <1>4, <1>5, <1>8, <1>9, TablesKept, StepInv

\* A statement of an open transaction: it changes where r is and what r has written.
LEMMA WriteInv ==
  ASSUME Inv, NEW r \in Claims, NEW where \in Phases,
         V!Go(r, where), UNCHANGED <<V!tables, job>>,
         \/ UNCHANGED writes
         \/ \E written : \E field \in {"friends", "habits", "challenges"} : V!Write(r, field, written),
         RequestOK(r)', where \in V!Claiming => pc[r] \in V!Claiming
  PROVE  Inv'
<1>1. Shape /\ V!ClaimIsWhole /\ \A q \in Claims : RequestOK(q)
  BY DEF Inv
<1>2. writes' = [q \in Claims |-> [friends    |-> writes'[q].friends,
                                     habits     |-> writes'[q].habits,
                                     challenges |-> writes'[q].challenges]]
  BY <1>1 DEF Shape, V!Write
<1>3. \A q \in Claims \ {r} : writes'[q] = writes[q]
  BY <1>1 DEF Shape, V!Write
<1>4. Shape'
  BY <1>1, <1>2 DEF Shape, V!Go, V!tables
<1>5. \A q \in Claims \ {r} : Same(q) /\ Spared(q)
  BY <1>1, <1>3 DEF V!Go, Shape, Same, V!tables, Spared, RequestOK, RestOK
<1>6. pc'[r] \in V!Claiming => job'[r].invite \notin V!LockedInvites(r)
  BY <1>1, LockIsKept DEF V!Go, Shape
<1> QED
  BY <1>1, <1>4, <1>5, <1>6, TablesKept, StepInv

-----------------------------------------------------------------------------
(* Creation and revocation.                                                *)

\* An invite that no claim holds and that made nothing may change, as long as it is not claimed.
LEMMA InviteInv ==
  ASSUME Inv, NEW r \in Claims, NEW i \in Ids, NEW slot, V!End(r),
         slot = [status  |-> slot.status, creator |-> slot.creator, expires |-> slot.expires,
                by      |-> slot.by,     at      |-> slot.at],
         invites' = [invites EXCEPT ![i] = slot],
         UNCHANGED <<friends, habits, challenges, told, gone>>,
         slot # invites[i] => /\ i \notin V!LockedInvites(r) /\ slot.status \in {"pending", "revoked"}
                             /\ invites[i].status \in {"unborn", "pending"}
  PROVE  Inv'
<1>1. Shape /\ V!ClaimIsWhole /\ \A q \in Claims : RequestOK(q)
  BY DEF Inv
<1>2. \A k \in Ids : invites'[k] = IF k = i THEN slot ELSE invites[k]
  BY <1>1 DEF Shape
<1>3. Shape'
  <2>1. invites' = [k \in Ids |-> IF k = i THEN slot ELSE invites[k]]
    BY <1>1 DEF Shape
  <2>2. invites' = [k \in Ids |-> [status  |-> invites'[k].status,
                                   creator |-> invites'[k].creator,
                                   expires |-> invites'[k].expires,
                                   by      |-> invites'[k].by,
                                   at      |-> invites'[k].at]]
    BY <1>1, <2>1 DEF Shape
  <2> QED
    BY <1>1, <2>2, EndOK DEF Shape
<1>4. ASSUME NEW q \in Claims \ {r} PROVE Same(q) /\ Spared(q)
  <2>1. pc[q] \in V!Claiming => job[q].invite \in Ids /\ (slot # invites[i] => job[q].invite # i)
    BY <1>1 DEF RequestOK, ClaimOK, V!LockedInvites
  <2>2. pc[q] = "notify" =>
          job[q].invite \in Ids /\ invites[job[q].invite].status \in {"claimed", "deleted"}
    BY <1>1 DEF RequestOK, RestOK
  <2> QED
    BY <1>1, <1>2, <2>1, <2>2, EndOK DEF Spared
<1>5. V!ClaimIsWhole'
  BY <1>1, <1>2 DEF V!ClaimIsWhole, V!HabitsMade, V!ChallengesMade, V!ChallengeOf, V!Creator
<1> QED
  BY <1>1, <1>3, <1>4, <1>5, EndOK, StepInv DEF V!Claiming

LEMMA InsertInv ==
  ASSUME Inv, NEW r \in Claims, NEW i \in Ids, V!InsertInvite(r, i)
  PROVE  Inv'
<1>1. PICK t \in job[r].at .. now :
        invites' = [invites EXCEPT ![i] =
                      [status |-> "pending", creator |-> job[r].who, expires |-> t + TTL,
                       by |-> V!NoUser, at |-> 0]]
  BY DEF V!InsertInvite
<1> DEFINE e == t + TTL
           slot == [status |-> "pending", creator |-> job[r].who, expires |-> e,
                   by |-> V!NoUser, at |-> 0]
<1> HIDE DEF e
<1>2. /\ slot.status = "pending"
      /\ slot = [status  |-> slot.status, creator |-> slot.creator, expires |-> slot.expires,
                by      |-> slot.by,     at      |-> slot.at]
  OBVIOUS
<1>3. i \notin V!LockedInvites(r)
  BY DEF Inv, V!InsertInvite, RequestOK, ClaimOK, V!LockedInvites
<1> HIDE DEF slot
<1> QED
  BY <1>1, <1>2, <1>3, InviteInv DEF V!InsertInvite, slot, e

LEMMA RevokeInv ==
  ASSUME Inv, NEW r \in Claims, V!UpdateRevoked(r)
  PROVE  Inv'
<1> DEFINE i == job[r].invite
           slot == IF invites[i].status = "deleted" THEN invites[i] ELSE V!Revoked(invites[i])
<1>1. i \in Ids /\ i \notin V!LockedInvites(r) /\ invites' = [invites EXCEPT ![i] = slot]
  BY DEF Inv, V!UpdateRevoked, RequestOK, RestOK, Shape
<1>2. /\ slot = [status  |-> slot.status, creator |-> slot.creator, expires |-> slot.expires,
                by      |-> slot.by,     at      |-> slot.at]
      /\ slot # invites[i] => invites[i].status = "pending" /\ slot.status = "revoked"
  BY <1>1 DEF Inv, Shape, V!Revoked
<1> HIDE DEF i, slot
<1> QED
  BY <1>1, <1>2, InviteInv DEF V!UpdateRevoked

-----------------------------------------------------------------------------
(* The claim.                                                              *)

LEMMA BefriendInv ==
  ASSUME Inv, NEW r \in Claims, V!Befriend(r)
  PROVE  Inv'
<1> DEFINE pair == V!Pair(V!Creator(job[r].invite), job[r].who)
<1>1. /\ pc[r] = "befriend" /\ V!Write(r, "friends", {pair}) /\ V!Go(r, "habit")
      /\ UNCHANGED <<V!tables, job>>
  BY DEF V!Befriend
<1>2. Shape /\ ClaimOK(r)
  BY DEF Inv, RequestOK
<1>3. /\ pc'[r] = "habit" /\ job' = job /\ invites' = invites
      /\ writes'[r].friends = {pair} /\ writes'[r].habits = {} /\ writes'[r].challenges = {}
  BY <1>1, <1>2 DEF Shape, V!Go, V!Write, V!tables, ClaimOK, V!Claiming
<1>4. ClaimOK(r)'
  BY <1>1, <1>2, <1>3 DEF ClaimOK, V!Claiming, V!Creator
<1>5. RequestOK(r)' /\ "habit" \in Phases /\ pc[r] \in V!Claiming
  BY <1>1, <1>3, <1>4 DEF RequestOK, DeleteOK, RestOK, V!Claiming, V!Deleting, Phases
<1> QED
  BY <1>1, <1>5, WriteInv

LEMMA MakeHabitInv ==
  ASSUME Inv, NEW r \in Claims, V!MakeHabit(r)
  PROVE  Inv'
<1>1. /\ pc[r] = "habit" /\ V!Write(r, "habits", {V!HabitOf(r)}) /\ V!Go(r, "challenge")
      /\ UNCHANGED <<V!tables, job>>
  BY DEF V!MakeHabit, V!CreateHabit, V!tables
<1>2. Shape /\ ClaimOK(r)
  BY DEF Inv, RequestOK
<1>3. /\ pc'[r] = "challenge" /\ job' = job /\ invites' = invites
      /\ writes'[r].friends = writes[r].friends
      /\ writes'[r].habits = {V!HabitOf(r)} /\ writes'[r].challenges = {}
  BY <1>1, <1>2 DEF Shape, V!Go, V!Write, V!tables, ClaimOK, V!Claiming
<1>4. V!HabitOf(r).invite = job[r].invite /\ V!HabitOf(r).owner = job[r].who
  BY DEF V!HabitOf
<1>5. ClaimOK(r)'
  BY <1>1, <1>2, <1>3, <1>4 DEF ClaimOK, V!Claiming
<1>6. RequestOK(r)' /\ "challenge" \in Phases /\ pc[r] \in V!Claiming
  BY <1>1, <1>3, <1>5 DEF RequestOK, DeleteOK, RestOK, V!Claiming, V!Deleting, Phases
<1> QED
  BY <1>1, <1>6, WriteInv

LEMMA InsertChallengeInv ==
  ASSUME Inv, NEW r \in Claims, V!InsertChallenge(r)
  PROVE  Inv'
<1> DEFINE j == job[r]
           made == {V!ChallengeOf(j.invite, j.who, h, j.at) : h \in writes[r].habits}
<1>1. /\ pc[r] = "challenge" /\ V!Write(r, "challenges", made) /\ V!Go(r, "mark")
      /\ UNCHANGED <<V!tables, job>>
  BY DEF V!InsertChallenge
<1>2. Shape /\ ClaimOK(r)
  BY DEF Inv, RequestOK
<1>3. /\ pc'[r] = "mark" /\ job' = job /\ invites' = invites
      /\ writes'[r].friends = writes[r].friends /\ writes'[r].habits = writes[r].habits
      /\ writes'[r].challenges = made
  BY <1>1, <1>2 DEF Shape, V!Go, V!Write, V!tables, ClaimOK, V!Claiming
<1>4. PICK h : h.invite = j.invite /\ h.owner = j.who /\ writes[r].habits = {h}
  BY <1>1, <1>2 DEF ClaimOK, V!Claiming
<1>5. made = {V!ChallengeOf(j.invite, j.who, h, j.at)}
  BY <1>4
<1>6. ClaimOK(r)'
  BY <1>1, <1>2, <1>3, <1>4, <1>5 DEF ClaimOK, V!Claiming, V!ChallengeOf, V!Creator
<1>7. RequestOK(r)' /\ "mark" \in Phases /\ pc[r] \in V!Claiming
  BY <1>1, <1>3, <1>6 DEF RequestOK, DeleteOK, RestOK, V!Claiming, V!Deleting, Phases
<1> HIDE DEF made
<1> QED
  BY <1>1, <1>7, WriteInv

LEMMA MarkInv ==
  ASSUME Inv, NEW r \in Claims, V!MarkClaimed(r)
  PROVE  Inv'
<1>1. pc[r] = "mark" /\ V!Go(r, "commit") /\ UNCHANGED <<V!tables, job, writes>>
  BY DEF V!MarkClaimed
<1>2. Shape /\ ClaimOK(r)
  BY DEF Inv, RequestOK
<1>3. pc'[r] = "commit" /\ job' = job /\ invites' = invites /\ writes' = writes
  BY <1>1, <1>2 DEF Shape, V!Go, V!tables
<1>4. ClaimOK(r)'
  BY <1>1, <1>2, <1>3 DEF ClaimOK, V!Claiming, V!ChallengeOf, V!Creator
<1>5. RequestOK(r)' /\ "commit" \in Phases /\ pc[r] \in V!Claiming
  BY <1>1, <1>3, <1>4 DEF RequestOK, DeleteOK, RestOK, V!Claiming, V!Deleting, Phases
<1> QED
  BY <1>1, <1>5, WriteInv

LEMMA CommitInv ==
  ASSUME Inv, NEW r \in Claims, V!CommitClaim(r)
  PROVE  Inv'
<1>0. PICK i, u, since, v :
        job[r].invite = i /\ job[r].who = u /\ job[r].at = since /\ invites[i] = v
  OBVIOUS
<1> DEFINE slot == [status |-> "claimed", creator |-> v.creator, expires |-> v.expires,
                   by |-> u, at |-> since]
<1>1. Shape /\ ClaimOK(r) /\ V!ClaimIsWhole /\ \A q \in Claims : RequestOK(q)
  BY DEF Inv, RequestOK
<1>2. /\ i \in Ids /\ v.status = "pending" /\ v.creator # u /\ since < v.expires
      /\ writes[r].friends = {V!Pair(v.creator, u)} /\ pc[r] \in V!Claiming
  BY <1>0, <1>1 DEF V!CommitClaim, ClaimOK, V!Claiming
<1>3. PICK h : /\ h.invite = i /\ h.owner = u /\ writes[r].habits = {h}
               /\ writes[r].challenges = {V!ChallengeOf(i, u, h, since)}
  BY <1>0, <1>1 DEF V!CommitClaim, ClaimOK, V!Claiming
<1>4. invites' = [invites EXCEPT ![i] = slot]
  <2>1. invites' = [invites EXCEPT ![i] = [invites[i] EXCEPT !.status = "claimed", !.by = u,
                                                             !.at = since]]
    BY <1>0, <1>1, <1>2 DEF V!CommitClaim, Shape
  <2>2. v = [status |-> v.status, creator |-> v.creator, expires |-> v.expires,
             by |-> v.by, at |-> v.at]
    BY <1>0, <1>1, <1>2 DEF Shape
  <2>3. [v EXCEPT !.status = "claimed", !.by = u, !.at = since] = slot
    <3>1. PICK v1 : v1 = [v EXCEPT !.status = "claimed"]
      OBVIOUS
    <3>2. PICK v2 : v2 = [v1 EXCEPT !.by = u]
      OBVIOUS
    <3>3. v1 = [status |-> "claimed", creator |-> v.creator, expires |-> v.expires,
                by |-> v.by, at |-> v.at]
      BY <2>2, <3>1
    <3>4. v2 = [status |-> "claimed", creator |-> v.creator, expires |-> v.expires,
                by |-> u, at |-> v.at]
      BY <3>2, <3>3
    <3>5. [v2 EXCEPT !.at = since] = slot
      BY <3>4
    <3> QED
      BY <3>1, <3>2, <3>5
  <2> QED
    BY <1>0, <2>1, <2>3
<1>5. /\ invites'[i] = slot /\ \A k \in Ids \ {i} : invites'[k] = invites[k]
      /\ invites' = [k \in Ids |-> [status  |-> invites'[k].status,
                                    creator |-> invites'[k].creator,
                                    expires |-> invites'[k].expires,
                                    by      |-> invites'[k].by,
                                    at      |-> invites'[k].at]]
  BY <1>1, <1>2, <1>4 DEF Shape
<1>6. /\ pc' = [pc EXCEPT ![r] = "notify"] /\ writes' = [writes EXCEPT ![r] = V!Nothing]
      /\ UNCHANGED <<job, told, gone>>
      /\ friends' = friends \cup writes[r].friends /\ habits' = habits \cup writes[r].habits
      /\ challenges' = challenges \cup writes[r].challenges
  BY DEF V!CommitClaim, V!Go
<1> HIDE DEF slot
<1>7. Shape'
  BY <1>1, <1>5, <1>6 DEF Shape, Phases, V!Nothing
<1>8. ASSUME NEW q \in Claims \ {r} PROVE Same(q) /\ Spared(q)
  <2>1. pc[q] \in V!Claiming => job[q].invite \in Ids \ {i}
    BY <1>0, <1>1, <1>2 DEF Inv, OneClaim, RequestOK, ClaimOK
  <2>2. pc[q] = "notify" => job[q].invite \in Ids \ {i}
                            /\ invites[job[q].invite].status \in {"claimed", "deleted"}
    BY <1>0, <1>1, <1>2 DEF RequestOK, RestOK
  <2>3. Same(q)
    BY <1>1, <1>6 DEF Same, Shape
  <2> QED
    BY <1>5, <2>1, <2>2, <2>3 DEF Spared
<1>9. RequestOK(r)'
  BY <1>0, <1>1, <1>2, <1>5, <1>6
     DEF Shape, RequestOK, ClaimOK, DeleteOK, RestOK, V!Claiming, V!Deleting, slot
<1>10. /\ V!HabitsMade(i)' = {h}
       /\ V!ChallengesMade(i)' = {V!ChallengeOf(i, u, h, since)'}
  <2>1. V!HabitsMade(i) = {} /\ V!ChallengesMade(i) = {}
    BY <1>0, <1>1, <1>2, EachIsWhole DEF WholeAt, MadeNothing
  <2>2. V!ChallengeOf(i, u, h, since)' = V!ChallengeOf(i, u, h, since)
    BY <1>0, <1>5, <1>6 DEF V!ChallengeOf, V!Creator, slot
  <2>3. V!ChallengeOf(i, u, h, since).invite = i
    BY DEF V!ChallengeOf
  <2> QED
    BY <1>3, <1>6, <2>1, <2>2, <2>3 DEF V!HabitsMade, V!ChallengesMade
<1>11. WholeAt(i)'
  <2>1. /\ invites'[i].by = u /\ invites'[i].creator = v.creator /\ invites'[i].at = since
        /\ invites'[i].expires = v.expires /\ invites'[i].status = "claimed"
    BY <1>5 DEF slot
  <2>2. V!Pair(v.creator, u) \in friends' /\ h \in V!HabitsMade(i)'
    BY <1>2, <1>6, <1>10
  <2>3. MadeAll(i)'
    BY <1>2, <1>3, <1>10, <2>1, <2>2 DEF MadeAll, V!Pair
  <2> QED
    BY <2>1, <2>3 DEF WholeAt
<1>12. ASSUME NEW k \in Ids, k # i PROVE WholeAt(k)'
  <2>1. invites'[k] = invites[k] /\ friends \subseteq friends' /\ told' = told /\ gone' = gone
    BY <1>5, <1>6, <1>12
  <2>2. V!ChallengeOf(i, u, h, since).invite = i
    BY DEF V!ChallengeOf
  <2>3. V!HabitsMade(k)' = V!HabitsMade(k) /\ V!ChallengesMade(k)' = V!ChallengesMade(k)
    BY <1>3, <1>6, <1>12, <2>2 DEF V!HabitsMade, V!ChallengesMade
  <2>4. WholeAt(k)
    BY <1>1, EachIsWhole
  <2>5. MadeNothing(k) => MadeNothing(k)'
    BY <2>1, <2>3 DEF MadeNothing
  <2>6. \A w, g, at : V!ChallengeOf(k, w, g, at)' = V!ChallengeOf(k, w, g, at)
    BY <2>1 DEF V!ChallengeOf, V!Creator
  <2>7. MadeAll(k) => MadeAll(k)'
    BY <2>1, <2>3, <2>6 DEF MadeAll, V!Pair
  <2> QED
    BY <2>1, <2>4, <2>5, <2>7 DEF WholeAt
<1>13. V!ClaimIsWhole'
  BY <1>11, <1>12 DEF V!ClaimIsWhole, WholeAt, MadeNothing, MadeAll
<1>14. pc'[r] = "notify"
  BY <1>1, <1>6 DEF Shape
<1> QED
  BY <1>1, <1>7, <1>8, <1>9, <1>13, <1>14, StepInv DEF V!Claiming

LEMMA NotifyInv ==
  ASSUME Inv, NEW r \in Claims, V!Notify(r)
  PROVE  Inv'
<1>1. Shape /\ V!ClaimIsWhole /\ \A q \in Claims : RequestOK(q)
  BY DEF Inv
<1>2. /\ job[r].invite \in Ids /\ invites[job[r].invite].status \in {"claimed", "deleted"}
      /\ told' = told \cup {job[r].invite} /\ V!End(r)
      /\ UNCHANGED <<invites, friends, habits, challenges, gone>>
  BY <1>1 DEF RequestOK, RestOK, V!Notify
<1>3. V!ClaimIsWhole'
  BY <1>1, <1>2 DEF V!ClaimIsWhole, V!HabitsMade, V!ChallengesMade, V!ChallengeOf, V!Creator
<1>4. Shape'
  BY <1>1, <1>2, EndOK DEF Shape
<1>5. \A q \in Claims \ {r} : Same(q) /\ Spared(q)
  BY <1>1, <1>2, EndOK DEF Spared, RequestOK, RestOK
<1> QED
  BY <1>1, <1>2, <1>3, <1>4, <1>5, EndOK, StepInv DEF V!Claiming

-----------------------------------------------------------------------------
(* The deletion of an account.                                             *)

LEMMA DropInv ==
  ASSUME Inv, NEW r \in Claims, NEW from \in V!Deleting, NEW to \in V!Deleting,
         NEW field \in {"friends", "habits", "challenges"}, NEW gone0,
         V!Drop(r, from, field, gone0, to),
         field = "friends" => \A p \in gone0 : job[r].who \in p,
         field = "habits" => \A h \in gone0 : h.owner = job[r].who,
         field = "challenges" => \A c \in gone0 : job[r].who \in {c.from, c.to}
  PROVE  Inv'
<1>1. /\ pc[r] = from /\ V!Write(r, field, gone0) /\ V!Go(r, to) /\ UNCHANGED <<V!tables, job>>
  BY DEF V!Drop
<1>2. Shape /\ DeleteOK(r)
  BY DEF Inv, RequestOK
<1>3. pc'[r] = to /\ job' = job
  BY <1>1, <1>2 DEF Shape, V!Go
<1>4. /\ writes'[r].friends = writes[r].friends \cup (IF field = "friends" THEN gone0 ELSE {})
      /\ writes'[r].habits = writes[r].habits \cup (IF field = "habits" THEN gone0 ELSE {})
      /\ writes'[r].challenges
           = writes[r].challenges \cup (IF field = "challenges" THEN gone0 ELSE {})
  BY <1>1, <1>2 DEF Shape, V!Write
<1>5. DeleteOK(r)'
  BY <1>1, <1>2, <1>3, <1>4 DEF DeleteOK
<1>6. RequestOK(r)' /\ to \in Phases /\ to \notin V!Claiming
  BY <1>3, <1>5 DEF RequestOK, ClaimOK, RestOK, V!Claiming, V!Deleting, Phases
<1> QED
  BY <1>1, <1>6, WriteInv

LEMMA DropInvitesInv ==
  ASSUME Inv, NEW r \in Claims, V!DropInvites(r)
  PROVE  Inv'
<1> DEFINE u == job[r].who
           mine == {i \in Ids : V!Creator(i) = u}
<1>1. Shape /\ DeleteOK(r) /\ V!ClaimIsWhole /\ \A q \in Claims : RequestOK(q)
  BY DEF Inv, RequestOK
<1>2. /\ mine \cap V!LockedInvites(r) = {} /\ pc[r] \in V!Deleting
      /\ invites' = [i \in Ids |-> IF i \in mine THEN V!Deleted ELSE invites[i]]
      /\ friends' = friends \ writes[r].friends /\ habits' = habits \ writes[r].habits
      /\ challenges' = challenges \ writes[r].challenges
      /\ gone' = gone \cup {u} /\ told' = told /\ V!End(r)
  BY DEF V!DropInvites, V!Deleting
<1>3. /\ \A p \in writes[r].friends : u \in p
      /\ \A h \in writes[r].habits : h.owner = u
      /\ \A c \in writes[r].challenges : u \in {c.from, c.to}
  BY <1>1, <1>2 DEF DeleteOK
<1>4. /\ V!Deleted.status = "deleted"
      /\ V!Deleted = [status |-> V!Deleted.status, creator |-> V!Deleted.creator,
                    expires |-> V!Deleted.expires, by |-> V!Deleted.by, at |-> V!Deleted.at]
  BY DEF V!Deleted, V!NoRow
<1>5. invites' = [i \in Ids |-> [status  |-> invites'[i].status,
                                 creator |-> invites'[i].creator,
                                 expires |-> invites'[i].expires,
                                 by      |-> invites'[i].by,
                                 at      |-> invites'[i].at]]
  BY <1>1, <1>2, <1>4 DEF Shape
<1>6. Shape'
  BY <1>1, <1>2, <1>5, EndOK DEF Shape
<1>7. ASSUME NEW q \in Claims \ {r} PROVE Same(q) /\ Spared(q)
  <2>1. ASSUME pc[q] \in V!Claiming PROVE job[q].invite \in Ids \ mine
    <3>1. job[q].invite \in V!LockedInvites(r)
      BY <2>1 DEF V!LockedInvites
    <3>2. job[q].invite \in Ids
      BY <1>1, <2>1 DEF RequestOK, ClaimOK
    <3> QED
      BY <1>2, <3>1, <3>2
  <2>2. pc[q] = "notify" =>
          job[q].invite \in Ids /\ invites[job[q].invite].status \in {"claimed", "deleted"}
    BY <1>1 DEF RequestOK, RestOK
  <2> QED
    BY <1>1, <1>2, <1>4, <2>1, <2>2, EndOK DEF Spared
<1>8. ASSUME NEW k \in Ids, k \notin mine PROVE WholeAt(k)'
  <2> DEFINE w == invites[k]
             c(g) == V!ChallengeOf(k, w.by, g, w.at)
  <2>1. invites'[k] = w /\ w.creator # u /\ WholeAt(k)
    BY <1>1, <1>2, <1>8, EachIsWhole DEF V!Creator
  <2>2. V!HabitsMade(k)' \subseteq V!HabitsMade(k) /\ V!ChallengesMade(k)' \subseteq V!ChallengesMade(k)
    BY <1>2 DEF V!HabitsMade, V!ChallengesMade
  <2>3. ASSUME w.status \in {"unborn", "pending", "revoked"} PROVE MadeNothing(k)'
    BY <1>2, <2>1, <2>2, <2>3 DEF WholeAt, MadeNothing
  <2>4. ASSUME w.status = "claimed", {w.creator, w.by} \cap gone' = {} PROVE MadeAll(k)'
    <3>1. {w.creator, w.by} \cap gone = {} /\ w.by # u
      BY <1>2, <2>4
    <3>2. PICK g \in V!HabitsMade(k) :
            /\ w.by # w.creator /\ w.at < w.expires /\ V!Pair(w.creator, w.by) \in friends
            /\ g.owner = w.by /\ V!HabitsMade(k) = {g} /\ V!ChallengesMade(k) = {c(g)}
      BY <2>1, <2>4, <3>1 DEF WholeAt, MadeAll
    <3>3. V!Pair(w.creator, w.by) \in friends'
      BY <1>2, <1>3, <2>1, <3>1, <3>2 DEF V!Pair
    <3>4. V!HabitsMade(k)' = {g}
      <4>1. g \in habits' /\ g.invite = k
        BY <1>2, <1>3, <3>1, <3>2 DEF V!HabitsMade
      <4> QED
        BY <2>2, <3>2, <4>1 DEF V!HabitsMade
    <3>5. c(g).invite = k /\ c(g).from = w.creator /\ c(g).to = w.by /\ c(g)' = c(g)
      BY <2>1 DEF V!ChallengeOf, V!Creator
    <3> HIDE DEF c
    <3>6. V!ChallengesMade(k)' = {c(g)}
      <4>1. c(g) \in challenges' /\ c(g).invite = k
        BY <1>2, <1>3, <2>1, <3>1, <3>2, <3>5 DEF V!ChallengesMade
      <4> QED
        BY <2>2, <3>2, <4>1 DEF V!ChallengesMade
    <3> QED
      BY <2>1, <3>2, <3>3, <3>4, <3>5, <3>6 DEF MadeAll, V!Pair, c
  <2> QED
    BY <2>1, <2>3, <2>4 DEF WholeAt
<1>9. V!ClaimIsWhole'
  <2>1. ASSUME NEW k \in mine PROVE WholeAt(k)'
    BY <1>2, <1>4 DEF WholeAt
  <2>2. \A k \in Ids : WholeAt(k)'
    BY <1>8, <2>1
  <2> QED
    BY <2>2 DEF V!ClaimIsWhole, WholeAt, MadeNothing, MadeAll
<1> QED
  BY <1>1, <1>2, <1>6, <1>7, <1>9, EndOK, StepInv DEF V!Claiming

-----------------------------------------------------------------------------
(* The theorems.                                                           *)

LEMMA NextInv == Inv /\ [V!Next]_(V!vars) => Inv'
<1> SUFFICES ASSUME Inv, [V!Next]_(V!vars) PROVE Inv'
  OBVIOUS
<1>1. CASE V!Tick \/ UNCHANGED V!vars
  <2>1. UNCHANGED <<V!tables, pc, job, writes>>
    BY <1>1 DEF V!Tick, V!vars
  <2>2. Shape' /\ OneClaim'
    BY <2>1 DEF Inv, Shape, OneClaim, V!tables
  <2>3. \A r \in Claims : RequestOK(r)'
    BY <2>1, OthersOK DEF Inv, Same, Spared, RequestOK, RestOK, V!tables
  <2> QED
    BY <2>1, <2>2, <2>3, TablesKept DEF Inv
<1>2. ASSUME NEW r \in Claims, V!Arrive(r) PROVE Inv'
  <2>1. ASSUME NEW u \in Users, V!StartCreate(r, u) PROVE Inv'
    BY <2>1, BeginInv DEF V!StartCreate
  <2>2. ASSUME NEW u \in Users, V!StartDelete(r, u) PROVE Inv'
    BY <2>2, BeginInv DEF V!StartDelete
  <2>3. ASSUME NEW i \in Ids, V!StartRevoke(r, i) PROVE Inv'
    BY <2>3, BeginInv DEF V!StartRevoke
  <2>4. ASSUME NEW i \in Ids, NEW u \in Users, V!StartClaim(r, u, i) PROVE Inv'
    BY <2>4, BeginInv DEF V!StartClaim
  <2> QED
    BY <1>2, <2>1, <2>2, <2>3, <2>4 DEF V!Arrive
<1>3. ASSUME NEW r \in Claims, V!Step(r) PROVE Inv'
  <2>1. CASE V!DropHabits(r)
    BY <2>1, DropInv DEF V!DropHabits, V!HabitsOf, V!Deleting
  <2>2. CASE V!DropFriends(r)
    BY <2>2, DropInv DEF V!DropFriends, V!FriendsOf, V!Deleting
  <2>3. CASE V!DropChallenges(r)
    BY <2>3, DropInv DEF V!DropChallenges, V!ChallengesOf, V!Deleting
  <2> QED
    BY <1>3, <2>1, <2>2, <2>3, InsertInv, RevokeInv, BefriendInv, MakeHabitInv,
       InsertChallengeInv, MarkInv, CommitInv, NotifyInv, DropInvitesInv DEF V!Step
<1>4. ASSUME NEW r \in Claims, V!Interrupt(r) PROVE Inv'
  BY <1>4, EndInv DEF V!Interrupt, V!tables
<1> QED
  BY <1>1, <1>2, <1>3, <1>4 DEF V!Next

\* The invites, their claims and what the claims made keep the invariant above.
THEOREM AlwaysInv == V!Spec => []Inv
BY InitInv, NextInv, PTL DEF V!Spec

\* A claim makes its friendship, its habit and its challenge together, once, and while the
\* invite was open, or none of them, whatever claims, revocations, deletions of accounts and
\* interruptions run at once (ClaimInvite, invite_service.go:129).
THEOREM ClaimsAreWhole == V!Spec => []V!ClaimIsWhole
<1>1. Inv => V!ClaimIsWhole
  BY DEF Inv
<1> QED
  BY <1>1, AlwaysInv, PTL

\* Whatever waits in a cycle, the deletion of an account is in it: what a claim past its
\* friendship waits for is nothing, so claims and revocations wait in chains of at most two
\* (the FOR UPDATE of invite_store.go and the upserts of EnsureFriendship).
THEOREM ClaimsAreDeadlockFree == V!Spec => []V!OnlyDeletionsDeadlock
<1>1. ASSUME Inv PROVE V!OnlyDeletionsDeadlock
  <2> SUFFICES ASSUME NEW S \in SUBSET Claims, V!WaitCycle(S), \A r \in S : pc[r] \notin V!Deleting
               PROVE  FALSE
    BY DEF V!OnlyDeletionsDeadlock
  <2>1. ASSUME NEW r \in S PROVE \E q \in S : V!WaitsFor(r, q) /\ pc[r] \in {"befriend", "revoke"}
    BY <2>1 DEF V!WaitCycle, V!WaitsFor, V!Deleting
  <2>2. ASSUME NEW r \in S, pc[r] = "befriend" PROVE FALSE
    <3>1. PICK q \in S : V!WaitsFor(r, q)
      BY <2>1
    <3>2. writes[q].friends # {}
      BY <2>2, <3>1 DEF V!WaitsFor, V!Deleting
    <3>3. ClaimOK(q) /\ RestOK(q)
      BY <1>1 DEF Inv, RequestOK
    <3>4. CASE pc[q] = "befriend"
      BY <3>2, <3>3, <3>4 DEF ClaimOK, V!Claiming
    <3>5. CASE pc[q] = "revoke"
      BY <3>2, <3>3, <3>5 DEF RestOK, V!Nothing, V!Claiming, V!Deleting
    <3> QED
      BY <2>1, <3>4, <3>5
  <2>3. ASSUME NEW r \in S, pc[r] = "revoke" PROVE FALSE
    <3>1. PICK q \in S : V!WaitsFor(r, q)
      BY <2>1
    <3>2. pc[q] \in V!Claiming
      BY <2>3, <3>1 DEF V!WaitsFor
    <3>3. pc[q] = "befriend"
      BY <2>1, <3>2 DEF V!Claiming
    <3> QED
      BY <2>2, <3>3
  <2> QED
    BY <2>1, <2>2, <2>3 DEF V!WaitCycle
<1> QED
  BY <1>1, AlwaysInv, PTL

-----------------------------------------------------------------------------
(* The shapes of the variables: who is at work is a user, and so is whose  *)
(* invite is open.                                                         *)

InviteNumbers == TTL \in Nat /\ MaxDay \in Nat /\ MaxCalls \in Nat

AtWork == {"insert"} \cup V!Claiming \cup V!Deleting

JobTyped(r) ==
  /\ job[r].who \in Users \cup {V!NoUser} /\ job[r].invite \in Ids \cup {V!NoId} /\ job[r].at \in Nat
  /\ pc[r] \in AtWork => job[r].who \in Users

Rows == [status: {"unborn", "pending", "claimed", "revoked", "deleted"},
         creator: Users \cup {V!NoUser}, by: Users \cup {V!NoUser}, expires: Nat, at: Nat]

RowsTyped ==
  /\ invites \in [Ids -> Rows]
  /\ \A i \in Ids : invites[i].status = "pending" => V!Creator(i) \in Users

SetsTyped ==
  /\ \A p \in friends : p \subseteq Users
  /\ told \subseteq Ids /\ gone \subseteq Users /\ crossed \subseteq Users

Typed ==
  /\ now \in 0 .. MaxDay /\ calls \in 0 .. MaxCalls
  /\ RowsTyped /\ SetsTyped /\ \A r \in Claims : JobTyped(r)

LEMMA TypedIs == Typed => V!TypeOK
BY DEF Typed, V!TypeOK, RowsTyped, SetsTyped, JobTyped, Rows

LEMMA InitTyped == ASSUME InviteNumbers, V!Init PROVE Typed
<1>1. RowsTyped
  BY DEF V!Init, RowsTyped, Rows, V!NoRow
<1>2. SetsTyped
  BY DEF V!Init, SetsTyped, V!Pair
<1>3. ASSUME NEW r \in Claims PROVE JobTyped(r)
  BY <1>3 DEF V!Init, JobTyped, V!NoJob, AtWork, V!Claiming, V!Deleting
<1> QED
  BY <1>1, <1>2, <1>3 DEF V!Init, Typed, InviteNumbers

LEMMA EndTyped ==
  ASSUME Shape, Typed, NEW r \in Claims, V!End(r)
  PROVE  \A q \in Claims : JobTyped(q)'
<1>1. /\ pc' = [pc EXCEPT ![r] = "idle"] /\ job' = [job EXCEPT ![r] = V!NoJob]
  BY DEF V!End, V!Go
<1>2. JobTyped(r)'
  <2>1. pc'[r] = "idle" /\ job'[r] = V!NoJob
    BY <1>1 DEF Shape
  <2> QED
    BY <2>1 DEF JobTyped, V!NoJob, AtWork, V!Claiming, V!Deleting
<1>3. ASSUME NEW q \in Claims, q # r PROVE JobTyped(q)'
  <2>1. pc'[q] = pc[q] /\ job'[q] = job[q]
    BY <1>1, <1>3 DEF Shape
  <2> QED
    BY <2>1 DEF JobTyped, Typed
<1> QED
  BY <1>2, <1>3

LEMMA BeginTyped ==
  ASSUME Shape, Typed, InviteNumbers, NEW r \in Claims, NEW where, NEW u \in Users \cup {V!NoUser},
         NEW i \in Ids \cup {V!NoId}, V!Begin(r, where, u, i), where \in AtWork => u \in Users,
         crossed' \subseteq Users
  PROVE  Typed'
<1>1. /\ pc' = [pc EXCEPT ![r] = where]
      /\ job' = [job EXCEPT ![r] = [who |-> u, invite |-> i, at |-> now]]
      /\ UNCHANGED <<now, invites, friends, told, gone>> /\ calls < MaxCalls /\ calls' = calls + 1
  BY DEF V!Begin, V!Go, V!tables
<1>2. JobTyped(r)'
  <2>1. pc'[r] = where /\ job'[r] = [who |-> u, invite |-> i, at |-> now] /\ now \in Nat
    BY <1>1 DEF Shape, Typed, InviteNumbers
  <2> QED
    BY <2>1 DEF JobTyped
<1>3. ASSUME NEW q \in Claims, q # r PROVE JobTyped(q)'
  <2>1. pc'[q] = pc[q] /\ job'[q] = job[q]
    BY <1>1, <1>3 DEF Shape
  <2> QED
    BY <2>1 DEF JobTyped, Typed
<1>4. \A q \in Claims : JobTyped(q)'
  BY <1>2, <1>3
<1>5. now' \in 0 .. MaxDay /\ calls' \in 0 .. MaxCalls
  BY <1>1 DEF Typed, InviteNumbers
<1>6. RowsTyped' /\ SetsTyped'
  BY <1>1 DEF Typed, RowsTyped, SetsTyped, V!Creator
<1> QED
  BY <1>4, <1>5, <1>6 DEF Typed

\* From one statement to the next of one handler.
LEMMA GoTyped ==
  ASSUME Shape, Typed, NEW r \in Claims, NEW where, V!Go(r, where), job' = job,
         where \in AtWork => pc[r] \in AtWork
  PROVE  \A q \in Claims : JobTyped(q)'
<1>1. pc' = [pc EXCEPT ![r] = where]
  BY DEF V!Go
<1>2. JobTyped(r)'
  <2>1. pc'[r] = where /\ job'[r] = job[r]
    BY <1>1 DEF Shape
  <2> QED
    BY <2>1 DEF JobTyped, Typed
<1>3. ASSUME NEW q \in Claims, q # r PROVE JobTyped(q)'
  <2>1. pc'[q] = pc[q] /\ job'[q] = job[q]
    BY <1>1, <1>3 DEF Shape
  <2> QED
    BY <2>1 DEF JobTyped, Typed
<1> QED
  BY <1>2, <1>3

\* One row is written.
LEMMA RowTyped ==
  ASSUME RowsTyped, NEW i, NEW slot, invites' = [invites EXCEPT ![i] = slot],
         i \in Ids => slot \in Rows /\ (slot.status = "pending" => slot.creator \in Users)
  PROVE  RowsTyped'
<1>1. invites' \in [Ids -> Rows]
  BY DEF RowsTyped
<1>2. ASSUME NEW k \in Ids, invites'[k].status = "pending" PROVE V!Creator(k)' \in Users
  <2>1. CASE k = i
    BY <1>2, <2>1 DEF RowsTyped, V!Creator
  <2>2. CASE k # i
    BY <1>2, <2>2 DEF RowsTyped, V!Creator
  <2> QED
    BY <2>1, <2>2
<1> QED
  BY <1>1, <1>2 DEF RowsTyped

LEMMA CreatorIsUser ==
  ASSUME Inv, Typed, NEW r \in Claims, pc[r] \in V!Claiming
  PROVE  /\ job[r].invite \in Ids /\ V!Creator(job[r].invite) \in Users /\ job[r].who \in Users
         /\ \A p \in writes[r].friends : p \subseteq Users
<1>1. ClaimOK(r) /\ JobTyped(r)
  BY DEF Inv, RequestOK, Typed
<1>2. job[r].invite \in Ids /\ invites[job[r].invite].status = "pending" /\ job[r].who \in Users
  BY <1>1 DEF ClaimOK, JobTyped, AtWork
<1>3. V!Creator(job[r].invite) \in Users
  BY <1>2 DEF Typed, RowsTyped
<1>4. writes[r].friends \in {{}, {V!Pair(V!Creator(job[r].invite), job[r].who)}}
  BY <1>1 DEF ClaimOK, V!Creator
<1> QED
  BY <1>2, <1>3, <1>4 DEF V!Pair

LEMMA NextTyped == ASSUME InviteNumbers, Inv, Typed, [V!Next]_(V!vars) PROVE Typed'
<1>1. Shape /\ RowsTyped /\ SetsTyped /\ \A q \in Claims : JobTyped(q) /\ RequestOK(q)
  BY DEF Inv, Typed
\* What suffices of a step.
<1>2. ASSUME now' = now, calls' = calls, RowsTyped', SetsTyped', \A q \in Claims : JobTyped(q)'
      PROVE  Typed'
  BY <1>2 DEF Typed
<1>3. ASSUME UNCHANGED <<now, V!tables, crossed, calls>>, \A q \in Claims : JobTyped(q)'
      PROVE  Typed'
  BY <1>1, <1>2, <1>3 DEF RowsTyped, SetsTyped, V!Creator, V!tables
<1>4. CASE V!Tick \/ UNCHANGED V!vars
  <2>1. UNCHANGED <<V!tables, pc, job, crossed, calls>> /\ now' \in 0 .. MaxDay
    BY <1>4 DEF V!Tick, V!vars, Typed, InviteNumbers
  <2> QED
    BY <1>1, <2>1 DEF Typed, RowsTyped, SetsTyped, V!Creator, JobTyped, V!tables
<1>5. ASSUME NEW r \in Claims, V!Arrive(r) PROVE Typed'
  <2>1. ASSUME NEW u \in Users, V!StartCreate(r, u) PROVE Typed'
    <3>1. V!Begin(r, "insert", u, V!NoId) /\ crossed' \subseteq Users
      BY <1>1, <2>1 DEF V!StartCreate, SetsTyped
    <3> QED
      BY <1>1, <3>1, BeginTyped
  <2>2. ASSUME NEW u \in Users, V!StartDelete(r, u) PROVE Typed'
    <3>1. V!Begin(r, "dropHabits", u, V!NoId) /\ crossed' \subseteq Users
      BY <1>1, <2>2 DEF V!StartDelete, SetsTyped
    <3> QED
      BY <1>1, <3>1, BeginTyped
  <2>3. ASSUME NEW i \in Ids, V!StartRevoke(r, i) PROVE Typed'
    <3>1. V!Begin(r, "revoke", V!Creator(i), i) /\ crossed' \subseteq Users
          /\ V!Creator(i) \in Users \cup {V!NoUser}
      BY <1>1, <2>3 DEF V!StartRevoke, SetsTyped, RowsTyped, Rows, V!Creator
    <3>2. "revoke" \notin AtWork
      BY DEF AtWork, V!Claiming, V!Deleting
    <3> QED
      BY <1>1, <3>1, <3>2, BeginTyped
  <2>4. ASSUME NEW i \in Ids, NEW u \in Users, V!StartClaim(r, u, i) PROVE Typed'
    <3>1. V!Begin(r, "befriend", u, i) /\ crossed' \subseteq Users
      BY <1>1, <2>4 DEF V!StartClaim, SetsTyped
    <3> QED
      BY <1>1, <3>1, BeginTyped
  <2> QED
    BY <1>5, <2>1, <2>2, <2>3, <2>4 DEF V!Arrive
<1>6. ASSUME NEW r \in Claims, V!Interrupt(r) PROVE Typed'
  <2>1. V!End(r) /\ UNCHANGED <<now, V!tables, crossed, calls>>
    BY <1>6 DEF V!Interrupt
  <2> QED
    BY <1>1, <1>3, <2>1, EndTyped
<1>7. ASSUME NEW r \in Claims, NEW i \in Ids, V!InsertInvite(r, i) PROVE Typed'
  <2>1. PICK t \in job[r].at .. now :
          invites' = [invites EXCEPT ![i] = [status |-> "pending", creator |-> job[r].who,
                                             expires |-> t + TTL, by |-> V!NoUser, at |-> 0]]
    BY <1>7 DEF V!InsertInvite
  <2>2. pc[r] = "insert" /\ V!End(r) /\ UNCHANGED <<now, friends, told, gone, crossed, calls>>
    BY <1>7 DEF V!InsertInvite
  <2>3. job[r].who \in Users /\ job[r].at \in Nat /\ now \in Nat
    BY <1>1, <2>2 DEF JobTyped, AtWork, Typed, InviteNumbers
  <2>4. t + TTL \in Nat
    BY <2>1, <2>3 DEF InviteNumbers
  <2>5. RowsTyped'
    <3> DEFINE slot == [status |-> "pending", creator |-> job[r].who, expires |-> t + TTL,
                       by |-> V!NoUser, at |-> 0]
    <3>1. slot \in Rows /\ slot.creator \in Users
      BY <2>3, <2>4 DEF Rows
    <3>2. invites' = [invites EXCEPT ![i] = slot]
      BY <2>1
    <3> HIDE DEF slot
    <3> QED
      BY <1>1, <3>1, <3>2, RowTyped
  <2> QED
    BY <1>1, <1>2, <2>2, <2>5, EndTyped DEF SetsTyped
<1>8. ASSUME NEW r \in Claims, V!UpdateRevoked(r) PROVE Typed'
  <2> DEFINE i == job[r].invite
             slot == IF invites[i].status = "deleted" THEN invites[i] ELSE V!Revoked(invites[i])
  <2>1. invites' = [invites EXCEPT ![i] = slot]
    BY <1>8 DEF V!UpdateRevoked
  <2>2. i \in Ids => slot \in Rows /\ (slot.status = "pending" => slot.creator \in Users)
    <3>1. ASSUME i \in Ids, NEW v, v = invites[i]
          PROVE  v \in Rows /\ V!Revoked(v) \in Rows /\ (v.status # "pending" => V!Revoked(v) = v)
                 /\ V!Revoked(v).status # "pending"
      BY <1>1, <3>1 DEF RowsTyped, Rows, V!Revoked
    <3>2. ASSUME i \in Ids PROVE slot \in Rows /\ slot.status # "pending"
      BY <3>1, <3>2
    <3> QED
      BY <3>2
  <2> HIDE DEF i, slot
  <2>3. RowsTyped'
    BY <1>1, <2>1, <2>2, RowTyped
  <2>4. V!End(r) /\ UNCHANGED <<now, friends, told, gone, crossed, calls>>
    BY <1>8 DEF V!UpdateRevoked
  <2> QED
    BY <1>1, <1>2, <2>3, <2>4, EndTyped DEF SetsTyped
<1>9. ASSUME NEW r \in Claims, V!Befriend(r) \/ V!MakeHabit(r) \/ V!InsertChallenge(r) \/ V!MarkClaimed(r)
      PROVE  Typed'
  <2>1. /\ UNCHANGED <<now, V!tables, job, crossed, calls>> /\ pc[r] \in V!Claiming
        /\ \E where : V!Go(r, where)
    BY <1>9 DEF V!Befriend, V!MakeHabit, V!CreateHabit, V!InsertChallenge, V!MarkClaimed,
       V!tables, V!Claiming
  <2>2. \A q \in Claims : JobTyped(q)'
    BY <1>1, <2>1, GoTyped DEF AtWork, Typed
  <2> QED
    BY <1>3, <2>1, <2>2
<1>10. ASSUME NEW r \in Claims, V!CommitClaim(r) PROVE Typed'
  <2>1. pc[r] \in V!Claiming
    BY <1>10 DEF V!CommitClaim, V!Claiming
  <2>2. /\ job[r].invite \in Ids /\ job[r].who \in Users /\ job[r].at \in Nat
        /\ \A p \in writes[r].friends : p \subseteq Users
    BY <1>1, <2>1, CreatorIsUser DEF JobTyped
  <2> DEFINE i == job[r].invite
             slot == [invites[i] EXCEPT !.status = "claimed", !.by = job[r].who, !.at = job[r].at]
  <2>3. slot \in Rows /\ slot.status = "claimed"
    <3>1. invites[i] \in Rows
      BY <1>1, <2>2 DEF RowsTyped
    <3> QED
      BY <2>2, <3>1 DEF Rows
  <2>4. invites' = [invites EXCEPT ![i] = slot]
    BY <1>10 DEF V!CommitClaim
  <2> HIDE DEF i, slot
  <2>5. RowsTyped'
    BY <1>1, <2>3, <2>4, RowTyped
  <2>6. SetsTyped'
    BY <1>1, <1>10, <2>2 DEF V!CommitClaim, SetsTyped
  <2>7. \A q \in Claims : JobTyped(q)'
    <3>1. "notify" \notin AtWork
      BY DEF AtWork, V!Claiming, V!Deleting
    <3>2. V!Go(r, "notify") /\ job' = job
      BY <1>10 DEF V!CommitClaim
    <3> QED
      BY <1>1, <3>1, <3>2, GoTyped
  <2> QED
    BY <1>2, <1>10, <2>5, <2>6, <2>7 DEF V!CommitClaim
<1>11. ASSUME NEW r \in Claims, V!Notify(r) PROVE Typed'
  <2>1. /\ V!End(r) /\ told' = told \cup {job[r].invite} /\ job[r].invite \in Ids
        /\ UNCHANGED <<now, invites, friends, gone, crossed, calls>>
    BY <1>1, <1>11 DEF V!Notify, RequestOK, RestOK
  <2>2. RowsTyped' /\ SetsTyped'
    BY <1>1, <2>1 DEF RowsTyped, SetsTyped, V!Creator
  <2> QED
    BY <1>1, <1>2, <2>1, <2>2, EndTyped
<1>12. ASSUME NEW r \in Claims, V!DropHabits(r) \/ V!DropFriends(r) \/ V!DropChallenges(r) PROVE Typed'
  <2>1. /\ UNCHANGED <<now, V!tables, job, crossed, calls>> /\ pc[r] \in V!Deleting
        /\ \E where : V!Go(r, where)
    BY <1>12 DEF V!DropHabits, V!DropFriends, V!DropChallenges, V!Drop, V!Deleting
  <2>2. \A q \in Claims : JobTyped(q)'
    BY <1>1, <2>1, GoTyped DEF AtWork, Typed
  <2> QED
    BY <1>3, <2>1, <2>2
<1>13. ASSUME NEW r \in Claims, V!DropInvites(r) PROVE Typed'
  <2>1. /\ pc[r] = "dropInvites" /\ V!End(r) /\ UNCHANGED <<now, told, crossed, calls>>
        /\ friends' = friends \ writes[r].friends /\ gone' = gone \cup {job[r].who}
    BY <1>13 DEF V!DropInvites
  <2>2. PICK mine \in SUBSET Ids :
          invites' = [i \in Ids |-> IF i \in mine THEN V!Deleted ELSE invites[i]]
    BY <1>13 DEF V!DropInvites
  <2>3. V!Deleted \in Rows /\ V!Deleted.status = "deleted"
    BY DEF V!Deleted, V!NoRow, Rows
  <2>4. RowsTyped'
    BY <1>1, <2>2, <2>3 DEF RowsTyped, V!Creator
  <2>5. job[r].who \in Users
    BY <1>1, <2>1 DEF JobTyped, AtWork, V!Deleting
  <2>6. SetsTyped'
    BY <1>1, <2>1, <2>5 DEF SetsTyped
  <2> QED
    BY <1>1, <1>2, <2>1, <2>4, <2>6, EndTyped
<1> QED
  BY <1>4, <1>5, <1>6, <1>7, <1>8, <1>9, <1>10, <1>11, <1>12, <1>13 DEF V!Next, V!Step

-----------------------------------------------------------------------------
(* The cap of open invites: as long as the creations of a user do not      *)
(* overlap, the one that has counted is the only one that can insert.      *)

CapNumbers == Cap \in Nat /\ IsFiniteSet(Ids)

LEMMA CardinalityIs == ASSUME NEW S PROVE V!Cardinality(S) = Cardinality(S)
BY DEF V!Cardinality, Cardinality

Inserting(u) == {q \in Claims : pc[q] = "insert" /\ job[q].who = u}

CapOK(u) ==
  /\ Cardinality(V!Pending(u)) <= Cap
  /\ \A p, q \in Inserting(u) : p = q
  /\ Inserting(u) # {} => Cardinality(V!Pending(u)) < Cap

CapInv == \A u \in Users \ crossed : CapOK(u)

LEMMA PendingIsFinite ==
  ASSUME CapNumbers, NEW u
  PROVE  IsFiniteSet(V!Pending(u)) /\ Cardinality(V!Pending(u)) \in Nat
<1>1. IsFiniteSet(V!Pending(u))
  BY FS_Subset DEF CapNumbers, V!Pending
<1> QED
  BY <1>1, FS_CardinalityType

\* Fewer open invites, and fewer creations under way.
LEMMA CapShrinks ==
  ASSUME CapNumbers, CapInv, crossed' = crossed,
         \A i \in Ids : invites'[i].status = "pending" => invites'[i] = invites[i],
         \A q \in Claims : pc'[q] = "insert" => pc[q] = "insert" /\ job'[q] = job[q]
  PROVE  CapInv'
<1> SUFFICES ASSUME NEW u \in Users \ crossed PROVE CapOK(u)'
  BY DEF CapInv
<1>1. V!Pending(u)' \subseteq V!Pending(u)
  BY DEF V!Pending, V!Creator
<1>2. Inserting(u)' \subseteq Inserting(u)
  BY DEF Inserting
<1>3. CapOK(u)
  BY DEF CapInv
<1>4. /\ Cardinality(V!Pending(u)') <= Cardinality(V!Pending(u))
      /\ Cardinality(V!Pending(u)) \in Nat /\ Cardinality(V!Pending(u)') \in Nat
  <2>1. V!Pending(u)' \in SUBSET V!Pending(u)
    BY <1>1
  <2> HIDE DEF V!Pending
  <2>2. IsFiniteSet(V!Pending(u)') /\ Cardinality(V!Pending(u)') <= Cardinality(V!Pending(u))
    BY <2>1, PendingIsFinite, FS_Subset
  <2> QED
    BY <2>2, PendingIsFinite, FS_CardinalityType
<1> QED
  BY <1>2, <1>3, <1>4 DEF CapOK, CapNumbers

LEMMA InitCap == ASSUME CapNumbers, V!Init PROVE CapInv
<1> SUFFICES ASSUME NEW u \in Users PROVE CapOK(u)
  BY DEF CapInv
<1>1. V!Pending(u) = {} /\ Inserting(u) = {}
  BY DEF V!Init, V!Pending, Inserting, V!NoRow
<1> QED
  BY <1>1, FS_EmptySet DEF CapOK, CapNumbers

LEMMA StartCreateCap ==
  ASSUME CapNumbers, Shape, CapInv, NEW r \in Claims, NEW v \in Users, V!StartCreate(r, v)
  PROVE  CapInv'
<1>1. /\ pc[r] = "idle" /\ pc' = [pc EXCEPT ![r] = "insert"]
      /\ job' = [job EXCEPT ![r] = [who |-> v, invite |-> V!NoId, at |-> now]]
      /\ invites' = invites /\ Cardinality(V!Pending(v)) < Cap
      /\ crossed' = IF Inserting(v) # {} THEN crossed \cup {v} ELSE crossed
  BY CardinalityIs DEF V!StartCreate, V!Begin, V!Go, V!tables, Inserting
<1> SUFFICES ASSUME NEW u \in Users \ crossed' PROVE CapOK(u)'
  BY DEF CapInv
<1>2. u \notin crossed /\ CapOK(u)
  BY <1>1 DEF CapInv
<1>3. V!Pending(u)' = V!Pending(u)
  BY <1>1 DEF V!Pending, V!Creator
<1>4. \A q \in Claims \ {r} : pc'[q] = pc[q] /\ job'[q] = job[q]
  BY <1>1 DEF Shape
<1>5. pc'[r] = "insert" /\ job'[r].who = v
  BY <1>1 DEF Shape
<1>6. CASE u = v
  <2>1. Inserting(u) = {}
    BY <1>1, <1>6
  <2>2. Inserting(u)' \subseteq {r}
    BY <1>4, <2>1 DEF Inserting
  <2> HIDE DEF V!Pending
  <2>3. Cardinality(V!Pending(u)') < Cap
    BY <1>1, <1>3, <1>6
  <2> QED
    BY <1>2, <1>3, <2>2, <2>3 DEF CapOK
<1>7. CASE u # v
  <2>1. Inserting(u)' = Inserting(u)
    BY <1>1, <1>4, <1>5, <1>7 DEF Inserting
  <2> HIDE DEF V!Pending
  <2> QED
    BY <1>2, <1>3, <2>1 DEF CapOK
<1> QED
  BY <1>6, <1>7

LEMMA InsertCap ==
  ASSUME CapNumbers, Shape, CapInv, NEW r \in Claims, NEW i \in Ids, V!InsertInvite(r, i)
  PROVE  CapInv'
<1>1. PICK slot :
        /\ slot.status = "pending" /\ slot.creator = job[r].who
        /\ invites' = [invites EXCEPT ![i] = slot]
  BY DEF V!InsertInvite
<1>2. /\ pc[r] = "insert" /\ pc' = [pc EXCEPT ![r] = "idle"] /\ job' = [job EXCEPT ![r] = V!NoJob]
      /\ invites[i].status = "unborn" /\ crossed' = crossed
  BY DEF V!InsertInvite, V!End, V!Go
<1> SUFFICES ASSUME NEW u \in Users \ crossed PROVE CapOK(u)'
  BY <1>2 DEF CapInv
<1>3. CapOK(u)
  BY DEF CapInv
<1>4. \A q \in Claims \ {r} : pc'[q] = pc[q] /\ job'[q] = job[q]
  BY <1>2 DEF Shape
<1>5. pc'[r] = "idle"
  BY <1>2 DEF Shape
<1>6. invites'[i] = slot /\ \A k \in Ids \ {i} : invites'[k] = invites[k]
  BY <1>1 DEF Shape
<1>7. CASE u = job[r].who
  <2>1. r \in Inserting(u)
    BY <1>2, <1>7 DEF Inserting
  <2>2. Inserting(u)' = {}
    BY <1>3, <1>4, <1>5, <2>1 DEF CapOK, Inserting
  <2>3. V!Pending(u)' = V!Pending(u) \cup {i} /\ i \notin V!Pending(u)
    BY <1>1, <1>2, <1>6, <1>7 DEF V!Pending, V!Creator
  <2>4. Cardinality(V!Pending(u)') = Cardinality(V!Pending(u)) + 1
    <3> HIDE DEF V!Pending
    <3> QED
      BY <2>3, PendingIsFinite, FS_AddElement
  <2> HIDE DEF V!Pending
  <2>5. Cardinality(V!Pending(u)) < Cap /\ Cardinality(V!Pending(u)) \in Nat
    BY <1>3, <2>1, PendingIsFinite DEF CapOK
  <2> QED
    BY <2>2, <2>4, <2>5 DEF CapOK, CapNumbers
<1>8. CASE u # job[r].who
  <2>1. V!Pending(u)' = V!Pending(u)
    BY <1>1, <1>2, <1>6, <1>8 DEF V!Pending, V!Creator
  <2>2. Inserting(u)' = Inserting(u)
    BY <1>2, <1>4, <1>5, <1>8 DEF Inserting
  <2> HIDE DEF V!Pending
  <2> QED
    BY <1>3, <2>1, <2>2 DEF CapOK
<1> QED
  BY <1>7, <1>8

LEMMA NextCap == ASSUME CapNumbers, Shape, CapInv, [V!Next]_(V!vars) PROVE CapInv'
<1>1. ASSUME NEW r \in Claims, NEW where, NEW u, NEW i, V!Begin(r, where, u, i),
             where # "insert", crossed' = crossed
      PROVE  CapInv'
  <2>1. /\ pc' = [pc EXCEPT ![r] = where] /\ invites' = invites
        /\ job' = [job EXCEPT ![r] = [who |-> u, invite |-> i, at |-> now]]
    BY <1>1 DEF V!Begin, V!Go, V!tables
  <2>2. \A q \in Claims : pc'[q] = "insert" => pc[q] = "insert" /\ job'[q] = job[q]
    BY <1>1, <2>1 DEF Shape
  <2> QED
    BY <1>1, <2>1, <2>2, CapShrinks
<1>2. ASSUME NEW r \in Claims, V!Arrive(r) PROVE CapInv'
  <2>1. CASE \E u \in Users : V!StartCreate(r, u)
    BY <2>1, StartCreateCap
  <2>2. CASE \/ \E u \in Users : V!StartDelete(r, u)
             \/ \E i \in Ids : V!StartRevoke(r, i) \/ \E u \in Users : V!StartClaim(r, u, i)
    BY <1>1, <2>2 DEF V!StartDelete, V!StartRevoke, V!StartClaim
  <2> QED
    BY <1>2, <2>1, <2>2 DEF V!Arrive
\* The steps that end a request or take it on, with no invite that becomes open.
<1>3. ASSUME NEW r \in Claims, crossed' = crossed, NEW where, V!Go(r, where), where # "insert",
             job' = job \/ job' = [job EXCEPT ![r] = V!NoJob],
             \A i \in Ids : invites'[i].status = "pending" => invites'[i] = invites[i]
      PROVE  CapInv'
  <2>1. \A q \in Claims : pc'[q] = "insert" => pc[q] = "insert" /\ job'[q] = job[q]
    BY <1>3 DEF V!Go, Shape
  <2> QED
    BY <1>3, <2>1, CapShrinks
<1>4. ASSUME NEW r \in Claims, V!Interrupt(r) \/ V!Notify(r) PROVE CapInv'
  BY <1>3, <1>4 DEF V!Interrupt, V!Notify, V!End, V!tables
<1>5. ASSUME NEW r \in Claims, V!Befriend(r) \/ V!MakeHabit(r) \/ V!InsertChallenge(r) \/ V!MarkClaimed(r)
      PROVE  CapInv'
  <2>1. /\ UNCHANGED <<invites, job, crossed>>
        /\ \E where \in {"habit", "challenge", "mark", "commit"} : V!Go(r, where)
    BY <1>5 DEF V!Befriend, V!MakeHabit, V!InsertChallenge, V!MarkClaimed, V!tables
  <2> QED
    BY <1>3, <2>1
<1>6. ASSUME NEW r \in Claims, V!DropHabits(r) \/ V!DropFriends(r) \/ V!DropChallenges(r) PROVE CapInv'
  <2>1. /\ UNCHANGED <<invites, job, crossed>>
        /\ \E where \in {"dropFriends", "dropChallenges", "dropInvites"} : V!Go(r, where)
    BY <1>6 DEF V!DropHabits, V!DropFriends, V!DropChallenges, V!Drop, V!tables
  <2> QED
    BY <1>3, <2>1
<1>7. ASSUME NEW r \in Claims, V!UpdateRevoked(r) PROVE CapInv'
  <2> DEFINE k == job[r].invite
             slot == IF invites[k].status = "deleted" THEN invites[k] ELSE V!Revoked(invites[k])
  <2>1. invites' = [invites EXCEPT ![k] = slot]
    BY <1>7 DEF V!UpdateRevoked
  <2>2. ASSUME k \in Ids PROVE slot.status # "pending"
    <3>1. ASSUME NEW v, v = invites[k],
                 v = [status |-> v.status, creator |-> v.creator, expires |-> v.expires,
                      by |-> v.by, at |-> v.at]
          PROVE  V!Revoked(v).status # "pending"
      BY <3>1 DEF V!Revoked
    <3>2. invites[k] = [status |-> invites[k].status, creator |-> invites[k].creator,
                        expires |-> invites[k].expires, by |-> invites[k].by, at |-> invites[k].at]
      BY <2>2 DEF Shape
    <3> QED
      BY <3>1, <3>2
  <2> HIDE DEF slot, k
  <2>3. \A i \in Ids : invites'[i].status = "pending" => invites'[i] = invites[i]
    BY <2>1, <2>2 DEF Shape
  <2> QED
    BY <1>3, <1>7, <2>3 DEF V!UpdateRevoked, V!End
<1>8. ASSUME NEW r \in Claims, V!CommitClaim(r) PROVE CapInv'
  <2> DEFINE k == job[r].invite
             slot == [invites[k] EXCEPT !.status = "claimed", !.by = job[r].who, !.at = job[r].at]
  <2>1. invites' = [invites EXCEPT ![k] = slot]
    BY <1>8 DEF V!CommitClaim
  <2>2. ASSUME k \in Ids PROVE slot.status = "claimed"
    BY <2>2 DEF Shape
  <2> HIDE DEF slot, k
  <2>3. \A i \in Ids : invites'[i].status = "pending" => invites'[i] = invites[i]
    BY <2>1, <2>2 DEF Shape
  <2> QED
    BY <1>3, <1>8, <2>3 DEF V!CommitClaim
<1>9. ASSUME NEW r \in Claims, V!DropInvites(r) PROVE CapInv'
  <2>1. \A i \in Ids : invites'[i].status = "pending" => invites'[i] = invites[i]
    <3>1. PICK mine : invites' = [i \in Ids |-> IF i \in mine THEN V!Deleted ELSE invites[i]]
      BY <1>9 DEF V!DropInvites
    <3>2. V!Deleted.status # "pending"
      BY DEF V!Deleted, V!NoRow
    <3> QED
      BY <3>1, <3>2
  <2> QED
    BY <1>3, <1>9, <2>1 DEF V!DropInvites, V!End
<1>10. CASE V!Tick \/ UNCHANGED V!vars
  BY <1>10, CapShrinks DEF V!Tick, V!vars, V!tables
<1> QED
  BY <1>2, <1>4, <1>5, <1>6, <1>7, <1>8, <1>9, <1>10, InsertCap DEF V!Next, V!Step

-----------------------------------------------------------------------------

\* The variables of Invites keep their shape.
THEOREM InviteTypes == ASSUME InviteNumbers PROVE V!Spec => []V!TypeOK
<1>1. V!Init => Typed
  BY InitTyped
<1>2. Inv /\ Typed /\ [V!Next]_(V!vars) => Typed'
  BY NextTyped
<1> QED
  BY <1>1, <1>2, AlwaysInv, TypedIs, PTL DEF V!Spec

\* What the page of an invite offers is what a claim would take (EffectiveInviteStatus of
\* invite_models.go and the switch of ClaimInvite).
THEOREM PageAlwaysRight == ASSUME InviteNumbers PROVE V!Spec => []V!PageIsRight
<1>1. V!TypeOK => V!PageIsRight
  <2> SUFFICES ASSUME V!TypeOK, NEW i \in Ids, NEW u \in Users
               PROVE  V!Claimable(invites[i], u) <=> V!Effective(invites[i]) = "pending" /\ u # V!Creator(i)
    BY DEF V!PageIsRight
  <2>1. now \in Nat /\ invites[i].expires \in Nat
    BY DEF V!TypeOK, InviteNumbers
  <2> QED
    BY <2>1 DEF V!Claimable, V!Effective, V!Creator
<1> QED
  BY <1>1, InviteTypes, PTL

\* A user whose creations never overlapped has at most Cap open invites (CreateInvite, which
\* counts before it inserts).
THEOREM CapIsKept == ASSUME CapNumbers PROVE V!Spec => []V!CapHolds
<1>1. V!Init => CapInv
  BY InitCap
<1>2. Inv /\ CapInv /\ [V!Next]_(V!vars) => CapInv'
  BY NextCap DEF Inv
<1>3. CapInv => V!CapHolds
  BY CardinalityIs DEF CapInv, CapOK, V!CapHolds
<1> QED
  BY <1>1, <1>2, <1>3, AlwaysInv, PTL DEF V!Spec

-----------------------------------------------------------------------------
(* Links: a visitor of a witness link is shown only what was shared during *)
(* the visit, with any number of calls under way.                          *)

LinkItems == [id : LinkIds, token : Nat, habits : SUBSET LinkHabits]
LinkRows  == [state : {"unborn", "active", "revoked"}, token : Nat, habits : SUBSET LinkHabits]
LinkChanges == {"update", "rotate", "revoke"}
LinkCalls == [op : LinkChanges \cup {"create"}, id : LinkIds, habits : SUBSET LinkHabits,
          phase : {"sent", "found", "written", "answered"},
          answer : {"ok", "not_found", "failed"}, token : Nat, old : SUBSET LinkItems]

LinkFetches == [phase : {"idle", "sent", "listed", "answered"}, found : SUBSET LinkItems,
                set : SUBSET LinkItems]
LinkViews == [phase : {"none", "asked", "found", "shown"}, id : LinkIds \cup {L!None}, token : Nat,
              habits : SUBSET LinkHabits, may : SUBSET LinkHabits]

USE DEF LinkFetches, LinkViews

Unborn(id) == rows[id].state = "unborn"

\* The shapes of the variables, as far as the argument needs them.
LinkShape ==
  /\ rows \in [LinkIds -> LinkRows] /\ gone \in SUBSET LinkIds /\ list \in SUBSET LinkItems
  /\ fetch \in LinkFetches
  /\ dialog \in [kind : {"none", "create", "edit"}, id : LinkIds \cup {L!None}, draft : SUBSET LinkHabits]
  /\ dialog.kind = "edit" => dialog.id \in LinkIds
  /\ calls \in Seq(LinkCalls)
  /\ view \in LinkViews

\* A link has no address before it is made, and nothing makes it twice: a creation on its way
\* is the only one, and what a change has found was there.
MadeOnce ==
  /\ \A id \in LinkIds : Unborn(id) => rows[id].token = 0
  /\ \A i \in DOMAIN calls :
       /\ calls[i].op = "create" /\ calls[i].phase = "sent" => Unborn(calls[i].id)
       /\ calls[i].phase \in {"found", "written"} =>
            calls[i].op \in LinkChanges /\ ~Unborn(calls[i].id)
  /\ \A i, j \in DOMAIN calls : calls[i].op = "create" /\ calls[j].op = "create" => i = j

\* A link that was revoked is revoked for good, and what the visit has been given leave to show
\* covers what its next read may find.
Covered ==
  /\ \A id \in gone : rows[id].state = "revoked"
  /\ view.phase # "none" => view.id \in LinkIds /\ ~Unborn(view.id)
  /\ view.phase = "asked" => /\ view.token <= rows[view.id].token
                             /\ L!Opens(rows[view.id], view.token) => rows[view.id].habits \subseteq view.may
  /\ view.phase = "found" => rows[view.id].habits \subseteq view.may
  /\ L!OnlyShared

LinkInv == LinkShape /\ MadeOnce /\ Covered

-----------------------------------------------------------------------------
(* Sequences of calls.                                                     *)

\* What removing one element leaves.
LEMMA Removed ==
  ASSUME NEW S, NEW s \in Seq(S), NEW k \in DOMAIN s
  PROVE  /\ L!RemoveAt(s, k) \in Seq(S)
         /\ Len(L!RemoveAt(s, k)) = Len(s) - 1
         /\ \A j \in DOMAIN L!RemoveAt(s, k) :
              /\ (IF j < k THEN j ELSE j + 1) \in DOMAIN s
              /\ L!RemoveAt(s, k)[j] = s[IF j < k THEN j ELSE j + 1]
<1>1. /\ SubSeq(s, 1, k - 1) \in Seq(S) /\ Len(SubSeq(s, 1, k - 1)) = k - 1
      /\ \A j \in 1 .. (k - 1) : SubSeq(s, 1, k - 1)[j] = s[j]
  OBVIOUS
<1>2. /\ SubSeq(s, k + 1, Len(s)) \in Seq(S) /\ Len(SubSeq(s, k + 1, Len(s))) = Len(s) - k
      /\ \A j \in 1 .. (Len(s) - k) : SubSeq(s, k + 1, Len(s))[j] = s[j + k]
  OBVIOUS
<1>3. /\ Len(s) \in Nat /\ k \in 1 .. Len(s) /\ DOMAIN s = 1 .. Len(s)
  OBVIOUS
<1> DEFINE a == SubSeq(s, 1, k - 1)
           b == SubSeq(s, k + 1, Len(s))
<1>4. L!RemoveAt(s, k) = a \o b
  BY DEF L!RemoveAt
<1> HIDE DEF a, b
<1>5. /\ a \in Seq(S) /\ Len(a) = k - 1 /\ \A j \in 1 .. (k - 1) : a[j] = s[j]
      /\ b \in Seq(S) /\ Len(b) = Len(s) - k /\ \A j \in 1 .. (Len(s) - k) : b[j] = s[j + k]
  BY <1>1, <1>2 DEF a, b
<1>6. /\ a \o b \in Seq(S) /\ Len(a \o b) = Len(s) - 1 /\ DOMAIN (a \o b) = 1 .. (Len(s) - 1)
      /\ \A j \in 1 .. (Len(s) - 1) :
           (a \o b)[j] = IF j <= k - 1 THEN a[j] ELSE b[j - (k - 1)]
  <2>1. /\ a \o b \in Seq(S) /\ Len(a \o b) = Len(a) + Len(b)
        /\ \A j \in 1 .. Len(a) + Len(b) :
             (a \o b)[j] = IF j <= Len(a) THEN a[j] ELSE b[j - Len(a)]
    BY <1>5, ConcatProperties
  <2>2. Len(a) + Len(b) = Len(s) - 1
    BY <1>3, <1>5
  <2>3. DOMAIN (a \o b) = 1 .. Len(a \o b)
    BY <2>1
  <2> QED
    BY <1>5, <2>1, <2>2, <2>3
<1>7. ASSUME NEW j \in 1 .. (Len(s) - 1)
      PROVE  /\ (IF j < k THEN j ELSE j + 1) \in 1 .. Len(s)
             /\ (a \o b)[j] = s[IF j < k THEN j ELSE j + 1]
  <2>1. CASE j < k
    <3>1. j \in 1 .. (k - 1) /\ j <= k - 1 /\ j \in 1 .. Len(s)
      BY <2>1, <1>3
    <3> QED
      BY <2>1, <3>1, <1>5, <1>6
  <2>2. CASE ~(j < k)
    <3>1. j - (k - 1) \in 1 .. (Len(s) - k) /\ j - (k - 1) + k = j + 1
      BY <2>2, <1>3
    <3>2. b[j - (k - 1)] = s[j + 1]
      BY <3>1, <1>5
    <3> QED
      <4>1. ~(j <= k - 1) /\ j + 1 \in 1 .. Len(s)
        BY <2>2, <1>3
      <4> QED
        BY <2>2, <3>2, <4>1, <1>6
  <2> QED
    BY <2>1, <2>2
<1> QED
  BY <1>3, <1>4, <1>6, <1>7

\* One call is changed, the others and their number stay.
LEMMA Changed ==
  ASSUME NEW S, NEW s \in Seq(S), NEW k \in DOMAIN s, NEW e \in S
  PROVE  /\ [s EXCEPT ![k] = e] \in Seq(S)
         /\ DOMAIN [s EXCEPT ![k] = e] = DOMAIN s
  OBVIOUS

LEMMA CallTyped ==
  ASSUME LinkShape, NEW i \in DOMAIN calls
  PROVE  /\ calls \in Seq(LinkCalls) /\ calls[i] \in LinkCalls
         /\ calls[i].id \in LinkIds /\ calls[i].habits \in SUBSET LinkHabits
         /\ calls[i].token \in Nat /\ calls[i].old \in SUBSET LinkItems
         /\ calls[i].op \in LinkChanges \cup {"create"}
<1>1. calls \in Seq(LinkCalls) /\ calls[i] \in LinkCalls
  BY DEF LinkShape
<1> QED
  BY <1>1 DEF LinkCalls

-----------------------------------------------------------------------------
(* A change of a link that exists.                                         *)

\* Whatever changes a row that the visit may still be shown widens its leave: a link never comes
\* back, an address never returns, and the new habits may be shown.
LEMMA ChangeKeeps ==
  ASSUME LinkShape, Covered, \A id \in LinkIds : Unborn(id) => rows[id].token = 0,
         NEW x \in LinkIds, ~Unborn(x), NEW verb \in LinkChanges, NEW ticked \in SUBSET LinkHabits,
         rows' = [rows EXCEPT ![x] = L!After(verb, @, ticked)],
         gone' = L!Ended(verb, x), view' = L!Widened(x)
  PROVE  /\ rows' \in [LinkIds -> LinkRows] /\ gone' \in SUBSET LinkIds
         /\ view' \in LinkViews
         /\ \A id \in LinkIds : Unborn(id)' <=> Unborn(id)
         /\ \A id \in LinkIds : Unborn(id)' => rows'[id].token = 0
         /\ Covered'
<1>1. /\ rows[x] \in LinkRows /\ L!After(verb, rows[x], ticked) \in LinkRows
      /\ L!After(verb, rows[x], ticked).state # "unborn"
      /\ L!After(verb, rows[x], ticked).state = "active" => rows[x].state = "active"
      /\ L!After(verb, rows[x], ticked).token >= rows[x].token
  BY DEF LinkShape, LinkRows, L!After, LinkChanges, Unborn
<1>2. /\ rows' \in [LinkIds -> LinkRows] /\ rows'[x] = L!After(verb, rows[x], ticked)
      /\ \A id \in LinkIds : id # x => rows'[id] = rows[id]
  BY <1>1 DEF LinkShape
<1>3. \A id \in LinkIds : Unborn(id)' <=> Unborn(id)
  BY <1>1, <1>2 DEF Unborn
<1>4. \A id \in LinkIds : Unborn(id)' => rows'[id].token = 0
  BY <1>2, <1>3 DEF Unborn
<1>5. /\ view' \in LinkViews
      /\ view'.phase = view.phase /\ view'.id = view.id /\ view'.token = view.token
      /\ view'.habits = view.habits /\ view.may \subseteq view'.may
      /\ view.id = x /\ ((x \notin gone' /\ rows'[x].token = view.token) \/ view.phase = "found")
           => rows'[x].habits \subseteq view'.may
  BY <1>2 DEF LinkShape, L!Widened, LinkRows
<1>7. gone' \in SUBSET LinkIds /\ \A id \in gone' : rows'[id].state = "revoked"
  <2>1. verb # "revoke" => rows'[x].state = rows[x].state
    BY <1>2 DEF L!After, LinkChanges, LinkShape, LinkRows
  <2>2. verb = "revoke" => rows'[x].state = "revoked"
    BY <1>2 DEF L!After, LinkShape, LinkRows
  <2>3. gone \in SUBSET LinkIds /\ \A id \in gone : rows[id].state = "revoked"
    BY DEF LinkShape, Covered
  <2> QED
    BY <1>2, <2>1, <2>2, <2>3 DEF L!Ended
<1>6. Covered'
  <2>1. view'.phase # "none" => view'.id \in LinkIds /\ ~Unborn(view.id)'
    BY <1>3, <1>5 DEF Covered
  <2>2. ASSUME view'.phase = "asked"
        PROVE  /\ view'.token <= rows'[view'.id].token
               /\ L!Opens(rows'[view'.id], view'.token) => rows'[view'.id].habits \subseteq view'.may
    <3>1. CASE view.id # x
      BY <2>2, <3>1, <1>2, <1>5 DEF Covered
    <3>2. CASE view.id = x
      <4>1. rows[x].token \in Nat /\ rows'[x].token \in Nat /\ view.token \in Nat
        BY <1>1, <1>2 DEF LinkRows, LinkShape
      <4>2. view.token <= rows[x].token
        BY <2>2, <3>2, <1>5 DEF Covered
      <4>3. L!Opens(rows'[x], view.token) => x \notin gone' /\ rows'[x].token = view.token
        BY <1>7 DEF L!Opens
      <4> QED
        BY <3>2, <4>1, <4>2, <4>3, <1>1, <1>2, <1>5
    <3> QED
      BY <3>1, <3>2
  <2>3. view'.phase = "found" => rows'[view'.id].habits \subseteq view'.may
    BY <1>2, <1>5 DEF Covered
  <2>4. view'.habits \subseteq view'.may
    BY <1>5 DEF Covered, L!OnlyShared
  <2> QED
    BY <2>1, <2>2, <2>3, <2>4, <1>5, <1>7 DEF Covered, L!OnlyShared, Unborn
<1> QED
  BY <1>2, <1>3, <1>4, <1>5, <1>6, <1>7

-----------------------------------------------------------------------------
(* The screen, the fetch and the visitor: no row and no call changes.      *)

LEMMA InitLinks == L!Init => LinkInv
<1> SUFFICES ASSUME L!Init PROVE LinkInv
  OBVIOUS
<1>1. PICK live \in SUBSET LinkIds :
        rows = [id \in LinkIds |-> [state |-> IF id \in live THEN "active" ELSE "unborn",
                                token |-> IF id \in live THEN 1 ELSE 0, habits |-> {}]]
  BY DEF L!Init
<1>2. rows \in [LinkIds -> LinkRows] /\ \A id \in LinkIds : Unborn(id) => rows[id].token = 0
  BY <1>1 DEF LinkRows, Unborn
<1>3. list \in SUBSET LinkItems
  BY <1>2 DEF L!Init, L!Item, L!Live, L!Active, LinkItems, LinkRows
<1>4. calls \in Seq(LinkCalls) /\ DOMAIN calls = {} /\ gone = {}
  BY DEF L!Init
<1>5. LinkShape
  BY <1>2, <1>3, <1>4 DEF LinkShape, L!Init, L!NoFetch, L!NoDialog, L!NoView
<1>6. MadeOnce
  BY <1>2, <1>4 DEF MadeOnce
<1>7. Covered
  BY <1>4 DEF L!Init, L!NoView, Covered, L!OnlyShared
<1> QED
  BY <1>5, <1>6, <1>7 DEF LinkInv

\* The steps that leave rows, calls and the visit alone.
LinkScreen ==
  \/ L!OpenCreate \/ L!Close \/ \E item \in list : L!OpenEdit(item)
  \/ \E h \in LinkHabits : L!Toggle(h)
  \/ L!ListLinks \/ L!ListHabits \/ L!Deliver \/ L!FailFetch \/ L!Refresh

LEMMA ScreenInv == LinkInv /\ LinkScreen => LinkInv'
<1> SUFFICES ASSUME LinkInv, LinkScreen PROVE LinkInv'
  OBVIOUS
<1>1. rows' = rows /\ gone' = gone /\ calls' = calls /\ view' = view
  BY DEF LinkScreen, L!OpenCreate, L!Close, L!OpenEdit, L!Toggle, L!ListLinks, L!ListHabits,
     L!Deliver, L!FailFetch, L!Refresh
<1>2. MadeOnce' /\ Covered'
  BY <1>1 DEF LinkInv, MadeOnce, Covered, L!OnlyShared, Unborn
<1>3. LinkShape'
  <2>1. CASE L!OpenCreate \/ L!Close
    BY <2>1, <1>1 DEF LinkInv, LinkShape, L!OpenCreate, L!Close, L!NoDialog
  <2>2. CASE \E item \in list : L!OpenEdit(item)
    BY <2>2, <1>1 DEF LinkInv, LinkShape, L!OpenEdit, LinkItems
  <2>3. CASE \E h \in LinkHabits : L!Toggle(h)
    BY <2>3, <1>1 DEF LinkInv, LinkShape, L!Toggle
  <2>4. CASE L!ListLinks
    <3>1. {L!Item(id) : id \in L!Live} \in SUBSET LinkItems
      BY DEF LinkInv, LinkShape, L!Item, L!Live, LinkItems, LinkRows
    <3> QED
      BY <2>4, <3>1, <1>1 DEF LinkInv, LinkShape, L!ListLinks
  <2>5. CASE L!ListHabits
    <3>1. {[x EXCEPT !.habits = rows[x.id].habits] : x \in fetch.found} \in SUBSET LinkItems
      <4> SUFFICES ASSUME NEW x \in fetch.found
                   PROVE  [x EXCEPT !.habits = rows[x.id].habits] \in LinkItems
        OBVIOUS
      <4>1. x \in LinkItems
        BY DEF LinkInv, LinkShape
      <4>2. rows[x.id].habits \in SUBSET LinkHabits
        BY <4>1 DEF LinkInv, LinkShape, LinkItems, LinkRows
      <4> QED
        BY <4>1, <4>2 DEF LinkItems
    <3>2. fetch' = [phase |-> "answered", found |-> {},
                    set |-> {[x EXCEPT !.habits = rows[x.id].habits] : x \in fetch.found}]
          /\ list' = list /\ dialog' = dialog
      BY <2>5 DEF L!ListHabits
    <3> QED
      BY <3>1, <3>2, <1>1 DEF LinkInv, LinkShape
  <2>6. CASE L!Deliver \/ L!FailFetch \/ L!Refresh
    BY <2>6, <1>1 DEF LinkInv, LinkShape, L!Deliver, L!FailFetch, L!Refresh, L!NoFetch
  <2> QED
    BY <2>1, <2>2, <2>3, <2>4, <2>5, <2>6 DEF LinkScreen
<1> QED
  BY <1>2, <1>3 DEF LinkInv

\* The visitor's steps: the leave is what the row shows when its address is still good.
LinkVisit == (\E id \in LinkIds : L!OpenLink(id)) \/ L!FindByToken \/ L!ReadAllowed

LEMMA VisitInv == LinkInv /\ LinkVisit => LinkInv'
<1> SUFFICES ASSUME LinkInv, LinkVisit PROVE LinkInv'
  OBVIOUS
<1>1. /\ rows' = rows /\ gone' = gone /\ calls' = calls /\ list' = list /\ fetch' = fetch /\ dialog' = dialog
  BY DEF LinkVisit, L!OpenLink, L!FindByToken, L!ReadAllowed
<1>2. MadeOnce'
  BY <1>1 DEF LinkInv, MadeOnce, Unborn
<1>3. CASE \E id \in LinkIds : L!OpenLink(id)
  <2>1. PICK id \in LinkIds : L!OpenLink(id)
    BY <1>3
  <2>2. PICK token \in 1 .. rows[id].token :
          view' = [phase |-> "asked", id |-> id, token |-> token, habits |-> {},
                   may |-> IF id \notin gone /\ rows[id].token = token THEN rows[id].habits ELSE {}]
    BY <2>1 DEF L!OpenLink
  <2>3. rows[id] \in LinkRows /\ rows[id].token > 0 /\ ~Unborn(id) /\ token \in Nat
        /\ token <= rows[id].token
    BY <2>1 DEF LinkInv, LinkShape, LinkRows, MadeOnce, L!OpenLink
  <2>4. LinkShape'
    BY <1>1, <2>2, <2>3 DEF LinkInv, LinkShape, LinkRows
  <2>5. Covered'
    BY <1>1, <2>2, <2>3 DEF LinkInv, Covered, L!OnlyShared, L!Opens, Unborn
  <2> QED
    BY <1>2, <2>4, <2>5 DEF LinkInv
<1>4. CASE L!FindByToken \/ L!ReadAllowed
  <2>1. view.id \in LinkIds /\ ~Unborn(view.id) /\ rows[view.id] \in LinkRows
    BY <1>4 DEF LinkInv, Covered, LinkShape, L!FindByToken, L!ReadAllowed
  <2>2. LinkShape'
    BY <1>1, <1>4, <2>1 DEF LinkInv, LinkShape, L!FindByToken, L!ReadAllowed, LinkRows
  <2>3. Covered'
    BY <1>1, <1>4, <2>1 DEF LinkInv, LinkShape, Covered, L!OnlyShared, L!FindByToken,
       L!ReadAllowed, Unborn
  <2> QED
    BY <1>2, <2>2, <2>3 DEF LinkInv
<1> QED
  BY <1>3, <1>4 DEF LinkVisit

-----------------------------------------------------------------------------
(* The calls.                                                              *)

\* A call is appended; a creation only when there is none, for a link that is not there.
LEMMA SendInv ==
  ASSUME LinkInv, NEW verb \in LinkChanges \cup {"create"}, NEW id \in LinkIds, NEW ticked \in SUBSET LinkHabits,
         L!Send(verb, id, ticked), verb = "create" => Unborn(id) /\ ~L!Pending("create"),
         rows' = rows, gone' = gone, view' = view, dialog' = dialog,
         list' \in SUBSET LinkItems,
         fetch' \in LinkFetches
  PROVE  LinkInv'
<1> DEFINE c == [op |-> verb, id |-> id, habits |-> ticked, phase |-> "sent", answer |-> "ok",
                 token |-> 0, old |-> list]
<1>1. c \in LinkCalls /\ c.op = verb /\ c.id = id /\ c.phase = "sent"
  BY DEF LinkCalls, LinkInv, LinkShape
<1>2. calls' = Append(calls, c)
  BY DEF L!Send
<1> HIDE DEF c
<1>3. /\ calls' \in Seq(LinkCalls) /\ DOMAIN calls = 1 .. Len(calls) /\ Len(calls) \in Nat
      /\ DOMAIN calls' = 1 .. (Len(calls) + 1) /\ calls'[Len(calls) + 1] = c
      /\ \A i \in DOMAIN calls : calls'[i] = calls[i]
  BY <1>1, <1>2 DEF LinkInv, LinkShape
<1>4. LinkShape'
  BY <1>3 DEF LinkInv, LinkShape
<1>5. \A x \in LinkIds : Unborn(x)' <=> Unborn(x)
  BY DEF Unborn
<1>6. MadeOnce'
  <2>1. \A i \in DOMAIN calls' : i \in DOMAIN calls \/ i = Len(calls) + 1
    BY <1>3
  <2>2. ASSUME NEW i \in DOMAIN calls'
        PROVE  /\ calls'[i].op = "create" /\ calls'[i].phase = "sent" => Unborn(calls'[i].id)
               /\ calls'[i].phase \in {"found", "written"} =>
                    calls'[i].op \in LinkChanges /\ ~Unborn(calls'[i].id)
    <3>1. CASE i \in DOMAIN calls
      BY <3>1, <1>3 DEF LinkInv, MadeOnce
    <3>2. CASE i = Len(calls) + 1
      BY <3>2, <1>1, <1>3
    <3> QED
      BY <2>1, <3>1, <3>2
  <2>3. ASSUME NEW i \in DOMAIN calls', NEW j \in DOMAIN calls',
               calls'[i].op = "create", calls'[j].op = "create"
        PROVE  i = j
    <3>1. CASE i \in DOMAIN calls /\ j \in DOMAIN calls
      <4>1. calls[i].op = "create" /\ calls[j].op = "create"
        BY <2>3, <3>1, <1>3
      <4> QED
        BY <3>1, <4>1 DEF LinkInv, MadeOnce
    <3>2. CASE i = Len(calls) + 1 /\ j = Len(calls) + 1
      BY <3>2
    <3>3. CASE i \in DOMAIN calls /\ j = Len(calls) + 1
      <4>1. calls[i].op = "create" /\ verb = "create"
        BY <2>3, <3>3, <1>1, <1>3
      <4> QED
        BY <3>3, <4>1 DEF L!Pending
    <3>4. CASE j \in DOMAIN calls /\ i = Len(calls) + 1
      <4>1. calls[j].op = "create" /\ verb = "create"
        BY <2>3, <3>4, <1>1, <1>3
      <4> QED
        BY <3>4, <4>1 DEF L!Pending
    <3> QED
      BY <2>1, <3>1, <3>2, <3>3, <3>4
  <2>4. \A x \in LinkIds : rows'[x] = rows[x]
    OBVIOUS
  <2> QED
    BY <2>2, <2>3, <2>4 DEF LinkInv, MadeOnce, Unborn
<1>7. Covered'
  BY DEF LinkInv, Covered, L!OnlyShared, Unborn
<1> QED
  BY <1>4, <1>6, <1>7 DEF LinkInv

LinkSending ==
  \/ \E id \in LinkIds : L!Create(id)
  \/ L!Update
  \/ \E item \in list : L!Rotate(item) \/ L!Revoke(item)

LEMMA SendingInv == LinkInv /\ LinkSending => LinkInv'
<1> SUFFICES ASSUME LinkInv, LinkSending PROVE LinkInv'
  OBVIOUS
<1>1. ASSUME NEW id \in LinkIds, L!Create(id) PROVE LinkInv'
  <2>1. dialog.draft \in SUBSET LinkHabits
    BY DEF LinkInv, LinkShape
  <2>2. Unborn(id) /\ ~L!Pending("create") /\ L!Send("create", id, dialog.draft)
        /\ rows' = rows /\ gone' = gone /\ view' = view /\ dialog' = dialog /\ list' = list /\ fetch' = fetch
    BY <1>1 DEF L!Create, Unborn
  <2> QED
    BY <2>1, <2>2, SendInv DEF LinkInv, LinkShape
<1>2. ASSUME L!Update PROVE LinkInv'
  <2>1. dialog.draft \in SUBSET LinkHabits /\ dialog.id \in LinkIds
    BY <1>2 DEF LinkInv, LinkShape, L!Update
  <2>2. L!Send("update", dialog.id, dialog.draft)
        /\ rows' = rows /\ gone' = gone /\ view' = view /\ dialog' = dialog /\ list' = list /\ fetch' = fetch
    BY <1>2 DEF L!Update
  <2>3. "update" \in LinkChanges \cup {"create"} /\ "update" # "create"
    BY DEF LinkChanges
  <2> QED
    BY <2>1, <2>2, <2>3, SendInv DEF LinkInv, LinkShape
<1>3. ASSUME NEW item \in list, L!Rotate(item) PROVE LinkInv'
  <2>1. item.id \in LinkIds /\ {} \in SUBSET LinkHabits
    BY DEF LinkInv, LinkShape, LinkItems
  <2>2. L!Send("rotate", item.id, {})
        /\ rows' = rows /\ gone' = gone /\ view' = view /\ dialog' = dialog /\ list' = list /\ fetch' = fetch
    BY <1>3 DEF L!Rotate
  <2>3. "rotate" \in LinkChanges \cup {"create"} /\ "rotate" # "create"
    BY DEF LinkChanges
  <2> QED
    BY <2>1, <2>2, <2>3, SendInv DEF LinkInv, LinkShape
<1>4. ASSUME NEW item \in list, L!Revoke(item) PROVE LinkInv'
  <2>1. item.id \in LinkIds /\ {} \in SUBSET LinkHabits
    BY DEF LinkInv, LinkShape, LinkItems
  <2>2. L!Send("revoke", item.id, {})
        /\ rows' = rows /\ gone' = gone /\ view' = view /\ dialog' = dialog /\ fetch' = L!NoFetch
        /\ list' \in SUBSET LinkItems
    BY <1>4 DEF L!Revoke, LinkInv, LinkShape
  <2>3. "revoke" \in LinkChanges \cup {"create"} /\ "revoke" # "create"
    BY DEF LinkChanges
  <2>4. L!NoFetch \in LinkFetches
    BY DEF L!NoFetch
  <2> QED
    BY <2>1, <2>2, <2>3, <2>4, SendInv
<1> QED
  BY <1>1, <1>2, <1>3, <1>4 DEF LinkSending

\* One call moves on: a creation is answered at once, a change goes on with what it found.
LEMMA Marked ==
  ASSUME LinkInv, NEW i \in DOMAIN calls, NEW e \in LinkCalls,
         calls' = [calls EXCEPT ![i] = e], e.op = calls[i].op,
         e.op = "create" => e.phase = "answered",
         e.phase # "sent",
         e.phase \in {"found", "written"} => e.op \in LinkChanges /\ rows'[e.id].state # "unborn",
         \A id \in LinkIds : Unborn(id)' => Unborn(id) /\ rows'[id].token = 0,
         e.op = "create" \/ \A id \in LinkIds : Unborn(id) => Unborn(id)'
  PROVE  calls' \in Seq(LinkCalls) /\ MadeOnce'
<1>1. /\ calls' \in Seq(LinkCalls) /\ DOMAIN calls' = DOMAIN calls /\ calls'[i] = e
      /\ \A j \in DOMAIN calls : j # i => calls'[j] = calls[j]
      /\ \A j \in DOMAIN calls : calls[j] \in LinkCalls /\ calls'[j].op = calls[j].op
  BY Changed DEF LinkInv, LinkShape
<1>2. ASSUME NEW j \in DOMAIN calls
      PROVE  /\ calls'[j].op = "create" /\ calls'[j].phase = "sent" => rows'[calls'[j].id].state = "unborn"
             /\ calls'[j].phase \in {"found", "written"} =>
                  calls'[j].op \in LinkChanges /\ rows'[calls'[j].id].state # "unborn"
  <2>1. CASE j = i
    BY <2>1, <1>1
  <2>2. CASE j # i
    <3>1. calls'[j] = calls[j] /\ calls[j].id \in LinkIds
      BY <2>2, <1>1 DEF LinkCalls
    <3>2. ASSUME calls[j].op = "create", calls[j].phase = "sent" PROVE rows'[calls[j].id].state = "unborn"
      <4>1. Unborn(calls[j].id) /\ e.op # "create"
        BY <2>2, <3>2, <1>1 DEF LinkInv, MadeOnce
      <4> QED
        BY <3>1, <4>1 DEF Unborn
    <3>3. ASSUME calls[j].phase \in {"found", "written"}
          PROVE  calls[j].op \in LinkChanges /\ rows'[calls[j].id].state # "unborn"
      <4>1. calls[j].op \in LinkChanges /\ ~Unborn(calls[j].id)
        BY <3>1, <3>3 DEF LinkInv, MadeOnce
      <4> QED
        BY <3>1, <3>3, <4>1 DEF LinkInv, MadeOnce, Unborn
    <3> QED
      BY <3>1, <3>2, <3>3
  <2> QED
    BY <2>1, <2>2
<1>3. \A j, k \in DOMAIN calls' : calls'[j].op = "create" /\ calls'[k].op = "create" => j = k
  BY <1>1 DEF LinkInv, MadeOnce
<1> QED
  BY <1>1, <1>2, <1>3 DEF MadeOnce, Unborn

LEMMA FindInv == ASSUME LinkInv, NEW i \in DOMAIN calls, L!Find(i) PROVE LinkInv'
<1> DEFINE c == calls[i]
<1>1. /\ c \in LinkCalls /\ c.id \in LinkIds /\ c.phase = "sent" /\ view' = view /\ list' = list
      /\ gone' = gone /\ fetch' = fetch /\ dialog' = dialog
  BY CallTyped DEF LinkInv, L!Find
<1>2. CASE c.op = "create"
  <2> DEFINE e == [c EXCEPT !.phase = "answered", !.token = 1]
  <2>1. /\ rows' = [rows EXCEPT ![c.id] = [state |-> "active", token |-> 1, habits |-> c.habits]]
        /\ calls' = [calls EXCEPT ![i].phase = "answered", ![i].token = 1]
    BY <1>2 DEF L!Find
  <2>2. calls' = [calls EXCEPT ![i] = e] /\ e \in LinkCalls /\ e.op = c.op /\ e.phase = "answered"
    BY <1>1, <2>1 DEF LinkInv, LinkShape, LinkCalls
  <2>3. Unborn(c.id)
    BY <1>1, <1>2 DEF LinkInv, MadeOnce
  <2>4. rows' \in [LinkIds -> LinkRows]
    BY <1>1, <2>1 DEF LinkInv, LinkShape, LinkRows, LinkCalls
  <2>5. /\ rows'[c.id].state # "unborn" /\ \A id \in LinkIds : id # c.id => rows'[id] = rows[id]
    BY <1>1, <2>1 DEF LinkInv, LinkShape, Unborn
  <2>6. \A id \in LinkIds : Unborn(id)' => Unborn(id) /\ rows'[id].token = 0
    BY <2>5 DEF LinkInv, MadeOnce, Unborn
  <2>7. calls' \in Seq(LinkCalls) /\ MadeOnce'
    <3> HIDE DEF e
    <3> QED
      BY <1>2, <2>2, <2>6, Marked
  <2>8. view.phase # "none" => view.id # c.id /\ view.id \in LinkIds
    BY <2>3 DEF LinkInv, Covered
  <2>9. Covered'
    BY <1>1, <2>3, <2>5, <2>8 DEF LinkInv, LinkShape, Covered, L!OnlyShared, Unborn
  <2> QED
    BY <1>1, <2>4, <2>7, <2>9 DEF LinkInv, LinkShape
<1>3. CASE c.op # "create"
  <2>1. /\ rows' = rows
        /\ \/ L!Active(c.id) /\ calls' = [calls EXCEPT ![i].phase = "found"]
           \/ calls' = [calls EXCEPT ![i].phase = "answered", ![i].answer = "not_found"]
    BY <1>3 DEF L!Find
  <2>2. c.op \in LinkChanges
    BY <1>1, <1>3 DEF LinkCalls
  <2>3. PICK e \in LinkCalls : /\ calls' = [calls EXCEPT ![i] = e] /\ e.op = c.op /\ e.id = c.id
                               /\ \/ e.phase = "answered"
                                  \/ e.phase = "found" /\ L!Active(c.id)
    <3>1. CASE L!Active(c.id) /\ calls' = [calls EXCEPT ![i].phase = "found"]
      <4>1. [c EXCEPT !.phase = "found"] \in LinkCalls
        BY <1>1 DEF LinkCalls
      <4> QED
        BY <3>1, <4>1, <1>1 DEF LinkInv, LinkShape, LinkCalls
    <3>2. CASE calls' = [calls EXCEPT ![i].phase = "answered", ![i].answer = "not_found"]
      <4>1. [c EXCEPT !.phase = "answered", !.answer = "not_found"] \in LinkCalls
        BY <1>1 DEF LinkCalls
      <4> QED
        BY <3>2, <4>1, <1>1 DEF LinkInv, LinkShape, LinkCalls
    <3> QED
      BY <2>1, <3>1, <3>2
  <2>4. /\ \A id \in LinkIds : Unborn(id)' => Unborn(id) /\ rows'[id].token = 0
        /\ \A id \in LinkIds : Unborn(id) => Unborn(id)'
    BY <2>1 DEF LinkInv, MadeOnce, Unborn
  <2>5. /\ e.phase # "sent" /\ e.op = calls[i].op /\ e.op # "create"
        /\ e.phase \in {"found", "written"} => e.op \in LinkChanges /\ rows'[e.id].state # "unborn"
    BY <1>1, <1>3, <2>1, <2>2, <2>3 DEF L!Active, Unborn
  <2>6. calls' \in Seq(LinkCalls) /\ MadeOnce'
    BY <2>3, <2>4, <2>5, Marked
  <2>7. Covered'
    BY <1>1, <2>1 DEF LinkInv, Covered, L!OnlyShared, Unborn
  <2> QED
    BY <1>1, <2>1, <2>6, <2>7 DEF LinkInv, LinkShape
<1> QED
  BY <1>2, <1>3

LEMMA WriteLinks == ASSUME LinkInv, NEW i \in DOMAIN calls, L!Write(i) PROVE LinkInv'
<1> DEFINE c == calls[i]
           e == [c EXCEPT !.phase = IF c.op = "rotate" THEN "written" ELSE "answered",
                          !.token = rows'[c.id].token]
<1>1. /\ c \in LinkCalls /\ c.id \in LinkIds /\ c.habits \in SUBSET LinkHabits /\ c.phase = "found"
      /\ list' = list /\ fetch' = fetch /\ dialog' = dialog /\ view' = L!Widened(c.id)
      /\ gone' = L!Ended(c.op, c.id)
      /\ rows' = [rows EXCEPT ![c.id] = L!After(c.op, @, c.habits)]
      /\ calls' = [calls EXCEPT ![i].phase = IF c.op = "rotate" THEN "written" ELSE "answered",
                                ![i].token = rows'[c.id].token]
  BY CallTyped DEF LinkInv, L!Write
<1>2. c.op \in LinkChanges /\ ~Unborn(c.id)
  BY <1>1 DEF LinkInv, MadeOnce
<1>3. /\ rows' \in [LinkIds -> LinkRows] /\ gone' \in SUBSET LinkIds
      /\ view' \in LinkViews
      /\ \A id \in LinkIds : Unborn(id)' <=> Unborn(id)
      /\ \A id \in LinkIds : Unborn(id)' => rows'[id].token = 0
      /\ Covered'
  <2> HIDE DEF c
  <2>1. \A id \in LinkIds : Unborn(id) => rows[id].token = 0
    BY DEF LinkInv, MadeOnce
  <2> QED
    BY <1>1, <1>2, <2>1, ChangeKeeps DEF LinkInv
<1>4. /\ e \in LinkCalls /\ calls' = [calls EXCEPT ![i] = e] /\ e.op = c.op /\ e.id = c.id
      /\ e.phase # "sent"
  <2>1. rows'[c.id].token \in Nat
    BY <1>1, <1>3 DEF LinkRows
  <2> QED
    BY <1>1, <2>1 DEF LinkInv, LinkShape, LinkCalls
<1>5. calls' \in Seq(LinkCalls) /\ MadeOnce'
  <2>1. e.op # "create" /\ rows'[e.id].state # "unborn"
    BY <1>1, <1>2, <1>3, <1>4 DEF LinkChanges, Unborn
  <2> HIDE DEF e
  <2> QED
    BY <1>2, <1>3, <1>4, <2>1, Marked
<1> QED
  BY <1>1, <1>3, <1>5 DEF LinkInv, LinkShape

\* ReadHabits and Lose change no row.
LEMMA AnswerInv == ASSUME LinkInv, NEW i \in DOMAIN calls, L!ReadHabits(i) \/ L!Lose(i) PROVE LinkInv'
<1> DEFINE c == calls[i]
<1>1. /\ c \in LinkCalls /\ c.id \in LinkIds
      /\ rows' = rows /\ gone' = gone /\ view' = view /\ list' = list /\ fetch' = fetch /\ dialog' = dialog
  BY CallTyped DEF LinkInv, L!ReadHabits, L!Lose
<1>2. PICK e \in LinkCalls : calls' = [calls EXCEPT ![i] = e] /\ e.op = c.op /\ e.phase = "answered"
  <2>1. CASE L!ReadHabits(i)
    <3>1. rows[c.id].habits \in SUBSET LinkHabits
      BY <1>1 DEF LinkInv, LinkShape, LinkRows
    <3>2. [c EXCEPT !.phase = "answered", !.habits = rows[c.id].habits] \in LinkCalls
      BY <3>1, <1>1 DEF LinkCalls
    <3> QED
      BY <2>1, <3>2, <1>1 DEF LinkInv, LinkShape, LinkCalls, L!ReadHabits
  <2>2. CASE L!Lose(i)
    <3>2. [c EXCEPT !.phase = "answered", !.answer = "failed"] \in LinkCalls
      BY <1>1 DEF LinkCalls
    <3> QED
      BY <2>2, <3>2, <1>1 DEF LinkInv, LinkShape, LinkCalls, L!Lose
  <2> QED
    BY <2>1, <2>2
<1>3. /\ \A id \in LinkIds : Unborn(id)' => Unborn(id) /\ rows'[id].token = 0
      /\ \A id \in LinkIds : Unborn(id) => Unborn(id)'
  BY <1>1 DEF LinkInv, MadeOnce, Unborn
<1>4. calls' \in Seq(LinkCalls) /\ MadeOnce'
  <2>1. e.op = calls[i].op /\ e.phase = "answered" /\ calls' = [calls EXCEPT ![i] = e]
    BY <1>2
  <2> QED
    BY <2>1, <1>3, Marked
<1>5. Covered'
  BY <1>1 DEF LinkInv, Covered, L!OnlyShared, Unborn
<1> QED
  BY <1>1, <1>4, <1>5 DEF LinkInv, LinkShape

\* A call that is over is removed.
LEMMA EndLinks == ASSUME LinkInv, NEW i \in DOMAIN calls, L!End(i) PROVE LinkInv'
<1> DEFINE c == calls[i]
<1>1. /\ c \in LinkCalls /\ calls' = L!RemoveAt(calls, i) /\ rows' = rows /\ gone' = gone /\ view' = view
      /\ calls \in Seq(LinkCalls)
  BY DEF LinkInv, LinkShape, L!End
<1>2. /\ calls' \in Seq(LinkCalls) /\ Len(calls') \in Nat
      /\ \A j \in DOMAIN calls' : /\ (IF j < i THEN j ELSE j + 1) \in DOMAIN calls
                                  /\ calls'[j] = calls[IF j < i THEN j ELSE j + 1]
  <2>1. /\ L!RemoveAt(calls, i) \in Seq(LinkCalls)
        /\ \A j \in DOMAIN L!RemoveAt(calls, i) :
             /\ (IF j < i THEN j ELSE j + 1) \in DOMAIN calls
             /\ L!RemoveAt(calls, i)[j] = calls[IF j < i THEN j ELSE j + 1]
    BY <1>1, Removed
  <2>2. L!RemoveAt(calls, i) = calls'
    BY <1>1
  <2> QED
    BY <2>1, <2>2
<1>3. i \in Nat /\ DOMAIN calls' \subseteq Nat
  BY <1>1, <1>2
<1>4. MadeOnce'
  <2>1. \A j \in DOMAIN calls' :
          /\ calls'[j].op = "create" /\ calls'[j].phase = "sent" => Unborn(calls'[j].id)
          /\ calls'[j].phase \in {"found", "written"} =>
               calls'[j].op \in LinkChanges /\ ~Unborn(calls'[j].id)
    BY <1>2 DEF LinkInv, MadeOnce
  <2>2. ASSUME NEW j \in DOMAIN calls', NEW k \in DOMAIN calls',
               calls'[j].op = "create", calls'[k].op = "create"
        PROVE  j = k
    <3>1. (IF j < i THEN j ELSE j + 1) = (IF k < i THEN k ELSE k + 1)
      BY <2>2, <1>2 DEF LinkInv, MadeOnce
    <3>2. j \in Nat /\ k \in Nat /\ i \in Nat
      BY <1>3
    <3> QED
      BY <3>1, <3>2
  <2> QED
    BY <1>1, <2>1, <2>2 DEF LinkInv, MadeOnce, Unborn
<1>5. list' \in SUBSET LinkItems
  <2>1. [id |-> c.id, token |-> c.token, habits |-> c.habits] \in LinkItems /\ c.old \in SUBSET LinkItems
    BY <1>1 DEF LinkCalls, LinkItems
  <2>2. L!Patched(c) \in SUBSET LinkItems
    BY <2>1 DEF LinkInv, LinkShape, L!Patched
  <2>3. list' = L!Patched(c) \/ list' = c.old \/ list' = list
    BY DEF L!End
  <2> QED
    BY <2>1, <2>2, <2>3 DEF LinkInv, LinkShape
<1>6. /\ fetch' = fetch \/ fetch' = [L!NoFetch EXCEPT !.phase = "sent"]
      /\ dialog' = dialog \/ dialog' = L!NoDialog
  BY DEF L!End
<1>7. LinkShape'
  <2>1. fetch' \in LinkFetches
    BY <1>6 DEF LinkInv, LinkShape, L!NoFetch
  <2> QED
    BY <1>1, <1>2, <1>5, <1>6, <2>1 DEF LinkInv, LinkShape, L!NoDialog
<1>8. Covered'
  BY <1>1 DEF LinkInv, Covered, L!OnlyShared, Unborn
<1> QED
  BY <1>4, <1>7, <1>8 DEF LinkInv

\* Another device changes a link that is there.
LEMMA ElsewhereInv == ASSUME LinkInv, NEW id \in LinkIds, L!Elsewhere(id) PROVE LinkInv'
<1>1. /\ ~Unborn(id) /\ view' = L!Widened(id)
      /\ list' = list /\ fetch' = fetch /\ dialog' = dialog /\ calls' = calls
  BY DEF L!Elsewhere, L!Active, Unborn
<1>2. PICK verb \in LinkChanges, ticked \in SUBSET LinkHabits :
        rows' = [rows EXCEPT ![id] = L!After(verb, @, ticked)] /\ gone' = L!Ended(verb, id)
  BY DEF L!Elsewhere, LinkChanges
<1>3. \A x \in LinkIds : Unborn(x) => rows[x].token = 0
  BY DEF LinkInv, MadeOnce
<1>4. /\ rows' \in [LinkIds -> LinkRows] /\ gone' \in SUBSET LinkIds
      /\ view' \in LinkViews
      /\ \A x \in LinkIds : Unborn(x)' <=> Unborn(x)
      /\ \A x \in LinkIds : Unborn(x)' => rows'[x].token = 0
      /\ Covered'
  BY <1>1, <1>2, <1>3, ChangeKeeps DEF LinkInv
<1>5. \A j \in DOMAIN calls : calls[j].id \in LinkIds
  BY CallTyped DEF LinkInv
<1>6. MadeOnce'
  BY <1>1, <1>4, <1>5 DEF LinkInv, MadeOnce, Unborn
<1> QED
  BY <1>1, <1>4, <1>6 DEF LinkInv, LinkShape

-----------------------------------------------------------------------------
(* The theorem.                                                            *)

LEMMA NextLinks == LinkInv /\ [L!Next]_L!vars => LinkInv'
<1> SUFFICES ASSUME LinkInv, [L!Next]_L!vars PROVE LinkInv'
  OBVIOUS
<1>1. CASE UNCHANGED L!vars
  BY <1>1 DEF L!vars, LinkInv, LinkShape, MadeOnce, Covered, L!OnlyShared, Unborn
<1>2. CASE L!Next
  <2>1. \/ LinkScreen \/ LinkVisit \/ LinkSending
        \/ \E id \in LinkIds : L!Elsewhere(id)
        \/ \E i \in DOMAIN calls : L!Find(i) \/ L!Write(i) \/ L!ReadHabits(i) \/ L!Lose(i) \/ L!End(i)
    BY <1>2 DEF L!Next, LinkScreen, LinkVisit, LinkSending
  <2> QED
    BY <2>1, ScreenInv, VisitInv, SendingInv, ElsewhereInv, FindInv, WriteLinks, AnswerInv, EndLinks
<1> QED
  BY <1>1, <1>2

\* What a visitor of a witness link is shown was on the link's list at a time of the visit when
\* the address was good, or since the look-up had let the visitor in, and nothing is shown of a
\* link revoked or given a new address before the visit: findWitnessLinkByToken and the read of
\* the list against update, rotate and revoke, each a look-up and a statement.
THEOREM VisitorSeesOnlyShared == L!Spec => []L!OnlyShared
<1>1. L!Init => LinkInv
  BY InitLinks
<1>2. LinkInv /\ [L!Next]_L!vars => LinkInv'
  BY NextLinks
<1>3. LinkInv => L!OnlyShared
  BY DEF LinkInv, Covered
<1> QED
  BY <1>1, <1>2, <1>3, PTL DEF L!Spec

-----------------------------------------------------------------------------
(* Links: the owner's list is true once nothing is under way.  Whatever    *)
(* changes a link either is still in flight or made the client blind, and  *)
(* every call that ends is followed by a fetch.                            *)

LiveLinks == {L!Item(id) : id \in L!Live}

\* With no call in flight, what is shown and what a fetch brings is what the server has.
LinksTrue ==
  calls = <<>> /\ ~blind =>
    /\ fetch.phase = "idle" => list = LiveLinks
    /\ fetch.phase = "listed" => fetch.found = LiveLinks
    /\ fetch.phase = "answered" => fetch.set = LiveLinks

\* A step that leaves all of it alone, or is of a call that stays in flight.
LEMMA LinksUntouched ==
  ASSUME LinksTrue, rows' = rows, list' = list, fetch' = fetch, blind' = blind, calls' = calls
  PROVE  LinksTrue'
BY DEF LinksTrue, LiveLinks, L!Item, L!Live, L!Active

LEMMA LinksCalled == ASSUME calls' # <<>> PROVE LinksTrue'
BY DEF LinksTrue

LEMMA LinksFetched ==
  ASSUME LinksTrue, L!ListLinks \/ L!ListHabits \/ L!Deliver \/ L!FailFetch \/ L!Refresh
  PROVE  LinksTrue'
<1>1. LiveLinks' = LiveLinks /\ calls' = calls
  BY DEF L!ListLinks, L!ListHabits, L!Deliver, L!FailFetch, L!Refresh, LiveLinks, L!Item, L!Live, L!Active
<1>2. CASE L!ListLinks
  BY <1>1, <1>2 DEF L!ListLinks, LinksTrue, LiveLinks
<1>3. CASE L!ListHabits
  <2>1. ASSUME fetch.found = LiveLinks
        PROVE  {[x EXCEPT !.habits = rows[x.id].habits] : x \in fetch.found} = LiveLinks
    BY <2>1 DEF LiveLinks, L!Item
  <2> QED
    BY <1>1, <1>3, <2>1 DEF L!ListHabits, LinksTrue
<1>4. CASE L!Deliver
  BY <1>1, <1>4 DEF L!Deliver, LinksTrue, L!NoFetch
<1>5. CASE L!FailFetch
  BY <1>5 DEF L!FailFetch, LinksTrue
<1>6. CASE L!Refresh
  BY <1>6 DEF L!Refresh, LinksTrue, L!NoFetch
<1> QED
  BY <1>2, <1>3, <1>4, <1>5, <1>6

LEMMA LinksEnded ==
  ASSUME LinkShape, LinksTrue, NEW i \in DOMAIN calls, L!End(i)
  PROVE  LinksTrue'
BY DEF L!End, L!Settles, L!NoFetch, LinksTrue

LEMMA NextLinksTrue == LinkInv /\ LinksTrue /\ [L!Next]_L!vars => LinksTrue'
<1> SUFFICES ASSUME LinkInv, LinksTrue, [L!Next]_L!vars PROVE LinksTrue'
  OBVIOUS
<1>0. calls \in Seq(LinkCalls)
  BY DEF LinkInv, LinkShape
<1>1. CASE UNCHANGED L!vars
  BY <1>1, LinksUntouched DEF L!vars
<1>2. CASE L!OpenCreate \/ L!Close \/ (\E item \in list : L!OpenEdit(item))
           \/ (\E h \in LinkHabits : L!Toggle(h))
  BY <1>2, LinksUntouched DEF L!OpenCreate, L!Close, L!OpenEdit, L!Toggle
<1>3. CASE (\E id \in LinkIds : L!OpenLink(id)) \/ L!FindByToken \/ L!ReadAllowed
  BY <1>3, LinksUntouched DEF L!OpenLink, L!FindByToken, L!ReadAllowed
<1>4. CASE LinkSending
  <2>1. \E c : calls' = Append(calls, c)
    BY <1>4 DEF LinkSending, L!Create, L!Update, L!Rotate, L!Revoke, L!Send
  <2>2. ASSUME NEW c PROVE Append(calls, c) # <<>>
    <3>1. DOMAIN Append(calls, c) = 1 .. Len(calls) + 1 /\ Len(calls) \in Nat
      BY <1>0
    <3> QED
      BY <3>1
  <2> QED
    BY <2>1, <2>2, LinksCalled
<1>5. CASE \E id \in LinkIds : L!Elsewhere(id)
  BY <1>5 DEF L!Elsewhere, LinksTrue
<1>6. CASE \E i \in DOMAIN calls : L!Find(i) \/ L!Write(i) \/ L!ReadHabits(i) \/ L!Lose(i)
  <2>1. PICK i \in DOMAIN calls : L!Find(i) \/ L!Write(i) \/ L!ReadHabits(i) \/ L!Lose(i)
    BY <1>6
  <2>2. DOMAIN calls' = DOMAIN calls
    BY <2>1 DEF L!Find, L!Write, L!ReadHabits, L!Lose
  <2>3. calls' # <<>>
    BY <2>1, <2>2
  <2> QED
    BY <2>3, LinksCalled
<1>7. CASE \E i \in DOMAIN calls : L!End(i)
  BY <1>7, LinksEnded DEF LinkInv
<1>8. CASE L!ListLinks \/ L!ListHabits \/ L!Deliver \/ L!FailFetch \/ L!Refresh
  BY <1>8, LinksFetched
<1> QED
  BY <1>1, <1>2, <1>3, <1>4, <1>5, <1>6, <1>7, <1>8 DEF L!Next, LinkSending

\* Once nothing is under way the owner's list of witness links is the server's
\* (useWitnessLinks.ts), whatever order the calls and their answers came in and whichever were
\* lost, unless another device changed a link or a fetch failed.
THEOREM LinksListIsTrue == L!Spec => []L!Truthful
<1>1. L!Init => LinksTrue
  BY DEF L!Init, LinksTrue, LiveLinks, L!NoFetch
<1>2. LinkInv /\ LinksTrue /\ [L!Next]_L!vars => LinksTrue'
  BY NextLinksTrue
<1>3. LinksTrue => L!Truthful
  BY DEF LinksTrue, L!Truthful, L!NoFetch, LiveLinks
<1>4. L!Init => LinkInv
  BY InitLinks
<1>5. LinkInv /\ [L!Next]_L!vars => LinkInv'
  BY NextLinks
<1> QED
  BY <1>1, <1>2, <1>3, <1>4, <1>5, PTL DEF L!Spec

\* The types of the links, the dialog, the fetch and the calls.
THEOREM LinkTypes == L!Spec => []L!TypeOK
<1>1. LinkInv => L!TypeOK
  <2> SUFFICES ASSUME LinkInv PROVE L!TypeOK
    OBVIOUS
  <2>1. \A i \in DOMAIN calls : calls[i] \in LinkCalls
    BY CallTyped DEF LinkInv
  <2>2. \A i \in DOMAIN calls : calls[i].phase \in {"sent", "found", "written", "answered"}
    BY <2>1 DEF LinkCalls
  <2>3. /\ rows \in [LinkIds -> LinkRows] /\ gone \subseteq LinkIds
        /\ dialog.kind \in {"none", "create", "edit"} /\ dialog.draft \subseteq LinkHabits
        /\ fetch.phase \in {"idle", "sent", "listed", "answered"}
    BY DEF LinkInv, LinkShape
  <2> QED
    BY <2>2, <2>3 DEF L!TypeOK, LinkRows
<1>2. L!Init => LinkInv
  BY InitLinks
<1>3. LinkInv /\ [L!Next]_L!vars => LinkInv'
  BY NextLinks
<1> QED
  BY <1>1, <1>2, <1>3, PTL DEF L!Spec

-----------------------------------------------------------------------------
(* Reminders: a date is pushed once, and once more for every push that     *)
(* could not be marked.                                                    *)

(* Once a day.  A push that was sent is either marked, or about to be, or  *)
(* counted as unmarked; a push is begun only for a row without a mark, and *)
(* a new pass finds no push under way.                                     *)

Sent(d) == push = [date |-> d, phase |-> "sent"]

JobOK ==
  /\ push = [date |-> push.date, phase |-> push.phase]
  /\ push.phase \in {"idle", "sending", "sent"}
  /\ ~passed => push.phase = "idle"

CountersOK ==
  /\ row \in [R!Days -> {"none", "kept", "delivered"}]
  /\ pushes \in [R!Days -> Nat] /\ unmarked \in [R!Days -> Nat]

PushOK(d) ==
  /\ push.phase # "idle" /\ push.date = d => row[d] # "delivered"
  /\ pushes[d] <= unmarked[d] + (IF row[d] = "delivered" \/ Sent(d) THEN 1 ELSE 0)

PushInv ==
  /\ JobOK /\ CountersOK
  /\ \A d \in R!Days : PushOK(d)

\* One more of a count.
LEMMA Bumped ==
  ASSUME NEW f \in [R!Days -> Nat], NEW d
  PROVE  [f EXCEPT ![d] = @ + 1] \in [R!Days -> Nat]
<1>1. CASE d \in R!Days
  BY <1>1
<1>2. CASE d \notin R!Days
  BY <1>2
<1> QED
  BY <1>1, <1>2

LEMMA InitPush == R!Init => PushInv
BY DEF R!Init, PushInv, JobOK, CountersOK, PushOK, R!NoJob, Sent

LEMMA NextPush == PushInv /\ [R!Next]_R!vars => PushInv'
<1> SUFFICES ASSUME PushInv, [R!Next]_R!vars PROVE PushInv'
  OBVIOUS
<1> USE DEF PushInv, JobOK, CountersOK, PushOK, Sent, R!Key
<1>1. CASE UNCHANGED <<row, push, pushes, unmarked>> /\ (passed' = passed \/ passed' = TRUE \/ push.phase = "idle")
  BY <1>1
<1>2. CASE R!Tick
  <2>1. push.phase = "idle" /\ passed' = TRUE /\ UNCHANGED <<pushes, unmarked>>
    BY <1>2 DEF R!Tick
  <2>2. \/ UNCHANGED <<row, push>>
        \/ /\ row' = [row EXCEPT ![R!Today] = IF @ = "none" THEN "kept" ELSE @]
           /\ \/ push' = push
              \/ row[R!Today] # "delivered" /\ push' = [date |-> R!Today, phase |-> "sending"]
    BY <1>2 DEF R!Tick, R!NeedsPush
  <2> HIDE DEF R!Today
  <2>3. CASE UNCHANGED <<row, push>>
    BY <2>1, <2>3
  <2>4. CASE /\ row' = [row EXCEPT ![R!Today] = IF @ = "none" THEN "kept" ELSE @]
             /\ \/ push' = push
                \/ row[R!Today] # "delivered" /\ push' = [date |-> R!Today, phase |-> "sending"]
    <3>1. \A d \in R!Days : /\ row'[d] \in {"none", "kept", "delivered"}
                          /\ row'[d] = "delivered" <=> row[d] = "delivered"
      BY <2>4
    <3>2. CountersOK'
      BY <2>1, <2>4, <3>1
    <3>3. JobOK' /\ push'.phase # "sent"
      BY <2>1, <2>4
    <3>4. ASSUME NEW d \in R!Days PROVE ~Sent(d) /\ ~Sent(d)'
      BY <2>1, <3>3
    <3>5. ASSUME NEW d \in R!Days PROVE PushOK(d)'
      BY <2>1, <2>4, <3>1, <3>3, <3>4
    <3> QED
      BY <3>2, <3>3, <3>5
  <2> QED
    BY <2>2, <2>3, <2>4
<1>3. CASE R!Send
  <2>1. /\ push.phase = "sending" /\ pushes' = [pushes EXCEPT ![push.date] = @ + 1]
        /\ push' = [push EXCEPT !.phase = "sent"]
        /\ UNCHANGED <<passed, row, unmarked>>
    BY <1>3 DEF R!Send
  <2>2. push' = [date |-> push.date, phase |-> "sent"]
    BY <2>1
  <2>3. JobOK' /\ CountersOK'
    <3>1. passed
      BY <2>1
    <3>2. push' = [date |-> push'.date, phase |-> push'.phase] /\ push'.phase = "sent"
      BY <2>2
    <3>3. JobOK'
      BY <2>1, <3>1, <3>2
    <3>4. CountersOK'
      BY <2>1, Bumped
    <3> QED
      BY <3>3, <3>4
  <2>4. ASSUME NEW d \in R!Days, d = push.date PROVE PushOK(d)'
    BY <2>1, <2>2, <2>4
  <2>5. ASSUME NEW d \in R!Days, d # push.date PROVE PushOK(d)'
    BY <2>1, <2>2, <2>5
  <2> QED
    BY <2>3, <2>4, <2>5
<1>4. CASE R!MarkDelivered
  <2>1. /\ push.phase = "sent" /\ row' = [row EXCEPT ![push.date] = "delivered"]
        /\ push' = [date |-> 0, phase |-> "idle"]
        /\ UNCHANGED <<passed, pushes, unmarked>>
    BY <1>4 DEF R!MarkDelivered, R!NoJob
  <2>2. JobOK' /\ CountersOK'
    BY <2>1
  <2>3. ASSUME NEW d \in R!Days, d = push.date PROVE PushOK(d)'
    BY <2>1, <2>3
  <2>4. ASSUME NEW d \in R!Days, d # push.date PROVE PushOK(d)'
    BY <2>1, <2>4
  <2> QED
    BY <2>2, <2>3, <2>4
<1>5. CASE R!Abandon
  <2>1. /\ push' = [date |-> 0, phase |-> "idle"]
        /\ UNCHANGED <<passed, row, pushes>>
    BY <1>5 DEF R!Abandon, R!NoJob
  <2>2. CASE push.phase = "sent" /\ unmarked' = [unmarked EXCEPT ![push.date] = @ + 1]
    <3>1. JobOK' /\ CountersOK'
      <4>1. JobOK'
        BY <2>1
      <4>2. CountersOK'
        BY <2>1, <2>2, Bumped
      <4> QED
        BY <4>1, <4>2
    <3>2. ASSUME NEW d \in R!Days, d = push.date PROVE PushOK(d)'
      BY <2>1, <2>2, <3>2
    <3>3. ASSUME NEW d \in R!Days, d # push.date PROVE PushOK(d)'
      BY <2>1, <2>2, <3>3
    <3> QED
      BY <3>1, <3>2, <3>3
  <2>3. CASE push.phase # "sent" /\ unmarked' = unmarked
    BY <2>1, <2>3
  <2> QED
    BY <1>5, <2>2, <2>3 DEF R!Abandon
<1>6. CASE R!MissTick \/ R!SaveSettings \/ R!Complete \/ R!Reopen
  BY <1>1, <1>6 DEF R!MissTick, R!SaveSettings, R!Complete, R!Reopen, R!pushed
<1>7. CASE R!NextSlot \/ R!SpringForward \/ R!FallBack \/ R!Travel
  BY <1>1, <1>7 DEF R!NextSlot, R!SpringForward, R!FallBack, R!Travel, R!Clock, R!pushed
<1>8. CASE UNCHANGED R!vars
  BY <1>1, <1>8 DEF R!vars, R!pushed
<1> QED
  BY <1>2, <1>3, <1>4, <1>5, <1>6, <1>7, <1>8 DEF R!Next

\* A date is pushed once, and once more for every push that could not be marked as
\* delivered (reminders.go:43), for any clock and any number of failures.
THEOREM PushedOncePerDay == R!Spec => []R!OncePerDay
<1>1. PushInv => R!OncePerDay
  BY DEF PushInv, PushOK, R!OncePerDay, CountersOK
<1> QED
  BY <1>1, InitPush, NextPush, PTL DEF R!Spec

\* The scale of the clock: a day has slots, and every reminder time is one of them.
Slots ==
  /\ Day \in Nat \ {0} /\ Window \in Nat \ {0} /\ Gap \in Nat /\ LastDay \in Nat
  /\ Times \subseteq 0 .. (Day - 1)

\* A slot lies in its date.
LEMMA InDate ==
  ASSUME Slots, NEW t \in Nat
  PROVE  R!DateOf(t) \in Nat /\ R!DateOf(t) * Day <= t /\ t < R!DateOf(t) * Day + Day
<1>1. Day \in Int /\ Day > 0
  BY DEF Slots
<1>2. t = (t \div Day) * Day + (t % Day) /\ t % Day \in 0 .. (Day - 1)
  BY <1>1
<1>3. t \div Day \in Int
  BY <1>1
<1> DEFINE q == t \div Day
<1>4. q >= 0
  BY <1>1
<1> QED
  BY <1>1, <1>2, <1>3, <1>4 DEF R!DateOf

\* A later date begins when the earlier one is over.
LEMMA DatesApart ==
  ASSUME Slots, NEW d \in Int, NEW e \in Int, d < e
  PROVE  d * Day \in Int /\ e * Day \in Int /\ d * Day + Day <= e * Day
<1> DEFINE k == e - d - 1
<1>1. k \in Nat /\ e = d + 1 + k
  OBVIOUS
<1>2. Day \in Nat
  BY DEF Slots
<1> HIDE DEF k
<1>3. k * Day \in Nat /\ d * Day \in Int /\ e * Day \in Int
  BY <1>1, <1>2
<1>4. (d + 1 + k) * Day = d * Day + Day + k * Day
  BY <1>1, <1>2
<1> QED
  BY <1>1, <1>2, <1>3, <1>4

\* The date of the clock is one of the bounded ones.
LEMMA DateIsBounded ==
  ASSUME Slots, NEW t \in 0 .. ((LastDay + 1) * Day - 1)
  PROVE  t \in Nat /\ R!DateOf(t) \in R!Days
<1>1. t \in Nat /\ LastDay \in Nat /\ Day \in Nat /\ (LastDay + 1) * Day \in Int
      /\ t < (LastDay + 1) * Day
  BY DEF Slots
<1>2. /\ R!DateOf(t) \in Nat /\ R!DateOf(t) * Day <= t /\ R!DateOf(t) * Day \in Int
  BY <1>1, InDate
<1>3. CASE LastDay < R!DateOf(t)
  <2>1. LastDay + 1 = R!DateOf(t) \/ LastDay + 1 < R!DateOf(t)
    BY <1>1, <1>2, <1>3
  <2>2. LastDay + 1 \in Int
    BY <1>1
  <2>3. (LastDay + 1) * Day <= R!DateOf(t) * Day
    BY <1>1, <1>2, <2>1, <2>2, DatesApart
  <2> QED
    BY <1>1, <1>2, <2>3
<1> QED
  BY <1>1, <1>2, <1>3 DEF R!Days

-----------------------------------------------------------------------------
(* Reminders: the shapes, and a reminder for each day that needs one.      *)

LEMMA InitReminderTypes == ASSUME Slots, R!Init PROVE R!TypeOK
<1>1. 0 \in 0 .. ((LastDay + 1) * Day - 1)
  <2>1. LastDay + 1 \in Nat \ {0} /\ Day \in Nat \ {0}
    BY DEF Slots
  <2>2. (LastDay + 1) * Day \in Nat \ {0}
    BY <2>1
  <2> QED
    BY <2>2
<1>2. 0 \in R!Days
  BY DEF Slots, R!Days
<1> QED
  BY <1>1, <1>2 DEF R!Init, R!TypeOK, R!NoJob

LEMMA NextReminderTypes == ASSUME Slots, R!TypeOK, [R!Next]_(R!vars) PROVE R!TypeOK'
<1>1. R!Today \in R!Days
  BY DateIsBounded DEF R!TypeOK, R!Today
<1>2. 0 \in R!Days
  BY DEF Slots, R!Days
<1>3. CASE R!Tick
  <2>1. row' \in [R!Days -> {"none", "kept", "delivered"}]
    BY <1>1, <1>3 DEF R!Tick, R!TypeOK, R!Key
  <2>2. push' \in [date: R!Days, phase: {"idle", "sending", "sent"}]
    BY <1>1, <1>3 DEF R!Tick, R!TypeOK
  <2>3. excused' \subseteq R!Days
    BY <1>1, <1>3 DEF R!Tick, R!TypeOK
  <2> QED
    BY <1>3, <2>1, <2>2, <2>3 DEF R!Tick, R!TypeOK
<1>4. CASE R!MissTick \/ R!Complete \/ R!Reopen
  BY <1>1, <1>4 DEF R!MissTick, R!Complete, R!Reopen, R!pushed, R!TypeOK
<1>5. CASE R!Send
  BY <1>5 DEF R!Send, R!TypeOK
<1>6. CASE R!MarkDelivered
  BY <1>2, <1>6 DEF R!MarkDelivered, R!NoJob, R!Key, R!TypeOK
<1>7. CASE R!Abandon
  BY <1>2, <1>7 DEF R!Abandon, R!NoJob, R!TypeOK
<1>8. ASSUME NEW t, R!Clock(t), excused' \subseteq R!Days, sprung' \subseteq R!Days
      PROVE  R!TypeOK'
  BY <1>8 DEF R!Clock, R!pushed, R!TypeOK
<1>9. CASE R!NextSlot \/ R!FallBack
  BY <1>8, <1>9 DEF R!NextSlot, R!FallBack, R!TypeOK
<1>10. CASE R!SpringForward
  BY <1>1, <1>8, <1>10 DEF R!SpringForward, R!TypeOK
<1>11. CASE R!Travel
  <2>1. PICK t : R!Clock(t) /\ excused' = excused \cup (R!Today .. R!DateOf(t))
                                                  \cup (R!DateOf(t) .. R!Today)
    BY <1>11 DEF R!Travel
  <2>2. R!DateOf(t) \in R!Days
    BY <2>1, DateIsBounded DEF R!Clock
  <2>3. (R!Today .. R!DateOf(t)) \cup (R!DateOf(t) .. R!Today) \subseteq R!Days
    BY <1>1, <2>2 DEF R!Days, Slots
  <2>4. excused' \subseteq R!Days /\ sprung' \subseteq R!Days
    BY <1>11, <2>1, <2>3 DEF R!Travel, R!TypeOK
  <2> QED
    BY <1>8, <2>1, <2>4
<1>12. CASE R!SaveSettings
  BY <1>1, <1>12 DEF R!SaveSettings, R!pushed, R!TypeOK
<1>13. CASE UNCHANGED R!vars
  BY <1>13 DEF R!vars, R!pushed, R!TypeOK
<1> QED
  BY <1>3, <1>4, <1>5, <1>6, <1>7, <1>9, <1>10, <1>11, <1>12, <1>13 DEF R!Next

\* The scheduler has passed in the slot that the settings name.
Slot(d) == d * Day + settings.time
Over(d) == Slot(d) < local \/ (Slot(d) = local /\ passed)

Open == R!Days \ (excused \cup sprung)

\* Whether reminders are on or not, since a pass that finds them off excuses its date.
KeptInv == R!TypeOK /\ \A d \in Open : Over(d) => row[d] # "none"

LEMMA Numbers ==
  ASSUME Slots, R!TypeOK
  PROVE  local \in Nat /\ R!Today \in R!Days /\ R!Days \subseteq Nat
<1>1. local \in 0 .. ((LastDay + 1) * Day - 1)
  BY DEF R!TypeOK
<1> QED
  BY <1>1, DateIsBounded DEF R!Today, R!Days

\* The slot of a date lies in it.
LEMMA SlotInDate ==
  ASSUME Slots, R!TypeOK, NEW d \in R!Days
  PROVE  /\ d \in Int /\ d * Day \in Int /\ settings.time \in 0 .. (Day - 1)
         /\ Slot(d) \in Int /\ d * Day <= Slot(d) /\ Slot(d) < d * Day + Day
<1>1. d \in Int /\ Day \in Int /\ settings.time \in 0 .. (Day - 1)
  <2>1. settings.time \in Times
    BY DEF R!TypeOK
  <2>2. settings.time \in 0 .. (Day - 1)
    BY <2>1 DEF Slots
  <2>3. d \in Int /\ Day \in Int
    BY DEF R!Days, Slots
  <2> QED
    BY <2>2, <2>3
<1>2. d * Day \in Int
  BY <1>1
<1> QED
  BY <1>1, <1>2 DEF Slot

\* A slot of an earlier date is over, one of a later date is to come.
LEMMA OtherDates ==
  ASSUME Slots, NEW d \in Int, NEW t \in Nat, NEW s \in 0 .. (Day - 1)
  PROVE  /\ d * Day + s \in Int
         /\ d < R!DateOf(t) => d * Day + s < t
         /\ d > R!DateOf(t) => d * Day + s > t
<1>1. R!DateOf(t) \in Int /\ R!DateOf(t) * Day <= t /\ t < R!DateOf(t) * Day + Day
  BY InDate
<1>2. Day \in Int /\ d * Day \in Int /\ R!DateOf(t) * Day \in Int /\ s >= 0 /\ s < Day /\ s \in Int
  BY <1>1 DEF Slots
<1>3. CASE d < R!DateOf(t)
  BY <1>1, <1>2, <1>3, DatesApart
<1>4. CASE d > R!DateOf(t)
  BY <1>1, <1>2, <1>4, DatesApart
<1> QED
  BY <1>1, <1>2, <1>3, <1>4

\* So it is for the slot that the settings name and the clock.
LEMMA OtherSlots ==
  ASSUME Slots, R!TypeOK, NEW d \in R!Days
  PROVE  /\ d < R!Today => Slot(d) < local
         /\ d > R!Today => Slot(d) > local
<1>1. local \in Nat /\ d \in Int /\ settings.time \in 0 .. (Day - 1)
  BY DateIsBounded, SlotInDate DEF R!TypeOK
<1> QED
  BY <1>1, OtherDates DEF R!Today, Slot

\* A pass in the slot of a date that needs its reminder keeps one.
LEMMA TickKeeps ==
  ASSUME Slots, KeptInv, R!Tick, NEW d \in Open', Over(d)'
  PROVE  row'[d] # "none"
<1>1. /\ d \in R!Days /\ d \in Open /\ local' = local /\ settings' = settings /\ Slot(d)' = Slot(d)
      /\ R!TypeOK
  BY DEF R!Tick, Open, Slot, KeptInv
<1>2. R!Today \in R!Days
  BY DateIsBounded DEF KeptInv, R!TypeOK, R!Today
<1>3. row[d] # "none" => row'[d] # "none"
  BY <1>1, <1>2 DEF R!Tick, R!TypeOK, R!Key
<1>4. CASE Slot(d) = local
  <2>1. d = R!Today
    <3>1. d \in Int /\ R!Today \in Int /\ local \in Int
      BY <1>1, <1>2, SlotInDate DEF R!Days, R!TypeOK
    <3> QED
      BY <1>1, <1>4, <3>1, OtherSlots
  <2>2. R!InWindow(local)
    <3>1. local - settings.time = d * Day /\ d \in Int /\ Window > 0 /\ Day \in Nat \ {0}
      BY <1>1, <1>4, SlotInDate DEF Slot, Slots
    <3>2. (d * Day) % Day = 0
      BY <3>1
    <3> QED
      BY <3>1, <3>2 DEF R!InWindow, Slots
  <2>3. settings.on /\ ~complete
    BY <1>1, <2>1, <2>2 DEF R!Tick, Open, R!TypeOK
  <2>4. row' = [row EXCEPT ![d] = IF @ = "none" THEN "kept" ELSE @]
    BY <2>1, <2>2, <2>3 DEF R!Tick, R!Key
  <2> QED
    BY <1>1, <2>4 DEF R!TypeOK
<1>5. CASE Slot(d) # local
  <2>1. Over(d)
    BY <1>1, <1>5 DEF Over
  <2> QED
    BY <1>1, <1>3, <2>1 DEF KeptInv
<1> QED
  BY <1>4, <1>5

LEMMA NextKept == ASSUME Slots, KeptInv, [R!Next]_(R!vars) PROVE KeptInv'
<1>1. R!TypeOK /\ R!TypeOK'
  BY NextReminderTypes DEF KeptInv
<1> SUFFICES ASSUME NEW d \in Open', Over(d)' PROVE row'[d] # "none"
  BY <1>1 DEF KeptInv
<1>2. d \in R!Days
  BY DEF Open
<1>3. Over(d) /\ d \in Open => row[d] # "none"
  BY DEF KeptInv
<1>4. CASE R!Tick
  BY <1>4, TickKeeps
\* What suffices of the other steps.
<1>5. ASSUME d \in Open, Over(d), row' = row \/ row' = [row EXCEPT ![push.date] = "delivered"]
      PROVE  row'[d] # "none"
  BY <1>1, <1>2, <1>3, <1>5 DEF R!TypeOK
<1>6. CASE R!MissTick
  <2>1. d \in Open /\ d # R!Today /\ UNCHANGED <<local, settings, row>>
    BY <1>6 DEF R!MissTick, Open, R!pushed
  <2>2. Over(d)
    <3>1. d \in Int /\ R!Today \in Int /\ local \in Int /\ Slot(d) \in Int
      BY <1>1, <1>2, SlotInDate, Numbers
    <3>2. Slot(d) # local
      BY <1>1, <1>2, <2>1, <3>1, OtherSlots
    <3> QED
      BY <2>1, <3>2 DEF Over, Slot
  <2> QED
    BY <1>5, <2>1, <2>2
<1>7. CASE R!Send \/ R!MarkDelivered \/ R!Abandon \/ R!Complete \/ R!Reopen \/ UNCHANGED R!vars
  <2>1. d \in Open /\ Over(d)
    BY <1>7 DEF R!Send, R!MarkDelivered, R!Abandon, R!Complete, R!Reopen, R!vars, R!pushed, Open, Over, Slot
  <2>2. row' = row \/ row' = [row EXCEPT ![push.date] = "delivered"]
    BY <1>7 DEF R!Send, R!MarkDelivered, R!Abandon, R!Complete, R!Reopen, R!vars, R!pushed, R!Key
  <2> QED
    BY <1>5, <2>1, <2>2
\* The clock moves; the slot it left was passed.
<1>8. ASSUME NEW t, R!Clock(t), d \in Open, Slot(d) < t => Slot(d) <= local
      PROVE  row'[d] # "none"
  <2>1. passed /\ local' = t /\ ~passed' /\ UNCHANGED <<settings, row>>
    BY <1>8 DEF R!Clock, R!pushed
  <2>2. Slot(d) < t /\ Slot(d) \in Int /\ local \in Int
    <3>1. Slot(d) < t
      BY <2>1 DEF Over, Slot
    <3> QED
      BY <1>1, <1>2, <3>1, SlotInDate DEF R!TypeOK
  <2>3. Over(d)
    BY <1>8, <2>1, <2>2 DEF Over
  <2> QED
    BY <1>3, <1>8, <2>1, <2>3
<1>9. /\ d \in Int /\ R!Today \in Int /\ local \in Int /\ Slot(d) \in Int /\ Gap \in Nat
  BY <1>1, <1>2, SlotInDate, Numbers DEF Slots
<1>10. CASE R!NextSlot
  <2>1. R!Clock(local + 1) /\ d \in Open
    BY <1>10 DEF R!NextSlot, R!Clock, Open
  <2>2. Slot(d) < local + 1 => Slot(d) <= local
    BY <1>9
  <2> QED
    BY <1>8, <2>1, <2>2
<1>11. CASE R!FallBack
  <2>1. R!Clock(local + 1 - Gap) /\ d \in Open
    BY <1>11 DEF R!FallBack, R!Clock, Open
  <2>2. Slot(d) < local + 1 - Gap => Slot(d) <= local
    BY <1>9
  <2> QED
    BY <1>8, <2>1, <2>2
\* A date whose slot the clock jumps over is not the one it leaves, nor the one it enters, nor
\* between them.
<1>12. ASSUME NEW t \in 0 .. ((LastDay + 1) * Day - 1), Slot(d) < t, local < Slot(d)
       PROVE  R!Today <= d /\ d <= R!DateOf(t)
  <2>1. R!Today <= d
    BY <1>1, <1>2, <1>9, <1>12, OtherSlots
  <2>2. /\ t \in Nat /\ R!DateOf(t) \in Int /\ t < R!DateOf(t) * Day + Day
        /\ Day \in Int /\ R!DateOf(t) * Day \in Int
    BY <1>12, DateIsBounded, InDate DEF Slots
  <2>3. CASE R!DateOf(t) < d
    <3>1. R!DateOf(t) * Day + Day <= d * Day /\ d * Day \in Int /\ d * Day <= Slot(d)
      BY <1>1, <1>2, <1>9, <2>2, <2>3, DatesApart, SlotInDate
    <3> QED
      BY <1>9, <1>12, <2>2, <3>1
  <2> QED
    BY <1>9, <2>1, <2>2, <2>3
<1>13. CASE R!SpringForward
  <2>1. /\ R!Clock(local + 1 + Gap) /\ R!DateOf(local + 1 + Gap) = R!Today /\ d \in Open
        /\ d # R!Today
    BY <1>13 DEF R!SpringForward, Open, R!Clock
  <2>2. local + 1 + Gap \in 0 .. ((LastDay + 1) * Day - 1)
    BY <2>1 DEF R!Clock
  <2> QED
    BY <1>8, <1>9, <1>12, <2>1, <2>2
<1>14. CASE R!Travel
  <2>1. PICK t : R!Clock(t) /\ excused' = excused \cup (R!Today .. R!DateOf(t))
                                                  \cup (R!DateOf(t) .. R!Today)
    BY <1>14 DEF R!Travel
  <2>2. d \in Open /\ d \notin R!Today .. R!DateOf(t)
    BY <1>14, <2>1 DEF R!Travel, R!Clock, Open
  <2>3. t \in 0 .. ((LastDay + 1) * Day - 1) /\ t \in Int /\ R!DateOf(t) \in Int
    BY <2>1, DateIsBounded DEF R!Clock, R!Days
  <2> QED
    BY <1>8, <1>9, <1>12, <2>1, <2>2, <2>3
<1>15. CASE R!SaveSettings
  <2>1. d \in Open /\ d # R!Today /\ UNCHANGED <<local, passed, row>>
    BY <1>15 DEF R!SaveSettings, Open, R!pushed
  <2>2. d < R!Today
    <3>1. ~(d > R!Today)
      <4>1. R!Today' = R!Today
        BY <2>1 DEF R!Today
      <4>2. ASSUME d > R!Today' PROVE Slot(d)' > local'
        <5>1. local' \in Nat /\ settings'.time \in 0 .. (Day - 1)
          BY <1>1, DateIsBounded DEF R!TypeOK, Slots
        <5> QED
          BY <1>9, <4>2, <5>1, OtherDates DEF R!Today, Slot
      <4>3. Slot(d)' \in Int /\ local' \in Int
        <5>1. local' \in Nat /\ settings'.time \in 0 .. (Day - 1)
          BY <1>1, DateIsBounded DEF R!TypeOK, Slots
        <5> QED
          BY <1>9, <5>1, OtherDates DEF Slot
      <4>4. Slot(d)' < local' \/ Slot(d)' = local'
        BY DEF Over
      <4> QED
        BY <4>1, <4>2, <4>3, <4>4
    <3> QED
      BY <1>9, <2>1, <3>1
  <2>3. Over(d)
    BY <1>1, <1>2, <2>2, OtherSlots DEF Over
  <2> QED
    BY <1>5, <2>1, <2>3
<1> QED
  BY <1>4, <1>6, <1>7, <1>10, <1>11, <1>13, <1>14, <1>15 DEF R!Next

\* A day that is over had its reminder, unless a pass did not happen, found reminders off or
\* found nothing left to log, settings or zone changed, or the clock skipped a part of the day
\* (reminders.go), for any length of the day, of the window and of the changes of the clock.
THEOREM ReminderEachDay == ASSUME Slots PROVE R!Spec => []R!KeptEachDay
<1>1. R!Init => KeptInv
  <2> SUFFICES ASSUME R!Init PROVE KeptInv
    OBVIOUS
  <2>1. R!TypeOK
    BY InitReminderTypes
  <2>2. ASSUME NEW d \in R!Days PROVE ~Over(d)
    <3>1. d \in Nat /\ Day \in Nat /\ d * Day \in Nat /\ settings.time \in Nat
      BY <2>1, SlotInDate DEF R!Days, Slots
    <3> QED
      BY <3>1 DEF Over, Slot, R!Init
  <2> QED
    BY <2>1, <2>2 DEF KeptInv, Open
<1>2. KeptInv /\ [R!Next]_(R!vars) => KeptInv'
  BY NextKept
<1>3. KeptInv => R!KeptEachDay
  <2> SUFFICES ASSUME KeptInv, NEW d \in Open, d < R!Today PROVE row[d] # "none"
    BY DEF R!KeptEachDay, Open
  <2>1. R!TypeOK /\ d \in R!Days
    BY DEF KeptInv, Open
  <2>2. Over(d)
    BY <2>1, OtherSlots DEF Over
  <2> QED
    BY <2>2 DEF KeptInv
<1> QED
  BY <1>1, <1>2, <1>3, PTL DEF R!Spec

\* The variables of Reminders keep their shape, the clock its bounds.
THEOREM ReminderTypes == ASSUME Slots PROVE R!Spec => []R!TypeOK
<1>1. R!Init => R!TypeOK
  BY InitReminderTypes
<1>2. R!TypeOK /\ [R!Next]_(R!vars) => R!TypeOK'
  BY NextReminderTypes
<1> QED
  BY <1>1, <1>2, PTL DEF R!Spec

-----------------------------------------------------------------------------
(* Limiter: what passes in a window and why a request is refused.          *)

\* What New insists on: a window and limits above zero (ratelimit/limiter.go).
Limits ==
  /\ LimitWindow \in Nat \ {0} /\ MaxClock \in Nat /\ MaxCome \in Nat
  /\ Limit \in [DOMAIN Limit -> Nat \ {0}]

End == MaxClock + 1
Tallies == [B!Until -> Nat]
Buckets == [start : B!Times, count : Nat]

\* The tally T of what passed one limiter from one address, no time after n met.
Agrees(T, n, limit) ==
  /\ \A x, y \in B!Until : x <= y => T[x] <= T[y]
  /\ \A x \in B!Until : x > n => T[x] = T[End]
  /\ \A x \in B!Until : x + LimitWindow \in B!Until => T[x + LimitWindow] - T[x] <= 2 * limit

\* A bucket counts all that passed since its start, and none of that passed after its window.
Running(b, T, n, limit) ==
  /\ b.start \in 0 .. n /\ 1 <= b.count /\ b.count <= limit /\ T[End] - T[b.start] = b.count
  /\ \A x \in B!Until : x >= b.start + LimitWindow => T[x] = T[End]
  /\ \A x \in B!Until : x <= b.start /\ b.start - LimitWindow <= x => T[b.start] - T[x] <= limit

\* Without a bucket nothing passed at n, and no more than the limit in the window before.
Fresh(T, n, limit) ==
  /\ \A x \in B!Until : x >= n => T[x] = T[End]
  /\ \A x \in B!Until : x >= n - LimitWindow => T[End] - T[x] <= limit

Fits(b, T, n, limit) ==
  /\ Agrees(T, n, limit)
  /\ \/ b = B!NoBucket /\ Fresh(T, n, limit)
     \/ b # B!NoBucket /\ Running(b, T, n, limit)

Pending == [limiter : B!Limiters, address : Addresses, now : 0 .. clock]

LimiterTypes ==
  /\ clock \in B!Times /\ came \in 0 .. MaxCome /\ late \in BOOLEAN
  /\ req \in [Requests -> {B!NoReq} \cup Pending]
  /\ buckets \in [B!Limiters -> [Addresses -> Buckets]]
  /\ passed \in [B!Limiters -> [Addresses -> Tallies]]
  /\ newest \in [B!Limiters -> B!Times]
  /\ \A l \in B!Limiters : \A a \in Addresses : buckets[l][a].count <= Limit[l]

LimiterInv ==
  /\ LimiterTypes
  /\ ~late => \A l \in B!Limiters : \A a \in Addresses :
                Fits(buckets[l][a], passed[l][a], newest[l], Limit[l])
  /\ B!RefusedForCause

\* Time that passes without a request changes nothing.
LEMMA FitsLater ==
  ASSUME Limits, NEW b, NEW T \in Tallies, NEW n \in B!Times, NEW m \in B!Times, n <= m,
         NEW limit \in Nat, Fits(b, T, n, limit)
  PROVE  Fits(b, T, m, limit)
<1>1. Agrees(T, m, limit)
  BY DEF Fits, Agrees, Limits, B!Until, B!Times
<1>2. CASE b = B!NoBucket /\ Fresh(T, n, limit)
  <2>1. Fresh(T, m, limit)
    BY <1>2 DEF Fresh, Limits, B!Until, B!Times
  <2> QED
    BY <1>1, <1>2, <2>1 DEF Fits
<1>3. CASE b # B!NoBucket /\ Running(b, T, n, limit)
  <2>1. Running(b, T, m, limit)
    BY <1>3 DEF Running, Limits, B!Times
  <2> QED
    BY <1>1, <1>3, <2>1 DEF Fits
<1> QED
  BY <1>2, <1>3 DEF Fits

\* Scavenging drops a bucket whose window is over.
LEMMA FitsDropped ==
  ASSUME Limits, NEW b \in Buckets, NEW T \in Tallies, NEW m \in B!Times, NEW limit \in Nat,
         Fits(b, T, m, limit), B!Over(b, m)
  PROVE  Fits(B!NoBucket, T, m, limit)
<1>1. CASE b = B!NoBucket
  BY <1>1
<1>2. CASE b # B!NoBucket
  <2>1. Running(b, T, m, limit) /\ Agrees(T, m, limit) /\ m - b.start >= LimitWindow
    BY <1>2 DEF Fits, B!Over
  <2>2. /\ b.start \in 0 .. m /\ b.count \in Nat /\ b.count <= limit /\ b.start \in B!Until
        /\ T[End] - T[b.start] = b.count
    BY <2>1 DEF Running, B!Times, B!Until, Buckets, Limits
  <2>3. ASSUME NEW x \in B!Until, x >= m PROVE T[x] = T[End]
    BY <2>1, <2>2, <2>3 DEF Running, Limits, B!Times, B!Until
  <2>4. ASSUME NEW x \in B!Until, x >= m - LimitWindow PROVE T[End] - T[x] <= limit
    <3>1. b.start <= x
      BY <2>1, <2>2, <2>4 DEF Limits, B!Times, B!Until
    <3>2. T[b.start] <= T[x]
      BY <2>1, <2>2, <3>1 DEF Agrees
    <3>3. T[b.start] \in Nat /\ T[x] \in Nat /\ T[End] \in Nat
      BY <2>2 DEF Tallies, B!Until, End, Limits
    <3> QED
      BY <2>2, <3>2, <3>3
  <2>5. Fresh(T, m, limit)
    BY <2>3, <2>4 DEF Fresh
  <2>6. Agrees(T, m, limit)
    BY <2>1 DEF Agrees
  <2> QED
    BY <2>5, <2>6 DEF Fits
<1> QED
  BY <1>1, <1>2

\* A request that passes.
LEMMA FitsPassed ==
  ASSUME Limits, NEW b \in Buckets, NEW T \in Tallies, NEW m \in B!Times, NEW limit \in Nat \ {0},
         Fits(b, T, m, limit), B!Over(b, m) \/ ~(b.count >= limit)
  PROVE  LET Q == [t \in B!Until |-> IF t > m THEN T[t] + 1 ELSE T[t]]
         IN  Q \in Tallies /\ Fits(B!Counted(b, m), Q, m, limit)
<1> DEFINE Q == [t \in B!Until |-> IF t > m THEN T[t] + 1 ELSE T[t]]
           c == B!Counted(b, m)
<1>1. /\ \A t \in B!Until : t \in Nat /\ T[t] \in Nat
      /\ End \in B!Until /\ End > m /\ m \in B!Until /\ m \in Nat /\ \A t \in B!Until : t <= End
  BY DEF Tallies, B!Until, B!Times, End, Limits
<1>2. /\ Q \in Tallies
      /\ \A t \in B!Until : Q[t] \in Nat /\ Q[t] = IF t > m THEN T[t] + 1 ELSE T[t]
  BY <1>1 DEF Tallies
<1>3. Agrees(T, m, limit)
  BY DEF Fits
<1> HIDE DEF Q
<1>4. \A x, y \in B!Until : x <= y => Q[x] <= Q[y]
  <2> SUFFICES ASSUME NEW x \in B!Until, NEW y \in B!Until, x <= y PROVE Q[x] <= Q[y]
    OBVIOUS
  <2>1. T[x] <= T[y]
    BY <1>3 DEF Agrees
  <2> QED
    BY <1>1, <1>2, <2>1
<1>5. \A x \in B!Until : x > m => Q[x] = Q[End]
  <2> SUFFICES ASSUME NEW x \in B!Until, x > m PROVE Q[x] = Q[End]
    OBVIOUS
  <2>1. T[x] = T[End]
    BY <1>3 DEF Agrees
  <2> QED
    BY <1>1, <1>2, <2>1
\* What passed from x to now, this request not counted.
<1>6. ASSUME NEW x \in B!Until, x <= m, m < x + LimitWindow PROVE T[End] + 1 - T[x] <= 2 * limit
  <2>1. x \in Nat /\ T[x] \in Nat /\ T[End] \in Nat
    BY <1>1
  <2>2. CASE b = B!NoBucket
    <3>1. T[End] - T[x] <= limit
      BY <1>1, <1>6, <2>1, <2>2 DEF Fits, Fresh, Limits
    <3> QED
      BY <2>1, <3>1
  <2>3. CASE b # B!NoBucket
    <3>1. Running(b, T, m, limit)
      BY <2>3 DEF Fits
    <3>2. /\ b.start \in 0 .. m /\ b.count \in Nat /\ b.count <= limit /\ b.start \in B!Until
          /\ T[End] - T[b.start] = b.count /\ T[b.start] \in Nat /\ b.start \in Nat
      BY <1>1, <3>1 DEF Running, B!Times, B!Until, Buckets, Limits
    <3>3. CASE b.start <= x
      <4>1. T[b.start] <= T[x]
        BY <1>3, <3>2, <3>3 DEF Agrees
      <4> QED
        BY <2>1, <3>2, <4>1
    <3>4. CASE ~(b.start <= x)
      <4>1. m - b.start < LimitWindow
        BY <1>1, <1>6, <2>1, <3>2, <3>4 DEF Limits
      <4>2. b.count < limit
        BY <2>3, <3>2, <4>1, <1>1 DEF B!Over, Limits
      <4>3. x <= b.start /\ b.start - LimitWindow <= x
        BY <1>1, <1>6, <2>1, <3>2, <3>4 DEF Limits
      <4>4. T[b.start] - T[x] <= limit
        BY <3>1, <4>3 DEF Running
      <4> QED
        BY <2>1, <3>2, <4>2, <4>4
    <3> QED
      BY <3>3, <3>4
  <2> QED
    BY <2>2, <2>3
<1>7. \A x \in B!Until : x + LimitWindow \in B!Until => Q[x + LimitWindow] - Q[x] <= 2 * limit
  <2> SUFFICES ASSUME NEW x \in B!Until, x + LimitWindow \in B!Until
               PROVE  Q[x + LimitWindow] - Q[x] <= 2 * limit
    OBVIOUS
  <2> DEFINE y == x + LimitWindow
  <2>1. /\ x \in Nat /\ y \in B!Until /\ y \in Nat /\ x < y /\ T[x] \in Nat /\ T[y] \in Nat
        /\ T[y] - T[x] <= 2 * limit
    BY <1>1, <1>3 DEF Agrees, Limits
  <2>2. /\ Q[x] = IF x > m THEN T[x] + 1 ELSE T[x]
        /\ Q[y] = IF y > m THEN T[y] + 1 ELSE T[y]
    BY <1>2, <2>1
  <2>3. CASE x <= m /\ m < y
    <3>1. T[y] = T[End]
      BY <1>3, <2>1, <2>3 DEF Agrees
    <3>2. T[End] + 1 - T[x] <= 2 * limit
      BY <1>6, <2>3
    <3> HIDE DEF y
    <3>3. Q[y] - Q[x] <= 2 * limit
      BY <1>1, <2>1, <2>2, <2>3, <3>1, <3>2
    <3> QED
      BY <3>3 DEF y
  <2>4. CASE ~(x <= m /\ m < y)
    <3> HIDE DEF y
    <3>1. Q[y] - Q[x] <= 2 * limit
      BY <1>1, <2>1, <2>2, <2>4
    <3> QED
      BY <3>1 DEF y
  <2> QED
    BY <2>3, <2>4
<1>8. Agrees(Q, m, limit)
  BY <1>4, <1>5, <1>7 DEF Agrees
<1>9. CASE B!Over(b, m)
  <2>1. c = [start |-> m, count |-> 1]
    BY <1>9 DEF B!Counted
  <2>2. \A x \in B!Until : x >= m => T[x] = T[End]
    BY <1>1, <1>9 DEF Fits, Fresh, Running, B!Over, Limits, Buckets, B!Times
  <2>3. ASSUME NEW x \in B!Until, m - LimitWindow <= x PROVE T[End] - T[x] <= limit
    BY <1>9, <2>3, FitsDropped DEF Fits, Fresh, Running, B!NoBucket
  <2>4. T[m] = T[End]
    BY <1>1, <2>2
  <2>5. Q[m] = T[m] /\ Q[End] = T[End] + 1
    BY <1>1, <1>2
  <2>6. ASSUME NEW x \in B!Until, x >= m + LimitWindow PROVE Q[x] = Q[End]
    BY <1>1, <1>5, <2>6 DEF Limits
  <2>7. ASSUME NEW x \in B!Until, x <= m, m - LimitWindow <= x PROVE Q[m] - Q[x] <= limit
    <3>1. Q[x] = T[x]
      BY <1>1, <1>2, <2>7
    <3> QED
      BY <2>3, <2>4, <2>5, <2>7, <3>1
  <2>8. Q[End] - Q[m] = 1
    BY <1>1, <2>4, <2>5
  <2>9. Running(c, Q, m, limit)
    BY <1>1, <2>1, <2>6, <2>7, <2>8 DEF Running
  <2>10. c # B!NoBucket
    BY <2>1 DEF B!NoBucket
  <2> QED
    BY <1>2, <1>8, <2>9, <2>10 DEF Fits, Q
<1>10. CASE ~B!Over(b, m)
  <2>1. /\ b # B!NoBucket /\ ~(m - b.start >= LimitWindow) /\ ~(b.count >= limit)
    BY <1>10 DEF B!Over
  <2>2. Running(b, T, m, limit)
    BY <2>1 DEF Fits
  <2>3. /\ b.start \in 0 .. m /\ b.count \in Nat /\ b.start \in B!Until
        /\ T[End] - T[b.start] = b.count /\ T[b.start] \in Nat /\ b.start \in Nat /\ 1 <= b.count
    BY <1>1, <2>2 DEF Running, B!Times, B!Until, Buckets, Limits
  <2>4. c = [b EXCEPT !.count = b.count + 1]
    BY <1>10 DEF B!Counted
  <2>5. c.start = b.start /\ c.count = b.count + 1
    BY <2>4 DEF Buckets
  <2> HIDE DEF c
  <2>6. Q[b.start] = T[b.start] /\ Q[End] = T[End] + 1
    BY <1>1, <1>2, <2>3
  <2>7. ASSUME NEW x \in B!Until, x >= c.start + LimitWindow PROVE Q[x] = Q[End]
    BY <1>1, <1>5, <2>1, <2>3, <2>5, <2>7 DEF Limits
  <2>8. ASSUME NEW x \in B!Until, x <= c.start, c.start - LimitWindow <= x
        PROVE  Q[c.start] - Q[x] <= limit
    <3>1. Q[x] = T[x]
      BY <1>1, <1>2, <2>3, <2>5, <2>8
    <3>2. T[b.start] - T[x] <= limit
      BY <2>2, <2>5, <2>8 DEF Running
    <3> QED
      BY <2>5, <2>6, <3>1, <3>2
  <2>9. Running(c, Q, m, limit)
    <3>1. Q[End] - Q[c.start] = c.count
      BY <1>1, <2>3, <2>5, <2>6
    <3>2. c.start \in 0 .. m /\ 1 <= c.count /\ c.count <= limit
      BY <2>1, <2>3, <2>5
    <3> QED
      BY <2>7, <2>8, <3>1, <3>2 DEF Running
  <2>10. c # B!NoBucket
    BY <2>3, <2>5 DEF B!NoBucket
  <2>11. Fits(c, Q, m, limit)
    BY <1>8, <2>9, <2>10 DEF Fits
  <2> QED
    BY <1>2, <2>11 DEF Q, c
<1> QED
  BY <1>9, <1>10

LEMMA InitLimiter == ASSUME Limits, B!Init PROVE LimiterInv
<1>1. LimiterTypes
  <2>1. /\ 0 \in B!Times /\ B!NoBucket \in Buckets /\ B!NoBucket.count = 0
        /\ [t \in B!Until |-> 0] \in Tallies
    BY DEF Limits, B!Times, B!NoBucket, Buckets, Tallies
  <2>2. /\ buckets = [l \in B!Limiters |-> [a \in Addresses |-> B!NoBucket]]
        /\ newest = [l \in B!Limiters |-> 0] /\ req = [r \in Requests |-> B!NoReq]
        /\ passed = [l \in B!Limiters |-> [a \in Addresses |-> [t \in B!Until |-> 0]]]
    BY DEF B!Init
  <2>3. \A l \in B!Limiters : Limit[l] \in Nat
    BY DEF Limits, B!Limiters
  <2>4. \A l \in B!Limiters : \A a \in Addresses : buckets[l][a].count <= Limit[l]
    BY <2>1, <2>2, <2>3
  <2>5. clock \in B!Times /\ came \in 0 .. MaxCome /\ late \in BOOLEAN
    <3>1. clock = 0 /\ came = 0 /\ late = FALSE /\ 0 \in 0 .. MaxCome
      BY DEF B!Init, Limits
    <3> QED
      BY <2>1, <3>1
  <2>6. buckets \in [B!Limiters -> [Addresses -> Buckets]]
    BY <2>1, <2>2
  <2>7. /\ passed \in [B!Limiters -> [Addresses -> Tallies]] /\ newest \in [B!Limiters -> B!Times]
        /\ req \in [Requests -> {B!NoReq} \cup Pending]
    BY <2>1, <2>2
  <2> QED
    BY <2>4, <2>5, <2>6, <2>7 DEF LimiterTypes
<1>2. ASSUME NEW l \in B!Limiters, NEW a \in Addresses
      PROVE  Fits(buckets[l][a], passed[l][a], newest[l], Limit[l])
  <2>1. /\ buckets[l][a] = B!NoBucket /\ newest[l] = 0 /\ Limit[l] \in Nat
        /\ passed[l][a] = [t \in B!Until |-> 0]
    BY DEF B!Init, Limits, B!Limiters
  <2> DEFINE T == [t \in B!Until |-> 0]
  <2>2. \A t \in B!Until : T[t] = 0 /\ t \in Nat
    BY DEF B!Until
  <2>3. T[End] = 0
    BY DEF B!Until, End, Limits
  <2> HIDE DEF T
  <2>4. Agrees(T, 0, Limit[l]) /\ Fresh(T, 0, Limit[l])
    BY <2>1, <2>2, <2>3 DEF Agrees, Fresh
  <2> QED
    BY <2>1, <2>4 DEF Fits, T
<1>3. B!RefusedForCause
  BY DEF B!Init, B!RefusedForCause
<1> QED
  BY <1>1, <1>2, <1>3 DEF LimiterInv

\* Allow, a step of one limiter for one address.
LEMMA AllowKeeps == ASSUME Limits, LimiterInv, NEW r \in Requests, B!Allow(r) PROVE LimiterInv'
<1> DEFINE l == req[r].limiter
           a == req[r].address
           m == req[r].now
           kept == B!Scavenged(l, m)
           pass == B!Over(kept[a], m) \/ ~B!Full(kept[a], l)
           Q == [t \in B!Until |-> IF t > m THEN passed[l][a][t] + 1 ELSE passed[l][a][t]]
<1>1. LimiterTypes
  BY DEF LimiterInv
<1>2. l \in B!Limiters /\ a \in Addresses /\ m \in 0 .. clock /\ m \in B!Times /\ req[r] # B!NoReq
  <2>1. req[r] # B!NoReq /\ req[r] \in {B!NoReq} \cup Pending /\ clock \in B!Times
    BY <1>1 DEF B!Allow, LimiterTypes
  <2>2. req[r] \in Pending
    BY <2>1
  <2> QED
    BY <2>1, <2>2 DEF Pending, B!Times, Limits
<1>3. /\ Limit[l] \in Nat \ {0} /\ newest[l] \in B!Times /\ passed[l] \in [Addresses -> Tallies]
      /\ buckets[l] \in [Addresses -> Buckets] /\ passed[l][a] \in Tallies
      /\ \A d \in Addresses : passed[l][d] \in Tallies /\ buckets[l][d] \in Buckets
                              /\ buckets[l][d].count <= Limit[l]
  BY <1>1, <1>2 DEF LimiterTypes, Limits, B!Limiters
<1>4. /\ buckets' = [buckets EXCEPT ![l] = IF pass THEN [kept EXCEPT ![a] = B!Counted(kept[a], m)]
                                           ELSE kept]
      /\ passed' = IF pass THEN [passed EXCEPT ![l] = [passed[l] EXCEPT ![a] = Q]] ELSE passed
      /\ refused' = IF pass THEN B!NoReq ELSE req[r]
      /\ newest' = [newest EXCEPT ![l] = IF m > newest[l] THEN m ELSE newest[l]]
      /\ late' = (late \/ m < newest[l])
      /\ req' = [req EXCEPT ![r] = B!NoReq]
      /\ clock' = clock /\ came' = came
  BY DEF B!Allow
<1>5. /\ kept \in [Addresses -> Buckets]
      /\ \A d \in Addresses :
           \/ kept[d] = buckets[l][d]
           \/ B!Over(buckets[l][d], m) /\ kept[d] = B!NoBucket
  <2>1. B!NoBucket \in Buckets
    BY DEF B!NoBucket, Buckets, B!Times, Limits
  <2> QED
    BY <1>3, <2>1 DEF B!Scavenged
<1>6. \A d \in Addresses : kept[d].count \in Nat /\ kept[d].count <= Limit[l]
  BY <1>3, <1>5 DEF B!NoBucket, Buckets
<1>7. pass <=> B!Over(kept[a], m) \/ ~(kept[a].count >= Limit[l])
  BY DEF B!Full
<1>8. pass => B!Counted(kept[a], m) \in Buckets /\ B!Counted(kept[a], m).count <= Limit[l]
  <2>1. kept[a] \in Buckets /\ kept[a].count \in Nat
    BY <1>2, <1>5, <1>6
  <2>2. CASE B!Over(kept[a], m)
    BY <1>2, <1>3, <2>2 DEF B!Counted, Buckets
  <2>3. CASE ~B!Over(kept[a], m) /\ pass
    <3>1. kept[a].count < Limit[l]
      BY <1>3, <1>7, <2>1, <2>3
    <3>2. B!Counted(kept[a], m) = [kept[a] EXCEPT !.count = kept[a].count + 1]
      BY <2>3 DEF B!Counted
    <3> QED
      BY <1>3, <2>1, <3>1, <3>2 DEF Buckets
  <2> QED
    BY <2>2, <2>3
<1>9. Q \in Tallies
  BY <1>3 DEF Tallies
<1> HIDE DEF l, a, m, kept, pass, Q
\* The limiter's own buckets and tallies after the step.
<1> DEFINE new == [d \in Addresses |-> IF pass /\ d = a THEN B!Counted(kept[a], m) ELSE kept[d]]
           tally == [d \in Addresses |-> IF pass /\ d = a THEN Q ELSE passed[l][d]]
<1>10. /\ new \in [Addresses -> Buckets] /\ tally \in [Addresses -> Tallies]
       /\ \A d \in Addresses : new[d].count <= Limit[l]
  BY <1>3, <1>5, <1>6, <1>8, <1>9
<1>11. buckets' = [buckets EXCEPT ![l] = new]
  BY <1>4, <1>5
<1>12. passed' = [passed EXCEPT ![l] = tally]
  <2>1. CASE pass
    BY <2>1, <1>3, <1>4
  <2>2. CASE ~pass
    <3>1. tally = passed[l]
      BY <2>2, <1>3
    <3> HIDE DEF tally
    <3> QED
      BY <2>2, <3>1, <1>1, <1>2, <1>4 DEF LimiterTypes
  <2> QED
    BY <2>1, <2>2
<1> HIDE DEF new, tally
<1>13. LimiterTypes'
  <2>1. /\ clock' \in B!Times /\ came' \in 0 .. MaxCome /\ late' \in BOOLEAN
        /\ newest' \in [B!Limiters -> B!Times]
    BY <1>1, <1>2, <1>4 DEF LimiterTypes
  <2>2. (req \in [Requests -> {B!NoReq} \cup Pending])'
    BY <1>1, <1>4 DEF LimiterTypes, Pending
  <2>3. buckets' \in [B!Limiters -> [Addresses -> Buckets]]
    BY <1>1, <1>10, <1>11 DEF LimiterTypes
  <2>4. passed' \in [B!Limiters -> [Addresses -> Tallies]]
    BY <1>1, <1>10, <1>12 DEF LimiterTypes
  <2>5. \A k \in B!Limiters : \A d \in Addresses : buckets'[k][d].count <= Limit[k]
    BY <1>1, <1>10, <1>11 DEF LimiterTypes
  <2> QED
    BY <2>1, <2>2, <2>3, <2>4, <2>5 DEF LimiterTypes
\* In order of time, this limiter has met none later than m.
<1>14. ASSUME ~late' PROVE ~late /\ newest[l] <= m /\ newest'[l] = m
  <2>1. ~late /\ ~(m < newest[l])
    BY <1>4, <1>14
  <2>2. newest[l] \in Nat /\ m \in Nat
    BY <1>2, <1>3 DEF B!Times
  <2>3. newest'[l] = IF m > newest[l] THEN m ELSE newest[l]
    BY <1>1, <1>2, <1>4 DEF LimiterTypes
  <2> QED
    BY <2>1, <2>2, <2>3
<1>15. ASSUME ~late', NEW d \in Addresses PROVE Fits(kept[d], passed[l][d], m, Limit[l])
  <2>1. Fits(buckets[l][d], passed[l][d], m, Limit[l])
    BY <1>2, <1>3, <1>14, <1>15, FitsLater DEF LimiterInv
  <2> QED
    BY <1>2, <1>3, <1>5, <2>1, FitsDropped
<1>16. ASSUME ~late', NEW d \in Addresses PROVE Fits(new[d], tally[d], m, Limit[l])
  <2>1. CASE pass /\ d = a
    <3>1. Fits(kept[a], passed[l][a], m, Limit[l]) /\ kept[a] \in Buckets
      BY <1>2, <1>5, <1>15, <1>16
    <3>2. Fits(B!Counted(kept[a], m), Q, m, Limit[l])
      BY <1>2, <1>3, <1>7, <2>1, <3>1, FitsPassed DEF Q
    <3> QED
      BY <2>1, <3>2 DEF new, tally
  <2>2. CASE ~(pass /\ d = a)
    BY <1>15, <1>16, <2>2 DEF new, tally
  <2> QED
    BY <2>1, <2>2
<1>17. ASSUME ~late', NEW k \in B!Limiters, NEW d \in Addresses
       PROVE  Fits(buckets'[k][d], passed'[k][d], newest'[k], Limit[k])
  <2>1. CASE k = l
    <3>1. buckets'[l] = new /\ passed'[l] = tally
      BY <1>1, <1>2, <1>11, <1>12 DEF LimiterTypes
    <3> QED
      BY <1>14, <1>16, <1>17, <2>1, <3>1
  <2>2. CASE k # l
    <3>1. buckets'[k] = buckets[k] /\ passed'[k] = passed[k] /\ newest'[k] = newest[k]
      BY <1>1, <1>2, <1>4, <1>11, <1>12, <2>2 DEF LimiterTypes
    <3> QED
      BY <1>14, <1>17, <3>1 DEF LimiterInv
  <2> QED
    BY <2>1, <2>2
<1>18. ASSUME ~late', ~pass
       PROVE  LET from == m + 1 - LimitWindow
              IN  passed[l][a][m + 1] - passed[l][a][IF from < 0 THEN 0 ELSE from] >= Limit[l]
  <2> DEFINE b == kept[a]
             T == passed[l][a]
             from == m + 1 - LimitWindow
             f == IF from < 0 THEN 0 ELSE from
  <2>1. /\ ~B!Over(b, m) /\ b.count >= Limit[l] /\ Fits(b, T, m, Limit[l]) /\ b \in Buckets
        /\ T \in Tallies
    BY <1>2, <1>3, <1>5, <1>7, <1>15, <1>18
  <2> HIDE DEF b, T
  <2>2. /\ b # B!NoBucket /\ ~(m - b.start >= LimitWindow) /\ Agrees(T, m, Limit[l])
        /\ Running(b, T, m, Limit[l])
    BY <2>1 DEF B!Over, Fits
  <2>3. /\ b.start \in 0 .. m /\ m \in Nat /\ m + 1 \in B!Until /\ m + 1 > m /\ b.start \in B!Until
        /\ f \in B!Until /\ f <= b.start /\ End \in B!Until
    BY <1>2, <2>2 DEF Running, Limits, B!Until, B!Times, End
  <2> HIDE DEF f
  <2>4. /\ T[m + 1] = T[End] /\ T[f] <= T[b.start] /\ T[End] - T[b.start] = b.count
        /\ T[f] \in Nat /\ T[End] \in Nat /\ T[b.start] \in Nat /\ b.count \in Nat
    BY <2>1, <2>2, <2>3 DEF Agrees, Running, Tallies, Buckets
  <2>5. T[m + 1] - T[f] >= Limit[l]
    BY <1>3, <2>1, <2>4
  <2> QED
    BY <2>5 DEF T, f
<1>19. B!RefusedForCause'
  <2>1. CASE pass
    BY <1>4, <2>1 DEF B!RefusedForCause
  <2>2. CASE ~pass
    <3>1. refused' = req[r] /\ passed' = passed
      BY <1>4, <2>2
    <3>2. refused'.limiter = l /\ refused'.address = a /\ refused'.now = m
      BY <3>1 DEF l, a, m
    <3> QED
      BY <1>18, <2>2, <3>1, <3>2 DEF B!RefusedForCause, B!Within
  <2> QED
    BY <2>1, <2>2
<1> QED
  BY <1>13, <1>17, <1>19 DEF LimiterInv

LEMMA NextLimiter == ASSUME Limits, LimiterInv, [B!Next]_(B!vars) PROVE LimiterInv'
<1> USE DEF LimiterInv
<1>1. CASE UNCHANGED B!vars
  BY <1>1 DEF B!vars, LimiterTypes, B!Times, Pending, B!RefusedForCause, B!Within, Fits, Agrees,
     Fresh, Running
<1>2. CASE B!Tick
  <2>1. LimiterTypes'
    <3>1. Pending \subseteq [limiter : B!Limiters, address : Addresses, now : 0 .. (clock + 1)]
      BY DEF Pending, LimiterTypes, B!Times
    <3> QED
      BY <1>2, <3>1 DEF B!Tick, LimiterTypes, B!Times, Pending, Limits
  <2>2. B!RefusedForCause'
    BY <1>2 DEF B!Tick, B!RefusedForCause
  <2>3. (~late => \A l \in B!Limiters : \A a \in Addresses :
                Fits(buckets[l][a], passed[l][a], newest[l], Limit[l]))'
    BY <1>2 DEF B!Tick
  <2> QED
    BY <2>1, <2>2, <2>3
<1>3. ASSUME NEW r \in Requests, B!Come(r) PROVE LimiterInv'
  <2>1. LimiterTypes'
    BY <1>3 DEF B!Come, LimiterTypes, Pending, Limits, B!Times
  <2>2. B!RefusedForCause'
    BY <1>3 DEF B!Come, B!RefusedForCause
  <2>3. (~late => \A l \in B!Limiters : \A a \in Addresses :
                Fits(buckets[l][a], passed[l][a], newest[l], Limit[l]))'
    BY <1>3 DEF B!Come
  <2> QED
    BY <2>1, <2>2, <2>3
<1>4. ASSUME NEW r \in Requests, B!Allow(r) PROVE LimiterInv'
  BY <1>4, AllowKeeps
<1> QED
  BY <1>1, <1>2, <1>3, <1>4 DEF B!Next

LEMMA LimiterHolds == ASSUME Limits PROVE B!Spec => []LimiterInv
<1>1. B!Init => LimiterInv
  BY InitLimiter
<1>2. LimiterInv /\ [B!Next]_(B!vars) => LimiterInv'
  BY NextLimiter
<1> QED
  BY <1>1, <1>2, PTL DEF B!Spec

\* Of one address no more than twice the limit pass in any interval as long as the window, as
\* the comment of the package says, unless the limiter met times out of order: for any limits,
\* window, interval of scavenging, number of addresses and requests in flight.
THEOREM BurstsBounded == ASSUME Limits PROVE B!Spec => []B!BurstIsBounded
<1>1. ASSUME LimiterInv PROVE B!BurstIsBounded
  <2> SUFFICES ASSUME ~late, NEW l \in B!Limiters, NEW a \in Addresses,
                      NEW t \in 0 .. (MaxClock + 1 - LimitWindow)
               PROVE  B!Within(l, a, t, t + LimitWindow - 1) <= 2 * Limit[l]
    BY DEF B!BurstIsBounded
  <2>1. t \in B!Until /\ t + LimitWindow \in B!Until /\ (t + LimitWindow - 1) + 1 = t + LimitWindow
    BY DEF B!Until, Limits
  <2>2. Agrees(passed[l][a], newest[l], Limit[l])
    BY <1>1 DEF LimiterInv, Fits
  <2> QED
    BY <2>1, <2>2 DEF Agrees, B!Within
<1> QED
  BY <1>1, LimiterHolds, PTL

\* A request is refused only if the limit of its own address, at the same limiter, is used up in
\* the window before it.
THEOREM RefusalsHaveCause == ASSUME Limits PROVE B!Spec => []B!RefusedForCause
<1>1. LimiterInv => B!RefusedForCause
  BY DEF LimiterInv
<1> QED
  BY <1>1, LimiterHolds, PTL

\* The types of the limiter's variables.
THEOREM LimiterIsTyped == ASSUME Limits PROVE B!Spec => []B!TypeOK
<1>1. LimiterInv => B!TypeOK
  BY DEF LimiterInv, LimiterTypes, B!TypeOK, Buckets, Limits, B!Times, B!Limiters
<1> QED
  BY <1>1, LimiterHolds, PTL

-----------------------------------------------------------------------------
(* Induction over the numbers up to N, and what filtering a list leaves.   *)

Before == {p \in Nat \X Nat : p[1] < p[2]}

LEMMA BeforeIsWellFounded == IsWellFoundedOn(Before, Nat)
BY NatLessThanWellFounded DEF OpToRel, Before

LEMMA UpTo ==
  ASSUME NEW N \in Nat, NEW T \in SUBSET (0 .. N), 0 \in T,
         \A n \in T : n < N => n + 1 \in T
  PROVE  T = 0 .. N
<1> DEFINE Rest == (0 .. N) \ T
<1>1. SUFFICES ASSUME Rest # {} PROVE FALSE
  OBVIOUS
<1>2. PICK x \in Rest : \A y \in Rest : ~(<<y, x>> \in Before)
  <2>1. Rest \subseteq Nat
    OBVIOUS
  <2> QED
    BY <1>1, <2>1, BeforeIsWellFounded, WFMin
<1>3. x # 0 /\ x - 1 \in 0 .. N /\ x - 1 < N /\ (x - 1) + 1 = x
  OBVIOUS
<1>4. CASE x - 1 \in T
  <2>1. (x - 1) + 1 \in T
    BY <1>3, <1>4
  <2> QED
    BY <1>3, <2>1
<1>5. CASE x - 1 \notin T
  <2>1. <<x - 1, x>> \in Before
    BY <1>3 DEF Before
  <2> QED
    BY <1>2, <1>3, <1>5, <2>1
<1> QED
  BY <1>4, <1>5

\* The prefixes of a list, filtered.
Filters(g, s, S) ==
  /\ DOMAIN g = 0 .. Len(s) /\ g[0] = <<>>
  /\ \A i \in 1 .. Len(s) : g[i] = IF s[i] \in S THEN Append(g[i - 1], s[i]) ELSE g[i - 1]

\* The recursion of Filter is well defined.
LEMMA FilterIs ==
  ASSUME NEW D, NEW s \in Seq(D), NEW S
  PROVE  \E g : Filters(g, s, S) /\ A!Filter(s, S) = g[Len(s)]
<1> DEFINE N == Len(s)
           Chain(g, n) == g = [i \in 0 .. n |-> IF i = 0 THEN <<>>
                                                ELSE IF s[i] \in S THEN Append(g[i - 1], s[i]) ELSE g[i - 1]]
           T == {n \in 0 .. N : \E g : Chain(g, n)}
<1>1. N \in Nat
  OBVIOUS
<1>2. 0 \in T
  <2>1. Chain([i \in 0 .. 0 |-> <<>>], 0)
    OBVIOUS
  <2>2. 0 \in 0 .. N
    BY <1>1
  <2> QED
    BY <2>1, <2>2
<1>3. ASSUME NEW n \in T, n < N PROVE n + 1 \in T
  <2>1. PICK g : Chain(g, n)
    OBVIOUS
  <2> DEFINE last == IF s[n + 1] \in S THEN Append(g[n], s[n + 1]) ELSE g[n]
             h == [i \in 0 .. (n + 1) |-> IF i = n + 1 THEN last ELSE g[i]]
             k == [i \in 0 .. (n + 1) |-> IF i = 0 THEN <<>>
                                          ELSE IF s[i] \in S THEN Append(h[i - 1], s[i]) ELSE h[i - 1]]
  <2>0. n \in Nat
    BY <1>1
  <2>2. ASSUME NEW i \in 0 .. (n + 1) PROVE h[i] = k[i]
    <3>1. CASE i = n + 1
      <4>1. n \in 0 .. (n + 1) /\ n # n + 1 /\ i - 1 = n /\ i # 0
        BY <2>0, <3>1
      <4>2. h[i - 1] = g[n]
        BY <4>1
      <4> QED
        BY <3>1, <4>1, <4>2
    <3>2. CASE i = 0
      <4>1. g[0] = <<>> /\ 0 # n + 1
        BY <2>0, <2>1
      <4> QED
        BY <3>2, <4>1
    <3>3. CASE i # 0 /\ i # n + 1
      <4>1. i \in 0 .. n /\ i - 1 \in 0 .. (n + 1) /\ i - 1 # n + 1
        BY <2>0, <3>3
      <4>2. h[i] = g[i] /\ h[i - 1] = g[i - 1]
        BY <3>3, <4>1
      <4>3. g[i] = IF s[i] \in S THEN Append(g[i - 1], s[i]) ELSE g[i - 1]
        BY <2>1, <3>3, <4>1
      <4> QED
        BY <3>3, <4>2, <4>3
    <3> QED
      BY <3>1, <3>2, <3>3
  <2>3. h = k
    BY <2>2
  <2>4. Chain(h, n + 1)
    BY <2>3
  <2>5. \E q : Chain(q, n + 1)
    <3> HIDE DEF h, Chain
    <3> QED
      BY <2>4
  <2>6. n + 1 \in 0 .. N
    BY <1>1, <1>3, <2>0
  <2> HIDE DEF Chain
  <2> QED
    BY <2>5, <2>6
<1> HIDE DEF T
<1>4. T = 0 .. N
  <2>1. T \in SUBSET (0 .. N)
    BY DEF T
  <2> QED
    BY <1>1, <1>2, <1>3, <2>1, UpTo
<1>5. \E g : Chain(g, N)
  <2>1. N \in T
    BY <1>1, <1>4
  <2> QED
    BY <2>1 DEF T
<1> DEFINE kept == CHOOSE g : Chain(g, N)
<1>6. Chain(kept, N)
  BY <1>5
<1>7. A!Filter(s, S) = kept[N]
  BY DEF A!Filter
<1> HIDE DEF kept
<1>8. ASSUME NEW i \in 1 .. N
      PROVE  kept[i] = IF s[i] \in S THEN Append(kept[i - 1], s[i]) ELSE kept[i - 1]
  <2> DEFINE next(j) == IF s[j] \in S THEN Append(kept[j - 1], s[j]) ELSE kept[j - 1]
  <2>1. kept = [j \in 0 .. N |-> IF j = 0 THEN <<>> ELSE next(j)]
    BY <1>6
  <2>2. i \in 0 .. N /\ i # 0
    BY <1>1
  <2> HIDE DEF next
  <2>3. kept[i] = next(i)
    BY <2>1, <2>2
  <2> QED
    BY <2>3 DEF next
<1>9. DOMAIN kept = 0 .. N /\ kept[0] = <<>>
  BY <1>1, <1>6
<1> QED
  BY <1>7, <1>8, <1>9 DEF Filters


-----------------------------------------------------------------------------
(* Feed.  The invariant, in its parts.                                     *)

FeedNumbers ==
  /\ FeedLimit \in Nat \ {0} /\ BatchSize \in Nat \ {0} /\ MaxIterations \in Nat \ {0}
  /\ MaxPages \in Nat \ {0} /\ MaxFirst \in Nat /\ MaxFeedEvents \in Nat

Settings == {"private", "friends", "public", "none"}
Entries == [at : Nat, by : {"me", "fay"}, kind : {"habit", "bond", "other"}, hidden : BOOLEAN]
FeedPages == [items : Seq(Entries), more : BOOLEAN, end : Nat, edges : SUBSET Nat]
FeedFetches == [kind : {"idle", "all", "more"}, want : Nat, got : Seq(FeedPages)]
FeedJobs == [phase : {"idle", "friends", "batch", "setting", "verdict", "answer"},
             actors : SUBSET {"me", "fay"}, raw : Seq(Entries), kept : Seq(Entries), cursor : Nat,
             turns : Nat, exhausted : BOOLEAN, setting : Settings,
             verdict : {"unknown", "yes", "no"}, edges : SUBSET Nat]

\* The entries are known by time and actor, and there is room for the time of the next.
FeedServer ==
  /\ friend \in BOOLEAN /\ vis \in Settings /\ slipped \in BOOLEAN
  /\ emits \in Seq({"accepted", "removed", "narrowed", "widened"})
  /\ clock \in Nat /\ events \in Nat /\ events <= MaxFeedEvents
  /\ clock + Len(emits) <= MaxFirst + events
  /\ rows \subseteq Entries /\ \A r \in rows : r.at \in 1 .. clock
  /\ \A r, s \in rows : A!Id(r) = A!Id(s) => r = s

FeedTypes ==
  /\ FeedServer
  /\ pages \in Seq(FeedPages) /\ fetch \in FeedFetches /\ job \in FeedJobs

\* How the client goes on: from page to page, and from batch to batch.
FeedFlow ==
  /\ Len(pages) <= MaxPages
  /\ fetch.kind = "idle" => fetch = A!NoFetch /\ job = A!NoJob
  /\ fetch.kind # "idle" =>
       /\ Len(fetch.got) < fetch.want /\ fetch.want <= MaxPages /\ job.phase # "idle"
       /\ fetch.kind = "more" => fetch.got = pages /\ fetch.want = Len(pages) + 1
  /\ job.phase \in {"friends", "batch", "setting", "verdict"} => job.turns < MaxIterations
  /\ job.turns <= MaxIterations /\ Len(job.raw) <= BatchSize

\* A list of entries in order, and which they are.
Descending(s) ==
  \A i, j \in DOMAIN s : i < j => s[i].at >= s[j].at /\ A!Id(s[i]) # A!Id(s[j])
Named(s) == {A!Id(s[i]) : i \in DOMAIN s}

\* Pages: what they name, where they or their batches ended, and how far down they go.
PageNames(book) == UNION {Named(book[p].items) : p \in DOMAIN book}
PageEdges(book) == UNION {book[p].edges : p \in DOMAIN book}
Low(book) == IF book = <<>> THEN A!NoCursor ELSE book[Len(book)].end

InOrder(book) ==
  /\ \A p \in DOMAIN book : Descending(book[p].items) /\ book[p].end \in book[p].edges
  /\ \A p, q \in DOMAIN book : p < q =>
       \A i \in DOMAIN book[p].items, j \in DOMAIN book[q].items :
         book[p].items[i].at > book[q].items[j].at
  /\ \A p \in DOMAIN book : \A i \in DOMAIN book[p].items : book[p].items[i].at >= Low(book)

\* Of what was not touched they have what can be seen, down to there, and nothing else.
Whole(book, touched) ==
  \A r \in rows : A!Id(r) \notin touched =>
    /\ A!Visible(r) /\ r.at > Low(book) /\ r.at \notin PageEdges(book) => A!Id(r) \in PageNames(book)
    /\ A!Id(r) \in PageNames(book) => A!Visible(r)

\* What was touched since what the fetch goes on from was begun.
Scope == IF fetch.kind = "all" THEN fresh ELSE moved

FeedLists ==
  /\ InOrder(pages) /\ Whole(pages, moved)
  /\ InOrder(fetch.got) /\ Whole(fetch.got, Scope)

\* A request that has read a batch: what it kept and what it read is in order, below where it
\* began and not below its cursor.
Arranged(j, top) ==
  /\ "me" \in j.actors
  /\ Descending(j.kept) /\ Descending(j.raw)
  /\ \A i \in DOMAIN j.kept : j.kept[i].at < top /\ j.kept[i].at >= j.cursor
  /\ \A i \in DOMAIN j.raw : j.raw[i].at < top /\ j.raw[i].at >= j.cursor
  /\ \A i \in DOMAIN j.kept, k \in DOMAIN j.raw : j.kept[i].at > j.raw[k].at
  /\ j.cursor <= top /\ (j.cursor = top \/ j.cursor \in j.edges)
  /\ \A i \in DOMAIN j.raw : ~j.raw[i].hidden /\ j.raw[i].by \in j.actors

\* Down to its cursor that is what the user may see or may turn out to see.
Loaded(j, top, touched) ==
  /\ Arranged(j, top)
  /\ \A r \in rows : A!Id(r) \notin touched =>
       /\ r.by = "fay" => ("fay" \in j.actors <=> friend)
       /\ A!Visible(r) /\ r.at < top /\ r.at \notin j.edges /\ (j.exhausted \/ r.at > j.cursor)
          => A!Id(r) \in Named(j.kept) \cup Named(j.raw)
       /\ A!Id(r) \in Named(j.kept) => A!Visible(r)
       /\ \A i \in DOMAIN j.raw : A!Id(j.raw[i]) = A!Id(r) => j.raw[i] = r

\* The friend's setting, once it is read, and the verdict on her habits.
Judged(j, touched) ==
  \A r \in rows : A!Id(r) \notin touched /\ r.by = "fay" /\ r.kind = "habit" =>
    /\ j.phase = "verdict" => j.setting = vis
    /\ j.verdict # "unknown" =>
         (j.verdict = "yes" <=> vis = "public" \/ (vis = "friends" /\ friend))

Working ==
  /\ job.phase = "friends" => job = A!Request(Low(fetch.got))
  /\ job.phase \in {"batch", "setting", "verdict", "answer"} =>
       Loaded(job, Low(fetch.got), Scope) /\ Judged(job, Scope)
  /\ job.phase \in {"batch", "answer"} => job.raw = <<>>
  /\ job.phase = "batch" => ~job.exhausted
  /\ job.phase \in {"setting", "verdict"} => job.verdict = "unknown"

-----------------------------------------------------------------------------
(* Feed.  Lists of entries: what joining and filtering them leaves.        *)

\* One list after another, all of whose entries are earlier.
LEMMA JoinDescends ==
  ASSUME NEW a \in Seq(Entries), NEW b \in Seq(Entries), Descending(a), Descending(b),
         \A i \in DOMAIN a, k \in DOMAIN b : a[i].at > b[k].at
  PROVE  /\ a \o b \in Seq(Entries) /\ Descending(a \o b)
         /\ \A i \in DOMAIN (a \o b) :
              (\E k \in DOMAIN a : (a \o b)[i] = a[k]) \/ (\E k \in DOMAIN b : (a \o b)[i] = b[k])
         /\ \A i \in DOMAIN a : \E k \in DOMAIN (a \o b) : (a \o b)[k] = a[i]
         /\ \A i \in DOMAIN b : \E k \in DOMAIN (a \o b) : (a \o b)[k] = b[i]
<1> DEFINE c == a \o b
           m == Len(a)
           n == Len(b)
<1>1. /\ m \in Nat /\ n \in Nat /\ DOMAIN a = 1 .. m /\ DOMAIN b = 1 .. n
      /\ \A i \in 1 .. m : a[i] \in Entries
      /\ \A i \in 1 .. n : b[i] \in Entries
  OBVIOUS
<1>2. /\ c \in Seq(Entries) /\ Len(c) = m + n
      /\ \A i \in 1 .. m + n : c[i] = IF i <= m THEN a[i] ELSE b[i - m]
  BY ConcatProperties
<1>3. DOMAIN c = 1 .. m + n
  BY <1>2
<1> HIDE DEF c, m, n
<1>4. \A i \in 1 .. m + n : (i <= m /\ i \in 1 .. m) \/ (~(i <= m) /\ i - m \in 1 .. n)
  BY <1>1
<1>5. ASSUME NEW i \in 1 .. m + n, NEW k \in 1 .. m + n, i < k
      PROVE  c[i].at >= c[k].at /\ A!Id(c[i]) # A!Id(c[k])
  <2>1. CASE k <= m
    <3>1. i <= m /\ i \in 1 .. m /\ k \in 1 .. m
      BY <1>1, <1>5, <2>1
    <3>2. c[i] = a[i] /\ c[k] = a[k]
      BY <1>2, <2>1, <3>1
    <3> QED
      BY <1>1, <1>5, <3>1, <3>2 DEF Descending
  <2>2. CASE ~(k <= m) /\ i <= m
    <3>1. i \in 1 .. m /\ k - m \in 1 .. n
      BY <1>1, <2>2
    <3>2. c[i] = a[i] /\ c[k] = b[k - m] /\ a[i] \in Entries /\ b[k - m] \in Entries
      BY <1>1, <1>2, <2>2, <3>1
    <3>3. c[i].at > c[k].at /\ c[i].at \in Nat /\ c[k].at \in Nat
      BY <1>1, <3>1, <3>2 DEF Entries
    <3> QED
      BY <3>3 DEF A!Id
  <2>3. CASE ~(k <= m) /\ ~(i <= m)
    <3>1. i - m \in 1 .. n /\ k - m \in 1 .. n /\ i - m < k - m
      BY <1>1, <1>5, <2>3
    <3>2. c[i] = b[i - m] /\ c[k] = b[k - m]
      BY <1>2, <2>3
    <3> QED
      BY <1>1, <3>1, <3>2 DEF Descending
  <2> QED
    BY <2>1, <2>2, <2>3
<1>6. Descending(c)
  BY <1>3, <1>5 DEF Descending
<1>7. ASSUME NEW i \in 1 .. m + n
      PROVE  (\E k \in 1 .. m : c[i] = a[k]) \/ (\E k \in 1 .. n : c[i] = b[k])
  BY <1>2, <1>4
<1>8. ASSUME NEW i \in 1 .. m PROVE \E k \in 1 .. m + n : c[k] = a[i]
  <2>1. i \in 1 .. m + n /\ i <= m
    BY <1>1
  <2> QED
    BY <1>2, <2>1
<1>9. ASSUME NEW i \in 1 .. n PROVE \E k \in 1 .. m + n : c[k] = b[i]
  <2>1. i + m \in 1 .. m + n /\ ~(i + m <= m) /\ (i + m) - m = i
    BY <1>1
  <2> QED
    BY <1>2, <2>1
<1> QED
  BY <1>1, <1>2, <1>3, <1>6, <1>7, <1>8, <1>9 DEF c

\* The entries of a list that are in a set, in the list's order.
LEMMA FilterDescends ==
  ASSUME NEW s \in Seq(Entries), NEW S, Descending(s)
  PROVE  /\ A!Filter(s, S) \in Seq(Entries) /\ Descending(A!Filter(s, S))
         /\ \A i \in DOMAIN A!Filter(s, S) :
              A!Filter(s, S)[i] \in S /\ \E k \in DOMAIN s : A!Filter(s, S)[i] = s[k]
         /\ \A k \in DOMAIN s : s[k] \in S => \E i \in DOMAIN A!Filter(s, S) : A!Filter(s, S)[i] = s[k]
<1> DEFINE N == Len(s)
<1>1. PICK g : Filters(g, s, S) /\ A!Filter(s, S) = g[N]
  BY FilterIs
<1>2. N \in Nat /\ DOMAIN s = 1 .. N /\ \A i \in 1 .. N : s[i] \in Entries
  OBVIOUS
<1> HIDE DEF N
<1> DEFINE Has(l, n) ==
             /\ l \in Seq(Entries) /\ Descending(l)
             /\ \A i \in DOMAIN l : l[i] \in S /\ \E k \in 1 .. n : l[i] = s[k]
             /\ \A k \in 1 .. n : s[k] \in S => \E i \in DOMAIN l : l[i] = s[k]
           T == {n \in 0 .. N : Has(g[n], n)}
<1>3. 0 \in T
  <2>1. g[0] = <<>> /\ 0 \in 0 .. N
    BY <1>1, <1>2 DEF Filters, N
  <2>2. Has(<<>>, 0)
    BY DEF Descending
  <2> HIDE DEF Has
  <2> QED
    BY <2>1, <2>2
<1>4. ASSUME NEW n \in T, n < N PROVE n + 1 \in T
  <2>1. n \in Nat /\ n + 1 \in 1 .. N /\ n + 1 \in 0 .. N /\ (n + 1) - 1 = n /\ Has(g[n], n)
    BY <1>2, <1>4
  <2>2. g[n + 1] = IF s[n + 1] \in S THEN Append(g[n], s[n + 1]) ELSE g[n]
    BY <1>1, <2>1 DEF Filters, N
  <2>3. CASE s[n + 1] \in S
    <3> DEFINE l == g[n]
               e == s[n + 1]
               h == Append(l, e)
    <3>1. l \in Seq(Entries) /\ e \in Entries
      BY <1>2, <2>1
    <3>2. /\ h \in Seq(Entries) /\ Len(l) \in Nat
          /\ DOMAIN h = 1 .. (Len(l) + 1) /\ DOMAIN l = 1 .. Len(l)
          /\ \A i \in 1 .. Len(l) : h[i] = l[i]
          /\ h[Len(l) + 1] = e
      BY <3>1, AppendProperties
    <3>3. ASSUME NEW i \in 1 .. Len(l) PROVE l[i].at >= e.at /\ A!Id(l[i]) # A!Id(e)
      <4>1. PICK k \in 1 .. n : l[i] = s[k]
        BY <2>1, <3>2
      <4>2. k \in 1 .. N /\ k < n + 1
        BY <1>2, <2>1
      <4> QED
        BY <1>2, <2>1, <4>1, <4>2 DEF Descending
    <3> DEFINE m == Len(l)
    <3>4. m \in Nat /\ Has(l, n) /\ g[n + 1] = h
      BY <2>1, <2>2, <2>3, <3>2
    <3>5. ASSUME NEW i \in 1 .. m + 1 PROVE i \in 1 .. m \/ i = m + 1
      BY <3>4
    <3>6. ASSUME NEW i \in 1 .. m + 1, NEW k \in 1 .. m + 1, i < k
          PROVE  h[i].at >= h[k].at /\ A!Id(h[i]) # A!Id(h[k])
      <4>1. i \in 1 .. m
        BY <3>4, <3>6
      <4>2. CASE k = m + 1
        BY <3>2, <3>3, <4>1, <4>2
      <4>3. CASE k # m + 1
        <5>1. k \in 1 .. m
          BY <3>5, <4>3
        <5>2. Descending(l)
          BY <3>4
        <5> QED
          BY <3>2, <3>6, <4>1, <5>1, <5>2 DEF Descending
      <4> QED
        BY <4>2, <4>3
    <3>7. Descending(h)
      BY <3>2, <3>6 DEF Descending
    <3>8. ASSUME NEW i \in 1 .. m + 1 PROVE h[i] \in S /\ \E k \in 1 .. n + 1 : h[i] = s[k]
      <4>1. CASE i \in 1 .. m
        <5>1. h[i] = l[i] /\ l[i] \in S /\ \E k \in 1 .. n : l[i] = s[k]
          BY <3>2, <3>4, <4>1
        <5>2. \A k \in 1 .. n : k \in 1 .. n + 1
          BY <2>1
        <5> QED
          BY <5>1, <5>2
      <4>2. CASE i = m + 1
        BY <2>1, <2>3, <3>2, <4>2
      <4> QED
        BY <3>5, <4>1, <4>2
    <3>9. ASSUME NEW k \in 1 .. n + 1, s[k] \in S PROVE \E i \in 1 .. m + 1 : h[i] = s[k]
      <4>1. CASE k \in 1 .. n
        <5>1. PICK i \in 1 .. m : l[i] = s[k]
          BY <3>2, <3>4, <3>9, <4>1
        <5>2. i \in 1 .. m + 1 /\ h[i] = l[i]
          BY <3>2, <3>4
        <5> QED
          BY <5>1, <5>2
      <4>2. CASE k = n + 1
        <5>1. m + 1 \in 1 .. m + 1 /\ h[m + 1] = s[k]
          BY <3>2, <3>4, <4>2
        <5> QED
          BY <5>1
      <4> QED
        BY <2>1, <4>1, <4>2
    <3>10. Has(h, n + 1)
      BY <3>2, <3>7, <3>8, <3>9
    <3> HIDE DEF Has, h
    <3> QED
      BY <2>1, <3>4, <3>10
  <2>4. CASE s[n + 1] \notin S
    <3>1. g[n + 1] = g[n]
      BY <2>2, <2>4
    <3>2. \A k \in 1 .. n : k \in 1 .. n + 1
      BY <2>1
    <3>3. \A k \in 1 .. n + 1 : s[k] \in S => k \in 1 .. n
      BY <2>1, <2>4
    <3>4. Has(g[n], n + 1)
      BY <2>1, <3>2, <3>3
    <3> HIDE DEF Has
    <3> QED
      BY <2>1, <3>1, <3>4
  <2> QED
    BY <2>3, <2>4
<1> HIDE DEF T
<1>5. T = 0 .. N
  <2>1. T \in SUBSET (0 .. N)
    BY DEF T
  <2> QED
    BY <1>2, <1>3, <1>4, <2>1, UpTo
<1>6. Has(g[N], N)
  <2>1. N \in T
    BY <1>2, <1>5
  <2> HIDE DEF Has
  <2> QED
    BY <2>1 DEF T
<1>7. Has(A!Filter(s, S), N)
  <2> HIDE DEF Has
  <2> QED
    BY <1>1, <1>6
<1>8. DOMAIN s = 1 .. N
  BY <1>2
<1> QED
  BY ONLY <1>7, <1>8

\* A list of lists, one after another from the last to the first: the recursion of a batch.
LEMMA ChainIs ==
  ASSUME NEW N \in Nat, NEW s
  PROVE  \E g : g = [i \in 0 .. N |-> IF i = 0 THEN <<>> ELSE s[i] \o g[i - 1]]
<1> DEFINE Chain(g, n) == g = [i \in 0 .. n |-> IF i = 0 THEN <<>> ELSE s[i] \o g[i - 1]]
           T == {n \in 0 .. N : \E g : Chain(g, n)}
<1>1. 0 \in T
  <2>1. Chain([i \in 0 .. 0 |-> <<>>], 0)
    OBVIOUS
  <2>2. 0 \in 0 .. N
    OBVIOUS
  <2> QED
    BY <2>1, <2>2
<1>2. ASSUME NEW n \in T, n < N PROVE n + 1 \in T
  <2>1. PICK g : Chain(g, n)
    OBVIOUS
  <2> DEFINE last == s[n + 1] \o g[n]
             h == [i \in 0 .. (n + 1) |-> IF i = n + 1 THEN last ELSE g[i]]
             k == [i \in 0 .. (n + 1) |-> IF i = 0 THEN <<>> ELSE s[i] \o h[i - 1]]
  <2>0. n \in Nat
    OBVIOUS
  <2>2. ASSUME NEW i \in 0 .. (n + 1) PROVE h[i] = k[i]
    <3>1. CASE i = n + 1
      <4>1. n \in 0 .. (n + 1) /\ n # n + 1 /\ i - 1 = n /\ i # 0
        BY <2>0, <3>1
      <4>2. h[i - 1] = g[n]
        BY <4>1
      <4> QED
        BY <3>1, <4>1, <4>2
    <3>2. CASE i = 0
      <4>1. g[0] = <<>> /\ 0 # n + 1
        BY <2>0, <2>1
      <4> QED
        BY <3>2, <4>1
    <3>3. CASE i # 0 /\ i # n + 1
      <4>1. i \in 0 .. n /\ i - 1 \in 0 .. (n + 1) /\ i - 1 # n + 1
        BY <2>0, <3>3
      <4>2. h[i] = g[i] /\ h[i - 1] = g[i - 1]
        BY <3>3, <4>1
      <4>3. g[i] = s[i] \o g[i - 1]
        BY <2>1, <3>3, <4>1
      <4> QED
        BY <3>3, <4>2, <4>3
    <3> QED
      BY <3>1, <3>2, <3>3
  <2>3. h = k
    BY <2>2
  <2>4. Chain(h, n + 1)
    BY <2>3
  <2>5. \E q : Chain(q, n + 1)
    <3> HIDE DEF h, Chain
    <3> QED
      BY <2>4
  <2>6. n + 1 \in 0 .. N
    BY <1>2, <2>0
  <2> HIDE DEF Chain
  <2> QED
    BY <2>5, <2>6
<1> HIDE DEF T
<1>3. T = 0 .. N
  <2>1. T \in SUBSET (0 .. N)
    BY DEF T
  <2> QED
    BY <1>1, <1>2, <2>1, UpTo
<1>4. N \in T
  BY <1>3
<1> QED
  BY <1>4 DEF T

\* The entries of one time, if they are two at most.
LEMMA OneIs ==
  ASSUME NEW S, \A x, y \in S : x = y
  PROVE  \/ S = {} /\ A!One(S) = <<>>
         \/ \E x \in S : S = {x} /\ A!One(S) = <<x>>
<1>1. CASE S = {}
  BY <1>1 DEF A!One
<1>2. CASE S # {}
  <2>1. PICK x \in S : x = CHOOSE r \in S : TRUE
    BY <1>2
  <2> QED
    BY <1>2, <2>1 DEF A!One
<1> QED
  BY <1>1, <1>2

\* What a batch may have, and of a time.
Found(actors, before) == {r \in rows : ~r.hidden /\ r.by \in actors /\ r.at < before}

OfTime(found, t, ahead) ==
  A!One({r \in found : r.at = t /\ r.by = ahead}) \o A!One({r \in found : r.at = t /\ r.by # ahead})

LEMMA OfOneTime ==
  ASSUME FeedServer, NEW found, found \subseteq rows, NEW t, NEW ahead \in {"me", "fay"}
  PROVE  /\ OfTime(found, t, ahead) \in Seq(Entries) /\ Descending(OfTime(found, t, ahead))
         /\ \A i \in DOMAIN OfTime(found, t, ahead) :
              OfTime(found, t, ahead)[i] \in found /\ OfTime(found, t, ahead)[i].at = t
         /\ \A r \in found : r.at = t =>
              \E i \in DOMAIN OfTime(found, t, ahead) : OfTime(found, t, ahead)[i] = r
<1> DEFINE x == {r \in found : r.at = t /\ r.by = ahead}
           y == {r \in found : r.at = t /\ r.by # ahead}
<1>1. found \subseteq Entries /\ \A r, s \in found : r.at = s.at /\ r.by = s.by => r = s
  BY DEF FeedServer, A!Id
<1>2. \A r \in found : r.by \in {"me", "fay"}
  BY <1>1 DEF Entries
<1>3. \A r, s \in x : r = s
  BY <1>1
<1>4. \A r, s \in y : r = s
  <2>1. ASSUME NEW r \in y, NEW s \in y PROVE r = s
    <3>1. r.by \in {"me", "fay"} /\ s.by \in {"me", "fay"} /\ r.at = s.at
      BY <1>2
    <3>2. CASE r.by = s.by
      BY <1>1, <3>1, <3>2
    <3>3. CASE r.by # s.by
      <4>1. r.by # ahead /\ s.by # ahead
        OBVIOUS
      <4> QED
        BY <1>1, <3>1, <3>3, <4>1
    <3> QED
      BY <3>2, <3>3
  <2> QED
    BY <2>1
<1>5. PICK a : a = A!One(x)
  OBVIOUS
<1>6. PICK b : b = A!One(y)
  OBVIOUS
<1>7. (x = {} /\ a = <<>>) \/ (\E r \in x : x = {r} /\ a = <<r>>)
  <2> HIDE DEF x
  <2> QED
    BY <1>3, <1>5, OneIs
<1>8. (y = {} /\ b = <<>>) \/ (\E r \in y : y = {r} /\ b = <<r>>)
  <2> HIDE DEF y
  <2> QED
    BY <1>4, <1>6, OneIs
<1> DEFINE Is(of) == /\ of \in Seq(Entries) /\ Descending(of)
                     /\ \A i \in DOMAIN of : of[i] \in found /\ of[i].at = t
                     /\ \A r \in found : r.at = t => \E i \in DOMAIN of : of[i] = r
<1>9. \A r \in found : r.at = t => r \in x \cup y
  OBVIOUS
<1>10. /\ x \subseteq found /\ y \subseteq found /\ \A r \in x \cup y : r.at = t
       /\ \A r \in x, s \in y : r.by # s.by
  OBVIOUS
<1>12. a \o b = A!One(x) \o A!One(y)
  BY <1>5, <1>6
<1> HIDE DEF x, y
<1>11. Is(a \o b)
  <2>1. CASE x = {} /\ a = <<>> /\ y = {} /\ b = <<>>
    <3>1. a \o b = <<>>
      BY <2>1
    <3>2. Is(<<>>)
      BY <1>9, <2>1 DEF Descending
    <3> QED
      BY <3>1, <3>2
  <2>2. ASSUME NEW r, (x = {r} /\ a = <<r>> /\ y = {} /\ b = <<>>) \/ (x = {} /\ a = <<>> /\ y = {r} /\ b = <<r>>)
        PROVE  Is(a \o b)
    <3>0. r \in found /\ r.at = t /\ r \in Entries /\ x \cup y = {r}
      BY <1>1, <1>10, <2>2
    <3>1. a \o b = <<r>> /\ r \in found /\ r.at = t /\ r \in Entries /\ x \cup y = {r}
      <4>1. <<r>> \in Seq(Entries)
        BY <3>0
      <4>2. <<r>> \o <<>> = <<r>> /\ <<>> \o <<r>> = <<r>>
        BY <4>1, ConcatEmptySeq
      <4> QED
        BY <2>2, <3>0, <4>2
    <3>2. <<r>> \in Seq(Entries) /\ DOMAIN <<r>> = {1} /\ <<r>>[1] = r
      BY <3>1
    <3>3. Descending(<<r>>)
      BY <3>2 DEF Descending
    <3>4. Is(<<r>>)
      BY <1>9, <3>1, <3>2, <3>3
    <3> HIDE DEF Is
    <3> QED
      BY <3>1, <3>4
  <2>3. ASSUME NEW r, NEW s, x = {r} /\ a = <<r>> /\ y = {s} /\ b = <<s>>
        PROVE  Is(a \o b)
    <3>0. r \in found /\ s \in found /\ r.at = t /\ s.at = t /\ r.by # s.by
      BY <1>10, <2>3
    <3>1. a \o b = <<r, s>> /\ r \in found /\ s \in found /\ r.at = t /\ s.at = t /\ r.by # s.by
      <4>1. <<r>> \o <<s>> = <<r, s>>
        <5>1. <<r>> \in Seq({r, s}) /\ <<s>> \in Seq({r, s}) /\ Len(<<r>>) = 1 /\ Len(<<s>>) = 1
          OBVIOUS
        <5>2. /\ <<r>> \o <<s>> \in Seq({r, s}) /\ Len(<<r>> \o <<s>>) = 2
              /\ \A i \in 1 .. 2 : (<<r>> \o <<s>>)[i] = IF i <= 1 THEN <<r>>[i] ELSE <<s>>[i - 1]
          BY <5>1, ConcatProperties
        <5>3. (<<r>> \o <<s>>)[1] = r /\ (<<r>> \o <<s>>)[2] = s
          BY <5>2
        <5>4. /\ <<r, s>> \in Seq({r, s}) /\ Len(<<r, s>>) = 2 /\ <<r, s>>[1] = r /\ <<r, s>>[2] = s
              /\ \A i \in 1 .. 2 : i = 1 \/ i = 2
          OBVIOUS
        <5>5. \A i \in 1 .. 2 : (<<r>> \o <<s>>)[i] = <<r, s>>[i]
          BY <5>3, <5>4
        <5> QED
          BY <5>2, <5>4, <5>5, SeqEqual
      <4> QED
        BY <2>3, <3>0, <4>1
    <3>2. /\ <<r, s>> \in Seq(Entries) /\ DOMAIN <<r, s>> = {1, 2} /\ <<r, s>>[1] = r /\ <<r, s>>[2] = s
          /\ r.at \in Nat
      BY <1>1, <3>1 DEF Entries
    <3>3. Descending(<<r, s>>)
      <4>1. \A i, k \in {1, 2} : i < k => i = 1 /\ k = 2
        OBVIOUS
      <4> QED
        BY <3>1, <3>2, <4>1 DEF Descending, A!Id
    <3>4. \A q \in found : q.at = t => q = r \/ q = s
      BY <1>9, <2>3
    <3>5. Is(<<r, s>>)
      BY <3>1, <3>2, <3>3, <3>4
    <3> HIDE DEF Is
    <3> QED
      BY <3>1, <3>5
  <2> HIDE DEF Is
  <2> QED
    BY <1>7, <1>8, <2>1, <2>2, <2>3
<1>13. Is(A!One(x) \o A!One(y))
  BY ONLY <1>11, <1>12
<1> QED
  BY ONLY <1>13 DEF OfTime, x, y

\* A batch is in order, of what may be had, and has all of it, or all down to its last entry's time.
LEMMA BatchIs ==
  ASSUME FeedNumbers, FeedServer, NEW actors, NEW before \in Nat, NEW ahead \in {"me", "fay"}
  PROVE  LET raw == A!Batch(actors, before, ahead)
         IN /\ raw \in Seq(Entries) /\ Len(raw) <= BatchSize /\ Descending(raw)
            /\ \A i \in DOMAIN raw : raw[i] \in Found(actors, before)
            /\ \A r \in Found(actors, before) :
                 Len(raw) < BatchSize \/ r.at > raw[Len(raw)].at => \E i \in DOMAIN raw : raw[i] = r
<1> DEFINE found == Found(actors, before)
           of(t) == OfTime(found, t, ahead)
           s == [t \in 1 .. clock |-> of(t)]
           Sorted(g) == g = [t \in 0 .. clock |-> IF t = 0 THEN <<>> ELSE of(t) \o g[t - 1]]
           sorted == CHOOSE g : Sorted(g)
<1>1. clock \in Nat /\ BatchSize \in Nat \ {0}
  BY DEF FeedServer, FeedNumbers
<1>2. found \subseteq rows /\ found \subseteq Entries /\ \A r \in found : r.at \in 1 .. clock
  BY DEF FeedServer, Found
<1>3. A!Batch(actors, before, ahead) =
        IF Len(sorted[clock]) <= BatchSize THEN sorted[clock] ELSE SubSeq(sorted[clock], 1, BatchSize)
  BY DEF A!Batch, Found, OfTime
<1> HIDE DEF found
<1>4. ASSUME NEW t \in 1 .. clock
      PROVE  /\ of(t) \in Seq(Entries) /\ Descending(of(t))
             /\ \A i \in DOMAIN of(t) : of(t)[i] \in found /\ of(t)[i].at = t
             /\ \A r \in found : r.at = t => \E i \in DOMAIN of(t) : of(t)[i] = r
  <2>1. found \subseteq rows
    BY <1>2
  <2>2. \A x \in {"me", "fay"} :
          /\ OfTime(found, t, x) \in Seq(Entries) /\ Descending(OfTime(found, t, x))
          /\ \A i \in DOMAIN OfTime(found, t, x) : OfTime(found, t, x)[i] \in found /\ OfTime(found, t, x)[i].at = t
          /\ \A r \in found : r.at = t => \E i \in DOMAIN OfTime(found, t, x) : OfTime(found, t, x)[i] = r
    BY ONLY FeedServer, <2>1, OfOneTime
  <2> QED
    BY <2>2
<1> HIDE DEF of
<1>5. \E g : Sorted(g)
  <2>1. PICK g : g = [i \in 0 .. clock |-> IF i = 0 THEN <<>> ELSE s[i] \o g[i - 1]]
    <3>1. \A q : \E g : g = [i \in 0 .. clock |-> IF i = 0 THEN <<>> ELSE q[i] \o g[i - 1]]
      BY <1>1, ChainIs
    <3> HIDE DEF s
    <3> QED
      BY <3>1
  <2>2. ASSUME NEW i \in 0 .. clock
        PROVE  (IF i = 0 THEN <<>> ELSE s[i] \o g[i - 1]) = (IF i = 0 THEN <<>> ELSE of(i) \o g[i - 1])
    <3>1. i # 0 => i \in 1 .. clock
      BY <1>1
    <3>2. i # 0 => s[i] = of(i)
      BY <3>1
    <3> HIDE DEF s
    <3> QED
      BY <3>2
  <2>3. [i \in 0 .. clock |-> IF i = 0 THEN <<>> ELSE s[i] \o g[i - 1]]
          = [i \in 0 .. clock |-> IF i = 0 THEN <<>> ELSE of(i) \o g[i - 1]]
    <3> HIDE DEF s
    <3> QED
      BY <2>2
  <2>4. Sorted(g)
    <3> HIDE DEF s
    <3> QED
      BY <2>1, <2>3
  <2> HIDE DEF Sorted
  <2> QED
    BY <2>4
<1>6. Sorted(sorted)
  <2> HIDE DEF Sorted
  <2> QED
    BY <1>5
<1> HIDE DEF sorted
<1>7. /\ sorted[0] = <<>>
      /\ \A t \in 1 .. clock : sorted[t] = of(t) \o sorted[t - 1]
  <2>1. ASSUME NEW t \in 0 .. clock
        PROVE  sorted[t] = IF t = 0 THEN <<>> ELSE of(t) \o sorted[t - 1]
    <3> DEFINE at(i) == IF i = 0 THEN <<>> ELSE of(i) \o sorted[i - 1]
    <3>1. sorted = [i \in 0 .. clock |-> at(i)]
      BY <1>6
    <3> HIDE DEF at
    <3>2. sorted[t] = at(t)
      BY <3>1
    <3> QED
      BY <3>2 DEF at
  <2>2. 0 \in 0 .. clock /\ \A t \in 1 .. clock : t \in 0 .. clock /\ t # 0
    BY <1>1
  <2> QED
    BY <2>1, <2>2
<1> HIDE DEF Sorted
<1> DEFINE Has(l, n) ==
             /\ l \in Seq(Entries) /\ Descending(l)
             /\ \A i \in DOMAIN l : l[i] \in found /\ l[i].at <= n
             /\ \A r \in found : r.at <= n => \E i \in DOMAIN l : l[i] = r
           T == {n \in 0 .. clock : Has(sorted[n], n)}
<1>8. 0 \in T
  <2>1. \A r \in found : ~(r.at <= 0)
    BY <1>2
  <2>2. Has(<<>>, 0)
    BY <2>1 DEF Descending
  <2> HIDE DEF Has
  <2> QED
    BY <1>1, <1>7, <2>2
<1>9. ASSUME NEW n \in T, n < clock PROVE n + 1 \in T
  <2>1. n \in Nat /\ n + 1 \in 1 .. clock /\ n + 1 \in 0 .. clock /\ (n + 1) - 1 = n /\ Has(sorted[n], n)
    BY <1>1, <1>9
  <2> DEFINE a == of(n + 1)
             b == sorted[n]
             c == a \o b
  <2>2. sorted[n + 1] = c
    BY <1>7, <2>1
  <2>3. /\ a \in Seq(Entries) /\ Descending(a) /\ b \in Seq(Entries) /\ Descending(b)
        /\ \A i \in DOMAIN a : a[i] \in found /\ a[i].at = n + 1
        /\ \A r \in found : r.at = n + 1 => \E i \in DOMAIN a : a[i] = r
        /\ \A i \in DOMAIN b : b[i] \in found /\ b[i].at <= n
        /\ \A r \in found : r.at <= n => \E i \in DOMAIN b : b[i] = r
    BY <1>4, <2>1
  <2> HIDE DEF a, b
  <2>4. \A i \in DOMAIN a, k \in DOMAIN b : a[i].at > b[k].at
    <3>1. \A r \in found : r.at \in Nat
      BY <1>1, <1>2
    <3> QED
      BY <2>1, <2>3, <3>1
  <2>5. /\ c \in Seq(Entries) /\ Descending(c)
        /\ \A i \in DOMAIN c : (\E k \in DOMAIN a : c[i] = a[k]) \/ (\E k \in DOMAIN b : c[i] = b[k])
        /\ \A i \in DOMAIN a : \E k \in DOMAIN c : c[k] = a[i]
        /\ \A i \in DOMAIN b : \E k \in DOMAIN c : c[k] = b[i]
    BY <2>3, <2>4, JoinDescends
  <2> HIDE DEF c
  <2>6. ASSUME NEW i \in DOMAIN c PROVE c[i] \in found /\ c[i].at <= n + 1
    <3>1. CASE \E k \in DOMAIN a : c[i] = a[k]
      BY <2>1, <2>3, <3>1
    <3>2. CASE \E k \in DOMAIN b : c[i] = b[k]
      <4>1. c[i] \in found /\ c[i].at <= n /\ c[i].at \in Int
        BY <1>2, <2>3, <3>2
      <4> QED
        BY <2>1, <4>1
    <3> QED
      BY <2>5, <3>1, <3>2
  <2>7. ASSUME NEW r \in found, r.at <= n + 1 PROVE \E i \in DOMAIN c : c[i] = r
    <3>1. r.at \in Int
      BY <1>2
    <3>2. CASE r.at = n + 1
      BY <2>3, <2>5, <3>2
    <3>3. CASE r.at <= n
      BY <2>3, <2>5, <3>3
    <3> QED
      BY <2>1, <2>7, <3>1, <3>2, <3>3
  <2>8. Has(c, n + 1)
    BY <2>5, <2>6, <2>7
  <2> HIDE DEF Has
  <2> QED
    BY <2>1, <2>2, <2>8
<1> HIDE DEF T
<1>10. T = 0 .. clock
  <2>1. T \in SUBSET (0 .. clock)
    BY DEF T
  <2> QED
    BY <1>1, <1>8, <1>9, <2>1, UpTo
<1> DEFINE l == sorted[clock]
<1>11. Has(l, clock)
  <2>1. clock \in T
    BY <1>1, <1>10
  <2> HIDE DEF Has
  <2> QED
    BY <2>1 DEF T
<1> DEFINE Is(raw) == /\ raw \in Seq(Entries) /\ Len(raw) <= BatchSize /\ Descending(raw)
                      /\ \A i \in DOMAIN raw : raw[i] \in found
                      /\ \A r \in found :
                           Len(raw) < BatchSize \/ r.at > raw[Len(raw)].at => \E i \in DOMAIN raw : raw[i] = r
<1>12. A!Batch(actors, before, ahead) = IF Len(l) <= BatchSize THEN l ELSE SubSeq(l, 1, BatchSize)
  BY <1>3
<1> HIDE DEF l
<1>13. /\ Len(l) \in Nat /\ DOMAIN l = 1 .. Len(l) /\ l \in Seq(Entries) /\ Descending(l)
       /\ \A i \in 1 .. Len(l) : l[i] \in found /\ l[i].at \in Nat
       /\ \A r \in found : \E i \in DOMAIN l : l[i] = r
  <2>1. \A r \in found : r.at <= clock /\ r.at \in Nat
    BY <1>1, <1>2
  <2>2. \A i \in DOMAIN l : l[i] \in found
    BY <1>11
  <2> QED
    BY <1>11, <2>1, <2>2
<1>14. CASE Len(l) <= BatchSize
  <2>1. Is(l)
    BY <1>13, <1>14
  <2> HIDE DEF Is
  <2>2. Is(A!Batch(actors, before, ahead))
    BY <1>12, <1>14, <2>1
  <2> QED
    BY <2>2 DEF Is, found
<1>15. CASE ~(Len(l) <= BatchSize)
  <2> DEFINE h == SubSeq(l, 1, BatchSize)
             b == BatchSize
  <2>1. h \in Seq(Entries) /\ Len(h) = b /\ \A i \in 1 .. b : h[i] = l[i]
    <3>1. \A i \in 1 .. b : l[i] \in Entries
      BY <1>1, <1>13, <1>15
    <3>2. 1 \in Int /\ b \in Int /\ 1 <= b /\ b - 1 + 1 = b /\ \A i \in 1 .. b : 1 + i - 1 = i
      BY <1>1
    <3> QED
      BY <3>1, <3>2, SubSeqProperties
  <2>2. b \in Nat \ {0} /\ DOMAIN h = 1 .. b /\ \A i \in 1 .. b : i \in 1 .. Len(l)
    BY <1>1, <1>13, <1>15, <2>1
  <2> HIDE DEF h, b
  <2>3. Descending(h)
    BY <1>13, <2>1, <2>2 DEF Descending
  <2>4. ASSUME NEW r \in found, Len(h) < b \/ r.at > h[Len(h)].at PROVE \E i \in DOMAIN h : h[i] = r
    <3>1. r.at > l[b].at /\ b \in 1 .. b /\ b \in 1 .. Len(l)
      BY <2>1, <2>2, <2>4
    <3>2. PICK i \in 1 .. Len(l) : l[i] = r
      BY <1>13
    <3>3. i <= b
      <4>1. SUFFICES ASSUME i > b PROVE FALSE
        BY <1>13, <2>2
      <4>2. l[b].at >= l[i].at
        BY <1>13, <3>1, <3>2, <4>1 DEF Descending
      <4>3. l[b].at \in Nat /\ l[i].at \in Nat
        BY <1>13, <3>1
      <4> QED
        BY <3>1, <3>2, <4>2, <4>3
    <3>4. i \in 1 .. b
      BY <1>13, <2>2, <3>3
    <3> QED
      BY <2>1, <2>2, <3>2, <3>4
  <2>5. Is(h)
    BY <1>13, <2>1, <2>2, <2>3, <2>4 DEF b
  <2>6. A!Batch(actors, before, ahead) = h
    BY <1>12, <1>15 DEF h
  <2> HIDE DEF Is
  <2>7. Is(A!Batch(actors, before, ahead))
    BY <2>5, <2>6
  <2> QED
    BY <2>7 DEF Is, found
<1> QED
  BY <1>14, <1>15

-----------------------------------------------------------------------------
(* Feed.  What happens elsewhere.                                          *)

FeedInv == FeedTypes /\ FeedFlow /\ FeedLists /\ Working

\* The rest of the entries is as it was, and as visible.
Untouched(T) ==
  \A r \in rows' : A!Id(r) \notin T =>
    /\ r \in rows
    /\ r.by = "fay" => friend' = friend
    /\ r.by = "fay" /\ r.kind = "habit" => vis' = vis

\* What the client has and reads is right of what was not touched, whatever is done to the rest.
LEMMA ServerKeeps ==
  ASSUME FeedInv, NEW T, Untouched(T), FeedServer', UNCHANGED <<job, pages, fetch>>,
         moved' = moved \cup T, fresh' = fresh \cup T
  PROVE  FeedInv'
<1>1. FeedTypes /\ FeedFlow /\ FeedLists /\ Working
  BY DEF FeedInv
<1>2. job' = job /\ pages' = pages /\ fetch' = fetch
  OBVIOUS
<1>3. FeedTypes'
  BY <1>1, <1>2 DEF FeedTypes
<1>4. FeedFlow'
  BY <1>1, <1>2 DEF FeedFlow
<1> DEFINE seen(r) == ~r.hidden /\ (r.by = "me" \/ (friend /\ (r.kind = "habit" => vis \in {"friends", "public"})))
           later(r) == ~r.hidden /\ (r.by = "me" \/ (friend' /\ (r.kind = "habit" => vis' \in {"friends", "public"})))
           scope == Scope
<1>5. ASSUME NEW r \in rows', A!Id(r) \notin T
      PROVE  /\ r \in rows /\ (later(r) <=> seen(r))
             /\ r.by = "fay" => friend' = friend
             /\ r.by = "fay" /\ r.kind = "habit" => vis' = vis
  <2>1. /\ r \in rows
        /\ r.by = "fay" => friend' = friend
        /\ r.by = "fay" /\ r.kind = "habit" => vis' = vis
    BY <1>5 DEF Untouched
  <2>2. r.by \in {"me", "fay"}
    BY <1>1, <2>1 DEF FeedTypes, FeedServer, Entries
  <2> QED
    BY <2>1, <2>2
<1>6. Scope' = scope \cup T
  BY <1>2 DEF Scope
<1>7. FeedLists'
  <2>1. InOrder(pages') /\ InOrder(fetch'.got)
    BY <1>1, <1>2 DEF FeedLists
  <2>2. Whole(pages, moved) /\ Whole(fetch.got, scope)
    BY <1>1 DEF FeedLists
  <2>3. ASSUME NEW l, NEW t, Whole(l, t), NEW r \in rows', A!Id(r) \notin t \cup T
        PROVE  /\ later(r) /\ r.at > Low(l) /\ r.at \notin PageEdges(l) => A!Id(r) \in PageNames(l)
               /\ A!Id(r) \in PageNames(l) => later(r)
    <3>1. r \in rows /\ A!Id(r) \notin t /\ (later(r) <=> seen(r))
      BY <1>5, <2>3
    <3>2. /\ seen(r) /\ r.at > Low(l) /\ r.at \notin PageEdges(l) => A!Id(r) \in PageNames(l)
          /\ A!Id(r) \in PageNames(l) => seen(r)
      BY <2>3, <3>1 DEF Whole, A!Visible
    <3> HIDE DEF seen, later
    <3> QED
      BY <3>1, <3>2
  <2> HIDE DEF scope, later
  <2>4. \A r \in rows' : A!Id(r) \notin moved' =>
          /\ later(r) /\ r.at > Low(pages') /\ r.at \notin PageEdges(pages') => A!Id(r) \in PageNames(pages')
          /\ A!Id(r) \in PageNames(pages') => later(r)
    BY <1>2, <2>2, <2>3
  <2>5. \A r \in rows' : A!Id(r) \notin Scope' =>
          /\ later(r) /\ r.at > Low(fetch'.got) /\ r.at \notin PageEdges(fetch'.got)
               => A!Id(r) \in PageNames(fetch'.got)
          /\ A!Id(r) \in PageNames(fetch'.got) => later(r)
    BY <1>2, <1>6, <2>2, <2>3
  <2> QED
    BY <2>1, <2>4, <2>5 DEF FeedLists, Whole, A!Visible, later
<1>8. Working'
  <2>1. job'.phase = "friends" => job' = A!Request(Low(fetch'.got))
    BY <1>1, <1>2 DEF Working
  <2>2. ASSUME job.phase \in {"batch", "setting", "verdict", "answer"}
        PROVE  Loaded(job, Low(fetch.got), Scope)' /\ Judged(job, Scope)'
    <3> DEFINE j == job
               top == Low(fetch.got)
    <3>1. Loaded(j, top, scope) /\ Judged(j, scope)
      BY <1>1, <2>2 DEF Working
    <3>2. job' = j /\ Low(fetch'.got) = top /\ Scope' = scope \cup T
      BY <1>2, <1>6
    <3>3. Arranged(job', Low(fetch'.got))
      BY <3>1, <3>2 DEF Loaded
    <3>4. ASSUME NEW r \in rows', A!Id(r) \notin scope \cup T
          PROVE  /\ r.by = "fay" => ("fay" \in j.actors <=> friend')
                 /\ later(r) /\ r.at < top /\ r.at \notin j.edges /\ (j.exhausted \/ r.at > j.cursor)
                    => A!Id(r) \in Named(j.kept) \cup Named(j.raw)
                 /\ A!Id(r) \in Named(j.kept) => later(r)
                 /\ \A i \in DOMAIN j.raw : A!Id(j.raw[i]) = A!Id(r) => j.raw[i] = r
      <4>1. r \in rows /\ A!Id(r) \notin scope /\ (later(r) <=> seen(r)) /\ (r.by = "fay" => friend' = friend)
        BY <1>5, <3>4
      <4>2. /\ r.by = "fay" => ("fay" \in j.actors <=> friend)
            /\ seen(r) /\ r.at < top /\ r.at \notin j.edges /\ (j.exhausted \/ r.at > j.cursor)
               => A!Id(r) \in Named(j.kept) \cup Named(j.raw)
            /\ A!Id(r) \in Named(j.kept) => seen(r)
            /\ \A i \in DOMAIN j.raw : A!Id(j.raw[i]) = A!Id(r) => j.raw[i] = r
        BY <3>1, <4>1 DEF Loaded, A!Visible
      <4> HIDE DEF seen, later, scope, j, top
      <4> QED
        BY <4>1, <4>2
    <3>5. ASSUME NEW r \in rows', A!Id(r) \notin scope \cup T, r.by = "fay", r.kind = "habit"
          PROVE  /\ j.phase = "verdict" => j.setting = vis'
                 /\ j.verdict # "unknown" =>
                      (j.verdict = "yes" <=> vis' = "public" \/ (vis' = "friends" /\ friend'))
      <4>1. r \in rows /\ A!Id(r) \notin scope /\ friend' = friend /\ vis' = vis
        BY <1>5, <3>5
      <4> QED
        BY <3>1, <3>5, <4>1 DEF Judged
    <3> HIDE DEF j, top, scope, later
    <3>6. Loaded(job, Low(fetch.got), Scope)'
      BY <3>2, <3>3, <3>4 DEF Loaded, A!Visible, later
    <3>7. Judged(job, Scope)'
      BY <3>2, <3>5 DEF Judged
    <3> QED
      BY <3>6, <3>7
  <2>3. /\ job'.phase \in {"batch", "answer"} => job'.raw = <<>>
        /\ job'.phase = "batch" => ~job'.exhausted
        /\ job'.phase \in {"setting", "verdict"} => job'.verdict = "unknown"
    BY <1>1, <1>2 DEF Working
  <2> QED
    BY <1>2, <2>1, <2>2, <2>3 DEF Working
<1> QED
  BY <1>3, <1>4, <1>7, <1>8 DEF FeedInv

Events == {"accepted", "removed", "narrowed", "widened"}

\* An event that follows a change.
LEMMA Emitted ==
  ASSUME FeedServer, NEW e \in Events
  PROVE  /\ Append(emits, e) \in Seq(Events) /\ Len(Append(emits, e)) = Len(emits) + 1
         /\ DOMAIN Append(emits, e) = 1 .. Len(emits) + 1 /\ Len(emits) \in Nat
         /\ \A i \in 1 .. Len(emits) : Append(emits, e)[i] = emits[i]
         /\ Append(emits, e)[Len(emits) + 1] = e
<1>1. emits \in Seq(Events)
  BY DEF FeedServer, Events
<1> QED
  BY <1>1, AppendProperties

\* An event that is handled or lost.
LEMMA Taken ==
  ASSUME FeedServer, NEW i \in DOMAIN emits, emits' = A!RemoveAt(emits, i)
  PROVE  /\ emits' \in Seq(Events) /\ Len(emits') = Len(emits) - 1 /\ emits[i] \in Events
         /\ \A k \in DOMAIN emits' :
              /\ (IF k < i THEN k ELSE k + 1) \in DOMAIN emits
              /\ emits'[k] = emits[IF k < i THEN k ELSE k + 1]
<1>1. emits \in Seq(Events)
  BY DEF FeedServer, Events
<1> DEFINE l == A!RemoveAt(emits, i)
<1>2. /\ l \in Seq(Events) /\ Len(l) = Len(emits) - 1
      /\ \A k \in DOMAIN l :
           /\ (IF k < i THEN k ELSE k + 1) \in DOMAIN emits
           /\ l[k] = emits[IF k < i THEN k ELSE k + 1]
  <2>1. A!RemoveAt(emits, i) = L!RemoveAt(emits, i)
    BY DEF A!RemoveAt, L!RemoveAt
  <2> QED
    BY <1>1, <2>1, Removed
<1>3. emits' = l /\ emits[i] \in Events
  BY <1>1
<1> HIDE DEF l
<1> QED
  BY <1>2, <1>3

LEMMA HappenKeeps ==
  ASSUME FeedNumbers, FeedInv, NEW by \in {"me", "fay"}, NEW kind \in {"habit", "other"}, A!Happen(by, kind)
  PROVE  FeedInv'
<1> DEFINE r == A!Row(clock + 1, by, kind)
<1>1. FeedServer
  BY DEF FeedInv, FeedTypes
<1>2. /\ r \in Entries /\ r.at = clock + 1 /\ clock \in Nat
  BY <1>1 DEF FeedServer, A!Row, Entries
<1>3. rows' = rows \cup {r} /\ clock' = clock + 1 /\ events' = events + 1 /\ events < MaxFeedEvents
      /\ UNCHANGED <<friend, vis, emits, slipped, job, pages, fetch>>
      /\ moved' = moved \cup {A!Id(x) : x \in {r}} /\ fresh' = fresh \cup {A!Id(x) : x \in {r}}
  BY DEF A!Happen, A!MayOccur, A!Touch
<1> HIDE DEF r
<1>4. FeedServer'
  <2>1. \A x \in rows : x.at <= clock /\ x.at \in Nat
    BY <1>1, <1>2 DEF FeedServer
  <2>2. \A x, y \in rows' : A!Id(x) = A!Id(y) => x = y
    BY <1>1, <1>2, <1>3, <2>1 DEF FeedServer, A!Id
  <2>3. rows' \subseteq Entries /\ \A x \in rows' : x.at \in 1 .. clock'
    BY <1>1, <1>2, <1>3, <2>1 DEF FeedServer
  <2>4. events' \in Nat /\ events' <= MaxFeedEvents /\ clock' + Len(emits') <= MaxFirst + events' /\ clock' \in Nat
    <3>1. Len(emits) \in Nat
      BY <1>1 DEF FeedServer
    <3> QED
      BY <1>1, <1>3, <3>1 DEF FeedServer, FeedNumbers
  <2> QED
    BY <1>1, <1>3, <2>2, <2>3, <2>4 DEF FeedServer
<1>5. Untouched({A!Id(x) : x \in {r}})
  BY <1>3 DEF Untouched
<1> QED
  BY <1>3, <1>4, <1>5, ServerKeeps

\* A change of hers that is committed, and its event to come.
LEMMA OccurKeeps ==
  ASSUME FeedNumbers, FeedInv, A!MayOccur, UNCHANGED <<rows, clock, slipped, job, pages, fetch>>,
         friend' \in BOOLEAN, vis' \in Settings, NEW e \in Events, emits' = Append(emits, e),
         NEW set, A!Touch(set), \A r \in rows : r.by = "fay" /\ (r.kind = "habit" \/ friend' # friend) => r \in set
  PROVE  FeedInv'
<1> DEFINE T == {A!Id(r) : r \in set}
<1>1. FeedServer /\ moved' = moved \cup T /\ fresh' = fresh \cup T
  BY DEF FeedInv, FeedTypes, A!Touch
<1>2. FeedServer'
  <2>1. events' \in Nat /\ events' <= MaxFeedEvents /\ clock' + Len(emits') <= MaxFirst + events'
    BY <1>1, Emitted DEF FeedServer, A!MayOccur, FeedNumbers
  <2> QED
    BY <1>1, <2>1, Emitted DEF FeedServer, Events
<1>3. Untouched(T)
  BY DEF Untouched
<1> QED
  BY <1>1, <1>2, <1>3, ServerKeeps

LEMMA HandleKeeps == ASSUME FeedNumbers, FeedInv, NEW i \in DOMAIN emits, A!Handle(i) PROVE FeedInv'
<1> DEFINE e == emits[i]
<1>1. FeedServer
  BY DEF FeedInv, FeedTypes
<1>2. /\ emits' = A!RemoveAt(emits, i) /\ UNCHANGED <<friend, vis, job, pages, fetch, events>>
      /\ slipped' \in BOOLEAN
  BY <1>1 DEF A!Handle, FeedServer
<1>3. emits' \in Seq(Events) /\ Len(emits') = Len(emits) - 1 /\ e \in Events /\ Len(emits) \in Nat
  BY <1>1, <1>2, Taken DEF FeedServer
<1>4. ASSUME NEW T, moved' = moved \cup T, fresh' = fresh \cup T,
             clock' \in {clock, clock + 1}, rows' \subseteq Entries, \A r \in rows' : r.at \in 1 .. clock',
             \A r, s \in rows' : A!Id(r) = A!Id(s) => r = s,
             \A r \in rows' : A!Id(r) \notin T => r \in rows
      PROVE  FeedInv'
  <2>1. clock' \in Nat /\ clock' + Len(emits') <= MaxFirst + events'
    BY <1>1, <1>2, <1>3, <1>4 DEF FeedServer, FeedNumbers
  <2>2. FeedServer'
    BY <1>1, <1>2, <1>3, <1>4, <2>1 DEF FeedServer, Events
  <2>3. Untouched(T)
    BY <1>2, <1>4 DEF Untouched
  <2> QED
    BY <1>2, <1>4, <2>2, <2>3, ServerKeeps
<1>5. CASE e = "accepted" /\ A!Bond = {}
  <2> DEFINE a == A!Row(clock + 1, "me", "bond")
             b == A!Row(clock + 1, "fay", "bond")
             T == {A!Id(r) : r \in {a, b}}
  <2>1. /\ clock' = clock + 1 /\ rows' = rows \cup {a, b} /\ moved' = moved \cup T /\ fresh' = fresh \cup T
    BY <1>5 DEF A!Handle, A!NewBond, A!Touch
  <2>2. /\ a \in Entries /\ b \in Entries /\ a.at = clock + 1 /\ b.at = clock + 1 /\ a.by # b.by
        /\ clock \in Nat
    BY <1>1 DEF A!Row, Entries, FeedServer
  <2> HIDE DEF a, b
  <2>3. \A x \in rows : x.at <= clock /\ x.at \in Nat
    BY <1>1, <2>2 DEF FeedServer
  <2>4. \A x, y \in rows' : A!Id(x) = A!Id(y) => x = y
    BY <1>1, <2>1, <2>2, <2>3 DEF FeedServer, A!Id
  <2>5. rows' \subseteq Entries /\ \A x \in rows' : x.at \in 1 .. clock'
    BY <1>1, <2>1, <2>2, <2>3 DEF FeedServer
  <2>6. \A r \in rows' : A!Id(r) \notin T => r \in rows
    BY <2>1
  <2> QED
    BY <1>4, <2>1, <2>4, <2>5, <2>6
<1>6. CASE e = "accepted" /\ A!Bond # {}
  <2>1. rows' = rows /\ clock' = clock /\ moved' = moved \cup {} /\ fresh' = fresh \cup {}
    BY <1>6 DEF A!Handle
  <2>2. /\ clock' \in {clock, clock + 1} /\ rows' \subseteq Entries /\ \A r \in rows' : r.at \in 1 .. clock'
        /\ \A r, s \in rows' : A!Id(r) = A!Id(s) => r = s
        /\ \A r \in rows' : A!Id(r) \notin {} => r \in rows
    BY <1>1, <2>1 DEF FeedServer
  <2> QED
    BY <1>4, <2>1, <2>2
<1>7. ASSUME NEW set \in SUBSET rows, NEW flag \in BOOLEAN, A!Hide(set, flag), A!Touch(set), clock' = clock
      PROVE  FeedInv'
  <2> DEFINE T == {A!Id(r) : r \in set}
             new(r) == [r EXCEPT !.hidden = flag]
  <2>1. rows' = (rows \ set) \cup {new(r) : r \in set} /\ moved' = moved \cup T /\ fresh' = fresh \cup T
    BY <1>7 DEF A!Hide, A!Touch
  <2>2. ASSUME NEW r \in rows
        PROVE  new(r) \in Entries /\ new(r).at = r.at /\ new(r).by = r.by /\ A!Id(new(r)) = A!Id(r)
    <3>1. r \in Entries
      BY <1>1 DEF FeedServer
    <3> QED
      BY <3>1 DEF Entries, A!Id
  <2> HIDE DEF new
  <2>3. \A x \in rows' : (x \in rows \/ \E r \in set : x = new(r))
    BY <2>1
  <2>4. \A x \in rows' : \E r \in rows : A!Id(r) = A!Id(x) /\ r.at = x.at /\ (IF r \in set THEN x = new(r) ELSE x = r)
    BY <1>7, <2>1, <2>2
  <2>5. \A x, y \in rows' : A!Id(x) = A!Id(y) => x = y
    BY <1>1, <2>4 DEF FeedServer
  <2>6. rows' \subseteq Entries /\ \A x \in rows' : x.at \in 1 .. clock'
    BY <1>1, <1>7, <2>2, <2>3 DEF FeedServer
  <2>7. \A r \in rows' : A!Id(r) \notin T => r \in rows
    BY <2>2, <2>3
  <2> QED
    BY <1>4, <1>7, <2>1, <2>5, <2>6, <2>7
<1>8. A!Bond \subseteq rows /\ A!Habit \subseteq rows
  BY DEF A!Bond, A!Habit, A!Hers
<1>9. CASE e = "removed"
  BY <1>7, <1>8, <1>9 DEF A!Handle
<1>10. CASE e = "narrowed"
  BY <1>7, <1>8, <1>10 DEF A!Handle
<1>11. CASE e = "widened"
  BY <1>7, <1>8, <1>11 DEF A!Handle
<1> QED
  BY <1>3, <1>5, <1>6, <1>9, <1>10, <1>11 DEF Events

LEMMA LoseKeeps == ASSUME FeedNumbers, FeedInv, NEW i \in DOMAIN emits, A!LoseEvent(i) PROVE FeedInv'
<1>1. FeedServer
  BY DEF FeedInv, FeedTypes
<1>2. /\ emits' = A!RemoveAt(emits, i) /\ UNCHANGED <<friend, vis, rows, clock, job, pages, fetch, moved, fresh>>
      /\ slipped' = TRUE /\ events' = events + 1 /\ events < MaxFeedEvents
  BY DEF A!LoseEvent, A!client, A!MayOccur
<1>3. emits' \in Seq(Events) /\ Len(emits') = Len(emits) - 1 /\ Len(emits) \in Nat
  BY <1>1, <1>2, Taken DEF FeedServer
<1>4. FeedServer'
  BY <1>1, <1>2, <1>3 DEF FeedServer, FeedNumbers, Events
<1>5. Untouched({})
  BY <1>2 DEF Untouched
<1> QED
  BY <1>2, <1>4, <1>5, ServerKeeps

LEMMA DeletedKeeps == ASSUME FeedNumbers, FeedInv, A!UserDeleted PROVE FeedInv'
<1> DEFINE T == {A!Id(r) : r \in A!Hers \cup A!Bond}
<1>1. FeedServer
  BY DEF FeedInv, FeedTypes
<1>2. /\ rows' = rows \ (A!Hers \cup A!Bond) /\ vis' = "none" /\ friend' = FALSE
      /\ events' = events + 1 /\ events < MaxFeedEvents /\ UNCHANGED <<clock, emits, slipped, job, pages, fetch>>
      /\ moved' = moved \cup T /\ fresh' = fresh \cup T
  BY DEF A!UserDeleted, A!Touch, A!MayOccur
<1>3. FeedServer'
  <2>1. Len(emits) \in Nat
    BY <1>1 DEF FeedServer
  <2>2. events' \in Nat /\ events' <= MaxFeedEvents /\ clock' + Len(emits') <= MaxFirst + events'
    BY <1>1, <1>2, <2>1 DEF FeedServer, FeedNumbers
  <2>3. rows' \subseteq rows
    BY <1>2
  <2> QED
    BY <1>1, <1>2, <2>2, <2>3 DEF FeedServer, Settings
<1>4. Untouched(T)
  BY <1>2 DEF Untouched, A!Hers
<1> QED
  BY <1>2, <1>3, <1>4, ServerKeeps

-----------------------------------------------------------------------------
(* Feed.  The request.                                                     *)

\* Less is said of more that was touched.
LEMMA LessIsSaid ==
  ASSUME NEW t, NEW u, t \subseteq u
  PROVE  /\ \A book : Whole(book, t) => Whole(book, u)
         /\ \A j, top : Loaded(j, top, t) => Loaded(j, top, u)
         /\ \A j : Judged(j, t) => Judged(j, u)
<1>1. \A r : A!Id(r) \notin u => A!Id(r) \notin t
  OBVIOUS
<1> QED
  BY <1>1 DEF Whole, Loaded, Judged

\* What was read can be filtered: whether her habits are shown is known, or there is none.
Sure(j) ==
  j.verdict # "unknown" \/ \A i \in DOMAIN j.raw : ~(j.raw[i].by = "fay" /\ j.raw[i].kind = "habit")

\* A batch is filtered, and what is left is what the user may see.
LEMMA FilterStep ==
  ASSUME FeedNumbers, FeedServer, NEW j \in FeedJobs, NEW top \in Nat, NEW t,
         Loaded(j, top, t), Judged(j, t), Sure(j), j.turns < MaxIterations
  PROVE  LET k == A!Filtered(j)
         IN /\ k \in FeedJobs /\ Loaded(k, top, t) /\ Judged(k, t)
            /\ k.raw = <<>> /\ k.phase \in {"batch", "answer"} /\ k.turns <= MaxIterations
            /\ k.phase = "batch" => k.turns < MaxIterations /\ ~k.exhausted
<1> DEFINE S == {r \in A!ToSet(j.raw) : A!Kept(r, j.verdict)}
           f == A!Filter(j.raw, S)
           kept == j.kept \o f
           k == A!Filtered(j)
<1>1. /\ j.raw \in Seq(Entries) /\ j.kept \in Seq(Entries) /\ j.turns \in Nat /\ j.cursor \in Nat
      /\ j.edges \subseteq Nat /\ j.exhausted \in BOOLEAN /\ MaxIterations \in Nat
  BY DEF FeedJobs, FeedNumbers
<1>2. /\ k.kept = kept /\ k.raw = <<>> /\ k.turns = j.turns + 1 /\ k.phase \in {"batch", "answer"}
      /\ k.actors = j.actors /\ k.cursor = j.cursor /\ k.exhausted = j.exhausted
      /\ k.setting = j.setting /\ k.verdict = j.verdict /\ k.edges = j.edges
      /\ k.phase = "batch" => j.turns + 1 < MaxIterations /\ ~j.exhausted
      /\ k = [phase |-> k.phase, actors |-> j.actors, raw |-> <<>>, kept |-> kept, cursor |-> j.cursor,
              turns |-> j.turns + 1, exhausted |-> j.exhausted, setting |-> j.setting,
              verdict |-> j.verdict, edges |-> j.edges]
  <2> DEFINE again == j.turns + 1 < MaxIterations /\ Len(kept) <= FeedLimit /\ ~j.exhausted
             p == IF again THEN "batch" ELSE "answer"
  <2>1. k = [j EXCEPT !.kept = kept, !.raw = <<>>, !.turns = j.turns + 1, !.phase = p]
    BY DEF A!Filtered
  <2>2. p \in {"batch", "answer"} /\ (p = "batch" => j.turns + 1 < MaxIterations /\ ~j.exhausted)
    OBVIOUS
  <2> HIDE DEF p, kept, k
  <2>3. k = [phase |-> p, actors |-> j.actors, raw |-> <<>>, kept |-> kept, cursor |-> j.cursor,
              turns |-> j.turns + 1, exhausted |-> j.exhausted, setting |-> j.setting,
              verdict |-> j.verdict, edges |-> j.edges]
    BY <2>1 DEF FeedJobs
  <2> QED
    BY <2>2, <2>3
<1>3. Arranged(j, top)
  BY DEF Loaded
<1>4. /\ f \in Seq(Entries) /\ Descending(f)
      /\ \A i \in DOMAIN f : f[i] \in S /\ \E m \in DOMAIN j.raw : f[i] = j.raw[m]
      /\ \A m \in DOMAIN j.raw : j.raw[m] \in S => \E i \in DOMAIN f : f[i] = j.raw[m]
  <2> DEFINE raw == j.raw
  <2>1. raw \in Seq(Entries) /\ Descending(raw)
    BY <1>1, <1>3 DEF Arranged
  <2> HIDE DEF S, raw
  <2>2. /\ A!Filter(raw, S) \in Seq(Entries) /\ Descending(A!Filter(raw, S))
        /\ \A i \in DOMAIN A!Filter(raw, S) :
             A!Filter(raw, S)[i] \in S /\ \E m \in DOMAIN raw : A!Filter(raw, S)[i] = raw[m]
        /\ \A m \in DOMAIN raw : raw[m] \in S => \E i \in DOMAIN A!Filter(raw, S) : A!Filter(raw, S)[i] = raw[m]
    BY <2>1, FilterDescends
  <2> QED
    BY <2>2 DEF raw
<1>5. \A m \in DOMAIN j.raw : j.raw[m] \in S <=> A!Kept(j.raw[m], j.verdict)
  BY DEF A!ToSet
<1> HIDE DEF S, f
<1>6. \A i \in DOMAIN j.kept, m \in DOMAIN f : j.kept[i].at > f[m].at
  BY <1>3, <1>4 DEF Arranged
<1>7. /\ kept \in Seq(Entries) /\ Descending(kept)
      /\ \A i \in DOMAIN kept : (\E m \in DOMAIN j.kept : kept[i] = j.kept[m]) \/ (\E m \in DOMAIN f : kept[i] = f[m])
      /\ \A i \in DOMAIN j.kept : \E m \in DOMAIN kept : kept[m] = j.kept[i]
      /\ \A i \in DOMAIN f : \E m \in DOMAIN kept : kept[m] = f[i]
  BY <1>1, <1>3, <1>4, <1>6, JoinDescends DEF Arranged
<1> HIDE DEF kept, k
<1>8. k \in FeedJobs
  <2>1. <<>> \in Seq(Entries) /\ j.turns + 1 \in Nat /\ k.phase \in {"batch", "answer"}
    BY <1>1, <1>2
  <2>2. /\ j.actors \in SUBSET {"me", "fay"} /\ j.cursor \in Nat /\ j.exhausted \in BOOLEAN
        /\ j.setting \in Settings /\ j.verdict \in {"unknown", "yes", "no"} /\ j.edges \in SUBSET Nat
    BY DEF FeedJobs
  <2>3. PICK p \in {"batch", "answer"} : p = k.phase
    BY <2>1
  <2>4. k = [phase |-> p, actors |-> j.actors, raw |-> <<>>, kept |-> kept, cursor |-> j.cursor,
              turns |-> j.turns + 1, exhausted |-> j.exhausted, setting |-> j.setting,
              verdict |-> j.verdict, edges |-> j.edges]
    BY <1>2, <2>3
  <2> QED
    BY <1>7, <2>1, <2>2, <2>4 DEF FeedJobs
<1>9. Arranged(k, top)
  <2>1. \A i \in DOMAIN f : f[i].at < top /\ f[i].at >= j.cursor
    BY <1>3, <1>4 DEF Arranged
  <2>2. \A i \in DOMAIN kept : kept[i].at < top /\ kept[i].at >= j.cursor
    BY <1>3, <1>7, <2>1 DEF Arranged
  <2>3. DOMAIN <<>> = {} /\ Descending(<<>>)
    BY DEF Descending
  <2> QED
    BY <1>2, <1>3, <1>7, <2>2, <2>3 DEF Arranged
<1>10. Named(kept) = Named(j.kept) \cup Named(f)
  BY <1>7 DEF Named
<1>11. ASSUME NEW r \in rows, A!Id(r) \notin t
       PROVE  /\ r.by = "fay" => ("fay" \in k.actors <=> friend)
              /\ A!Visible(r) /\ r.at < top /\ r.at \notin k.edges /\ (k.exhausted \/ r.at > k.cursor)
                 => A!Id(r) \in Named(k.kept) \cup Named(k.raw)
              /\ A!Id(r) \in Named(k.kept) => A!Visible(r)
              /\ \A i \in DOMAIN k.raw : A!Id(k.raw[i]) = A!Id(r) => k.raw[i] = r
  <2>1. /\ r.by = "fay" => ("fay" \in j.actors <=> friend)
        /\ A!Visible(r) /\ r.at < top /\ r.at \notin j.edges /\ (j.exhausted \/ r.at > j.cursor)
           => A!Id(r) \in Named(j.kept) \cup Named(j.raw)
        /\ A!Id(r) \in Named(j.kept) => A!Visible(r)
        /\ \A i \in DOMAIN j.raw : A!Id(j.raw[i]) = A!Id(r) => j.raw[i] = r
    BY <1>11 DEF Loaded
  <2>2. r.by = "fay" /\ r.kind = "habit" /\ j.verdict # "unknown" =>
          (j.verdict = "yes" <=> vis = "public" \/ (vis = "friends" /\ friend))
    BY <1>11 DEF Judged
  <2>3. r.by \in {"me", "fay"}
    BY DEF FeedServer, Entries
  <2>4. ASSUME A!Visible(r), A!Id(r) \in Named(j.raw) PROVE A!Id(r) \in Named(f)
    <3>1. PICK i \in DOMAIN j.raw : A!Id(j.raw[i]) = A!Id(r)
      BY <2>4 DEF Named
    <3>2. j.raw[i] = r
      BY <2>1, <3>1
    <3>3. A!Kept(r, j.verdict)
      <4>1. SUFFICES ASSUME r.by = "fay", r.kind = "habit" PROVE j.verdict = "yes"
        BY <2>3 DEF A!Kept
      <4>2. j.verdict # "unknown"
        BY <3>2, <4>1 DEF Sure
      <4>3. friend /\ vis \in {"friends", "public"}
        BY <2>4, <4>1 DEF A!Visible
      <4> QED
        BY <2>2, <4>1, <4>2, <4>3
    <3> QED
      BY <1>4, <1>5, <3>1, <3>2, <3>3 DEF Named
  <2>5. ASSUME A!Id(r) \in Named(f) PROVE A!Visible(r)
    <3>1. PICK i \in DOMAIN f : A!Id(f[i]) = A!Id(r)
      BY <2>5 DEF Named
    <3>2. PICK m \in DOMAIN j.raw : f[i] = j.raw[m]
      BY <1>4, <3>1
    <3>3. j.raw[m] = r /\ A!Kept(r, j.verdict)
      BY <1>4, <1>5, <2>1, <3>1, <3>2
    <3>4. ~r.hidden /\ r.by \in j.actors
      BY <1>3, <3>3 DEF Arranged
    <3>5. CASE r.by = "me"
      BY <3>4, <3>5 DEF A!Visible
    <3>6. CASE r.by = "fay"
      <4>1. friend
        BY <2>1, <3>4, <3>6
      <4>2. r.kind = "habit" => vis \in {"friends", "public"}
        BY <2>2, <3>3, <3>6 DEF A!Kept
      <4> QED
        BY <3>4, <4>1, <4>2 DEF A!Visible
    <3> QED
      BY <2>3, <3>5, <3>6
  <2>6. k.raw = <<>> /\ DOMAIN <<>> = {} /\ Named(k.kept) = Named(j.kept) \cup Named(f)
    BY <1>2, <1>10
  <2> QED
    BY <1>2, <2>1, <2>4, <2>5, <2>6
<1>12. Loaded(k, top, t)
  BY <1>9, <1>11 DEF Loaded
<1>13. Judged(k, t)
  BY <1>2 DEF Judged
<1>14. k.turns <= MaxIterations /\ (k.phase = "batch" => k.turns < MaxIterations /\ ~k.exhausted)
  BY <1>1, <1>2
<1> QED
  BY <1>2, <1>8, <1>12, <1>13, <1>14 DEF k

\* One more batch is read, below the cursor.
EndOf(j, raw) == IF raw = <<>> THEN j.cursor ELSE raw[Len(raw)].at

WithBatch(j, raw) ==
  [j EXCEPT !.raw = raw, !.cursor = EndOf(j, raw), !.edges = @ \cup {EndOf(j, raw)},
            !.exhausted = Len(raw) < BatchSize]

LEMMA BatchStep ==
  ASSUME FeedNumbers, FeedServer, NEW j \in FeedJobs, NEW top \in Nat, NEW t,
         Loaded(j, top, t), j.raw = <<>>, ~j.exhausted, NEW ahead \in {"me", "fay"},
         NEW raw, raw = A!Batch(j.actors, j.cursor, ahead)
  PROVE  /\ WithBatch(j, raw) \in FeedJobs /\ Loaded(WithBatch(j, raw), top, t) /\ Len(raw) <= BatchSize
         /\ \A i \in DOMAIN raw : raw[i] \in rows
<1> DEFINE end == EndOf(j, raw)
           k == WithBatch(j, raw)
<1> DEFINE found == Found(j.actors, j.cursor)
<1>1. /\ j.cursor \in Nat /\ j.kept \in Seq(Entries) /\ j.edges \subseteq Nat /\ BatchSize \in Nat \ {0}
  BY DEF FeedJobs, FeedNumbers
<1>2. /\ raw \in Seq(Entries) /\ Len(raw) <= BatchSize /\ Descending(raw)
      /\ \A i \in DOMAIN raw : raw[i] \in found
      /\ \A r \in found :
           Len(raw) < BatchSize \/ r.at > raw[Len(raw)].at => \E i \in DOMAIN raw : raw[i] = r
  BY <1>1, BatchIs
<1>3. \A r \in found : r \in rows /\ ~r.hidden /\ r.by \in j.actors /\ r.at < j.cursor /\ r.at \in Nat
  BY DEF Found, FeedServer, Entries
<1>4. Arranged(j, top)
  BY DEF Loaded
<1>5. Len(raw) \in Nat /\ DOMAIN raw = 1 .. Len(raw) /\ (raw # <<>> => Len(raw) \in DOMAIN raw)
  BY <1>2
<1> HIDE DEF k
<1>6. /\ end \in Nat /\ end <= j.cursor
      /\ \A i \in DOMAIN raw : raw[i].at >= end
  <2>1. CASE raw = <<>>
    BY <1>1, <1>5, <2>1 DEF EndOf
  <2>2. CASE raw # <<>>
    <3>1. end = raw[Len(raw)].at /\ raw[Len(raw)] \in found
      BY <1>2, <1>5, <2>2 DEF EndOf
    <3>2. \A i \in DOMAIN raw : raw[i].at >= end
      <4>1. SUFFICES ASSUME NEW i \in DOMAIN raw PROVE raw[i].at >= end
        OBVIOUS
      <4>2. CASE i = Len(raw)
        BY <1>3, <3>1, <4>2
      <4>3. CASE i # Len(raw)
        <5>1. i < Len(raw) /\ Len(raw) \in DOMAIN raw
          BY <1>5, <2>2, <4>3
        <5> QED
          BY <1>2, <3>1, <5>1 DEF Descending
      <4> QED
        BY <4>2, <4>3
    <3> QED
      BY <1>1, <1>3, <3>1, <3>2
  <2> QED
    BY <2>1, <2>2
<1>7. /\ k.raw = raw /\ k.cursor = end /\ k.edges = j.edges \cup {end} /\ k.exhausted = (Len(raw) < BatchSize)
      /\ k.kept = j.kept /\ k.actors = j.actors
  BY DEF FeedJobs, k, WithBatch
<1>8. k \in FeedJobs
  <2>1. j.edges \cup {end} \in SUBSET Nat /\ (Len(raw) < BatchSize) \in BOOLEAN
    BY <1>1, <1>6
  <2> QED
    BY <1>2, <1>6, <2>1 DEF FeedJobs, k, WithBatch
<1> HIDE DEF end
<1>9. Arranged(k, top)
  <2>1. \A i \in DOMAIN raw : raw[i].at < top /\ raw[i].at >= end /\ ~raw[i].hidden /\ raw[i].by \in j.actors
    <3>1. j.cursor <= top
      BY <1>4 DEF Arranged
    <3> QED
      BY <1>1, <1>2, <1>3, <1>6, <3>1
  <2>2. ASSUME NEW i \in DOMAIN j.kept
        PROVE  j.kept[i].at < top /\ j.kept[i].at >= end /\ \A m \in DOMAIN raw : j.kept[i].at > raw[m].at
    <3>0. j.kept[i] \in Entries
      BY <1>1
    <3>1. j.kept[i].at < top /\ j.kept[i].at >= j.cursor /\ j.kept[i].at \in Nat
      BY <1>1, <1>4, <3>0 DEF Arranged, Entries
    <3> QED
      BY <1>1, <1>2, <1>3, <1>6, <3>1
  <2>3. k.cursor <= top /\ k.cursor \in k.edges
    BY <1>1, <1>4, <1>6, <1>7 DEF Arranged
  <2> QED
    BY <1>2, <1>4, <1>7, <2>1, <2>2, <2>3 DEF Arranged
<1>10. ASSUME NEW r \in rows, A!Id(r) \notin t
       PROVE  /\ r.by = "fay" => ("fay" \in k.actors <=> friend)
              /\ A!Visible(r) /\ r.at < top /\ r.at \notin k.edges /\ (k.exhausted \/ r.at > k.cursor)
                 => A!Id(r) \in Named(k.kept) \cup Named(k.raw)
              /\ A!Id(r) \in Named(k.kept) => A!Visible(r)
              /\ \A i \in DOMAIN k.raw : A!Id(k.raw[i]) = A!Id(r) => k.raw[i] = r
  <2>1. /\ r.by = "fay" => ("fay" \in j.actors <=> friend)
        /\ A!Visible(r) /\ r.at < top /\ r.at \notin j.edges /\ r.at > j.cursor
           => A!Id(r) \in Named(j.kept) \cup Named(j.raw)
        /\ A!Id(r) \in Named(j.kept) => A!Visible(r)
    BY <1>10 DEF Loaded
  <2>2. r.by \in {"me", "fay"} /\ r.at \in Nat
    BY DEF FeedServer, Entries
  <2>3. Named(j.raw) = {}
    BY DEF Named
  <2>4. ASSUME A!Visible(r), r.at < top, r.at \notin k.edges, k.exhausted \/ r.at > k.cursor
        PROVE  A!Id(r) \in Named(j.kept) \cup Named(raw)
    <3>1. CASE r.at > j.cursor
      BY <1>7, <2>1, <2>3, <2>4, <3>1
    <3>2. CASE r.at = j.cursor
      BY <1>1, <1>4, <1>7, <2>4, <3>2 DEF Arranged
    <3>3. CASE r.at < j.cursor
      <4>1. r.by \in j.actors /\ ~r.hidden
        BY <1>4, <2>1, <2>2, <2>4 DEF Arranged, A!Visible
      <4>2. r \in found
        BY <3>3, <4>1 DEF Found
      <4>3. Len(raw) < BatchSize \/ r.at > raw[Len(raw)].at
        <5>1. SUFFICES ASSUME ~(Len(raw) < BatchSize) PROVE r.at > raw[Len(raw)].at
          OBVIOUS
        <5>2. raw # <<>>
          BY <1>1, <5>1
        <5>3. end = raw[Len(raw)].at
          BY <5>2 DEF end, EndOf
        <5> QED
          BY <1>7, <2>4, <5>1, <5>3
      <4>4. \E i \in DOMAIN raw : raw[i] = r
        BY <1>2, <4>2, <4>3
      <4> QED
        BY <4>4 DEF Named
    <3> QED
      BY <1>1, <2>2, <3>1, <3>2, <3>3
  <2>5. \A i \in DOMAIN raw : A!Id(raw[i]) = A!Id(r) => raw[i] = r
    BY <1>2, <1>3 DEF FeedServer
  <2> QED
    BY <1>7, <2>1, <2>4, <2>5
<1> QED
  BY <1>2, <1>3, <1>8, <1>9, <1>10 DEF Loaded, k

\* The page: the first entries of what was kept, down to where it says it looked.
LEMMA PageIs ==
  ASSUME FeedNumbers, FeedServer, NEW j \in FeedJobs, NEW top \in Nat, NEW t, Loaded(j, top, t), j.raw = <<>>
  PROVE  LET p == A!Page(j)
         IN /\ p \in FeedPages /\ Descending(p.items) /\ p.end \in p.edges /\ p.end <= top
            /\ \A i \in DOMAIN p.items : p.items[i].at >= p.end /\ p.items[i].at < top
            /\ \A r \in rows : A!Id(r) \notin t =>
                 /\ A!Visible(r) /\ r.at < top /\ r.at > p.end /\ r.at \notin p.edges => A!Id(r) \in Named(p.items)
                 /\ A!Id(r) \in Named(p.items) => A!Visible(r)
<1> DEFINE more == Len(j.kept) > FeedLimit
           items == IF more THEN SubSeq(j.kept, 1, FeedLimit) ELSE j.kept
           end == IF more THEN items[Len(items)].at ELSE IF j.exhausted THEN 0 ELSE j.cursor
           edges == j.edges \cup {end}
           p == A!Page(j)
           n == Len(items)
<1>1. /\ j.kept \in Seq(Entries) /\ j.cursor \in Nat /\ j.edges \subseteq Nat /\ j.exhausted \in BOOLEAN
      /\ FeedLimit \in Nat \ {0}
  BY DEF FeedJobs, FeedNumbers
<1>2. p = [items |-> items, more |-> more, end |-> end, edges |-> edges]
  BY DEF A!Page, A!Cursor, A!Last
<1> HIDE DEF p
<1>3. Arranged(j, top)
  BY DEF Loaded
<1>4. /\ Len(j.kept) \in Nat /\ DOMAIN j.kept = 1 .. Len(j.kept)
      /\ \A i \in 1 .. Len(j.kept) : j.kept[i] \in Entries /\ j.kept[i].at \in Nat
  <2>1. \A i \in 1 .. Len(j.kept) : j.kept[i] \in Entries
    BY <1>1
  <2> QED
    BY <1>1, <2>1 DEF Entries
<1>5. \A i \in 1 .. Len(j.kept) : j.kept[i].at < top /\ j.kept[i].at >= j.cursor
  BY <1>3, <1>4 DEF Arranged
<1>6. /\ items \in Seq(Entries) /\ n \in Nat /\ n <= Len(j.kept) /\ DOMAIN items = 1 .. n
      /\ \A i \in 1 .. n : items[i] = j.kept[i]
      /\ more => n = FeedLimit
      /\ ~more => n = Len(j.kept)
  <2>1. CASE more
    <3> DEFINE h == SubSeq(j.kept, 1, FeedLimit)
    <3>1. \A i \in 1 .. FeedLimit : j.kept[i] \in Entries
      BY <1>1, <1>4, <2>1
    <3>2. 1 \in Int /\ FeedLimit \in Int /\ 1 <= FeedLimit /\ FeedLimit - 1 + 1 = FeedLimit /\ \A i \in 1 .. FeedLimit : 1 + i - 1 = i
      BY <1>1
    <3>3. h \in Seq(Entries) /\ Len(h) = FeedLimit /\ \A i \in 1 .. FeedLimit : h[i] = j.kept[i]
      BY <3>1, <3>2, SubSeqProperties
    <3>4. items = h
      BY <2>1
    <3> HIDE DEF h, items
    <3> QED
      BY <1>1, <1>4, <2>1, <3>3, <3>4
  <2>2. CASE ~more
    BY <1>1, <1>4, <2>2
  <2> QED
    BY <2>1, <2>2
<1>7. /\ more => n \in 1 .. n /\ end = items[n].at /\ end = j.kept[n].at /\ n \in 1 .. Len(j.kept)
      /\ ~more => end = IF j.exhausted THEN 0 ELSE j.cursor
  BY <1>1, <1>4, <1>6
<1> HIDE DEF items, end, n
<1>8. end \in Nat /\ end <= top /\ (more => end >= j.cursor)
  <2>1. j.cursor <= top
    BY <1>3 DEF Arranged
  <2>2. CASE more
    BY <1>4, <1>5, <1>7, <2>2
  <2>3. CASE ~more
    BY <1>1, <1>7, <2>1, <2>3
  <2> QED
    BY <2>2, <2>3
<1>9. p \in FeedPages
  <2>1. more \in BOOLEAN /\ edges \in SUBSET Nat
    BY <1>1, <1>8
  <2> HIDE DEF more, edges
  <2> QED
    BY <1>2, <1>6, <1>8, <2>1 DEF FeedPages
<1>10. p.items = items /\ p.end = end /\ p.edges = edges
  BY <1>2
<1>11. Descending(items)
  BY <1>3, <1>4, <1>6 DEF Arranged, Descending
<1>12. ASSUME NEW i \in 1 .. n PROVE items[i].at >= end /\ items[i].at < top
  <2>1. i \in 1 .. Len(j.kept) /\ items[i].at = j.kept[i].at /\ items[i].at \in Nat
    BY <1>4, <1>6
  <2>2. CASE more
    <3>1. CASE i = n
      BY <1>5, <1>7, <2>1, <2>2, <3>1
    <3>2. CASE i # n
      <4>1. i < n /\ n \in 1 .. n
        BY <1>6, <1>7, <2>2, <3>2
      <4>2. items[i].at >= items[n].at
        BY <1>6, <1>11, <4>1 DEF Descending
      <4> QED
        BY <1>5, <1>7, <2>1, <2>2, <4>2
    <3> QED
      BY <3>1, <3>2
  <2>3. CASE ~more
    BY <1>1, <1>5, <1>7, <2>1, <2>3
  <2> QED
    BY <2>2, <2>3
<1>13. ASSUME NEW r \in rows, A!Id(r) \notin t
       PROVE  /\ A!Visible(r) /\ r.at < top /\ r.at > end /\ r.at \notin edges => A!Id(r) \in Named(items)
              /\ A!Id(r) \in Named(items) => A!Visible(r)
  <2>1. /\ A!Visible(r) /\ r.at < top /\ r.at \notin j.edges /\ (j.exhausted \/ r.at > j.cursor)
           => A!Id(r) \in Named(j.kept) \cup Named(j.raw)
        /\ A!Id(r) \in Named(j.kept) => A!Visible(r)
    BY <1>13 DEF Loaded
  <2>2. r.at \in Nat /\ Named(j.raw) = {}
    BY DEF FeedServer, Entries, Named
  <2>3. ASSUME A!Visible(r), r.at < top, r.at > end, r.at \notin edges PROVE A!Id(r) \in Named(items)
    <3>1. j.exhausted \/ r.at > j.cursor
      <4>1. CASE more
        BY <1>1, <1>8, <2>2, <2>3, <4>1
      <4>2. CASE ~more
        BY <1>1, <1>7, <2>3, <4>2
      <4> QED
        BY <4>1, <4>2
    <3>2. PICK i \in 1 .. Len(j.kept) : A!Id(j.kept[i]) = A!Id(r)
      BY <1>4, <2>1, <2>2, <2>3, <3>1 DEF Named
    <3>3. j.kept[i].at = r.at
      BY <3>2 DEF A!Id
    <3>4. i \in 1 .. n
      <4>1. CASE ~more
        BY <1>6, <4>1
      <4>2. CASE more
        <5>1. SUFFICES ASSUME i > n PROVE FALSE
          BY <1>4, <1>6
        <5>2. j.kept[n].at >= j.kept[i].at
          BY <1>3, <1>4, <1>7, <4>2, <5>1 DEF Arranged, Descending
        <5> QED
          BY <1>7, <1>8, <2>2, <2>3, <3>3, <4>2, <5>2
      <4> QED
        BY <4>1, <4>2
    <3>5. items[i] = j.kept[i] /\ i \in DOMAIN items
      BY <1>6, <3>4
    <3> QED
      BY <3>2, <3>5 DEF Named
  <2>4. Named(items) \subseteq Named(j.kept)
    <3>1. \A i \in DOMAIN items : i \in DOMAIN j.kept /\ items[i] = j.kept[i]
      BY <1>4, <1>6
    <3> QED
      BY <3>1 DEF Named
  <2> QED
    BY <2>1, <2>3, <2>4
<1> HIDE DEF edges
<1>14. end \in edges
  BY DEF edges
<1>15. \A i \in DOMAIN p.items : p.items[i].at >= p.end /\ p.items[i].at < top
  BY <1>6, <1>10, <1>12
<1>16. \A r \in rows : A!Id(r) \notin t =>
         /\ A!Visible(r) /\ r.at < top /\ r.at > p.end /\ r.at \notin p.edges => A!Id(r) \in Named(p.items)
         /\ A!Id(r) \in Named(p.items) => A!Visible(r)
  BY <1>10, <1>13
<1>17. Descending(p.items) /\ p.end \in p.edges /\ p.end <= top
  BY <1>8, <1>10, <1>11, <1>14
<1> QED
  BY <1>9, <1>15, <1>16, <1>17 DEF p

\* The list with the page.
LEMMA PageStep ==
  ASSUME FeedNumbers, FeedServer, NEW book \in Seq(FeedPages), NEW t, InOrder(book), Whole(book, t),
         NEW j \in FeedJobs, Loaded(j, Low(book), t), j.raw = <<>>
  PROVE  LET got == Append(book, A!Page(j))
         IN /\ got \in Seq(FeedPages) /\ Len(got) = Len(book) + 1 /\ got # <<>>
            /\ InOrder(got) /\ Whole(got, t)
<1> DEFINE p == A!Page(j)
           got == Append(book, p)
           n == Len(book)
           top == Low(book)
<1>1. n \in Nat /\ DOMAIN book = 1 .. n /\ \A q \in 1 .. n : book[q] \in FeedPages
  OBVIOUS
<1>2. top \in Nat /\ \A r \in rows : r.at \in Nat /\ r.at < A!NoCursor
  <2>1. \A r \in rows : r.at \in Nat /\ r.at < A!NoCursor
    <3>1. /\ clock \in Nat /\ Len(emits) \in Nat /\ clock + Len(emits) <= MaxFirst + events
          /\ events \in Nat /\ events <= MaxFeedEvents /\ MaxFirst \in Nat /\ MaxFeedEvents \in Nat
      BY DEF FeedNumbers, FeedServer
    <3>2. clock < A!NoCursor
      BY <3>1 DEF A!NoCursor
    <3>3. \A r \in rows : r.at \in 1 .. clock
      BY DEF FeedServer
    <3> QED
      BY <3>1, <3>2, <3>3 DEF A!NoCursor
  <2>2. CASE book = <<>>
    BY <2>1, <2>2 DEF Low, A!NoCursor, FeedNumbers
  <2>3. CASE book # <<>>
    <3>1. n \in 1 .. n /\ top = book[n].end
      BY <1>1, <2>3 DEF Low
    <3> QED
      BY <1>1, <2>1, <3>1 DEF FeedPages
  <2> QED
    BY <2>1, <2>2, <2>3
<1>3. /\ p \in FeedPages /\ Descending(p.items) /\ p.end \in p.edges /\ p.end <= top
      /\ \A i \in DOMAIN p.items : p.items[i].at >= p.end /\ p.items[i].at < top
      /\ \A r \in rows : A!Id(r) \notin t =>
           /\ A!Visible(r) /\ r.at < top /\ r.at > p.end /\ r.at \notin p.edges => A!Id(r) \in Named(p.items)
           /\ A!Id(r) \in Named(p.items) => A!Visible(r)
  BY <1>2, PageIs
<1> HIDE DEF p, top
<1>4. /\ got \in Seq(FeedPages) /\ Len(got) = n + 1 /\ DOMAIN got = 1 .. (n + 1)
      /\ \A q \in 1 .. n : got[q] = book[q]
      /\ got[n + 1] = p
  BY <1>1, <1>3, AppendProperties
<1>5. got # <<>>
  BY <1>1, <1>4
<1> HIDE DEF got
<1>6. Low(got) = p.end
  BY <1>4, <1>5 DEF Low
<1>7. \A q \in 1 .. n + 1 : q \in 1 .. n \/ q = n + 1
  BY <1>1
<1>8. PageNames(got) = PageNames(book) \cup Named(p.items) /\ PageEdges(got) = PageEdges(book) \cup p.edges
  <2>1. n + 1 \in 1 .. n + 1 /\ \A q \in 1 .. n : q \in 1 .. n + 1
    BY <1>1
  <2> QED
    BY <1>1, <1>4, <1>7, <2>1 DEF PageNames, PageEdges
<1>9. /\ \A q \in 1 .. n : Descending(book[q].items) /\ book[q].end \in book[q].edges
      /\ \A q, m \in 1 .. n : q < m =>
           \A i \in DOMAIN book[q].items, k \in DOMAIN book[m].items : book[q].items[i].at > book[m].items[k].at
      /\ \A q \in 1 .. n : \A i \in DOMAIN book[q].items : book[q].items[i].at >= top
  BY <1>1 DEF InOrder, top
<1>10. /\ \A q \in 1 .. n : \A i \in DOMAIN book[q].items : book[q].items[i].at \in Nat
       /\ \A i \in DOMAIN p.items : p.items[i].at \in Nat
       /\ p.end \in Nat
  <2>1. ASSUME NEW x \in FeedPages PROVE x.end \in Nat /\ \A i \in DOMAIN x.items : x.items[i].at \in Nat
    <3>1. x.items \in Seq(Entries) /\ x.end \in Nat
      BY DEF FeedPages
    <3>2. \A i \in DOMAIN x.items : x.items[i] \in Entries
      BY <3>1
    <3> QED
      BY <3>1, <3>2 DEF Entries
  <2> QED
    BY <1>1, <1>3, <2>1
<1>11. ASSUME NEW q \in 1 .. n + 1, NEW m \in 1 .. n + 1, q < m,
              NEW i \in DOMAIN got[q].items, NEW k \in DOMAIN got[m].items
       PROVE  got[q].items[i].at > got[m].items[k].at
  <2>1. q \in 1 .. n /\ got[q] = book[q]
    BY <1>1, <1>4, <1>11
  <2>2. CASE m = n + 1
    <3>1. got[m].items[k].at < top /\ got[q].items[i].at >= top
      BY <1>3, <1>4, <1>9, <2>1, <2>2
    <3> QED
      BY <1>2, <1>4, <1>10, <2>1, <2>2, <3>1
  <2>3. CASE m \in 1 .. n
    BY <1>4, <1>9, <1>11, <2>1, <2>3
  <2> QED
    BY <1>7, <2>2, <2>3
<1>12. ASSUME NEW q \in 1 .. n + 1
       PROVE  /\ Descending(got[q].items) /\ got[q].end \in got[q].edges
              /\ \A i \in DOMAIN got[q].items : got[q].items[i].at >= Low(got)
  <2>1. CASE q = n + 1
    BY <1>3, <1>4, <1>6, <2>1
  <2>2. CASE q \in 1 .. n
    <3>1. got[q] = book[q]
      BY <1>4, <2>2
    <3>2. \A i \in DOMAIN book[q].items : book[q].items[i].at >= p.end
      <4>1. SUFFICES ASSUME NEW i \in DOMAIN book[q].items PROVE book[q].items[i].at >= p.end
        OBVIOUS
      <4>2. book[q].items[i].at >= top /\ book[q].items[i].at \in Nat
        BY <1>9, <1>10, <2>2
      <4> QED
        BY <1>2, <1>3, <1>10, <4>2
    <3> QED
      BY <1>6, <1>9, <2>2, <3>1, <3>2
  <2> QED
    BY <1>7, <2>1, <2>2
<1>13. InOrder(got)
  BY <1>4, <1>11, <1>12 DEF InOrder
<1>14. ASSUME NEW r \in rows, A!Id(r) \notin t
       PROVE  /\ A!Visible(r) /\ r.at > Low(got) /\ r.at \notin PageEdges(got) => A!Id(r) \in PageNames(got)
              /\ A!Id(r) \in PageNames(got) => A!Visible(r)
  <2>1. /\ A!Visible(r) /\ r.at > top /\ r.at \notin PageEdges(book) => A!Id(r) \in PageNames(book)
        /\ A!Id(r) \in PageNames(book) => A!Visible(r)
    BY <1>14 DEF Whole, top
  <2>2. r.at = top => r.at \in PageEdges(book)
    <3>1. CASE book = <<>>
      BY <1>2, <3>1 DEF top, Low
    <3>2. CASE book # <<>>
      <4>1. n \in 1 .. n /\ top = book[n].end
        BY <1>1, <3>2 DEF top, Low
      <4> QED
        BY <1>1, <1>9, <4>1 DEF PageEdges
    <3> QED
      BY <3>1, <3>2
  <2>3. r.at < top \/ r.at = top \/ r.at > top
    BY <1>2
  <2>4. /\ A!Visible(r) /\ r.at < top /\ r.at > p.end /\ r.at \notin p.edges => A!Id(r) \in Named(p.items)
        /\ A!Id(r) \in Named(p.items) => A!Visible(r)
    BY <1>3, <1>14
  <2> QED
    BY <1>6, <1>8, <2>1, <2>2, <2>3, <2>4
<1>15. Whole(got, t)
  BY <1>14 DEF Whole
<1> QED
  BY <1>4, <1>5, <1>13, <1>15 DEF got, p

\* The client fetches, and nothing else changes.
Elsewhere == UNCHANGED <<friend, vis, rows, clock, emits, slipped>>

LEMMA ElsewhereIs ==
  ASSUME FeedNumbers, FeedInv, Elsewhere, events' = events \/ A!MayOccur
  PROVE  FeedServer /\ FeedServer' /\ \A r : A!Visible(r)' <=> A!Visible(r)
<1>1. FeedServer /\ UNCHANGED <<friend, vis, rows, clock, emits, slipped>>
  BY DEF FeedInv, FeedTypes, Elsewhere
<1>2. FeedServer'
  <2>1. Len(emits) \in Nat /\ events' \in Nat /\ events' <= MaxFeedEvents /\ events' >= events
    BY <1>1 DEF FeedServer, A!MayOccur, FeedNumbers
  <2> QED
    BY <1>1, <2>1 DEF FeedServer, FeedNumbers
<1>3. ASSUME NEW r PROVE A!Visible(r)' <=> A!Visible(r)
  BY <1>1 DEF A!Visible
<1> QED
  BY <1>1, <1>2, <1>3

\* What must be shown of a step of the client, with the entries as they are.
Going ==
  /\ job'.phase = "friends" => job' = A!Request(Low(fetch'.got))
  /\ job'.phase \in {"batch", "setting", "verdict", "answer"} =>
       Loaded(job', Low(fetch'.got), Scope') /\ Judged(job', Scope')
  /\ job'.phase \in {"batch", "answer"} => job'.raw = <<>>
  /\ job'.phase = "batch" => ~job'.exhausted
  /\ job'.phase \in {"setting", "verdict"} => job'.verdict = "unknown"

LEMMA ClientKeeps ==
  ASSUME FeedNumbers, FeedInv, Elsewhere, events' = events \/ A!MayOccur,
         pages' \in Seq(FeedPages), fetch' \in FeedFetches, job' \in FeedJobs, FeedFlow',
         InOrder(pages'), Whole(pages', moved'), InOrder(fetch'.got), Whole(fetch'.got, Scope'), Going
  PROVE  FeedInv'
<1>1. /\ FeedServer /\ FeedServer' /\ (\A r : A!Visible(r)' <=> A!Visible(r))
      /\ UNCHANGED <<friend, vis, rows>>
  BY ElsewhereIs DEF Elsewhere
<1>2. FeedTypes'
  BY <1>1 DEF FeedTypes
<1>3. Whole(pages, moved)'
  <2>1. \A r \in rows : A!Id(r) \notin moved' =>
          /\ A!Visible(r) /\ r.at > Low(pages') /\ r.at \notin PageEdges(pages') => A!Id(r) \in PageNames(pages')
          /\ A!Id(r) \in PageNames(pages') => A!Visible(r)
    BY DEF Whole
  <2> QED
    BY <1>1, <2>1 DEF Whole
<1>4. Whole(fetch.got, Scope)'
  <2>1. \A r \in rows : A!Id(r) \notin Scope' =>
          /\ A!Visible(r) /\ r.at > Low(fetch'.got) /\ r.at \notin PageEdges(fetch'.got)
               => A!Id(r) \in PageNames(fetch'.got)
          /\ A!Id(r) \in PageNames(fetch'.got) => A!Visible(r)
    BY DEF Whole
  <2> QED
    BY <1>1, <2>1 DEF Whole
<1>5. FeedLists'
  BY <1>3, <1>4 DEF FeedLists
<1>6. ASSUME job'.phase \in {"batch", "setting", "verdict", "answer"}
      PROVE  Loaded(job, Low(fetch.got), Scope)' /\ Judged(job, Scope)'
  <2>1. Loaded(job', Low(fetch'.got), Scope') /\ Judged(job', Scope')
    BY <1>6 DEF Going
  <2>2. Loaded(job, Low(fetch.got), Scope)'
    <3>1. Arranged(job', Low(fetch'.got))
      BY <2>1 DEF Loaded
    <3>2. \A r \in rows : A!Id(r) \notin Scope' =>
            /\ r.by = "fay" => ("fay" \in job'.actors <=> friend)
            /\ A!Visible(r) /\ r.at < Low(fetch'.got) /\ r.at \notin job'.edges
                 /\ (job'.exhausted \/ r.at > job'.cursor)
               => A!Id(r) \in Named(job'.kept) \cup Named(job'.raw)
            /\ A!Id(r) \in Named(job'.kept) => A!Visible(r)
            /\ \A i \in DOMAIN job'.raw : A!Id(job'.raw[i]) = A!Id(r) => job'.raw[i] = r
      BY <2>1 DEF Loaded
    <3> QED
      BY <1>1, <3>1, <3>2 DEF Loaded
  <2>3. Judged(job, Scope)'
    BY <1>1, <2>1 DEF Judged
  <2> QED
    BY <2>2, <2>3
<1>7. Working'
  BY <1>6 DEF Working, Going
<1> QED
  BY <1>2, <1>5, <1>7 DEF FeedInv

\* The request goes on; what the step itself may have missed is counted as touched.
LEMMA JobKeeps ==
  ASSUME FeedNumbers, FeedInv, Elsewhere, events' = events \/ A!MayOccur,
         job.phase # "idle", UNCHANGED <<pages, fetch>>,
         NEW T, moved' = moved \cup T, fresh' = fresh \cup T,
         job' \in FeedJobs, job'.phase \in {"batch", "setting", "verdict", "answer"},
         job'.turns <= MaxIterations, job'.phase # "answer" => job'.turns < MaxIterations,
         Len(job'.raw) <= BatchSize,
         Loaded(job', Low(fetch.got), Scope \cup T), Judged(job', Scope \cup T),
         job'.phase \in {"batch", "answer"} => job'.raw = <<>>,
         job'.phase = "batch" => ~job'.exhausted,
         job'.phase \in {"setting", "verdict"} => job'.verdict = "unknown"
  PROVE  FeedInv'
<1>1. FeedTypes /\ FeedFlow /\ FeedLists
  BY DEF FeedInv
<1>2. pages' = pages /\ fetch' = fetch /\ Scope' = Scope \cup T
  BY DEF Scope
<1>3. job'.phase # "idle" /\ job'.phase # "friends" /\ fetch.kind # "idle"
  BY <1>1 DEF FeedFlow, A!NoJob
<1>4. FeedFlow'
  <2>1. /\ Len(pages') <= MaxPages /\ fetch'.kind # "idle"
        /\ Len(fetch'.got) < fetch'.want /\ fetch'.want <= MaxPages
        /\ fetch'.kind = "more" => fetch'.got = pages' /\ fetch'.want = Len(pages') + 1
    BY <1>1, <1>2, <1>3 DEF FeedFlow
  <2>2. job'.phase \in {"friends", "batch", "setting", "verdict"} => job'.turns < MaxIterations
    BY <1>3
  <2> QED
    BY <1>3, <2>1, <2>2 DEF FeedFlow
<1>5. InOrder(pages') /\ InOrder(fetch'.got)
  BY <1>1, <1>2 DEF FeedLists
<1>6. Whole(pages', moved') /\ Whole(fetch'.got, Scope')
  <2>1. Whole(pages, moved) /\ Whole(fetch.got, Scope) /\ moved \subseteq moved \cup T /\ Scope \subseteq Scope \cup T
    BY <1>1 DEF FeedLists
  <2>2. Whole(pages, moved \cup T) /\ Whole(fetch.got, Scope \cup T)
    BY <2>1, LessIsSaid
  <2> QED
    BY <1>2, <2>2
<1>7. Going
  BY <1>2, <1>3 DEF Going
<1>8. pages' \in Seq(FeedPages) /\ fetch' \in FeedFetches
  BY <1>1, <1>2 DEF FeedTypes
<1> QED
  BY <1>4, <1>5, <1>6, <1>7, <1>8, ClientKeeps

LEMMA LowIs == ASSUME FeedNumbers, NEW book \in Seq(FeedPages) PROVE Low(book) \in Nat
<1>1. CASE book = <<>>
  BY <1>1 DEF Low, A!NoCursor, FeedNumbers
<1>2. CASE book # <<>>
  <2>1. Len(book) \in DOMAIN book /\ book[Len(book)] \in FeedPages
    BY <1>2
  <2> QED
    BY <1>2, <2>1 DEF Low, FeedPages
<1> QED
  BY <1>1, <1>2

\* The first of a request: nothing is read yet, and nothing is said of it.
LEMMA BeginKeeps == ASSUME FeedNumbers, FeedInv, A!ReadFriends \/ A!FailFriends PROVE FeedInv'
<1> DEFINE top == Low(fetch.got)
<1>1. FeedTypes /\ FeedFlow /\ Working
  BY DEF FeedInv
<1>2. top \in Nat
  BY <1>1, LowIs DEF FeedTypes, FeedFetches
<1>3. PICK actors \in SUBSET {"me", "fay"} :
        /\ job' = [job EXCEPT !.phase = "batch", !.actors = actors]
        /\ "me" \in actors
        /\ \/ A!ReadFriends /\ (actors = IF friend THEN {"me", "fay"} ELSE {"me"})
           \/ A!FailFriends /\ actors = {"me"}
  BY DEF A!ReadFriends, A!FailFriends
<1>4. job.phase = "friends" /\ UNCHANGED <<pages, fetch>> /\ Elsewhere
  BY DEF A!ReadFriends, A!FailFriends, A!server, Elsewhere
<1>5. PICK T : /\ moved' = moved \cup T /\ fresh' = fresh \cup T /\ (events' = events \/ A!MayOccur)
               /\ \A r \in rows : A!Id(r) \notin T /\ r.by = "fay" => ("fay" \in actors <=> friend)
  <2>1. CASE A!ReadFriends /\ (actors = IF friend THEN {"me", "fay"} ELSE {"me"})
    <3>1. moved' = moved \cup {} /\ fresh' = fresh \cup {} /\ events' = events
      BY <2>1 DEF A!ReadFriends
    <3>2. friend \in BOOLEAN
      BY <1>1 DEF FeedTypes, FeedServer
    <3> QED
      BY <2>1, <3>1, <3>2
  <2>2. CASE A!FailFriends /\ actors = {"me"}
    <3> DEFINE T == {A!Id(r) : r \in A!Hers}
    <3>1. moved' = moved \cup T /\ fresh' = fresh \cup T /\ A!MayOccur
      BY <2>2 DEF A!FailFriends, A!Touch
    <3>2. \A r \in rows : r.by = "fay" => A!Id(r) \in T
      BY DEF A!Hers
    <3> QED
      BY <3>1, <3>2
  <2> QED
    BY <1>3, <2>1, <2>2
<1> DEFINE k == [phase |-> "batch", actors |-> actors, raw |-> <<>>, kept |-> <<>>, cursor |-> top,
                 turns |-> 0, exhausted |-> FALSE, setting |-> "private", verdict |-> "unknown", edges |-> {}]
<1>6. job' = k
  <2>1. job = A!Request(top)
    BY <1>1, <1>4 DEF Working
  <2> HIDE DEF top
  <2> QED
    BY <1>3, <2>1 DEF A!Request, A!NoJob
<1>7. k \in FeedJobs
  BY <1>2 DEF FeedJobs, Settings
<1>8. Loaded(k, top, Scope \cup T)
  <2>1. Arranged(k, top)
    BY <1>2, <1>3 DEF Arranged, Descending
  <2>2. \A r \in rows : ~(r.at < top /\ r.at > top)
    BY <1>1, <1>2 DEF FeedTypes, FeedServer, Entries
  <2>3. Named(<<>>) = {}
    BY DEF Named
  <2> HIDE DEF top
  <2> QED
    BY <1>5, <2>1, <2>2, <2>3 DEF Loaded
<1>9. Judged(k, Scope \cup T)
  BY DEF Judged
<1>10. MaxIterations \in Nat \ {0} /\ BatchSize \in Nat /\ k.turns = 0 /\ Len(k.raw) = 0
  BY DEF FeedNumbers
<1>11. k.phase = "batch" /\ k.raw = <<>> /\ ~k.exhausted
  OBVIOUS
<1> HIDE DEF k
<1>12. /\ job' \in FeedJobs /\ job'.phase \in {"batch", "setting", "verdict", "answer"}
       /\ job'.turns <= MaxIterations /\ (job'.phase # "answer" => job'.turns < MaxIterations)
       /\ Len(job'.raw) <= BatchSize /\ (job'.phase \in {"batch", "answer"} => job'.raw = <<>>)
       /\ (job'.phase = "batch" => ~job'.exhausted)
       /\ (job'.phase \in {"setting", "verdict"} => job'.verdict = "unknown")
  BY <1>6, <1>7, <1>10, <1>11
<1>13. Loaded(job', Low(fetch.got), Scope \cup T) /\ Judged(job', Scope \cup T)
  BY <1>6, <1>8, <1>9
<1>14. /\ job.phase # "idle" /\ UNCHANGED <<pages, fetch>> /\ Elsewhere
       /\ moved' = moved \cup T /\ fresh' = fresh \cup T /\ (events' = events \/ A!MayOccur)
  BY <1>4, <1>5
<1> QED
  BY ONLY FeedNumbers, FeedInv, <1>12, <1>13, <1>14, JobKeeps

\* What a request in work has.
LEMMA WorkIs ==
  ASSUME FeedNumbers, FeedInv, job.phase \in {"batch", "setting", "verdict", "answer"}
  PROVE  /\ FeedServer /\ job \in FeedJobs /\ Low(fetch.got) \in Nat /\ fetch.got \in Seq(FeedPages)
         /\ Loaded(job, Low(fetch.got), Scope) /\ Judged(job, Scope)
         /\ job.turns <= MaxIterations /\ (job.phase # "answer" => job.turns < MaxIterations)
         /\ Len(job.raw) <= BatchSize
         /\ job.phase \in {"batch", "answer"} => job.raw = <<>>
         /\ job.phase = "batch" => ~job.exhausted
         /\ job.phase \in {"setting", "verdict"} => job.verdict = "unknown"
<1>1. FeedTypes /\ FeedFlow /\ Working
  BY DEF FeedInv
<1>2. fetch.got \in Seq(FeedPages)
  BY <1>1 DEF FeedTypes, FeedFetches
<1>3. Low(fetch.got) \in Nat
  BY <1>2, LowIs
<1>4. job.turns <= MaxIterations /\ (job.phase # "answer" => job.turns < MaxIterations) /\ Len(job.raw) <= BatchSize
  BY <1>1 DEF FeedFlow
<1> QED
  BY <1>1, <1>2, <1>3, <1>4 DEF FeedTypes, Working

\* The batch is filtered, and the request goes on with it.
LEMMA FilteredKeeps ==
  ASSUME FeedNumbers, FeedInv, Elsewhere, events' = events \/ A!MayOccur,
         job.phase # "idle", UNCHANGED <<pages, fetch>>,
         NEW T, moved' = moved \cup T, fresh' = fresh \cup T,
         NEW j \in FeedJobs, job' = A!Filtered(j), Loaded(j, Low(fetch.got), Scope \cup T),
         Judged(j, Scope \cup T), Sure(j), j.turns < MaxIterations
  PROVE  FeedInv'
<1> DEFINE k == A!Filtered(j)
           top == Low(fetch.got)
           t == Scope \cup T
<1>1. FeedServer /\ top \in Nat
  BY LowIs DEF FeedInv, FeedTypes, FeedFetches
<1>2. Loaded(j, top, t) /\ Judged(j, t)
  OBVIOUS
<1> HIDE DEF top, t
<1>3. /\ k \in FeedJobs /\ Loaded(k, top, t) /\ Judged(k, t)
      /\ k.raw = <<>> /\ k.phase \in {"batch", "answer"} /\ k.turns <= MaxIterations
      /\ k.phase = "batch" => k.turns < MaxIterations /\ ~k.exhausted
  BY <1>1, <1>2, FilterStep
<1>4. Len(<<>>) <= BatchSize
  BY DEF FeedNumbers
<1>5. job' = k
  OBVIOUS
<1> HIDE DEF k
<1>6. Loaded(k, Low(fetch.got), Scope \cup T) /\ Judged(k, Scope \cup T)
  BY <1>3 DEF top, t
<1>7. /\ job' \in FeedJobs /\ job'.phase \in {"batch", "setting", "verdict", "answer"}
      /\ job'.turns <= MaxIterations /\ (job'.phase # "answer" => job'.turns < MaxIterations)
      /\ Len(job'.raw) <= BatchSize /\ (job'.phase \in {"batch", "answer"} => job'.raw = <<>>)
      /\ (job'.phase = "batch" => ~job'.exhausted)
      /\ (job'.phase \in {"setting", "verdict"} => job'.verdict = "unknown")
  BY <1>3, <1>4, <1>5
<1>8. Loaded(job', Low(fetch.got), Scope \cup T) /\ Judged(job', Scope \cup T)
  BY <1>5, <1>6
<1> QED
  BY <1>7, <1>8, JobKeeps

LEMMA ReadKeeps == ASSUME FeedNumbers, FeedInv, A!ReadBatch PROVE FeedInv'
<1>1. job.phase = "batch" /\ UNCHANGED <<pages, fetch, moved, fresh, events>> /\ Elsewhere
  BY DEF A!ReadBatch, A!server, Elsewhere
<1> DEFINE top == Low(fetch.got)
<1>2. /\ FeedServer /\ job \in FeedJobs /\ top \in Nat /\ Loaded(job, top, Scope) /\ Judged(job, Scope)
      /\ job.turns < MaxIterations /\ job.raw = <<>> /\ ~job.exhausted
  BY <1>1, WorkIs
<1>3. PICK ahead \in {"me", "fay"} :
        LET raw == A!Batch(job.actors, job.cursor, ahead)
            end == IF raw = <<>> THEN job.cursor ELSE raw[Len(raw)].at
            j == [job EXCEPT !.raw = raw, !.cursor = end, !.edges = @ \cup {end},
                             !.exhausted = Len(raw) < BatchSize]
            asks == j.verdict = "unknown" /\ \E i \in DOMAIN raw : raw[i] \in A!Habit
        IN job' = IF asks THEN [j EXCEPT !.phase = "setting"] ELSE A!Filtered(j)
  BY DEF A!ReadBatch, A!Last
<1> DEFINE raw == A!Batch(job.actors, job.cursor, ahead)
           j == WithBatch(job, raw)
           asks == j.verdict = "unknown" /\ \E i \in DOMAIN raw : raw[i] \in A!Habit
<1>4. job' = IF asks THEN [j EXCEPT !.phase = "setting"] ELSE A!Filtered(j)
  BY <1>3 DEF WithBatch, EndOf
<1>5. raw = A!Batch(job.actors, job.cursor, ahead)
  OBVIOUS
<1>6. j.verdict = job.verdict /\ j.phase = job.phase /\ j.turns = job.turns /\ j.raw = raw /\ j.setting = job.setting
  BY <1>2 DEF FeedJobs, WithBatch
<1> HIDE DEF raw, top
<1>8. j \in FeedJobs /\ Loaded(j, top, Scope) /\ Len(raw) <= BatchSize /\ \A i \in DOMAIN raw : raw[i] \in rows
  <2>1. /\ FeedServer /\ job \in FeedJobs /\ top \in Nat /\ Loaded(job, top, Scope)
        /\ job.raw = <<>> /\ ~job.exhausted /\ ahead \in {"me", "fay"}
    BY <1>2
  <2> QED
    BY ONLY FeedNumbers, <2>1, <1>5, BatchStep
<1> HIDE DEF j
<1>9. Judged(j, Scope)
  BY <1>1, <1>2, <1>6 DEF Judged
<1>10. moved' = moved \cup {} /\ fresh' = fresh \cup {} /\ events' = events /\ Scope \cup {} = Scope
  BY <1>1
<1>11. CASE ~asks
  <2>1. Sure(j)
    BY <1>6, <1>8, <1>11 DEF Sure, A!Habit, A!Hers
  <2>2. job' = A!Filtered(j)
    BY <1>4, <1>11
  <2>3. Loaded(j, Low(fetch.got), Scope \cup {}) /\ Judged(j, Scope \cup {})
    BY <1>8, <1>9, <1>10 DEF top
  <2>4. j \in FeedJobs /\ j.turns < MaxIterations /\ job.phase # "idle"
    BY <1>1, <1>2, <1>6, <1>8
  <2> HIDE DEF asks
  <2> QED
    BY <1>1, <1>10, <2>1, <2>2, <2>3, <2>4, FilteredKeeps
<1>12. CASE asks
  <2> DEFINE k == [j EXCEPT !.phase = "setting"]
  <2>1. k \in FeedJobs
    BY <1>8 DEF FeedJobs
  <2>2. /\ k.phase = "setting" /\ k.verdict = j.verdict /\ k.turns = j.turns /\ k.raw = raw
        /\ k.actors = j.actors /\ k.kept = j.kept /\ k.cursor = j.cursor /\ k.exhausted = j.exhausted
        /\ k.edges = j.edges /\ j.raw = raw
    BY <1>6, <1>8 DEF FeedJobs
  <2>3. job' = k /\ j.verdict = "unknown"
    BY <1>4, <1>12
  <2> HIDE DEF k, asks
  <2>4. Loaded(k, top, Scope)
    BY <1>8, <2>2 DEF Loaded, Arranged
  <2>5. Judged(k, Scope)
    BY <2>2, <2>3 DEF Judged
  <2>6. /\ job' \in FeedJobs /\ job'.phase \in {"batch", "setting", "verdict", "answer"}
        /\ job'.turns <= MaxIterations /\ (job'.phase # "answer" => job'.turns < MaxIterations)
        /\ Len(job'.raw) <= BatchSize /\ (job'.phase \in {"batch", "answer"} => job'.raw = <<>>)
        /\ (job'.phase = "batch" => ~job'.exhausted)
        /\ (job'.phase \in {"setting", "verdict"} => job'.verdict = "unknown")
    <3>1. j.turns \in Nat /\ MaxIterations \in Nat
      BY <1>8 DEF FeedJobs, FeedNumbers
    <3> QED
      BY <1>2, <1>6, <1>8, <2>1, <2>2, <2>3, <3>1
  <2>7. Loaded(job', Low(fetch.got), Scope \cup {}) /\ Judged(job', Scope \cup {})
    BY <1>10, <2>3, <2>4, <2>5 DEF top
  <2>8. job.phase # "idle" /\ UNCHANGED <<pages, fetch>>
    BY <1>1
  <2> QED
    BY <1>1, <1>10, <2>6, <2>7, <2>8, JobKeeps
<1> QED
  BY <1>11, <1>12

LEMMA SettingKeeps == ASSUME FeedNumbers, FeedInv, A!ReadSetting PROVE FeedInv'
<1> DEFINE k == [job EXCEPT !.phase = "verdict", !.setting = vis]
           top == Low(fetch.got)
<1>1. /\ job.phase = "setting" /\ UNCHANGED <<pages, fetch, moved, fresh, events>> /\ Elsewhere /\ job' = k
  BY DEF A!ReadSetting, A!server, Elsewhere
<1>2. /\ FeedServer /\ job \in FeedJobs /\ Loaded(job, top, Scope)
      /\ job.turns < MaxIterations /\ Len(job.raw) <= BatchSize /\ job.verdict = "unknown"
  BY <1>1, WorkIs
<1>3. k \in FeedJobs
  BY <1>2 DEF FeedJobs, FeedServer
<1>4. /\ k.phase = "verdict" /\ k.setting = vis /\ k.verdict = job.verdict /\ k.turns = job.turns
      /\ k.raw = job.raw /\ k.actors = job.actors /\ k.kept = job.kept /\ k.cursor = job.cursor
      /\ k.exhausted = job.exhausted /\ k.edges = job.edges
  BY <1>2 DEF FeedJobs
<1> HIDE DEF k, top
<1>5. Loaded(k, top, Scope)
  BY <1>2, <1>4 DEF Loaded, Arranged
<1>6. Judged(k, Scope)
  BY <1>2, <1>4 DEF Judged
<1>7. moved' = moved \cup {} /\ fresh' = fresh \cup {} /\ events' = events /\ Scope \cup {} = Scope
  BY <1>1
<1>8. /\ job' \in FeedJobs /\ job'.phase \in {"batch", "setting", "verdict", "answer"}
      /\ job'.turns <= MaxIterations /\ (job'.phase # "answer" => job'.turns < MaxIterations)
      /\ Len(job'.raw) <= BatchSize /\ (job'.phase \in {"batch", "answer"} => job'.raw = <<>>)
      /\ (job'.phase = "batch" => ~job'.exhausted)
      /\ (job'.phase \in {"setting", "verdict"} => job'.verdict = "unknown")
  <2>1. job.turns \in Nat /\ MaxIterations \in Nat
    BY <1>2 DEF FeedJobs, FeedNumbers
  <2> QED
    BY <1>1, <1>2, <1>3, <1>4, <2>1
<1>9. Loaded(job', Low(fetch.got), Scope \cup {}) /\ Judged(job', Scope \cup {})
  BY <1>1, <1>5, <1>6, <1>7 DEF top
<1>10. job.phase # "idle" /\ UNCHANGED <<pages, fetch>>
  BY <1>1
<1> QED
  BY <1>1, <1>7, <1>8, <1>9, <1>10, JobKeeps

\* The verdict, whether it is read or cannot be.
LEMMA VerdictKeeps == ASSUME FeedNumbers, FeedInv, A!ReadVerdict \/ A!FailVerdict PROVE FeedInv'
<1> DEFINE top == Low(fetch.got)
           sees == job.setting = "public" \/ (job.setting = "friends" /\ friend)
           T == {A!Id(r) : r \in A!Hers}
<1>1. job.phase \in {"setting", "verdict"} /\ UNCHANGED <<pages, fetch>> /\ Elsewhere
  BY DEF A!ReadVerdict, A!FailVerdict, A!server, Elsewhere
<1>2. /\ FeedServer /\ job \in FeedJobs /\ Loaded(job, top, Scope) /\ Judged(job, Scope)
      /\ job.turns < MaxIterations
  BY <1>1, WorkIs
<1>3. ASSUME NEW v \in {"yes", "no"}, NEW U, job' = A!Filtered([job EXCEPT !.verdict = v]),
             moved' = moved \cup U, fresh' = fresh \cup U, events' = events \/ A!MayOccur,
             Judged([job EXCEPT !.verdict = v], Scope \cup U)
      PROVE  FeedInv'
  <2> DEFINE j == [job EXCEPT !.verdict = v]
  <2>1. j \in FeedJobs
    BY <1>2 DEF FeedJobs
  <2>2. /\ j.phase = job.phase /\ j.verdict = v /\ j.turns = job.turns /\ j.raw = job.raw /\ j.actors = job.actors
        /\ j.kept = job.kept /\ j.cursor = job.cursor /\ j.exhausted = job.exhausted /\ j.edges = job.edges
    BY <1>2 DEF FeedJobs
  <2>3. job' = A!Filtered(j) /\ Judged(j, Scope \cup U)
    BY <1>3
  <2> HIDE DEF j, top
  <2>4. Loaded(j, top, Scope)
    BY <1>2, <2>2 DEF Loaded, Arranged
  <2>5. Scope \subseteq Scope \cup U
    OBVIOUS
  <2>6. Loaded(j, Low(fetch.got), Scope \cup U)
    BY <2>4, <2>5, LessIsSaid DEF top
  <2>7. Sure(j) /\ j.turns < MaxIterations /\ job.phase # "idle"
    BY <1>1, <1>2, <2>2 DEF Sure
  <2> QED
    BY <1>1, <1>3, <2>1, <2>3, <2>6, <2>7, FilteredKeeps
<1>4. CASE A!ReadVerdict
  <2> DEFINE v == IF sees THEN "yes" ELSE "no"
  <2>1. /\ job.phase = "verdict" /\ job' = A!Filtered([job EXCEPT !.verdict = v])
        /\ moved' = moved \cup {} /\ fresh' = fresh \cup {} /\ events' = events
    BY <1>4 DEF A!ReadVerdict
  <2>2. v \in {"yes", "no"} /\ (v = "yes" <=> sees)
    OBVIOUS
  <2>3. [job EXCEPT !.verdict = v].verdict = v
    BY <1>2 DEF FeedJobs
  <2>4. [job EXCEPT !.verdict = v].phase = job.phase /\ [job EXCEPT !.verdict = v].setting = job.setting
    BY <1>2 DEF FeedJobs
  <2> HIDE DEF v
  <2>5. Judged([job EXCEPT !.verdict = v], Scope \cup {})
    <3> DEFINE j == [job EXCEPT !.verdict = v]
    <3>1. j.verdict = v /\ j.phase = job.phase /\ j.setting = job.setting
      BY <2>3, <2>4
    <3>2. \A r \in rows : A!Id(r) \notin Scope /\ r.by = "fay" /\ r.kind = "habit" => job.setting = vis
      BY <1>2, <2>1 DEF Judged
    <3> HIDE DEF j
    <3>3. Judged(j, Scope \cup {})
      BY <2>2, <3>1, <3>2 DEF Judged
    <3> QED
      BY <3>3 DEF j
  <2> QED
    BY <1>3, <2>1, <2>2, <2>5
<1>5. CASE A!FailVerdict
  <2>1. /\ job' = A!Filtered([job EXCEPT !.verdict = "no"])
        /\ moved' = moved \cup T /\ fresh' = fresh \cup T /\ A!MayOccur
    BY <1>5 DEF A!FailVerdict, A!Touch
  <2>2. \A r \in rows : r.by = "fay" => A!Id(r) \in T
    BY DEF A!Hers
  <2> HIDE DEF T
  <2>3. Judged([job EXCEPT !.verdict = "no"], Scope \cup T)
    BY <2>2 DEF Judged
  <2> QED
    BY <1>3, <2>1, <2>3
<1> QED
  BY <1>4, <1>5

-----------------------------------------------------------------------------
(* Feed.  The client.                                                      *)

\* Nothing is said of no page.
LEMMA NoPage ==
  ASSUME FeedNumbers, FeedServer, NEW t
  PROVE  InOrder(<<>>) /\ Whole(<<>>, t)
<1>1. InOrder(<<>>)
  BY DEF InOrder
<1>2. \A r \in rows : ~(r.at > Low(<<>>))
  <2>1. /\ clock \in Nat /\ Len(emits) \in Nat /\ clock + Len(emits) <= MaxFirst + events
        /\ events \in Nat /\ events <= MaxFeedEvents /\ MaxFirst \in Nat /\ MaxFeedEvents \in Nat
    BY DEF FeedNumbers, FeedServer
  <2>2. Low(<<>>) = A!NoCursor /\ clock < A!NoCursor /\ A!NoCursor \in Nat
    BY <2>1 DEF A!NoCursor, Low
  <2>3. \A r \in rows : r.at \in 1 .. clock
    BY DEF FeedServer
  <2> QED
    BY <2>1, <2>2, <2>3
<1>3. PageNames(<<>>) = {}
  BY DEF PageNames
<1> QED
  BY <1>1, <1>2, <1>3 DEF Whole

LEMMA RequestIs ==
  ASSUME FeedNumbers, NEW cursor \in Nat
  PROVE  /\ A!Request(cursor) \in FeedJobs /\ A!Request(cursor).phase = "friends"
         /\ A!Request(cursor).turns = 0 /\ A!Request(cursor).raw = <<>>
         /\ 0 < MaxIterations /\ Len(<<>>) <= BatchSize
<1>1. A!Request(cursor) = [phase |-> "friends", actors |-> {}, raw |-> <<>>, kept |-> <<>>, cursor |-> cursor,
                           turns |-> 0, exhausted |-> FALSE, setting |-> "private",
                           verdict |-> "unknown", edges |-> {}]
  <2>1. A!Request(cursor) = [A!NoJob EXCEPT !.phase = "friends", !.cursor = cursor]
    BY DEF A!Request
  <2> QED
    BY <2>1 DEF A!NoJob
<1>2. A!Request(cursor) \in FeedJobs
  BY <1>1 DEF FeedJobs, Settings
<1>3. 0 < MaxIterations /\ Len(<<>>) <= BatchSize
  BY DEF FeedNumbers
<1> QED
  BY <1>1, <1>2, <1>3

LEMMA NothingIs ==
  ASSUME FeedNumbers
  PROVE  /\ A!NoJob \in FeedJobs /\ A!NoJob.phase = "idle" /\ A!NoJob.turns = 0 /\ A!NoJob.raw = <<>>
         /\ A!NoFetch \in FeedFetches /\ A!NoFetch.kind = "idle" /\ A!NoFetch.got = <<>>
         /\ 0 <= MaxIterations /\ Len(<<>>) <= BatchSize
<1>1. A!NoCursor \in Nat /\ 0 <= MaxIterations /\ Len(<<>>) <= BatchSize
  BY DEF A!NoCursor, FeedNumbers
<1>2. A!NoJob \in FeedJobs /\ A!NoJob.phase = "idle" /\ A!NoJob.turns = 0 /\ A!NoJob.raw = <<>>
  BY <1>1 DEF A!NoJob, FeedJobs, Settings
<1>3. A!NoFetch \in FeedFetches /\ A!NoFetch.kind = "idle" /\ A!NoFetch.got = <<>>
  BY DEF A!NoFetch, FeedFetches
<1> QED
  BY <1>1, <1>2, <1>3

\* A fetch is begun, from a list that is right, or goes on with its next page.
LEMMA AskKeeps ==
  ASSUME FeedNumbers, FeedInv, Elsewhere, events' = events \/ A!MayOccur, UNCHANGED <<pages, moved>>,
         NEW kind \in {"all", "more"}, NEW want \in Nat, NEW got \in Seq(FeedPages),
         fetch' = [kind |-> kind, want |-> want, got |-> got], job' = A!Request(Low(got)),
         Len(got) < want, want <= MaxPages, kind = "more" => got = pages /\ want = Len(pages) + 1,
         InOrder(got), Whole(got, Scope')
  PROVE  FeedInv'
<1>1. FeedTypes /\ FeedFlow /\ FeedLists
  BY DEF FeedInv
<1>2. Low(got) \in Nat
  BY LowIs
<1>3. /\ job' \in FeedJobs /\ job'.phase = "friends" /\ job'.turns = 0 /\ job'.raw = <<>>
      /\ 0 < MaxIterations /\ Len(<<>>) <= BatchSize
  BY <1>2, RequestIs
<1>4. fetch' \in FeedFetches /\ fetch'.kind = kind /\ fetch'.want = want /\ fetch'.got = got
  BY DEF FeedFetches
<1>5. FeedFlow'
  BY <1>1, <1>3, <1>4 DEF FeedFlow, FeedNumbers
<1>6. Going
  BY <1>3, <1>4 DEF Going
<1>7. pages' \in Seq(FeedPages) /\ InOrder(pages') /\ Whole(pages', moved')
  BY <1>1 DEF FeedTypes, FeedLists
<1> QED
  BY <1>3, <1>4, <1>5, <1>6, <1>7, ClientKeeps

\* A fetch ends, with what is then the list.
LEMMA RestKeeps ==
  ASSUME FeedNumbers, FeedInv, Elsewhere, events' = events \/ A!MayOccur,
         fetch' = A!NoFetch, job' = A!NoJob,
         pages' \in Seq(FeedPages), Len(pages') <= MaxPages, InOrder(pages'), Whole(pages', moved')
  PROVE  FeedInv'
<1>1. FeedServer
  BY DEF FeedInv, FeedTypes
<1>2. /\ job' \in FeedJobs /\ job'.phase = "idle" /\ job'.turns = 0 /\ job'.raw = <<>>
      /\ fetch' \in FeedFetches /\ fetch'.kind = "idle" /\ fetch'.got = <<>>
      /\ 0 <= MaxIterations /\ Len(<<>>) <= BatchSize
  BY NothingIs
<1>3. FeedFlow'
  BY <1>2 DEF FeedFlow, A!NoJob, A!NoFetch
<1>4. Going
  BY <1>2 DEF Going
<1>5. InOrder(fetch'.got) /\ Whole(fetch'.got, Scope')
  BY <1>1, <1>2, NoPage
<1> QED
  BY <1>2, <1>3, <1>4, <1>5, ClientKeeps

LEMMA RefetchKeeps == ASSUME FeedNumbers, FeedInv, A!Refetch PROVE FeedInv'
<1> DEFINE want == IF pages = <<>> THEN 1 ELSE Len(pages)
<1>1. FeedTypes /\ FeedFlow
  BY DEF FeedInv
<1>2. /\ A!MayOccur /\ Elsewhere /\ UNCHANGED <<pages, moved>>
      /\ fetch' = [kind |-> "all", want |-> want, got |-> <<>>] /\ job' = A!Request(A!NoCursor)
  BY DEF A!Refetch, A!server, Elsewhere
<1>3. want \in Nat /\ Len(<<>>) < want /\ want <= MaxPages /\ <<>> \in Seq(FeedPages)
  BY <1>1 DEF FeedTypes, FeedFlow, FeedNumbers
<1>4. Low(<<>>) = A!NoCursor
  BY DEF Low
<1>5. FeedServer
  BY <1>1 DEF FeedTypes
<1>6. InOrder(<<>>) /\ Whole(<<>>, Scope')
  BY <1>5, NoPage
<1> HIDE DEF want
<1> QED
  BY <1>2, <1>3, <1>4, <1>6, AskKeeps

LEMMA MoreKeeps == ASSUME FeedNumbers, FeedInv, A!LoadMore PROVE FeedInv'
<1> DEFINE want == Len(pages) + 1
<1>1. FeedTypes /\ FeedFlow /\ FeedLists
  BY DEF FeedInv
<1>2. /\ Elsewhere /\ UNCHANGED <<pages, moved, events>> /\ pages # <<>> /\ Len(pages) < MaxPages
      /\ fetch' = [kind |-> "more", want |-> want, got |-> pages] /\ job' = A!Request(pages[Len(pages)].end)
  BY DEF A!LoadMore, A!server, A!Last, Elsewhere
<1>3. pages \in Seq(FeedPages) /\ want \in Nat /\ Len(pages) < want /\ want <= MaxPages
  BY <1>1, <1>2 DEF FeedTypes, FeedNumbers
<1>4. job' = A!Request(Low(pages))
  BY <1>2 DEF Low
<1>5. Scope' = moved
  BY <1>2 DEF Scope
<1>6. InOrder(pages) /\ Whole(pages, Scope')
  BY <1>1, <1>5 DEF FeedLists
<1>7. want = Len(pages) + 1
  OBVIOUS
<1> HIDE DEF want
<1> QED
  BY <1>2, <1>3, <1>4, <1>6, <1>7, AskKeeps

LEMMA FailKeeps == ASSUME FeedNumbers, FeedInv, A!FailFetch PROVE FeedInv'
<1>1. FeedTypes /\ FeedFlow /\ FeedLists
  BY DEF FeedInv
<1>2. A!MayOccur /\ Elsewhere /\ UNCHANGED <<pages, moved>> /\ fetch' = A!NoFetch /\ job' = A!NoJob
  BY DEF A!FailFetch, A!server, Elsewhere
<1>3. pages' \in Seq(FeedPages) /\ Len(pages') <= MaxPages /\ InOrder(pages') /\ Whole(pages', moved')
  BY <1>1, <1>2 DEF FeedTypes, FeedFlow, FeedLists
<1> QED
  BY <1>2, <1>3, RestKeeps

LEMMA ReceiveKeeps == ASSUME FeedNumbers, FeedInv, A!Receive PROVE FeedInv'
<1> DEFINE got == Append(fetch.got, A!Page(job))
<1>1. FeedTypes /\ FeedFlow /\ FeedLists
  BY DEF FeedInv
<1>2. job.phase = "answer" /\ UNCHANGED events /\ Elsewhere
  BY DEF A!Receive, A!server, Elsewhere
<1>3. /\ FeedServer /\ job \in FeedJobs /\ fetch.got \in Seq(FeedPages)
      /\ Loaded(job, Low(fetch.got), Scope) /\ job.raw = <<>>
  BY <1>2, WorkIs
<1>4. fetch.kind \in {"all", "more"} /\ fetch.want \in Nat /\ Len(fetch.got) < fetch.want /\ fetch.want <= MaxPages
      /\ (fetch.kind = "more" => fetch.got = pages /\ fetch.want = Len(pages) + 1)
      /\ fetch = [kind |-> fetch.kind, want |-> fetch.want, got |-> fetch.got]
  BY <1>1, <1>2 DEF FeedTypes, FeedFlow, FeedFetches, A!NoJob
<1>5. InOrder(fetch.got) /\ Whole(fetch.got, Scope)
  BY <1>1 DEF FeedLists
<1>6. /\ got \in Seq(FeedPages) /\ Len(got) = Len(fetch.got) + 1 /\ got # <<>>
      /\ InOrder(got) /\ Whole(got, Scope)
  BY <1>3, <1>5, PageStep
<1>7. \/ /\ Len(got) < fetch.want /\ fetch' = [fetch EXCEPT !.got = got] /\ job' = A!Request(got[Len(got)].end)
         /\ UNCHANGED <<pages, moved, fresh>>
      \/ /\ pages' = got /\ fetch' = A!NoFetch /\ job' = A!NoJob
         /\ moved' = IF fetch.kind = "all" THEN fresh ELSE moved
  BY DEF A!Receive, A!Last
<1> HIDE DEF got
<1>8. CASE /\ Len(got) < fetch.want /\ fetch' = [fetch EXCEPT !.got = got] /\ job' = A!Request(got[Len(got)].end)
           /\ UNCHANGED <<pages, moved, fresh>>
  <2> DEFINE kind == fetch.kind
             want == fetch.want
  <2>1. Len(fetch.got) \in Nat
    BY <1>3
  <2>2. kind # "more"
    BY <1>4, <1>6, <1>8, <2>1
  <2>3. fetch' = [kind |-> kind, want |-> want, got |-> got] /\ Scope' = Scope
    BY <1>4, <1>8 DEF Scope
  <2>4. job' = A!Request(Low(got)) /\ Len(got) < want /\ want <= MaxPages /\ kind \in {"all", "more"} /\ want \in Nat
    BY <1>4, <1>6, <1>8 DEF Low
  <2>5. UNCHANGED <<pages, moved>> /\ Whole(got, Scope')
    BY <1>6, <1>8, <2>3
  <2> HIDE DEF kind, want
  <2> QED
    BY <1>2, <1>6, <2>2, <2>3, <2>4, <2>5, AskKeeps
<1>9. CASE /\ pages' = got /\ fetch' = A!NoFetch /\ job' = A!NoJob
           /\ moved' = IF fetch.kind = "all" THEN fresh ELSE moved
  <2>1. moved' = Scope
    BY <1>9 DEF Scope
  <2>2. Len(got) <= MaxPages
    <3>1. Len(fetch.got) \in Nat /\ MaxPages \in Nat
      BY <1>3 DEF FeedNumbers
    <3> QED
      BY <1>4, <1>6, <3>1
  <2>3. pages' \in Seq(FeedPages) /\ Len(pages') <= MaxPages /\ InOrder(pages') /\ Whole(pages', moved')
    BY <1>6, <1>9, <2>1, <2>2
  <2> QED
    BY <1>2, <1>9, <2>3, RestKeeps
<1> QED
  BY <1>7, <1>8, <1>9

-----------------------------------------------------------------------------
(* Feed.  The first state and the next.                                    *)

\* Entries of different times, or the two of a friendship.
FirstRow(w, t, r) ==
  /\ r.at = t /\ ~r.hidden
  /\ w = "mine" => r = A!Row(t, "me", "other")
  /\ w = "hers" => r = A!Row(t, "fay", "other")
  /\ w = "habit" => r = A!Row(t, "fay", "habit")
  /\ w = "bond" => r = A!Row(t, "me", "bond") \/ r = A!Row(t, "fay", "bond")

LEMMA FirstRows ==
  ASSUME FeedNumbers, A!Init
  PROVE  \E what \in [1 .. clock -> {"mine", "hers", "habit", "bond"}] :
           /\ \A s, t \in 1 .. clock : what[s] = "bond" /\ what[t] = "bond" => s = t
           /\ \A r \in rows : \E t \in 1 .. clock : FirstRow(what[t], t, r)
           /\ \A t \in 1 .. clock : what[t] = "bond" => A!NewBond(t) \subseteq rows
<1> DEFINE Of(w, t) == CASE w = "bond" -> {A!Row(t, "me", "bond"), A!Row(t, "fay", "bond")}
                         [] w = "mine" -> {A!Row(t, "me", "other")}
                         [] w = "hers" -> {A!Row(t, "fay", "other")}
                         [] w = "habit" -> {A!Row(t, "fay", "habit")}
<1>1. clock \in 0 .. MaxFirst /\ MaxFirst \in Nat
  BY DEF A!Init, FeedNumbers
<1>2. PICK what \in [1 .. clock -> {"mine", "hers", "habit", "bond"}] :
        /\ A!Cardinality({t \in 1 .. clock : what[t] = "bond"}) <= 1
        /\ rows = UNION {Of(what[t], t) : t \in 1 .. clock}
  BY DEF A!Init
<1>3. ASSUME NEW s \in 1 .. clock, NEW t \in 1 .. clock, what[s] = "bond", what[t] = "bond" PROVE s = t
  <2> DEFINE S == {x \in 1 .. clock : what[x] = "bond"}
  <2>1. A!Cardinality(S) = Cardinality(S)
    BY DEF A!Cardinality, Cardinality
  <2>2. IsFiniteSet(S) /\ {s, t} \subseteq S
    <3>1. IsFiniteSet(1 .. clock) /\ S \subseteq 1 .. clock
      BY <1>1, FS_Interval
    <3> QED
      BY <1>3, <3>1, FS_Subset
  <2>3. Cardinality(S) <= 1 /\ Cardinality(S) \in Nat /\ IsFiniteSet({s, t}) /\ Cardinality({s, t}) <= Cardinality(S)
    <3>1. Cardinality(S) <= 1
      BY <1>2, <2>1
    <3> HIDE DEF S
    <3> QED
      BY <2>2, <3>1, FS_Subset, FS_CardinalityType
  <2>4. SUFFICES ASSUME s # t PROVE FALSE
    OBVIOUS
  <2>5. Cardinality({s, t}) = 2
    <3>1. IsFiniteSet({s}) /\ Cardinality({s}) = 1 /\ t \notin {s}
      BY <2>4, FS_Singleton
    <3>2. Cardinality({s} \cup {t}) = Cardinality({s}) + 1
      BY <3>1, FS_AddElement
    <3>3. {s} \cup {t} = {s, t}
      OBVIOUS
    <3> QED
      BY <3>1, <3>2, <3>3
  <2> DEFINE n == Cardinality(S)
  <2>6. n \in Nat /\ n <= 1 /\ 2 <= n
    <3> HIDE DEF S
    <3> QED
      BY <2>3, <2>5
  <2> HIDE DEF n
  <2> QED
    BY <2>6
<1>4. ASSUME NEW r \in rows PROVE \E t \in 1 .. clock : FirstRow(what[t], t, r)
  <2>1. PICK t \in 1 .. clock : r \in Of(what[t], t)
    BY <1>2
  <2>2. what[t] \in {"mine", "hers", "habit", "bond"}
    BY <1>2
  <2>3. CASE what[t] = "bond"
    BY <2>1, <2>3 DEF FirstRow, A!Row
  <2>4. CASE what[t] = "mine"
    BY <2>1, <2>4 DEF FirstRow, A!Row
  <2>5. CASE what[t] = "hers"
    BY <2>1, <2>5 DEF FirstRow, A!Row
  <2>6. CASE what[t] = "habit"
    BY <2>1, <2>6 DEF FirstRow, A!Row
  <2> QED
    BY <2>2, <2>3, <2>4, <2>5, <2>6
<1>5. ASSUME NEW t \in 1 .. clock, what[t] = "bond" PROVE A!NewBond(t) \subseteq rows
  <2>1. Of(what[t], t) = A!NewBond(t)
    BY <1>5 DEF A!NewBond
  <2>2. Of(what[t], t) \subseteq rows
    <3> HIDE DEF Of
    <3> QED
      BY <1>2
  <2> QED
    BY <2>1, <2>2
<1> QED
  BY <1>3, <1>4, <1>5

LEMMA InitFeed == ASSUME FeedNumbers, A!Init PROVE FeedInv
<1>1. /\ friend = TRUE /\ vis \in {"private", "friends", "public"} /\ clock \in 0 .. MaxFirst
      /\ emits = <<>> /\ slipped = FALSE /\ pages = <<>> /\ moved = {} /\ fresh = {} /\ events = 0
      /\ fetch = [kind |-> "all", want |-> 1, got |-> <<>>] /\ job = A!Request(A!NoCursor)
  BY DEF A!Init, A!NoFetch
<1>2. PICK what \in [1 .. clock -> {"mine", "hers", "habit", "bond"}] :
        \A r \in rows : \E t \in 1 .. clock : FirstRow(what[t], t, r)
  BY FirstRows
<1>3. MaxFirst \in Nat /\ MaxFeedEvents \in Nat /\ MaxPages \in Nat \ {0} /\ A!NoCursor \in Nat
  BY DEF FeedNumbers, A!NoCursor
<1>4. ASSUME NEW r \in rows PROVE r \in Entries /\ r.at \in 1 .. clock
  <2>1. PICK t \in 1 .. clock : FirstRow(what[t], t, r)
    BY <1>2
  <2>2. what[t] \in {"mine", "hers", "habit", "bond"} /\ t \in Nat
    BY <1>1, <1>2, <1>3
  <2>3. \E by \in {"me", "fay"}, kind \in {"habit", "bond", "other"} : r = A!Row(t, by, kind)
    <3> DEFINE w == what[t]
    <3>1. w \in {"mine", "hers", "habit", "bond"} /\ FirstRow(w, t, r)
      BY <2>1, <2>2
    <3> HIDE DEF w
    <3>2. CASE w = "mine"
      BY <3>1, <3>2 DEF FirstRow
    <3>3. CASE w = "hers"
      BY <3>1, <3>3 DEF FirstRow
    <3>4. CASE w = "habit"
      BY <3>1, <3>4 DEF FirstRow
    <3>5. CASE w = "bond"
      BY <3>1, <3>5 DEF FirstRow
    <3> QED
      BY <3>1, <3>2, <3>3, <3>4, <3>5
  <2> QED
    BY <2>2, <2>3 DEF A!Row, Entries
<1>5. ASSUME NEW r \in rows, NEW s \in rows, A!Id(r) = A!Id(s) PROVE r = s
  <2>1. PICK t \in 1 .. clock : FirstRow(what[t], t, r)
    BY <1>2
  <2>2. PICK u \in 1 .. clock : FirstRow(what[u], u, s)
    BY <1>2
  <2>3. t = u /\ r.by = s.by /\ what[t] \in {"mine", "hers", "habit", "bond"}
    BY <1>2, <1>5, <2>1, <2>2 DEF FirstRow, A!Id
  <2> DEFINE w == what[t]
  <2>4. FirstRow(w, t, r) /\ FirstRow(w, t, s) /\ w \in {"mine", "hers", "habit", "bond"}
    BY <2>1, <2>2, <2>3
  <2> HIDE DEF w
  <2>5. CASE w # "bond"
    BY <2>4, <2>5 DEF FirstRow
  <2>6. CASE w = "bond"
    <3>1. \A by \in {"me", "fay"} : A!Row(t, by, "bond").by = by
      BY DEF A!Row
    <3>2. r \in {A!Row(t, "me", "bond"), A!Row(t, "fay", "bond")} /\ s \in {A!Row(t, "me", "bond"), A!Row(t, "fay", "bond")}
      BY <2>4, <2>6 DEF FirstRow
    <3> QED
      BY <2>3, <3>1, <3>2
  <2> QED
    BY <2>5, <2>6
<1>6. FeedServer
  <2>1. emits \in Seq({"accepted", "removed", "narrowed", "widened"}) /\ Len(emits) = 0
    BY <1>1
  <2>2. clock \in Nat /\ clock + Len(emits) <= MaxFirst + events /\ events \in Nat /\ events <= MaxFeedEvents
    BY <1>1, <1>3, <2>1
  <2>3. friend \in BOOLEAN /\ vis \in Settings /\ slipped \in BOOLEAN
    BY <1>1 DEF Settings
  <2>4. rows \subseteq Entries /\ \A r \in rows : r.at \in 1 .. clock
    BY <1>4
  <2>5. \A r, s \in rows : A!Id(r) = A!Id(s) => r = s
    BY <1>5
  <2> QED
    BY <2>1, <2>2, <2>3, <2>4, <2>5 DEF FeedServer
<1>7. /\ job \in FeedJobs /\ job.phase = "friends" /\ job.turns = 0 /\ job.raw = <<>>
      /\ 0 < MaxIterations /\ Len(<<>>) <= BatchSize
  BY <1>1, <1>3, RequestIs
<1>8. fetch \in FeedFetches /\ fetch.kind = "all" /\ fetch.want = 1 /\ fetch.got = <<>>
  BY <1>1 DEF FeedFetches
<1>9. FeedTypes
  BY <1>1, <1>6, <1>7, <1>8 DEF FeedTypes
<1>10. FeedFlow
  <2>1. Len(pages) = 0 /\ Len(fetch.got) = 0
    BY <1>1, <1>8
  <2> QED
    BY <1>3, <1>7, <1>8, <2>1 DEF FeedFlow, FeedNumbers
<1>11. FeedLists
  <2>1. \A t : InOrder(<<>>) /\ Whole(<<>>, t)
    BY <1>6, NoPage
  <2> QED
    BY <1>1, <1>8, <2>1 DEF FeedLists
<1>12. Working
  BY <1>1, <1>7, <1>8 DEF Working, Low
<1> QED
  BY <1>9, <1>10, <1>11, <1>12 DEF FeedInv

LEMMA NextFeed == ASSUME FeedNumbers, FeedInv, [A!Next]_(A!vars) PROVE FeedInv'
<1>0. FeedServer
  BY DEF FeedInv, FeedTypes
<1>1. CASE \E by \in {"me", "fay"}, kind \in {"habit", "other"} : A!Happen(by, kind)
  BY <1>1, HappenKeeps
<1>2. CASE A!Befriend
  <2>1. /\ A!MayOccur /\ UNCHANGED <<rows, clock, slipped, job, pages, fetch>> /\ friend' = TRUE /\ vis' = vis
        /\ emits' = Append(emits, "accepted") /\ A!Touch(A!Hers)
    BY <1>2 DEF A!Befriend
  <2>2. friend' \in BOOLEAN /\ vis' \in Settings /\ "accepted" \in Events
    BY <1>0, <2>1 DEF FeedServer, Events
  <2>3. \A r \in rows : r.by = "fay" /\ (r.kind = "habit" \/ friend' # friend) => r \in A!Hers
    BY DEF A!Hers
  <2> QED
    BY <2>1, <2>2, <2>3, OccurKeeps
<1>3. CASE A!Unfriend
  <2>1. /\ A!MayOccur /\ UNCHANGED <<rows, clock, slipped, job, pages, fetch>> /\ friend' = FALSE /\ vis' = vis
        /\ emits' = Append(emits, "removed") /\ A!Touch(A!Hers)
    BY <1>3 DEF A!Unfriend
  <2>2. friend' \in BOOLEAN /\ vis' \in Settings /\ "removed" \in Events
    BY <1>0, <2>1 DEF FeedServer, Events
  <2>3. \A r \in rows : r.by = "fay" /\ (r.kind = "habit" \/ friend' # friend) => r \in A!Hers
    BY DEF A!Hers
  <2> QED
    BY <2>1, <2>2, <2>3, OccurKeeps
<1>4. ASSUME NEW new \in {"private", "friends", "public"}, A!SetVisibility(new) PROVE FeedInv'
  <2> DEFINE e == IF A!Widens(vis, new) THEN "widened" ELSE "narrowed"
  <2>1. /\ A!MayOccur /\ UNCHANGED <<rows, clock, slipped, job, pages, fetch>> /\ friend' = friend /\ vis' = new
        /\ emits' = Append(emits, e) /\ A!Touch(A!Habit)
    BY <1>4 DEF A!SetVisibility
  <2>2. friend' \in BOOLEAN /\ vis' \in Settings /\ e \in Events
    BY <1>0, <2>1 DEF FeedServer, Events, Settings
  <2>3. \A r \in rows : r.by = "fay" /\ (r.kind = "habit" \/ friend' # friend) => r \in A!Habit
    BY <2>1 DEF A!Habit, A!Hers
  <2> HIDE DEF e
  <2> QED
    BY <2>1, <2>2, <2>3, OccurKeeps
<1>5. CASE A!UserDeleted
  BY <1>5, DeletedKeeps
<1>6. CASE \E i \in DOMAIN emits : A!Handle(i) \/ A!LoseEvent(i)
  BY <1>6, HandleKeeps, LoseKeeps
<1>7. CASE A!ReadFriends \/ A!FailFriends
  BY <1>7, BeginKeeps
<1>8. CASE A!ReadBatch
  BY <1>8, ReadKeeps
<1>9. CASE A!ReadSetting
  BY <1>9, SettingKeeps
<1>10. CASE A!ReadVerdict \/ A!FailVerdict
  BY <1>10, VerdictKeeps
<1>11. CASE A!Refetch
  BY <1>11, RefetchKeeps
<1>12. CASE A!LoadMore
  BY <1>12, MoreKeeps
<1>13. CASE A!Receive
  BY <1>13, ReceiveKeeps
<1>14. CASE A!FailFetch
  BY <1>14, FailKeeps
<1>15. CASE UNCHANGED A!vars
  <2>1. /\ UNCHANGED <<job, pages, fetch>> /\ moved' = moved \cup {} /\ fresh' = fresh \cup {}
        /\ UNCHANGED <<friend, vis, rows, clock, emits, slipped, events>>
    BY <1>15 DEF A!vars, A!server, A!client
  <2>2. FeedServer'
    BY <1>0, <2>1 DEF FeedServer
  <2>3. Untouched({})
    BY <2>1 DEF Untouched
  <2> QED
    BY <2>1, <2>2, <2>3, ServerKeeps
<1> QED
  BY <1>1, <1>2, <1>3, <1>4, <1>5, <1>6, <1>7, <1>8, <1>9, <1>10, <1>11, <1>12, <1>13, <1>14, <1>15
     DEF A!Next

\* What the invariant says of the list is what the property says.
LEMMA ListIsWhole == ASSUME FeedNumbers, FeedInv PROVE A!NoGaps
<1>1. FeedTypes /\ InOrder(pages) /\ Whole(pages, moved)
  BY DEF FeedInv, FeedLists
<1>2. SUFFICES ASSUME pages # <<>>
               PROVE  /\ \A x, y \in A!Places : A!Above(x, y) => A!At(x).at >= A!At(y).at /\ A!Id(A!At(x)) # A!Id(A!At(y))
                      /\ \A r \in rows : A!Id(r) \notin moved =>
                           /\ A!Visible(r) /\ r.at > A!End /\ r.at \notin A!Edges => A!Id(r) \in {A!Id(A!At(x)) : x \in A!Places}
                           /\ A!Id(r) \in {A!Id(A!At(x)) : x \in A!Places} => A!Visible(r)
  BY DEF A!NoGaps
<1>3. \A x : x \in A!Places <=> \E p \in DOMAIN pages : \E i \in DOMAIN pages[p].items : x = <<p, i>>
  BY DEF A!Places
<1>4. A!End = Low(pages) /\ A!Edges = PageEdges(pages)
  BY <1>2 DEF A!End, A!Last, Low, A!Edges, PageEdges
<1>5. {A!Id(A!At(x)) : x \in A!Places} = PageNames(pages)
  <2> DEFINE ids == {A!Id(A!At(x)) : x \in A!Places}
  <2>1. ASSUME NEW x \in A!Places PROVE A!Id(A!At(x)) \in PageNames(pages)
    <3>1. PICK p \in DOMAIN pages : \E i \in DOMAIN pages[p].items : x = <<p, i>>
      BY <1>3
    <3>0. PICK i \in DOMAIN pages[p].items : x = <<p, i>>
      BY <3>1
    <3>2. A!At(x) = pages[p].items[i]
      BY <3>0 DEF A!At
    <3> QED
      BY <3>2 DEF PageNames, Named
  <2>2. ASSUME NEW d \in PageNames(pages) PROVE d \in ids
    <3>0. PICK p \in DOMAIN pages : d \in Named(pages[p].items)
      BY DEF PageNames
    <3>1. PICK i \in DOMAIN pages[p].items : d = A!Id(pages[p].items[i])
      BY <3>0 DEF Named
    <3>2. <<p, i>> \in A!Places
      BY <1>3
    <3>3. A!At(<<p, i>>) = pages[p].items[i]
      BY DEF A!At
    <3> QED
      BY <3>1, <3>2, <3>3
  <2> QED
    BY <2>1, <2>2
<1>6. ASSUME NEW x \in A!Places, NEW y \in A!Places, A!Above(x, y)
      PROVE  A!At(x).at >= A!At(y).at /\ A!Id(A!At(x)) # A!Id(A!At(y))
  <2>1. PICK p \in DOMAIN pages : \E i \in DOMAIN pages[p].items : x = <<p, i>>
    BY <1>3
  <2>6. PICK i \in DOMAIN pages[p].items : x = <<p, i>>
    BY <2>1
  <2>2. PICK q \in DOMAIN pages : \E k \in DOMAIN pages[q].items : y = <<q, k>>
    BY <1>3
  <2>7. PICK k \in DOMAIN pages[q].items : y = <<q, k>>
    BY <2>2
  <2>3. A!At(x) = pages[p].items[i] /\ A!At(y) = pages[q].items[k] /\ (p < q \/ (p = q /\ i < k))
    BY <1>6, <2>6, <2>7 DEF A!At, A!Above
  <2>4. CASE p = q /\ i < k
    BY <1>1, <2>1, <2>2, <2>3, <2>4 DEF InOrder, Descending
  <2>5. CASE p < q
    <3>1. A!At(x).at > A!At(y).at
      BY <1>1, <2>1, <2>2, <2>3, <2>5 DEF InOrder
    <3>2. A!At(x) \in Entries /\ A!At(y) \in Entries
      <4>1. \A m \in DOMAIN pages : pages[m].items \in Seq(Entries)
        <5>1. \A m \in DOMAIN pages : pages[m] \in FeedPages
          BY <1>1 DEF FeedTypes
        <5> QED
          BY <5>1 DEF FeedPages
      <4>2. \A s \in Seq(Entries) : \A m \in DOMAIN s : s[m] \in Entries
        OBVIOUS
      <4> QED
        BY <2>1, <2>2, <2>3, <4>1, <4>2
    <3>3. A!At(x).at \in Nat /\ A!At(y).at \in Nat
      BY <3>2 DEF Entries
    <3> QED
      BY <3>1, <3>3 DEF A!Id
  <2> QED
    BY <2>3, <2>4, <2>5
<1> QED
  BY <1>1, <1>4, <1>5, <1>6 DEF Whole

LEMMA FeedTypedIs == ASSUME FeedNumbers, FeedInv PROVE A!TypeOK
<1>1. FeedTypes /\ FeedFlow /\ FeedServer
  BY DEF FeedInv, FeedTypes
<1>2. clock < A!NoCursor /\ clock \in Nat
  <2>1. /\ clock \in Nat /\ Len(emits) \in Nat /\ clock + Len(emits) <= MaxFirst + events
        /\ events \in Nat /\ events <= MaxFeedEvents /\ MaxFirst \in Nat /\ MaxFeedEvents \in Nat
    BY <1>1 DEF FeedNumbers, FeedServer
  <2> QED
    BY <2>1 DEF A!NoCursor
<1>3. rows \subseteq [at : 1 .. clock, by : {"me", "fay"}, kind : {"habit", "bond", "other"}, hidden : BOOLEAN]
  <2>1. \A r \in rows : r \in Entries /\ r.at \in 1 .. clock
    BY <1>1 DEF FeedServer
  <2> QED
    BY <2>1 DEF Entries
<1>4. fetch = A!NoFetch <=> job = A!NoJob
  <2>1. fetch = A!NoFetch => job = A!NoJob
    BY <1>1 DEF FeedFlow, A!NoFetch
  <2>2. job = A!NoJob => fetch = A!NoFetch
    BY <1>1 DEF FeedFlow, A!NoJob
  <2> QED
    BY <2>1, <2>2
<1>5. job.turns \in 0 .. MaxIterations /\ Len(job.raw) <= BatchSize
  BY <1>1 DEF FeedTypes, FeedFlow, FeedJobs, FeedNumbers
<1>6. fetch.kind \in {"idle", "all", "more"} /\ Len(pages) <= MaxPages
  BY <1>1 DEF FeedTypes, FeedFlow, FeedFetches
<1> QED
  BY <1>1, <1>2, <1>3, <1>4, <1>5, <1>6 DEF A!TypeOK, FeedServer, Settings

LEMMA FeedHolds == ASSUME FeedNumbers PROVE A!Spec => []FeedInv
<1>1. A!Init => FeedInv
  BY InitFeed
<1>2. FeedInv /\ [A!Next]_(A!vars) => FeedInv'
  BY NextFeed
<1> QED
  BY <1>1, <1>2, PTL DEF A!Spec

\* Once nothing is under way, and until something happens elsewhere, the pages of the feed hold
\* every entry she may be shown from the newest down to where they end, whatever happened
\* between the batches and the pages (Service.Feed of service.go, useFeed.ts).
THEOREM FeedHasNoGaps == ASSUME FeedNumbers PROVE A!Spec => []A!NoGaps
<1>1. FeedInv => A!NoGaps
  BY ListIsWhole
<1> QED
  BY <1>1, FeedHolds, PTL

\* The types of the feed, its events and its client.
THEOREM FeedTyped == ASSUME FeedNumbers PROVE A!Spec => []A!TypeOK
<1>1. FeedInv => A!TypeOK
  BY FeedTypedIs
<1> QED
  BY <1>1, FeedHolds, PTL

-----------------------------------------------------------------------------
(* Feed.  What the events leave: her habit is shown to everyone, or a      *)
(* change that shows it is still to be handled.                            *)

Bonded ==
  \A r \in A!Bond :
    \E s \in A!Bond : A!Bond = {r, s} /\ r.by # s.by /\ r.at = s.at /\ r.hidden = s.hidden

Awaited(l) == \E i \in DOMAIN l : l[i] = "widened" /\ \A k \in DOMAIN l : k > i => l[k] # "narrowed"

Shown == \A r \in A!Habit : ~r.hidden

Restored ==
  /\ Bonded
  /\ ~slipped /\ vis = "public" =>
       Awaited(emits) \/ (Shown /\ \A k \in DOMAIN emits : emits[k] # "narrowed")

LEMMA InitRestored == ASSUME FeedNumbers, A!Init PROVE Restored
<1>1. /\ emits = <<>> /\ clock \in Nat
  BY DEF A!Init, FeedNumbers
<1>2. PICK what \in [1 .. clock -> {"mine", "hers", "habit", "bond"}] :
        /\ \A s, t \in 1 .. clock : what[s] = "bond" /\ what[t] = "bond" => s = t
        /\ \A r \in rows : \E t \in 1 .. clock : FirstRow(what[t], t, r)
        /\ \A t \in 1 .. clock : what[t] = "bond" => A!NewBond(t) \subseteq rows
  BY FirstRows
<1>3. Shown
  BY <1>2 DEF Shown, A!Habit, A!Hers, FirstRow
<1>4. ASSUME NEW r \in A!Bond
      PROVE  \E t \in 1 .. clock : what[t] = "bond" /\ r \in A!NewBond(t)
  <2>1. r \in rows /\ r.kind = "bond"
    BY DEF A!Bond
  <2>2. PICK t \in 1 .. clock : FirstRow(what[t], t, r)
    BY <1>2, <2>1
  <2>3. what[t] \in {"mine", "hers", "habit", "bond"}
    BY <1>2
  <2>4. what[t] = "bond"
    BY <2>1, <2>2, <2>3 DEF FirstRow, A!Row
  <2> QED
    BY <2>2, <2>4 DEF FirstRow, A!NewBond
<1>5. Bonded
  <2>1. SUFFICES ASSUME NEW r \in A!Bond
                 PROVE  \E s \in A!Bond : A!Bond = {r, s} /\ r.by # s.by /\ r.at = s.at /\ r.hidden = s.hidden
    BY DEF Bonded
  <2>2. PICK t \in 1 .. clock : what[t] = "bond" /\ r \in A!NewBond(t)
    BY <1>4
  <2> DEFINE a == A!Row(t, "me", "bond")
             b == A!Row(t, "fay", "bond")
  <2>3. A!NewBond(t) = {a, b} /\ a.by # b.by /\ a.at = b.at /\ a.hidden = b.hidden /\ a.kind = "bond" /\ b.kind = "bond"
    BY DEF A!NewBond, A!Row
  <2> HIDE DEF a, b
  <2>4. A!Bond = {a, b}
    <3>1. \A s \in A!Bond : s \in A!NewBond(t)
      BY <1>2, <1>4, <2>2
    <3>2. A!NewBond(t) \subseteq A!Bond
      BY <1>2, <2>2, <2>3 DEF A!Bond
    <3> QED
      BY <2>3, <3>1, <3>2
  <2> QED
    BY <2>2, <2>3, <2>4
<1> QED
  BY <1>1, <1>3, <1>5 DEF Restored

\* A set of entries is hidden or comes back: what that leaves of the friendship and of her habit.
LEMMA Hidden ==
  ASSUME FeedServer, Bonded, NEW flag \in BOOLEAN, NEW set, set = A!Bond \/ set = A!Habit, A!Hide(set, flag)
  PROVE  /\ Bonded'
         /\ set = A!Bond /\ Shown => Shown'
         /\ set = A!Habit /\ ~flag => Shown'
<1> DEFINE new(r) == [r EXCEPT !.hidden = flag]
<1>1. rows' = (rows \ set) \cup {new(r) : r \in set} /\ set \subseteq rows
  BY DEF A!Hide, A!Bond, A!Habit, A!Hers
<1>2. ASSUME NEW r \in rows
      PROVE  new(r).at = r.at /\ new(r).by = r.by /\ new(r).kind = r.kind /\ new(r).hidden = flag
  <2>1. r \in Entries
    BY DEF FeedServer
  <2> QED
    BY <2>1 DEF Entries
<1> HIDE DEF new
<1>3. \A x \in rows' : (x \in rows /\ x \notin set) \/ \E r \in set : x = new(r)
  BY <1>1
<1>4. CASE set = A!Bond
  <2>1. A!Bond' = {new(r) : r \in A!Bond}
    BY <1>1, <1>2, <1>4 DEF A!Bond
  <2>2. A!Habit' = A!Habit
    BY <1>1, <1>2, <1>4 DEF A!Habit, A!Hers, A!Bond
  <2>3. Bonded'
    <3>1. SUFFICES ASSUME NEW x \in A!Bond'
                   PROVE  \E y \in A!Bond' : A!Bond' = {x, y} /\ x.by # y.by /\ x.at = y.at /\ x.hidden = y.hidden
      BY DEF Bonded
    <3>2. PICK r \in A!Bond : x = new(r)
      BY <2>1
    <3>3. PICK s \in A!Bond : A!Bond = {r, s} /\ r.by # s.by /\ r.at = s.at
      BY DEF Bonded
    <3>4. A!Bond' = {x, new(s)} /\ new(s) \in A!Bond'
      BY <2>1, <3>2, <3>3
    <3>5. x.by # new(s).by /\ x.at = new(s).at /\ x.hidden = new(s).hidden
      BY <1>1, <1>2, <1>4, <3>2, <3>3
    <3> QED
      BY <3>4, <3>5
  <2>4. set = A!Habit => A!Bond = {}
    BY <1>4 DEF A!Habit, A!Bond
  <2>5. set = A!Habit => A!Habit' = {}
    BY <1>4, <2>2, <2>4
  <2> QED
    BY <2>2, <2>3, <2>5 DEF Shown
<1>5. CASE set = A!Habit /\ set # A!Bond
  <2>1. A!Bond' = A!Bond
    BY <1>1, <1>2, <1>5 DEF A!Bond, A!Habit, A!Hers
  <2>2. Bonded'
    BY <2>1 DEF Bonded
  <2>3. ASSUME NEW x \in A!Habit' PROVE x.hidden = flag
    <3>1. x \in rows' /\ x.by = "fay" /\ x.kind = "habit"
      BY DEF A!Habit, A!Hers
    <3>2. ~(x \in rows /\ x \notin set)
      BY <1>5, <3>1 DEF A!Habit, A!Hers
    <3> QED
      BY <1>1, <1>2, <1>3, <3>1, <3>2
  <2> QED
    BY <1>5, <2>2, <2>3 DEF Shown
<1> QED
  BY <1>4, <1>5

LEMMA NextRestored == ASSUME FeedNumbers, FeedServer, Restored, [A!Next]_(A!vars) PROVE Restored'
<1>0. emits \in Seq(Events) /\ Len(emits) \in Nat /\ DOMAIN emits = 1 .. Len(emits)
  BY DEF FeedServer, Events
<1>1. ASSUME NEW by \in {"me", "fay"}, NEW kind \in {"habit", "other"}, A!Happen(by, kind) PROVE Restored'
  <2> DEFINE r == A!Row(clock + 1, by, kind)
  <2>1. rows' = rows \cup {r} /\ r.kind # "bond" /\ ~r.hidden /\ UNCHANGED <<vis, emits, slipped>>
    BY <1>1 DEF A!Happen, A!Row
  <2> HIDE DEF r
  <2>2. A!Bond' = A!Bond
    BY <2>1 DEF A!Bond
  <2>3. Shown => Shown'
    BY <2>1 DEF Shown, A!Habit, A!Hers
  <2> QED
    BY <2>1, <2>2, <2>3 DEF Restored, Bonded
<1>2. ASSUME NEW e \in Events, emits' = Append(emits, e), rows' = rows, slipped' = slipped,
             vis' = "public" /\ vis' # vis => e = "widened", vis' = vis => e # "narrowed"
      PROVE  Restored'
  <2>1. /\ DOMAIN emits' = 1 .. Len(emits) + 1 /\ emits'[Len(emits) + 1] = e
        /\ \A i \in 1 .. Len(emits) : emits'[i] = emits[i]
    BY <1>2, Emitted
  <2>2. Bonded' /\ (Shown => Shown')
    BY <1>2 DEF Restored, Bonded, Shown, A!Bond, A!Habit, A!Hers
  <2>3. ASSUME ~slipped', vis' = "public"
        PROVE  Awaited(emits)' \/ (Shown' /\ \A k \in DOMAIN emits' : emits'[k] # "narrowed")
    <3>1. CASE vis' # vis
      <4>1. e = "widened"
        BY <1>2, <2>3, <3>1
      <4>2. Len(emits) + 1 \in DOMAIN emits' /\ \A k \in DOMAIN emits' : ~(k > Len(emits) + 1)
        BY <1>0, <2>1
      <4> QED
        BY <2>1, <4>1, <4>2 DEF Awaited
    <3>2. CASE vis' = vis
      <4>1. e # "narrowed" /\ \A k \in DOMAIN emits' : k \in DOMAIN emits \/ k = Len(emits) + 1
        BY <1>0, <1>2, <2>1, <3>2
      <4>2. CASE Awaited(emits)
        <5>1. PICK i \in DOMAIN emits : emits[i] = "widened" /\ \A k \in DOMAIN emits : k > i => emits[k] # "narrowed"
          BY <4>2 DEF Awaited
        <5>2. i \in DOMAIN emits' /\ emits'[i] = "widened"
          BY <1>0, <2>1, <5>1
        <5>3. \A k \in DOMAIN emits' : k > i => emits'[k] # "narrowed"
          BY <1>0, <2>1, <4>1, <5>1
        <5> QED
          BY <5>2, <5>3 DEF Awaited
      <4>3. CASE Shown /\ \A k \in DOMAIN emits : emits[k] # "narrowed"
        BY <1>0, <2>1, <2>2, <4>1, <4>3
      <4> QED
        BY <1>2, <2>3, <3>2, <4>2, <4>3 DEF Restored
    <3> QED
      BY <3>1, <3>2
  <2> QED
    BY <2>2, <2>3 DEF Restored
<1>3. CASE A!Befriend \/ A!Unfriend
  <2>1. PICK e \in {"accepted", "removed"} : emits' = Append(emits, e)
    BY <1>3 DEF A!Befriend, A!Unfriend
  <2>2. rows' = rows /\ slipped' = slipped /\ vis' = vis
    BY <1>3 DEF A!Befriend, A!Unfriend
  <2> QED
    BY <1>2, <2>1, <2>2 DEF Events
<1>4. ASSUME NEW new \in {"private", "friends", "public"}, A!SetVisibility(new) PROVE Restored'
  <2> DEFINE e == IF A!Widens(vis, new) THEN "widened" ELSE "narrowed"
  <2>1. /\ rows' = rows /\ slipped' = slipped /\ vis' = new /\ emits' = Append(emits, e) /\ vis \notin {new, "none"}
    BY <1>4 DEF A!SetVisibility
  <2>2. new = "public" => e = "widened"
    BY <2>1 DEF FeedServer, Settings, A!Widens, A!Rank
  <2>3. e \in Events /\ vis' # vis
    BY <2>1 DEF Events
  <2> HIDE DEF e
  <2> QED
    BY <1>2, <2>1, <2>2, <2>3
<1>5. CASE A!UserDeleted
  <2>1. vis' = "none" /\ rows' = rows \ (A!Hers \cup A!Bond)
    BY <1>5 DEF A!UserDeleted
  <2>2. A!Bond' = {}
    BY <2>1 DEF A!Bond
  <2> QED
    BY <2>1, <2>2 DEF Restored, Bonded
<1>6. ASSUME NEW i \in DOMAIN emits, A!LoseEvent(i) PROVE Restored'
  <2>1. slipped' = TRUE /\ rows' = rows
    BY <1>6 DEF A!LoseEvent
  <2> QED
    BY <2>1 DEF Restored, Bonded, A!Bond
<1>7. ASSUME NEW i \in DOMAIN emits, A!Handle(i) PROVE Restored'
  <2> DEFINE e == emits[i]
  <2>1. emits' = A!RemoveAt(emits, i) /\ vis' = vis /\ (~slipped' => ~slipped /\ ~(i > 1))
    BY <1>7 DEF A!Handle, FeedServer
  <2>2. /\ emits' \in Seq(Events) /\ e \in Events
        /\ \A k \in DOMAIN emits' :
             /\ (IF k < i THEN k ELSE k + 1) \in DOMAIN emits
             /\ emits'[k] = emits[IF k < i THEN k ELSE k + 1]
        /\ Len(emits') = Len(emits) - 1
    BY <2>1, Taken
  <2>3. \/ e = "accepted" /\ A!Bond = {} /\ rows' = rows \cup A!NewBond(clock + 1)
        \/ e = "accepted" /\ rows' = rows
        \/ e = "removed" /\ A!Hide(A!Bond, TRUE)
        \/ e = "narrowed" /\ A!Hide(A!Habit, TRUE)
        \/ e = "widened" /\ A!Hide(A!Habit, FALSE)
    <3>1. CASE e = "accepted"
      BY <1>7, <3>1 DEF A!Handle
    <3>2. CASE e = "removed"
      BY <1>7, <3>2 DEF A!Handle
    <3>3. CASE e = "narrowed"
      BY <1>7, <3>3 DEF A!Handle
    <3>4. CASE e = "widened"
      BY <1>7, <3>4 DEF A!Handle
    <3> QED
      BY <2>2, <3>1, <3>2, <3>3, <3>4 DEF Events
  <2>4. /\ Bonded'
        /\ e # "narrowed" /\ Shown => Shown'
        /\ e = "widened" => Shown'
    <3>1. CASE e = "accepted" /\ A!Bond = {} /\ rows' = rows \cup A!NewBond(clock + 1)
      <4> DEFINE a == A!Row(clock + 1, "me", "bond")
                 b == A!Row(clock + 1, "fay", "bond")
      <4>1. /\ rows' = rows \cup {a, b} /\ a.by # b.by /\ a.at = b.at /\ a.hidden = b.hidden
            /\ a.kind = "bond" /\ b.kind = "bond"
        BY <3>1 DEF A!NewBond, A!Row
      <4> HIDE DEF a, b
      <4>2. A!Bond' = {a, b}
        BY <3>1, <4>1 DEF A!Bond
      <4>3. A!Habit' = A!Habit
        BY <4>1 DEF A!Habit, A!Hers
      <4>4. Bonded'
        BY <4>1, <4>2 DEF Bonded
      <4> QED
        BY <3>1, <4>3, <4>4 DEF Shown
    <3>2. CASE e = "accepted" /\ rows' = rows
      BY <3>2 DEF Restored, Bonded, Shown, A!Bond, A!Habit, A!Hers
    <3>3. CASE e = "removed" /\ A!Hide(A!Bond, TRUE)
      BY <3>3, Hidden DEF Restored
    <3>4. CASE e = "narrowed" /\ A!Hide(A!Habit, TRUE)
      BY <3>4, Hidden DEF Restored
    <3>5. CASE e = "widened" /\ A!Hide(A!Habit, FALSE)
      BY <3>5, Hidden DEF Restored
    <3> QED
      BY <2>3, <3>1, <3>2, <3>3, <3>4, <3>5
  <2>5. ASSUME ~slipped', vis' = "public"
        PROVE  Awaited(emits)' \/ (Shown' /\ \A k \in DOMAIN emits' : emits'[k] # "narrowed")
    <3>1. ~slipped /\ i = 1 /\ vis = "public"
      BY <1>0, <2>1, <2>5
    <3>2. \A k \in DOMAIN emits' : k \in Nat \ {0} /\ k + 1 \in DOMAIN emits /\ emits'[k] = emits[k + 1]
      <4>1. DOMAIN emits' = 1 .. Len(emits') /\ Len(emits') \in Nat
        BY <2>2
      <4> QED
        BY <2>2, <3>1, <4>1
    <3>3. CASE \E m \in DOMAIN emits : m # 1 /\ emits[m] = "widened" /\ \A k \in DOMAIN emits : k > m => emits[k] # "narrowed"
      <4>1. PICK m \in DOMAIN emits : m # 1 /\ emits[m] = "widened" /\ \A k \in DOMAIN emits : k > m => emits[k] # "narrowed"
        BY <3>3
      <4>2. m - 1 \in DOMAIN emits' /\ m \in Nat /\ (m - 1) + 1 = m
        <5>1. DOMAIN emits' = 1 .. Len(emits')
          BY <2>2
        <5> QED
          BY <1>0, <2>2, <4>1, <5>1
      <4>3. emits'[m - 1] = "widened"
        BY <3>2, <4>1, <4>2
      <4>4. \A k \in DOMAIN emits' : k > m - 1 => emits'[k] # "narrowed"
        BY <3>2, <4>1, <4>2
      <4> QED
        BY <4>2, <4>3, <4>4 DEF Awaited
    <3>4. CASE e = "widened" /\ \A k \in DOMAIN emits : k > 1 => emits[k] # "narrowed"
      BY <2>4, <3>2, <3>4
    <3>5. CASE Shown /\ \A k \in DOMAIN emits : emits[k] # "narrowed"
      BY <2>4, <3>2, <3>5
    <3> QED
      BY <3>1, <3>3, <3>4, <3>5 DEF Restored, Awaited
  <2> QED
    BY <2>4, <2>5 DEF Restored
<1>8. CASE UNCHANGED <<rows, vis, emits, slipped>>
  BY <1>8 DEF Restored, Bonded, Shown, Awaited, A!Bond, A!Habit, A!Hers
<1>9. CASE A!ReadFriends \/ A!FailFriends \/ A!ReadBatch \/ A!ReadSetting \/ A!ReadVerdict \/ A!FailVerdict
  BY <1>8, <1>9 DEF A!ReadFriends, A!FailFriends, A!ReadBatch, A!ReadSetting, A!ReadVerdict, A!FailVerdict, A!server
<1>10. CASE A!Refetch \/ A!LoadMore \/ A!Receive \/ A!FailFetch
  BY <1>8, <1>10 DEF A!Refetch, A!LoadMore, A!Receive, A!FailFetch, A!server
<1>11. CASE UNCHANGED A!vars
  BY <1>8, <1>11 DEF A!vars, A!server
<1> QED
  BY <1>1, <1>3, <1>4, <1>5, <1>6, <1>7, <1>9, <1>10, <1>11 DEF A!Next

\* Once its events were handled in their order, no row of a public account stays hidden, and a
\* bond has both its rows, which are hidden together (activity/service.go, store.go).
THEOREM RowsFollowEvents == ASSUME FeedNumbers PROVE A!Spec => []A!RowsFollow
<1>1. A!Init => Restored
  BY InitRestored
<1>2. FeedInv /\ Restored /\ [A!Next]_(A!vars) => Restored'
  BY NextRestored DEF FeedInv, FeedTypes
<1>3. FeedInv /\ Restored => A!RowsFollow
  <2>1. ASSUME emits = <<>> PROVE ~Awaited(emits)
    BY <2>1 DEF Awaited
  <2> QED
    BY <2>1 DEF Restored, Bonded, Shown, A!RowsFollow
<1> QED
  BY <1>1, <1>2, <1>3, FeedHolds, PTL DEF A!Spec

\* There are numbers of notifications, at first and in the end.
NoteNumbers == {FirstNotes, MostNotes} \subseteq Nat /\ FirstNotes <= MostNotes

-----------------------------------------------------------------------------
(* Inbox: once nothing is under way, the pages and the badge are what the  *)
(* server has.  What a call overwrote was true when it was sent alone, and *)
(* stays so until the server hears of it.                                  *)

Notes(t) == [id : 1 .. t, read : BOOLEAN]
NotePages(t) == [items : SUBSET Notes(t), total : Nat]
NoteCalls(t) == [id : 0 .. t, phase : {"sent", "answered"}, answer : {"ok", "failed"},
                 old : Seq(NotePages(t)), alone : BOOLEAN]
NoteFetches(t) == [kind : {"idle", "all", "more"}, want : Nat, got : Seq(NotePages(t))]

InboxForm ==
  /\ total \in FirstNotes .. MostNotes /\ read \subseteq 1 .. total /\ count \in Nat
  /\ pages \in Seq(NotePages(total)) /\ list \in NoteFetches(total)
  /\ badge \in [phase : {"idle", "sent", "answered"}, count : Nat]
  /\ calls \in Seq(NoteCalls(total)) /\ blind \subseteq {"list", "badge"}
  /\ list.kind = "idle" => list = I!NoList
  /\ badge.phase = "idle" => badge = I!NoBadge
  /\ \A i \in DOMAIN calls : /\ calls[i].alone => Len(calls) = 1
                             /\ calls[i].phase = "sent" => calls[i].answer = "ok"

\* A call of which the server has not heard, sent while nothing else was under way.
InHand(i) == calls[i].alone /\ (calls[i].phase = "sent" \/ calls[i].answer = "failed")
Quiet == \A i \in DOMAIN calls : InHand(i)

TruePages(s) == \A p \in DOMAIN s : s[p].items = I!Page(p).items

ListTrue ==
  "list" \notin blind /\ Quiet =>
    /\ list.kind = "idle" => TruePages(IF calls = <<>> THEN pages ELSE calls[1].old)
    /\ list.kind # "idle" => TruePages(list.got)

BadgeTrue ==
  "badge" \notin blind /\ Quiet =>
    /\ badge.phase = "idle" =>
         IF calls = <<>> THEN count = I!Unread ELSE calls[1].id # I!All => count + 1 = I!Unread
    /\ badge.phase = "answered" => badge.count = I!Unread

InboxInv == InboxForm /\ ListTrue /\ BadgeTrue

LEMMA UnreadIsNat == InboxForm => I!Unread \in Nat
<1> SUFFICES ASSUME InboxForm PROVE I!Unread \in Nat
  OBVIOUS
<1>1. I!Unread = Cardinality((1 .. total) \ read)
  BY DEF I!Unread, I!Cardinality, Cardinality
<1>2. IsFiniteSet(1 .. total)
  <2>1. total \in Int /\ 1 \in Int
    BY DEF InboxForm
  <2> QED
    BY <2>1, FS_Interval
<1>3. IsFiniteSet((1 .. total) \ read)
  BY <1>2, FS_Subset
<1> QED
  BY <1>1, <1>3, FS_CardinalityType

LEMMA PageTyped ==
  ASSUME NoteNumbers, InboxForm, NEW p \in Nat PROVE I!Page(p) \in NotePages(total)
<1>1. total \in Nat
  BY DEF NoteNumbers, InboxForm
<1> DEFINE M == {m \in 1 .. total : m + PageSize * p > total /\ m + PageSize * (p - 1) <= total}
<1>2. {[id |-> n, read |-> n \in read] : n \in M} \subseteq Notes(total)
  <2> SUFFICES ASSUME NEW n \in M PROVE [id |-> n, read |-> n \in read] \in Notes(total)
    OBVIOUS
  <2>1. n \in 1 .. total /\ (n \in read) \in BOOLEAN
    OBVIOUS
  <2> QED
    BY <2>1 DEF Notes
<1> HIDE DEF M
<1> QED
  BY <1>1, <1>2 DEF I!Page, NotePages, M

LEMMA InitInbox == NoteNumbers /\ I!Init => InboxInv
<1> SUFFICES ASSUME NoteNumbers, I!Init PROVE InboxInv
  OBVIOUS
<1>1. /\ total = FirstNotes /\ read \subseteq 1 .. total /\ pages = <<I!Page(1)>> /\ count = I!Unread
      /\ list = I!NoList /\ badge = I!NoBadge /\ calls = <<>> /\ blind = {}
  BY DEF I!Init
<1>2. total \in Nat /\ total \in FirstNotes .. MostNotes
  BY <1>1 DEF NoteNumbers
<1>3. count \in Nat
  <2>1. I!Unread = Cardinality((1 .. total) \ read)
    BY DEF I!Unread, I!Cardinality, Cardinality
  <2>2. IsFiniteSet(1 .. total)
    BY <1>2, FS_Interval
  <2>3. IsFiniteSet((1 .. total) \ read)
    BY <2>2, FS_Subset
  <2> QED
    BY <1>1, <2>1, <2>3, FS_CardinalityType
<1>4. I!Page(1) \in NotePages(total)
  <2> DEFINE M == {m \in 1 .. total : m + PageSize * 1 > total /\ m + PageSize * (1 - 1) <= total}
  <2>1. {[id |-> n, read |-> n \in read] : n \in M} \subseteq Notes(total)
    <3> SUFFICES ASSUME NEW n \in M PROVE [id |-> n, read |-> n \in read] \in Notes(total)
      OBVIOUS
    <3>1. n \in 1 .. total /\ (n \in read) \in BOOLEAN
      OBVIOUS
    <3> QED
      BY <3>1 DEF Notes
  <2> HIDE DEF M
  <2> QED
    BY <1>2, <2>1 DEF I!Page, NotePages, M
<1>5. list \in NoteFetches(total) /\ list.kind = "idle" /\ badge \in [phase : {"idle", "sent", "answered"}, count : Nat]
  BY <1>1 DEF I!NoList, I!NoBadge, NoteFetches
<1>6. pages \in Seq(NotePages(total)) /\ DOMAIN pages = {1} /\ pages[1] = I!Page(1)
  BY <1>1, <1>4
<1>7. calls \in Seq(NoteCalls(total)) /\ DOMAIN calls = {}
  BY <1>1
<1>8. InboxForm
  BY <1>1, <1>2, <1>3, <1>5, <1>6, <1>7 DEF InboxForm
<1>9. TruePages(pages)
  BY <1>6 DEF TruePages
<1>10. badge.phase = "idle"
  BY <1>1 DEF I!NoBadge
<1> QED
  BY <1>1, <1>5, <1>8, <1>9, <1>10 DEF InboxInv, ListTrue, BadgeTrue

\* One call, and all of them.
LEMMA NoteCallTyped ==
  ASSUME InboxForm, NEW i \in DOMAIN calls
  PROVE  /\ calls[i] \in NoteCalls(total) /\ calls[i].id \in 0 .. total /\ calls[i].alone \in BOOLEAN
         /\ calls[i].phase \in {"sent", "answered"} /\ calls[i].answer \in {"ok", "failed"}
         /\ calls[i].old \in Seq(NotePages(total))
<1>1. calls[i] \in NoteCalls(total)
  BY DEF InboxForm
<1> QED
  BY <1>1 DEF NoteCalls

LEMMA CrossedIs ==
  ASSUME InboxForm
  PROVE  /\ I!Crossed \in Seq(NoteCalls(total)) /\ Len(I!Crossed) = Len(calls) /\ DOMAIN I!Crossed = DOMAIN calls
         /\ \A i \in DOMAIN calls :
              /\ I!Crossed[i].alone = FALSE /\ I!Crossed[i].id = calls[i].id /\ I!Crossed[i].phase = calls[i].phase
              /\ I!Crossed[i].answer = calls[i].answer /\ I!Crossed[i].old = calls[i].old
<1>1. \A i \in DOMAIN calls :
        /\ [calls[i] EXCEPT !.alone = FALSE] \in NoteCalls(total)
        /\ I!Crossed[i] = [calls[i] EXCEPT !.alone = FALSE]
        /\ I!Crossed[i].alone = FALSE /\ I!Crossed[i].id = calls[i].id /\ I!Crossed[i].phase = calls[i].phase
        /\ I!Crossed[i].answer = calls[i].answer /\ I!Crossed[i].old = calls[i].old
  <2> SUFFICES ASSUME NEW i \in DOMAIN calls
               PROVE  /\ [calls[i] EXCEPT !.alone = FALSE] \in NoteCalls(total)
                      /\ I!Crossed[i] = [calls[i] EXCEPT !.alone = FALSE]
                      /\ I!Crossed[i].alone = FALSE /\ I!Crossed[i].id = calls[i].id
                      /\ I!Crossed[i].phase = calls[i].phase
                      /\ I!Crossed[i].answer = calls[i].answer /\ I!Crossed[i].old = calls[i].old
    OBVIOUS
  <2>1. calls[i] \in NoteCalls(total)
    BY NoteCallTyped
  <2>2. I!Crossed[i] = [calls[i] EXCEPT !.alone = FALSE]
    BY DEF I!Crossed
  <2> QED
    BY <2>1, <2>2 DEF NoteCalls
<1>2. calls \in Seq(NoteCalls(total)) /\ DOMAIN calls = 1 .. Len(calls) /\ Len(calls) \in Nat
  BY DEF InboxForm
<1>3. I!Crossed \in [1 .. Len(calls) -> NoteCalls(total)]
  BY <1>1, <1>2 DEF I!Crossed
<1> DEFINE c == I!Crossed
           n == Len(calls)
           S == NoteCalls(total)
<1>4. c \in [1 .. n -> S] /\ n \in Nat
  BY <1>2, <1>3
<1> HIDE DEF c, n, S
<1>5. c \in Seq(S) /\ Len(c) = n /\ DOMAIN c = 1 .. n
  BY <1>4
<1>6. I!Crossed \in Seq(NoteCalls(total)) /\ Len(I!Crossed) = Len(calls) /\ DOMAIN I!Crossed = DOMAIN calls
  BY <1>2, <1>5 DEF c, n, S
<1> QED
  BY ONLY <1>1, <1>6

\* What is left of the calls when one ends: the others, none of them alone.
LEMMA NoteCallsLeft ==
  ASSUME InboxForm, NEW i \in DOMAIN calls, calls' = I!RemoveAt(I!Crossed, i)
  PROVE  /\ calls' \in Seq(NoteCalls(total)) /\ Len(calls') = Len(calls) - 1
         /\ \A j \in DOMAIN calls' : /\ calls'[j].alone = FALSE
                                     /\ calls'[j].phase = "sent" => calls'[j].answer = "ok"
<1> DEFINE s == I!Crossed
<1>1. /\ s \in Seq(NoteCalls(total)) /\ i \in DOMAIN s /\ Len(s) = Len(calls)
      /\ \A j \in DOMAIN s : s[j].alone = FALSE /\ (s[j].phase = "sent" => s[j].answer = "ok")
  <2>1. \A j \in DOMAIN calls : calls[j].phase = "sent" => calls[j].answer = "ok"
    BY DEF InboxForm
  <2> QED
    BY <2>1, CrossedIs
<1> HIDE DEF s
<1>2. calls' = L!RemoveAt(s, i)
  BY DEF I!RemoveAt, L!RemoveAt, s
<1>3. /\ L!RemoveAt(s, i) \in Seq(NoteCalls(total))
      /\ Len(L!RemoveAt(s, i)) = Len(s) - 1
      /\ \A j \in DOMAIN L!RemoveAt(s, i) :
           /\ (IF j < i THEN j ELSE j + 1) \in DOMAIN s
           /\ L!RemoveAt(s, i)[j] = s[IF j < i THEN j ELSE j + 1]
  BY <1>1, Removed
<1> QED
  BY <1>1, <1>2, <1>3

\* No call is alone: then the lists need to be true only when there is no call.
LEMMA NotQuiet ==
  ASSUME NEW i \in DOMAIN calls, calls[i].alone = FALSE PROVE ~Quiet
BY DEF Quiet, InHand

\* What the taps and the ends of calls do to the pages.
LEMMA MarkedTyped ==
  ASSUME InboxForm, NEW id PROVE I!MarkedIn(id) \in Seq(NotePages(total))
<1>1. /\ pages \in Seq(NotePages(total)) /\ DOMAIN pages = 1 .. Len(pages) /\ Len(pages) \in Nat
  BY DEF InboxForm
<1>2. ASSUME NEW p \in DOMAIN pages
      PROVE  [pages[p] EXCEPT !.items = {IF id \in {x.id, I!All} THEN [x EXCEPT !.read = TRUE] ELSE x : x \in @}]
                \in NotePages(total)
  <2>1. pages[p] \in NotePages(total)
    BY <1>1, <1>2
  <2> DEFINE E == {IF id \in {x.id, I!All} THEN [x EXCEPT !.read = TRUE] ELSE x : x \in pages[p].items}
  <2>2. \A x \in pages[p].items : x \in Notes(total)
    BY <2>1 DEF NotePages
  <2>3. \A x \in Notes(total) : [x EXCEPT !.read = TRUE] \in Notes(total)
    BY DEF Notes
  <2>4. E \subseteq Notes(total)
    BY <2>2, <2>3
  <2> HIDE DEF E
  <2>5. [pages[p] EXCEPT !.items = E] \in NotePages(total)
    BY <2>1, <2>4 DEF NotePages
  <2> QED
    BY <2>5 DEF E
<1>3. I!MarkedIn(id) \in [1 .. Len(pages) -> NotePages(total)]
  BY <1>1, <1>2 DEF I!MarkedIn
<1> DEFINE c == I!MarkedIn(id)
           n == Len(pages)
           S == NotePages(total)
<1>4. c \in [1 .. n -> S] /\ n \in Nat
  BY <1>1, <1>3
<1> HIDE DEF c, n, S
<1>5. c \in Seq(S)
  BY <1>4
<1> QED
  BY <1>5 DEF c, S

LEMMA CallForm ==
  ASSUME InboxForm, NEW id \in 0 .. total, I!Call(id), UNCHANGED <<total, read, badge>>, count' \in Nat
  PROVE  InboxForm'
<1> DEFINE c == [id |-> id, phase |-> "sent", answer |-> "ok", old |-> pages,
                 alone |-> calls = <<>> /\ list = I!NoList /\ badge = I!NoBadge /\ count > 0]
<1>1. /\ calls' = Append(I!Crossed, c) /\ list' = I!NoList /\ blind' = I!Dropped /\ pages' = I!MarkedIn(id)
  BY DEF I!Call
<1>2. c \in NoteCalls(total)
  <2>1. (calls = <<>> /\ list = I!NoList /\ badge = I!NoBadge /\ count > 0) \in BOOLEAN
    OBVIOUS
  <2>2. pages \in Seq(NotePages(total))
    BY DEF InboxForm
  <2> QED
    BY <2>1, <2>2 DEF NoteCalls
<1>3. c.phase = "sent" /\ c.answer = "ok" /\ (c.alone => calls = <<>>)
  OBVIOUS
<1> HIDE DEF c
<1> DEFINE s == I!Crossed
<1>4. /\ s \in Seq(NoteCalls(total)) /\ Len(s) = Len(calls)
      /\ \A j \in DOMAIN s : s[j].alone = FALSE /\ (s[j].phase = "sent" => s[j].answer = "ok")
  <2>1. \A j \in DOMAIN calls : calls[j].phase = "sent" => calls[j].answer = "ok"
    BY DEF InboxForm
  <2> QED
    BY <2>1, CrossedIs
<1>5. calls' = Append(s, c)
  BY <1>1
<1> HIDE DEF s
<1>6. /\ calls' \in Seq(NoteCalls(total)) /\ Len(calls') = Len(s) + 1
      /\ \A j \in DOMAIN calls' : (j \in DOMAIN s /\ calls'[j] = s[j]) \/ (j = Len(s) + 1 /\ calls'[j] = c)
  BY <1>2, <1>4, <1>5
<1>7. calls = <<>> => Len(calls') = 1
  BY <1>4, <1>6
<1>8. \A j \in DOMAIN calls' : /\ calls'[j].alone => Len(calls') = 1
                               /\ calls'[j].phase = "sent" => calls'[j].answer = "ok"
  BY <1>3, <1>4, <1>6, <1>7
<1>9. pages' \in Seq(NotePages(total))
  BY <1>1, MarkedTyped
<1>10. list' \in NoteFetches(total) /\ blind' \subseteq {"list", "badge"}
  BY <1>1 DEF I!NoList, NoteFetches, I!Dropped, InboxForm
<1> QED
  BY <1>1, <1>6, <1>8, <1>9, <1>10 DEF InboxForm

\* A row that is listed is one of the server's.
LEMMA ListedIsThere == ASSUME InboxForm PROVE I!ListedUnread \subseteq 1 .. total
<1> SUFFICES ASSUME NEW p \in DOMAIN pages, NEW x \in pages[p].items PROVE x.id \in 1 .. total
  BY DEF I!ListedUnread
<1>1. pages[p] \in NotePages(total)
  BY DEF InboxForm
<1> QED
  BY <1>1 DEF NotePages, Notes

\* The lists after a tap: what is put in the call's "old" is true if it can be put back.
LEMMA CallTrue ==
  ASSUME InboxForm, ListTrue, NEW id, I!Call(id), UNCHANGED <<total, read, badge>>
  PROVE  /\ ListTrue'
         /\ Quiet' /\ "badge" \notin blind' =>
              /\ "badge" \notin blind /\ Quiet /\ badge.phase = "idle" /\ calls = <<>> /\ count > 0
              /\ Len(calls') = 1 /\ calls'[1].id = id
<1> DEFINE c == [id |-> id, phase |-> "sent", answer |-> "ok", old |-> pages,
                 alone |-> calls = <<>> /\ list = I!NoList /\ badge = I!NoBadge /\ count > 0]
<1>1. /\ calls' = Append(I!Crossed, c) /\ list' = I!NoList /\ blind' = I!Dropped
  BY DEF I!Call
<1>2. /\ I!Crossed \in Seq(NoteCalls(total)) /\ Len(I!Crossed) = Len(calls)
      /\ \A j \in DOMAIN calls : I!Crossed[j].alone = FALSE
  BY CrossedIs
<1>3. c.id = id /\ c.old = pages
      /\ (c.alone => calls = <<>> /\ list = I!NoList /\ badge = I!NoBadge /\ count > 0)
  OBVIOUS
<1> DEFINE s == I!Crossed
<1>4. s \in Seq(NoteCalls(total)) /\ calls' = Append(s, c) /\ Len(s) = Len(calls)
  BY <1>1, <1>2
<1> HIDE DEF c, s
<1>5. Len(calls') = Len(s) + 1 /\ calls'[Len(s) + 1] = c /\ DOMAIN calls' = 1 .. (Len(s) + 1) /\ Len(s) \in Nat
  BY <1>4
<1>6. Quiet' => c.alone
  <2>1. Len(s) + 1 \in DOMAIN calls'
    BY <1>5
  <2>2. Quiet' => calls'[Len(s) + 1].alone
    BY <2>1 DEF Quiet, InHand
  <2> QED
    BY <1>5, <2>2
<1>7. Quiet' => /\ calls = <<>> /\ Quiet /\ list = I!NoList /\ badge = I!NoBadge /\ count > 0
                /\ Len(calls') = 1 /\ calls'[1] = c
  BY <1>3, <1>4, <1>5, <1>6 DEF Quiet
<1>8. list'.kind = "idle"
  BY <1>1 DEF I!NoList
<1>9. Quiet' => blind' = blind
  BY <1>1, <1>7 DEF I!Dropped, I!NoList
<1>10. ASSUME Quiet', "list" \notin blind' PROVE TruePages(calls[1].old)'
  <2>1. list.kind = "idle" /\ "list" \notin blind /\ Quiet /\ calls = <<>>
    BY <1>7, <1>9, <1>10 DEF I!NoList
  <2>2. TruePages(pages)
    BY <2>1 DEF ListTrue
  <2>3. calls'[1].old = pages
    BY <1>3, <1>7, <1>10
  <2>4. \A p : I!Page(p)' = I!Page(p)
    BY DEF I!Page
  <2> QED
    BY <2>2, <2>3, <2>4 DEF TruePages
<1>11. calls' # <<>>
  BY <1>4, <1>5
<1> QED
  BY <1>3, <1>7, <1>8, <1>9, <1>10, <1>11 DEF ListTrue, I!NoBadge

LEMMA TapInbox ==
  ASSUME NoteNumbers, InboxInv, (\E id \in I!Ids : I!Press(id)) \/ I!MarkAll PROVE InboxInv'
<1>0. InboxForm /\ ListTrue /\ BadgeTrue
  BY DEF InboxInv
<1>1. UNCHANGED <<total, read, badge>>
  BY DEF I!Press, I!MarkAll
<1>2. I!Unread' = I!Unread
  BY <1>1 DEF I!Unread
<1>3. count \in Nat
  BY <1>0 DEF InboxForm
<1>4. CASE I!MarkAll
  <2>1. I!Call(0) /\ count' = 0 /\ 0 \in 0 .. total
    <3>1. total \in Nat
      BY <1>0 DEF NoteNumbers, InboxForm
    <3> QED
      BY <1>4, <3>1 DEF I!MarkAll, I!All
  <2>2. InboxForm'
    BY <1>0, <1>1, <2>1, CallForm
  <2>3. ListTrue' /\ (Quiet' /\ "badge" \notin blind' => /\ badge.phase = "idle" /\ Len(calls') = 1 /\ calls'[1].id = 0)
    BY <1>0, <1>1, <2>1, CallTrue
  <2> QED
    BY <1>1, <2>2, <2>3 DEF InboxInv, BadgeTrue, I!All
<1>5. CASE \E id \in I!Ids : I!Press(id)
  <2>1. PICK id \in I!Ids : I!Press(id)
    BY <1>5
  <2>2. id \in I!ListedUnread /\ I!Call(id) /\ count' = I!Lowered(count)
    BY <2>1 DEF I!Press
  <2>3. id \in 1 .. total
    BY <1>0, <2>2, ListedIsThere
  <2>4. id \in 0 .. total /\ count' \in Nat /\ (count > 0 => count' + 1 = count)
    BY <1>3, <2>2, <2>3 DEF I!Lowered
  <2>5. InboxForm'
    BY <1>0, <1>1, <2>2, <2>4, CallForm
  <2>6. /\ ListTrue'
        /\ Quiet' /\ "badge" \notin blind' =>
              /\ "badge" \notin blind /\ Quiet /\ badge.phase = "idle" /\ calls = <<>> /\ count > 0
              /\ Len(calls') = 1 /\ calls'[1].id = id
    BY <1>0, <1>1, <2>2, CallTrue
  <2>7. Quiet' /\ "badge" \notin blind' => badge.phase = "idle" /\ count' + 1 = I!Unread /\ calls' # <<>>
    <3> SUFFICES ASSUME Quiet', "badge" \notin blind'
                 PROVE  badge.phase = "idle" /\ count' + 1 = I!Unread /\ calls' # <<>>
      OBVIOUS
    <3>1. "badge" \notin blind /\ Quiet /\ badge.phase = "idle" /\ calls = <<>> /\ count > 0 /\ Len(calls') = 1
      BY <2>6
    <3>2. count = I!Unread
      BY <1>0, <3>1 DEF BadgeTrue
    <3>3. calls' # <<>>
      BY <3>1
    <3>4. count' + 1 = count
      BY <2>4, <3>1
    <3> QED
      BY <3>1, <3>2, <3>3, <3>4
  <2>8. BadgeTrue'
    BY <1>1, <1>2, <2>7 DEF BadgeTrue
  <2> QED
    BY <2>5, <2>6, <2>8 DEF InboxInv
<1> QED
  BY <1>4, <1>5

\* Calls that are crossed: what is true without calls stays true.
LEMMA CrossedQuiet ==
  ASSUME InboxForm, calls' = I!Crossed
  PROVE  /\ calls' \in Seq(NoteCalls(total))
         /\ \A i \in DOMAIN calls' : calls'[i].alone = FALSE /\ (calls'[i].phase = "sent" => calls'[i].answer = "ok")
         /\ Quiet' => calls = <<>> /\ calls' = <<>> /\ Quiet
<1>1. /\ calls' \in Seq(NoteCalls(total)) /\ Len(calls') = Len(calls) /\ DOMAIN calls' = DOMAIN calls
      /\ \A i \in DOMAIN calls' : calls'[i].alone = FALSE /\ (calls'[i].phase = "sent" => calls'[i].answer = "ok")
  <2>1. \A j \in DOMAIN calls : calls[j].phase = "sent" => calls[j].answer = "ok"
    BY DEF InboxForm
  <2> QED
    BY <2>1, CrossedIs
<1>2. Quiet' => DOMAIN calls' = {}
  BY <1>1 DEF Quiet, InHand
<1>3. calls \in Seq(NoteCalls(total)) /\ calls' \in Seq(NoteCalls(total))
  BY <1>1 DEF InboxForm
<1>4. DOMAIN calls' = {} => calls = <<>> /\ calls' = <<>>
  BY <1>1, <1>3
<1>5. calls = <<>> => Quiet
  BY DEF Quiet
<1> QED
  BY ONLY <1>1, <1>2, <1>4, <1>5

LEMMA LoadInbox == ASSUME InboxInv, I!LoadMore PROVE InboxInv'
<1>0. InboxForm /\ ListTrue /\ BadgeTrue
  BY DEF InboxInv
<1>1. /\ UNCHANGED <<total, read, pages, count, badge>> /\ calls' = I!Crossed /\ list.kind # "more"
      /\ list' = [kind |-> "more", want |-> Len(pages) + 1, got |-> pages]
      /\ blind' = IF list.kind = "all" THEN blind \cup {"list"} ELSE blind
  BY DEF I!LoadMore
<1>2. /\ calls' \in Seq(NoteCalls(total))
      /\ \A i \in DOMAIN calls' : calls'[i].alone = FALSE /\ (calls'[i].phase = "sent" => calls'[i].answer = "ok")
      /\ Quiet' => calls = <<>> /\ calls' = <<>> /\ Quiet
  BY <1>0, <1>1, CrossedQuiet
<1>3. pages \in Seq(NotePages(total)) /\ Len(pages) + 1 \in Nat
  BY <1>0 DEF InboxForm
<1>4. list' \in NoteFetches(total) /\ list'.kind = "more" /\ list'.got = pages
  BY <1>1, <1>3 DEF NoteFetches
<1>5. list.kind \in {"idle", "all", "more"}
  BY <1>0 DEF InboxForm, NoteFetches
<1>6. InboxForm'
  BY <1>0, <1>1, <1>2, <1>4 DEF InboxForm
<1>7. \A p : I!Page(p)' = I!Page(p)
  BY <1>1 DEF I!Page
<1>8. ListTrue'
  <2> SUFFICES ASSUME "list" \notin blind', Quiet' PROVE TruePages(list.got)'
    BY <1>4 DEF ListTrue
  <2>1. list.kind = "idle" /\ "list" \notin blind /\ Quiet /\ calls = <<>>
    BY <1>1, <1>2, <1>5
  <2>2. TruePages(pages)
    BY <1>0, <2>1 DEF ListTrue
  <2> QED
    BY <1>4, <1>7, <2>2 DEF TruePages
<1>9. I!Unread' = I!Unread
  BY <1>1 DEF I!Unread
<1>10. BadgeTrue'
  <2>1. "badge" \notin blind' => "badge" \notin blind
    BY <1>1
  <2> QED
    BY <1>0, <1>1, <1>2, <1>9, <2>1 DEF BadgeTrue
<1> QED
  BY <1>6, <1>8, <1>10 DEF InboxInv

\* The server answers, or the connection breaks.
LEMMA AnswerInbox ==
  ASSUME NoteNumbers, InboxInv, NEW i \in DOMAIN calls, I!Handle(i) \/ I!Lose(i) PROVE InboxInv'
<1>0. InboxForm /\ ListTrue /\ BadgeTrue
  BY DEF InboxInv
<1>1. UNCHANGED <<total, pages, count, list, badge, blind>>
  BY DEF I!Handle, I!Lose
<1>2. /\ calls[i] \in NoteCalls(total) /\ calls[i].id \in 0 .. total /\ calls[i].alone \in BOOLEAN
      /\ calls[i].phase \in {"sent", "answered"} /\ calls[i].answer \in {"ok", "failed"}
  BY <1>0, NoteCallTyped
<1>3. calls \in Seq(NoteCalls(total)) /\ DOMAIN calls = 1 .. Len(calls)
  BY <1>0 DEF InboxForm
<1>4. CASE I!Handle(i)
  <2>1. /\ calls[i].phase = "sent" /\ calls' = [calls EXCEPT ![i].phase = "answered"]
        /\ read' = IF calls[i].id = I!All THEN 1 .. total ELSE read \cup {calls[i].id}
    BY <1>4 DEF I!Handle
  <2> DEFINE e == [calls[i] EXCEPT !.phase = "answered"]
  <2>2. /\ e \in NoteCalls(total) /\ e.phase = "answered" /\ e.alone = calls[i].alone /\ e.answer = calls[i].answer
    BY <1>2 DEF NoteCalls
  <2>3. calls' = [calls EXCEPT ![i] = e]
    BY <2>1
  <2>4. calls[i].answer = "ok"
    BY <1>0, <2>1 DEF InboxForm
  <2> HIDE DEF e
  <2>5. calls' \in Seq(NoteCalls(total)) /\ Len(calls') = Len(calls) /\ DOMAIN calls' = DOMAIN calls
    BY <1>3, <2>2, <2>3
  <2>6. \A j \in DOMAIN calls : calls'[j] = IF j = i THEN e ELSE calls[j]
    BY <1>3, <2>3
  <2>7. read' \subseteq 1 .. total
    <3>1. total \in Nat
      BY <1>0 DEF NoteNumbers, InboxForm
    <3>2. calls[i].id # 0 => calls[i].id \in 1 .. total
      BY <1>2, <3>1
    <3> QED
      BY <1>0, <2>1, <3>2 DEF InboxForm, I!All
  <2>8. InboxForm'
    BY <1>0, <1>1, <2>2, <2>5, <2>6, <2>7 DEF InboxForm
  <2>9. ~Quiet'
    <3>1. calls'[i].phase = "answered" /\ calls'[i].answer = "ok" /\ i \in DOMAIN calls'
      BY <2>2, <2>4, <2>5, <2>6
    <3> QED
      BY <3>1 DEF Quiet, InHand
  <2> QED
    BY <2>8, <2>9 DEF InboxInv, ListTrue, BadgeTrue
<1>5. CASE I!Lose(i)
  <2>1. /\ calls' = [calls EXCEPT ![i].answer = "failed", ![i].phase = "answered",
                            ![i].alone = @ /\ calls[i].phase = "sent"]
        /\ calls[i].answer = "ok" /\ UNCHANGED <<total, read, pages, count, list, badge, blind>>
    BY <1>5 DEF I!Lose
  <2> DEFINE e == [calls[i] EXCEPT !.answer = "failed", !.phase = "answered",
                                   !.alone = @ /\ calls[i].phase = "sent"]
  <2>2. /\ e \in NoteCalls(total) /\ e.phase = "answered" /\ (e.alone => calls[i].alone /\ calls[i].phase = "sent")
        /\ e.old = calls[i].old /\ e.id = calls[i].id
    BY <1>2 DEF NoteCalls
  <2>3. calls' = [calls EXCEPT ![i] = e]
    BY <1>3, <2>1
  <2> HIDE DEF e
  <2>4. calls' \in Seq(NoteCalls(total)) /\ Len(calls') = Len(calls) /\ DOMAIN calls' = DOMAIN calls
    BY <1>3, <2>2, <2>3
  <2>5. \A j \in DOMAIN calls : calls'[j] = IF j = i THEN e ELSE calls[j]
    BY <1>3, <2>3
  <2>6. InboxForm'
    BY <1>0, <2>1, <2>2, <2>4, <2>5 DEF InboxForm
  <2>7. Quiet' => Quiet
    BY <2>2, <2>4, <2>5 DEF Quiet, InHand
  <2>8. calls # <<>> /\ calls' # <<>> /\ 1 \in DOMAIN calls
    BY <1>3, <2>4
  <2>9. calls'[1].old = calls[1].old /\ calls'[1].id = calls[1].id
    BY <2>2, <2>5, <2>8
  <2>10. (\A p : I!Page(p)' = I!Page(p)) /\ I!Unread' = I!Unread
    BY <2>1 DEF I!Page, I!Unread
  <2>11. ListTrue'
    BY <1>0, <2>1, <2>7, <2>8, <2>9, <2>10 DEF ListTrue, TruePages
  <2>12. BadgeTrue'
    BY <1>0, <2>1, <2>7, <2>8, <2>9, <2>10 DEF BadgeTrue
  <2> QED
    BY <2>6, <2>11, <2>12 DEF InboxInv
<1> QED
  BY <1>4, <1>5

LEMMA EndWellInbox ==
  ASSUME InboxInv, NEW i \in DOMAIN calls, I!EndWell(i) PROVE InboxInv'
<1>0. InboxForm /\ ListTrue /\ BadgeTrue
  BY DEF InboxInv
<1>1. /\ calls' = I!RemoveAt(I!Crossed, i) /\ list' = I!Refetch /\ badge' = I!SentBadge /\ blind' = I!Dropped
      /\ UNCHANGED <<total, read, pages, count>>
  BY DEF I!EndWell, I!Invalidated
<1>2. /\ calls' \in Seq(NoteCalls(total))
      /\ \A j \in DOMAIN calls' : /\ calls'[j].alone = FALSE
                                  /\ calls'[j].phase = "sent" => calls'[j].answer = "ok"
  BY <1>0, <1>1, NoteCallsLeft
<1>3. /\ list' \in NoteFetches(total) /\ list'.kind = "all" /\ list'.got = <<>>
  <2>1. Len(pages) \in Nat
    BY <1>0 DEF InboxForm
  <2> QED
    BY <1>1, <2>1 DEF I!Refetch, NoteFetches
<1>4. badge' \in [phase : {"idle", "sent", "answered"}, count : Nat] /\ badge'.phase = "sent"
  BY <1>1 DEF I!SentBadge, I!NoBadge
<1>5. blind' \subseteq {"list", "badge"}
  BY <1>0, <1>1 DEF I!Dropped, InboxForm
<1>6. InboxForm'
  BY <1>0, <1>1, <1>2, <1>3, <1>4, <1>5 DEF InboxForm
<1> QED
  BY <1>3, <1>4, <1>6 DEF InboxInv, ListTrue, BadgeTrue, TruePages

LEMMA EndBadlyInbox ==
  ASSUME InboxInv, NEW i \in DOMAIN calls, I!EndBadly(i) PROVE InboxInv'
<1> DEFINE c == calls[i]
<1>0. InboxForm /\ ListTrue /\ BadgeTrue
  BY DEF InboxInv
<1>1. /\ c.phase = "answered" /\ c.answer = "failed" /\ calls' = I!RemoveAt(I!Crossed, i) /\ pages' = c.old
      /\ count' = (IF c.id = I!All THEN count ELSE count + 1)
      /\ badge' = (IF c.id = I!All THEN I!SentBadge ELSE badge)
      /\ blind' = (IF c.alone THEN blind ELSE blind \cup {"list", "badge"})
      /\ UNCHANGED <<total, read, list>>
  BY DEF I!EndBadly, I!RaisedBy
<1>2. /\ calls' \in Seq(NoteCalls(total)) /\ Len(calls') = Len(calls) - 1
      /\ \A j \in DOMAIN calls' : /\ calls'[j].alone = FALSE
                                  /\ calls'[j].phase = "sent" => calls'[j].answer = "ok"
  BY <1>0, <1>1, NoteCallsLeft
<1>3. c.old \in Seq(NotePages(total)) /\ c.alone \in BOOLEAN /\ count \in Nat
  BY <1>0, NoteCallTyped DEF InboxForm
<1>4. badge' \in [phase : {"idle", "sent", "answered"}, count : Nat] /\ (badge'.phase = "idle" => badge' = I!NoBadge)
  BY <1>0, <1>1 DEF I!SentBadge, I!NoBadge, InboxForm
<1>5. blind' \subseteq {"list", "badge"} /\ count' \in Nat
  BY <1>0, <1>1, <1>3 DEF InboxForm
<1>6. InboxForm'
  BY <1>0, <1>1, <1>2, <1>3, <1>4, <1>5 DEF InboxForm
<1>7. c.alone => i = 1 /\ calls # <<>> /\ calls' = <<>> /\ Quiet
  <2> SUFFICES ASSUME c.alone PROVE i = 1 /\ calls # <<>> /\ calls' = <<>> /\ Quiet
    OBVIOUS
  <2>1. Len(calls) = 1 /\ calls \in Seq(NoteCalls(total))
    BY <1>0 DEF InboxForm
  <2>2. i = 1 /\ calls # <<>> /\ DOMAIN calls = {1}
    BY <2>1
  <2>3. calls' = <<>>
    BY <1>2, <2>1
  <2> QED
    BY <1>1, <2>2, <2>3 DEF Quiet, InHand
<1>8. (\A p : I!Page(p)' = I!Page(p)) /\ I!Unread' = I!Unread
  BY <1>1 DEF I!Page, I!Unread
<1>9. ListTrue'
  <2> SUFFICES ASSUME "list" \notin blind'
               PROVE  /\ list.kind = "idle" => TruePages(IF calls = <<>> THEN pages ELSE calls[1].old)'
                      /\ list.kind # "idle" => TruePages(list.got)'
    BY <1>1 DEF ListTrue
  <2>1. c.alone /\ "list" \notin blind
    BY <1>1
  <2>2. /\ list.kind = "idle" => TruePages(c.old)
        /\ list.kind # "idle" => TruePages(list.got)
    BY <1>0, <1>7, <2>1 DEF ListTrue
  <2> QED
    BY <1>1, <1>7, <1>8, <2>1, <2>2 DEF TruePages
<1>10. BadgeTrue'
  <2> SUFFICES ASSUME "badge" \notin blind'
               PROVE  /\ badge'.phase = "idle" => IF calls' = <<>> THEN count' = I!Unread
                                                   ELSE calls'[1].id # I!All => count' + 1 = I!Unread
                      /\ badge'.phase = "answered" => badge'.count = I!Unread
    BY <1>8 DEF BadgeTrue
  <2>1. c.alone /\ "badge" \notin blind /\ calls' = <<>> /\ Quiet /\ calls # <<>> /\ i = 1
    BY <1>1, <1>7
  <2>2. CASE c.id = I!All
    BY <1>1, <2>1, <2>2 DEF I!SentBadge
  <2>3. CASE c.id # I!All
    <3>1. badge' = badge /\ count' = count + 1
      BY <1>1, <2>3
    <3>2. /\ badge.phase = "idle" => count + 1 = I!Unread
          /\ badge.phase = "answered" => badge.count = I!Unread
      BY <1>0, <2>1, <2>3 DEF BadgeTrue
    <3> QED
      BY <2>1, <3>1, <3>2
  <2> QED
    BY <2>2, <2>3
<1> QED
  BY <1>6, <1>9, <1>10 DEF InboxInv

\* Only the queries' own state changes.
LEMMA ReadPageInbox == ASSUME NoteNumbers, InboxInv, I!ReadPage PROVE InboxInv'
<1>0. InboxForm /\ ListTrue /\ BadgeTrue
  BY DEF InboxInv
<1>1. /\ list.kind # "idle" /\ list' = [list EXCEPT !.got = Append(@, I!Page(Len(@) + 1))]
      /\ blind' = (IF list.got = <<>> THEN blind \ {"list"} ELSE blind)
      /\ UNCHANGED <<total, read, pages, count, badge, calls>>
  BY DEF I!ReadPage
<1>2. list \in NoteFetches(total) /\ list.got \in Seq(NotePages(total)) /\ Len(list.got) + 1 \in Nat
  BY <1>0 DEF InboxForm, NoteFetches
<1>3. I!Page(Len(list.got) + 1) \in NotePages(total)
  BY <1>0, <1>2, PageTyped
<1> DEFINE g == list.got
           q == I!Page(Len(g) + 1)
<1>4. list'.kind = list.kind /\ list'.got = Append(g, q) /\ list' = [list EXCEPT !.got = Append(g, q)]
  BY <1>1, <1>2 DEF NoteFetches
<1>5. g \in Seq(NotePages(total)) /\ q \in NotePages(total)
  BY <1>2, <1>3
<1> HIDE DEF q
<1>6. Append(g, q) \in Seq(NotePages(total))
  BY <1>5
<1>7. list' \in NoteFetches(total)
  BY <1>2, <1>4, <1>6 DEF NoteFetches
<1>8. InboxForm'
  BY <1>0, <1>1, <1>4, <1>7 DEF InboxForm
<1>9. (\A p : I!Page(p)' = I!Page(p)) /\ I!Unread' = I!Unread /\ (Quiet' <=> Quiet)
  BY <1>1 DEF I!Page, I!Unread, Quiet, InHand
<1>10. ASSUME "list" \notin blind', Quiet' PROVE TruePages(list.got)'
  <2>1. \A p \in DOMAIN g : g[p].items = I!Page(p).items
    <3>1. CASE g = <<>>
      BY <3>1
    <3>2. CASE g # <<>>
      BY <1>0, <1>1, <1>9, <1>10, <3>2 DEF ListTrue, TruePages
    <3> QED
      BY <3>1, <3>2
  <2> DEFINE G == Append(g, q)
  <2>2. DOMAIN G = 1 .. (Len(g) + 1) /\ \A p \in DOMAIN G : (p \in DOMAIN g /\ G[p] = g[p]) \/ (p = Len(g) + 1 /\ G[p] = q)
    BY <1>5
  <2> HIDE DEF G
  <2>3. q.items = I!Page(Len(g) + 1).items
    BY DEF q
  <2>4. \A p \in DOMAIN G : G[p].items = I!Page(p).items
    BY <2>1, <2>2, <2>3
  <2>5. list'.got = G
    BY <1>4 DEF G
  <2> QED
    BY <1>9, <2>4, <2>5 DEF TruePages
<1>11. BadgeTrue'
  <2>1. "badge" \notin blind' => "badge" \notin blind
    BY <1>1
  <2> QED
    BY <1>0, <1>1, <1>9, <2>1 DEF BadgeTrue
<1> QED
  BY <1>1, <1>4, <1>8, <1>10, <1>11 DEF InboxInv, ListTrue

LEMMA DeliverInbox == ASSUME InboxInv, I!DeliverPages \/ I!DeliverCount PROVE InboxInv'
<1>0. InboxForm /\ ListTrue /\ BadgeTrue
  BY DEF InboxInv
<1>1. UNCHANGED <<total, read, blind>> /\ calls' = I!Crossed
  BY DEF I!DeliverPages, I!DeliverCount
<1>2. /\ calls' \in Seq(NoteCalls(total))
      /\ \A i \in DOMAIN calls' : calls'[i].alone = FALSE /\ (calls'[i].phase = "sent" => calls'[i].answer = "ok")
      /\ Quiet' => calls = <<>> /\ calls' = <<>> /\ Quiet
  BY <1>0, <1>1, CrossedQuiet
<1>3. (\A p : I!Page(p)' = I!Page(p)) /\ I!Unread' = I!Unread
  BY <1>1 DEF I!Page, I!Unread
<1>4. CASE I!DeliverPages
  <2>1. list.kind # "idle" /\ pages' = list.got /\ list' = I!NoList /\ UNCHANGED <<count, badge>>
    BY <1>4 DEF I!DeliverPages
  <2>2. pages' \in Seq(NotePages(total)) /\ list' \in NoteFetches(total) /\ list'.kind = "idle"
    BY <1>0, <2>1 DEF InboxForm, NoteFetches, I!NoList
  <2>3. InboxForm'
    BY <1>0, <1>1, <1>2, <2>1, <2>2 DEF InboxForm
  <2>4. ListTrue'
    BY <1>0, <1>1, <1>2, <1>3, <2>1, <2>2 DEF ListTrue, TruePages
  <2>5. BadgeTrue'
    BY <1>0, <1>1, <1>2, <1>3, <2>1 DEF BadgeTrue
  <2> QED
    BY <2>3, <2>4, <2>5 DEF InboxInv
<1>5. CASE I!DeliverCount
  <2>1. badge.phase = "answered" /\ count' = badge.count /\ badge' = I!NoBadge /\ UNCHANGED <<pages, list>>
    BY <1>5 DEF I!DeliverCount
  <2>2. count' \in Nat /\ badge'.phase = "idle" /\ badge' \in [phase : {"idle", "sent", "answered"}, count : Nat]
    BY <1>0, <2>1 DEF InboxForm, I!NoBadge
  <2>3. InboxForm'
    BY <1>0, <1>1, <1>2, <2>1, <2>2 DEF InboxForm
  <2>4. ListTrue'
    BY <1>0, <1>1, <1>2, <1>3, <2>1 DEF ListTrue, TruePages
  <2>5. BadgeTrue'
    BY <1>0, <1>1, <1>2, <1>3, <2>1, <2>2 DEF BadgeTrue
  <2> QED
    BY <2>3, <2>4, <2>5 DEF InboxInv
<1> QED
  BY <1>4, <1>5

LEMMA FetchInbox == ASSUME InboxInv, I!Count \/ I!FailFetch \/ I!Poll PROVE InboxInv'
<1>0. InboxForm /\ ListTrue /\ BadgeTrue
  BY DEF InboxInv
<1>1. UNCHANGED <<total, read, pages, count, calls>>
  BY DEF I!Count, I!FailFetch, I!Poll
<1>2. (\A p : I!Page(p)' = I!Page(p)) /\ I!Unread' = I!Unread /\ (Quiet' <=> Quiet)
  BY <1>1 DEF I!Page, I!Unread, Quiet, InHand
<1>3. I!Unread \in Nat
  BY <1>0, UnreadIsNat
<1>4. I!SentBadge.phase = "sent" /\ I!SentBadge \in [phase : {"idle", "sent", "answered"}, count : Nat]
  BY DEF I!SentBadge, I!NoBadge
<1>5. I!NoBadge.phase = "idle" /\ I!NoBadge \in [phase : {"idle", "sent", "answered"}, count : Nat]
  BY DEF I!NoBadge
<1>6. I!NoList.kind = "idle" /\ I!NoList \in NoteFetches(total)
  BY DEF I!NoList, NoteFetches
<1>7. I!Refetch.kind = "all" /\ I!Refetch.got = <<>> /\ I!Refetch \in NoteFetches(total)
  <2>1. Len(pages) \in Nat
    BY <1>0 DEF InboxForm
  <2> QED
    BY <2>1 DEF I!Refetch, NoteFetches
<1>8. CASE I!Count
  <2>1. /\ badge' = [phase |-> "answered", count |-> I!Unread] /\ list' = list
        /\ blind' = blind \ {"badge"}
    BY <1>8 DEF I!Count
  <2>2. InboxForm'
    BY <1>0, <1>1, <1>3, <2>1 DEF InboxForm
  <2>3. ListTrue'
    BY <1>0, <1>1, <1>2, <2>1 DEF ListTrue, TruePages
  <2>4. BadgeTrue'
    BY <1>2, <2>1 DEF BadgeTrue
  <2> QED
    BY <2>2, <2>3, <2>4 DEF InboxInv
<1>9. CASE I!FailFetch
  <2>1. \/ list' = I!NoList /\ badge' = badge /\ blind' = blind \cup {"list"}
        \/ badge' = I!NoBadge /\ list' = list /\ blind' = blind \cup {"badge"}
    BY <1>9 DEF I!FailFetch
  <2>2. InboxForm'
    BY <1>0, <1>1, <1>5, <1>6, <2>1 DEF InboxForm
  <2>3. ListTrue'
    BY <1>0, <1>1, <1>2, <2>1 DEF ListTrue, TruePages
  <2>4. BadgeTrue'
    BY <1>0, <1>1, <1>2, <2>1 DEF BadgeTrue
  <2> QED
    BY <2>2, <2>3, <2>4 DEF InboxInv
<1>10. CASE I!Poll
  <2>1. \/ badge' = I!SentBadge /\ list' = list /\ blind' = blind
        \/ list' = I!Refetch /\ badge' = badge /\ blind' = I!Dropped
    BY <1>10 DEF I!Poll
  <2>2. blind \subseteq blind' /\ blind' \subseteq {"list", "badge"}
    BY <1>0, <2>1 DEF I!Dropped, InboxForm
  <2>3. InboxForm'
    BY <1>0, <1>1, <1>4, <1>7, <2>1, <2>2 DEF InboxForm
  <2>4. ListTrue'
    BY <1>0, <1>1, <1>2, <1>7, <2>1, <2>2 DEF ListTrue, TruePages
  <2>5. BadgeTrue'
    BY <1>0, <1>1, <1>2, <1>4, <2>1, <2>2 DEF BadgeTrue
  <2> QED
    BY <2>3, <2>4, <2>5 DEF InboxInv
<1> QED
  BY <1>8, <1>9, <1>10

\* More notifications: what is of the fewer is of the more.
LEMMA NotesGrow ==
  ASSUME NEW t \in Nat, NEW u \in Nat, t <= u
  PROVE  /\ Seq(NotePages(t)) \subseteq Seq(NotePages(u)) /\ NoteFetches(t) \subseteq NoteFetches(u)
         /\ Seq(NoteCalls(t)) \subseteq Seq(NoteCalls(u))
<1>1. NotePages(t) \subseteq NotePages(u)
  <2>1. Notes(t) \subseteq Notes(u)
    BY DEF Notes
  <2> QED
    BY <2>1 DEF NotePages
<1>2. Seq(NotePages(t)) \subseteq Seq(NotePages(u))
  BY <1>1, SeqMonotonic
<1>3. NoteFetches(t) \subseteq NoteFetches(u)
  BY <1>2 DEF NoteFetches
<1>4. NoteCalls(t) \subseteq NoteCalls(u)
  <2>1. 0 .. t \subseteq 0 .. u
    OBVIOUS
  <2> QED
    BY <1>2, <2>1 DEF NoteCalls
<1>5. Seq(NoteCalls(t)) \subseteq Seq(NoteCalls(u))
  BY <1>4, SeqMonotonic
<1> QED
  BY <1>2, <1>3, <1>5

LEMMA ElsewhereInbox == ASSUME NoteNumbers, InboxInv, I!Elsewhere PROVE InboxInv'
<1>0. InboxForm /\ ListTrue /\ BadgeTrue
  BY DEF InboxInv
<1>1. /\ blind' = {"list", "badge"} /\ UNCHANGED <<pages, count, list, badge>> /\ calls' = I!Crossed
  BY DEF I!Elsewhere
<1>2. total \in Nat /\ total \in FirstNotes .. MostNotes /\ read \subseteq 1 .. total /\ FirstNotes \in Nat /\ MostNotes \in Nat
  BY <1>0 DEF NoteNumbers, InboxForm
<1>3. /\ calls' \in Seq(NoteCalls(total))
      /\ \A i \in DOMAIN calls' : calls'[i].alone = FALSE /\ (calls'[i].phase = "sent" => calls'[i].answer = "ok")
  BY <1>0, <1>1, CrossedQuiet
<1>4. total' \in Nat /\ total <= total' /\ total' \in FirstNotes .. MostNotes /\ read' \subseteq 1 .. total'
  <2>1. \/ total < MostNotes /\ total' = total + 1 /\ read' = read
        \/ \E n \in (1 .. total) \ read : read' = read \cup {n} /\ total' = total
    BY DEF I!Elsewhere
  <2>2. CASE total < MostNotes /\ total' = total + 1 /\ read' = read
    BY <1>2, <2>2
  <2>3. CASE \E n \in (1 .. total) \ read : read' = read \cup {n} /\ total' = total
    BY <1>2, <2>3
  <2> QED
    BY <2>1, <2>2, <2>3
<1>5. /\ Seq(NotePages(total)) \subseteq Seq(NotePages(total')) /\ NoteFetches(total) \subseteq NoteFetches(total')
      /\ Seq(NoteCalls(total)) \subseteq Seq(NoteCalls(total'))
  BY <1>2, <1>4, NotesGrow
<1>6. InboxForm'
  BY <1>0, <1>1, <1>3, <1>4, <1>5 DEF InboxForm
<1> QED
  BY <1>1, <1>6 DEF InboxInv, ListTrue, BadgeTrue

LEMMA NextInbox == ASSUME NoteNumbers PROVE InboxInv /\ [I!Next]_(I!vars) => InboxInv'
<1> SUFFICES ASSUME InboxInv, [I!Next]_(I!vars) PROVE InboxInv'
  OBVIOUS
<1>1. CASE (\E id \in I!Ids : I!Press(id)) \/ I!MarkAll
  BY <1>1, TapInbox
<1>2. CASE I!LoadMore
  BY <1>2, LoadInbox
<1>3. CASE \E i \in DOMAIN calls : I!Handle(i) \/ I!Lose(i) \/ I!EndWell(i) \/ I!EndBadly(i)
  BY <1>3, AnswerInbox, EndWellInbox, EndBadlyInbox
<1>4. CASE I!ReadPage
  BY <1>4, ReadPageInbox
<1>5. CASE I!DeliverPages \/ I!DeliverCount
  BY <1>5, DeliverInbox
<1>6. CASE I!Count \/ I!FailFetch \/ I!Poll
  BY <1>6, FetchInbox
<1>7. CASE I!Elsewhere
  BY <1>7, ElsewhereInbox
<1>8. CASE UNCHANGED I!vars
  <2>1. UNCHANGED <<total, read, pages, count, list, badge, calls, blind>>
    BY <1>8 DEF I!vars
  <2>2. (\A p : I!Page(p)' = I!Page(p)) /\ I!Unread' = I!Unread /\ (Quiet' <=> Quiet)
    BY <2>1 DEF I!Page, I!Unread, Quiet, InHand
  <2>3. InboxForm'
    BY <2>1 DEF InboxInv, InboxForm
  <2>4. ListTrue' /\ BadgeTrue'
    BY <2>1, <2>2 DEF InboxInv, ListTrue, BadgeTrue, TruePages
  <2> QED
    BY <2>3, <2>4 DEF InboxInv
<1> QED
  BY <1>1, <1>2, <1>3, <1>4, <1>5, <1>6, <1>7, <1>8 DEF I!Next

\* Once nothing is under way, the pages and the badge show what the server has, whatever was
\* tapped, answered, lost and polled in between, unless something gave them no reason to read
\* again (NotificationScreen, useNotifications, useUnreadCount).
THEOREM InboxIsTrue == ASSUME NoteNumbers PROVE I!Spec => []I!Truthful
<1>1. InboxInv => I!Truthful
  <2> SUFFICES ASSUME InboxInv, calls = <<>>
               PROVE  /\ list = I!NoList /\ "list" \notin blind => \A p \in DOMAIN pages : pages[p].items = I!Page(p).items
                      /\ badge = I!NoBadge /\ "badge" \notin blind => count = I!Unread
    BY DEF I!Truthful
  <2>1. Quiet
    BY DEF Quiet
  <2>2. ListTrue /\ BadgeTrue
    BY DEF InboxInv
  <2>3. I!NoList.kind = "idle" /\ I!NoBadge.phase = "idle"
    BY DEF I!NoList, I!NoBadge
  <2>4. list = I!NoList /\ "list" \notin blind => TruePages(pages)
    BY <2>1, <2>2, <2>3 DEF ListTrue
  <2>5. badge = I!NoBadge /\ "badge" \notin blind => count = I!Unread
    BY <2>1, <2>2, <2>3 DEF BadgeTrue
  <2> QED
    BY <2>4, <2>5 DEF TruePages
<1> QED
  BY <1>1, InitInbox, NextInbox, PTL DEF I!Spec

\* Every variable of the notification list keeps its type; the badge never falls below zero,
\* and only rows that exist are listed or read.
THEOREM InboxTypes == ASSUME NoteNumbers PROVE I!Spec => []I!TypeOK
<1>1. InboxInv => I!TypeOK
  <2> SUFFICES ASSUME InboxInv PROVE I!TypeOK
    OBVIOUS
  <2>1. InboxForm
    BY DEF InboxInv
  <2>2. ASSUME NEW p \in DOMAIN pages PROVE pages[p].items \subseteq [id : I!Ids, read : BOOLEAN]
    <3>1. pages[p] \in NotePages(total)
      BY <2>1, <2>2 DEF InboxForm
    <3>2. total \in Int /\ total <= MostNotes /\ MostNotes \in Nat
      BY <2>1 DEF InboxForm, NoteNumbers
    <3>3. Notes(total) \subseteq [id : I!Ids, read : BOOLEAN]
      BY <3>2 DEF Notes, I!Ids
    <3> QED
      BY <3>1, <3>3 DEF NotePages
  <2>3. list.kind \in {"idle", "all", "more"}
    BY <2>1 DEF InboxForm, NoteFetches
  <2> QED
    BY <2>1, <2>2, <2>3 DEF I!TypeOK, InboxForm
<1> QED
  BY <1>1, InitInbox, NextInbox, PTL DEF I!Spec

-----------------------------------------------------------------------------
(* PromiseCard: once nothing is under way the section shows the server's   *)
(* promise.  The argument is about the load that was begun last: as long   *)
(* as no change waits for its load, that load has still to read, has read  *)
(* the truth, or has been taken.                                           *)

CardOps   == {"create", "show", "hide", "cancel"}
CardData  == [active : {K!None, "private", "public", "unread"}, past : Nat]
CardFlows == [op : CardOps \cup {"load"}, phase : {"sent", "answered", "loading", "read"},
              answer : {"ok", "refused", "failed"}, read : CardData, stamp : Nat, shown : BOOLEAN]

\* A load is under way, with its number.
IsLoad(f) == f.phase \in {"loading", "read"}

CardShape ==
  /\ promise \in {K!None, "private", "public"} /\ past \in Nat /\ due \in BOOLEAN
  /\ due => promise # K!None
  /\ data \in CardData /\ flows \in Seq(CardFlows)
  /\ begun \in Nat /\ latest \in Nat /\ latest <= begun /\ blind \in BOOLEAN
  /\ \A i \in DOMAIN flows : flows[i].stamp <= begun

\* Each load has a number of its own, which no load taken before has, and did not fail.
LoadsApart ==
  /\ \A i \in DOMAIN flows :
       IsLoad(flows[i]) => flows[i].answer = "ok" /\ flows[i].stamp > 0 /\ flows[i].stamp # latest
  /\ \A i, j \in DOMAIN flows :
       IsLoad(flows[i]) /\ IsLoad(flows[j]) /\ flows[i].stamp = flows[j].stamp => i = j

\* A change that was made and is still to be followed by its load.
Owed == \E i \in DOMAIN flows : flows[i].phase = "answered" /\ flows[i].answer = "ok"

\* What the load begun last will bring, or brought.
LastIsTrue ==
  \/ \E i \in DOMAIN flows : /\ IsLoad(flows[i]) /\ flows[i].stamp = begun
                             /\ flows[i].phase = "read" => flows[i].read = K!Truth
  \/ latest = begun /\ data = K!Truth

CardTrue ==
  ~blind => /\ LoadsApart
            /\ begun = 0 => data = K!NoData
            /\ ~Owed /\ begun > 0 => LastIsTrue

CardInv == CardShape /\ CardTrue

LEMMA FlowTyped ==
  ASSUME CardShape, NEW i \in DOMAIN flows
  PROVE  /\ flows[i] \in CardFlows /\ flows[i].stamp \in Nat /\ flows[i].stamp <= begun
         /\ flows[i].op \in CardOps \cup {"load"} /\ flows[i].read \in CardData
         /\ flows[i].phase \in {"sent", "answered", "loading", "read"}
         /\ flows[i].answer \in {"ok", "refused", "failed"} /\ flows[i].shown \in BOOLEAN
<1>1. flows[i] \in CardFlows /\ flows[i].stamp <= begun
  BY DEF CardShape
<1> QED
  BY <1>1 DEF CardFlows

\* What one flow of a sequence becomes.
LEMMA FlowChanged ==
  ASSUME CardShape, NEW i \in DOMAIN flows, NEW f \in CardFlows, flows' = [flows EXCEPT ![i] = f]
  PROVE  /\ flows' \in Seq(CardFlows) /\ DOMAIN flows' = DOMAIN flows /\ flows'[i] = f
         /\ \A j \in DOMAIN flows : j # i => flows'[j] = flows[j]
BY DEF CardShape

LEMMA TruthTyped ==
  ASSUME CardShape
  PROVE  /\ K!Truth \in CardData /\ K!Truth.active \in {K!None, "private", "public"}
         /\ K!Truth.past \in Nat
<1> DEFINE a == IF due THEN K!None ELSE promise
           p == IF due /\ promise # K!None THEN past + 1 ELSE past
<1>1. a \in {K!None, "private", "public"} /\ p \in Nat
  BY DEF CardShape
<1>2. K!Truth = [active |-> a, past |-> p]
  BY DEF K!Truth
<1> HIDE DEF a, p
<1>3. [active |-> a, past |-> p] \in CardData
  BY <1>1 DEF CardData
<1> QED
  BY <1>1, <1>2, <1>3

LEMMA NoDataTyped == K!NoData \in CardData
BY DEF K!NoData, CardData

LEMMA InitCard == K!Init => CardInv
<1> SUFFICES ASSUME K!Init PROVE CardInv
  OBVIOUS
<1>1. CardShape
  <2>1. /\ promise \in {K!None, "private", "public"} /\ past \in Nat /\ due = FALSE
        /\ data \in CardData /\ blind \in BOOLEAN
    BY NoDataTyped DEF K!Init
  <2>2. /\ flows \in Seq(CardFlows) /\ DOMAIN flows = {}
        /\ begun \in Nat /\ latest \in Nat /\ latest <= begun
    BY DEF K!Init
  <2> QED
    BY <2>1, <2>2 DEF CardShape
<1>2. CardTrue
  BY DEF K!Init, CardTrue, LoadsApart
<1> QED
  BY <1>1, <1>2 DEF CardInv

-----------------------------------------------------------------------------
(* The taps: a flow is added, which waits to be handled.                   *)

LEMMA FlowAdded ==
  ASSUME CardShape, NEW f \in CardFlows, flows' = Append(flows, f)
  PROVE  /\ flows' \in Seq(CardFlows) /\ DOMAIN flows' = 1 .. (Len(flows) + 1)
         /\ DOMAIN flows = 1 .. Len(flows) /\ Len(flows) \in Nat
         /\ flows'[Len(flows) + 1] = f /\ \A j \in DOMAIN flows : flows'[j] = flows[j]
BY DEF CardShape

LEMMA AskCard ==
  ASSUME CardInv, NEW op \in CardOps, K!Ask(op)
  PROVE  CardInv'
<1> DEFINE f == K!Flow(op)
<1>1. f \in CardFlows /\ f.phase = "sent" /\ f.stamp = 0 /\ ~IsLoad(f)
  BY NoDataTyped DEF K!Flow, CardFlows, CardOps, IsLoad
<1>2. /\ flows' = Append(flows, f) /\ promise' = promise /\ past' = past /\ due' = due
      /\ data' = data /\ blind' = blind /\ begun' = begun /\ latest' = latest
  BY DEF K!Ask, K!server, K!hook
<1> HIDE DEF f
<1>3. /\ flows' \in Seq(CardFlows) /\ DOMAIN flows' = 1 .. (Len(flows) + 1)
      /\ DOMAIN flows = 1 .. Len(flows) /\ Len(flows) \in Nat
      /\ flows'[Len(flows) + 1] = f /\ \A j \in DOMAIN flows : flows'[j] = flows[j]
  BY <1>1, <1>2, FlowAdded DEF CardInv
<1>4. CardShape'
  BY <1>1, <1>2, <1>3 DEF CardInv, CardShape
<1>5. \A j \in DOMAIN flows' : j \in DOMAIN flows \/ j = Len(flows) + 1
  BY <1>3
<1>6. LoadsApart => LoadsApart'
  BY <1>1, <1>2, <1>3, <1>5 DEF LoadsApart
<1>7. DOMAIN flows \subseteq DOMAIN flows'
  BY <1>3
<1>8. Owed => Owed'
  BY <1>3, <1>7 DEF Owed
<1>9. LastIsTrue => LastIsTrue'
  BY <1>2, <1>3, <1>7 DEF LastIsTrue, K!Truth
<1> QED
  BY <1>2, <1>4, <1>6, <1>8, <1>9 DEF CardInv, CardTrue

\* A step that leaves the flows and the numbers of the loads alone, and what a read would answer.
LEMMA CardStays ==
  ASSUME CardInv, CardShape', flows' = flows, data' = data, begun' = begun, latest' = latest,
         blind' \/ (K!Truth' = K!Truth /\ blind' = blind)
  PROVE  CardInv'
BY DEF CardInv, CardTrue, LoadsApart, Owed, LastIsTrue

\* A change is carried out or refused.
LEMMA HandleCard == ASSUME CardInv, NEW i \in DOMAIN flows, K!Handle(i) PROVE CardInv'
<1> DEFINE op == flows[i].op
           ok == IF op = "create" THEN promise = K!None ELSE promise # K!None
           f  == [flows[i] EXCEPT !.phase = "answered", !.answer = IF ok THEN "ok" ELSE "refused"]
<1>1. /\ flows[i].phase = "sent" /\ op # "load" /\ flows' = [flows EXCEPT ![i] = f]
      /\ data' = data /\ blind' = blind /\ begun' = begun /\ latest' = latest
      /\ promise' = (IF ~ok THEN promise ELSE CASE op = "cancel" -> K!None [] op = "show" -> "public" [] OTHER -> "private")
      /\ past' = (IF ok /\ op = "cancel" THEN past + 1 ELSE past)
      /\ due' = (due /\ promise' # K!None)
  BY DEF K!Handle, K!hook, K!counts
<1>2. ok \in BOOLEAN
  OBVIOUS
<1>3. flows[i] \in CardFlows /\ op \in CardOps \cup {"load"}
  BY FlowTyped DEF CardInv
<1>4. /\ f \in CardFlows /\ f.phase = "answered" /\ f.stamp = flows[i].stamp /\ ~IsLoad(f)
      /\ f.answer = (IF ok THEN "ok" ELSE "refused")
  BY <1>3 DEF CardFlows, IsLoad
<1>5. /\ promise' \in {K!None, "private", "public"} /\ past' \in Nat
  <2>1. CASE ok
    BY <1>1, <2>1 DEF CardInv, CardShape
  <2>2. CASE ~ok
    BY <1>1, <2>2 DEF CardInv, CardShape
  <2> QED
    BY <2>1, <2>2
<1>6. ~ok => K!Truth' = K!Truth
  <2> SUFFICES ASSUME ~ok PROVE K!Truth' = K!Truth
    OBVIOUS
  <2>1. promise' = promise /\ past' = past /\ due' = due
    BY <1>1 DEF CardInv, CardShape
  <2> QED
    BY <2>1 DEF K!Truth
<1> HIDE DEF f, ok
<1>7. /\ flows' \in Seq(CardFlows) /\ DOMAIN flows' = DOMAIN flows /\ flows'[i] = f
      /\ \A j \in DOMAIN flows : j # i => flows'[j] = flows[j]
  BY <1>1, <1>4, FlowChanged DEF CardInv
<1>8. \A j \in DOMAIN flows' : flows'[j].stamp = flows[j].stamp
  BY <1>4, <1>7
<1>9. due' \in BOOLEAN /\ (due' => promise' # K!None)
  BY <1>1
<1>10. CardShape'
  BY <1>1, <1>5, <1>7, <1>8, <1>9 DEF CardInv, CardShape
<1>11. \A j \in DOMAIN flows : IsLoad(flows[j]) => j # i /\ flows'[j] = flows[j]
  BY <1>1, <1>7 DEF IsLoad
<1>12. \A j \in DOMAIN flows' : IsLoad(flows'[j]) => j # i /\ flows'[j] = flows[j]
  BY <1>4, <1>7
<1>13. LoadsApart => LoadsApart'
  BY <1>1, <1>7, <1>12 DEF LoadsApart
<1>14. CASE ok
  <2>1. Owed'
    BY <1>4, <1>7, <1>14 DEF Owed
  <2> QED
    BY <1>1, <1>10, <1>13, <2>1 DEF CardInv, CardTrue
<1>15. CASE ~ok
  <2>1. Owed => Owed'
    BY <1>1, <1>7 DEF Owed
  <2>2. LastIsTrue => LastIsTrue'
    BY <1>1, <1>6, <1>7, <1>11, <1>15 DEF LastIsTrue
  <2> QED
    BY <1>1, <1>10, <1>13, <2>1, <2>2 DEF CardInv, CardTrue
<1> QED
  BY <1>2, <1>14, <1>15

\* A load reads, and ends a promise that is past its date: what a read answers is the same then.
LEMMA ReadCard == ASSUME CardInv, NEW i \in DOMAIN flows, K!Read(i) PROVE CardInv'
<1> DEFINE f == [flows[i] EXCEPT !.phase = "read", !.read = K!Truth]
<1>1. /\ flows[i].phase = "loading" /\ flows' = [flows EXCEPT ![i] = f]
      /\ promise' = K!Truth.active /\ past' = K!Truth.past /\ due' = FALSE
      /\ data' = data /\ blind' = blind /\ begun' = begun /\ latest' = latest
  BY DEF K!Read, K!hook, K!counts
<1>2. flows[i] \in CardFlows
  BY FlowTyped DEF CardInv
<1>3. /\ K!Truth \in CardData /\ K!Truth.active \in {K!None, "private", "public"}
      /\ K!Truth.past \in Nat
  BY TruthTyped DEF CardInv
<1>4. /\ f \in CardFlows /\ f.phase = "read" /\ f.read = K!Truth /\ f.stamp = flows[i].stamp
      /\ f.answer = flows[i].answer /\ IsLoad(f) /\ IsLoad(flows[i])
  BY <1>1, <1>2, <1>3 DEF CardFlows, IsLoad
<1>5. K!Truth' = K!Truth
  BY <1>1 DEF K!Truth
<1> HIDE DEF f
<1>6. /\ flows' \in Seq(CardFlows) /\ DOMAIN flows' = DOMAIN flows /\ flows'[i] = f
      /\ \A j \in DOMAIN flows : j # i => flows'[j] = flows[j]
  BY <1>1, <1>4, FlowChanged DEF CardInv
<1>7. \A j \in DOMAIN flows' : /\ flows'[j].stamp = flows[j].stamp
                               /\ flows'[j].answer = flows[j].answer
                               /\ IsLoad(flows'[j]) <=> IsLoad(flows[j])
  BY <1>4, <1>6
<1>8. CardShape'
  BY <1>1, <1>3, <1>6, <1>7 DEF CardInv, CardShape
<1>9. LoadsApart => LoadsApart'
  BY <1>1, <1>6, <1>7 DEF LoadsApart
<1>10. Owed => Owed'
  BY <1>1, <1>6 DEF Owed
<1>11. LastIsTrue => LastIsTrue'
  <2>1. ASSUME NEW j \in DOMAIN flows, IsLoad(flows[j]), flows[j].stamp = begun,
               flows[j].phase = "read" => flows[j].read = K!Truth
        PROVE  LastIsTrue'
    <3>1. flows'[j].phase = "read" => flows'[j].read = K!Truth'
      BY <2>1, <1>4, <1>5, <1>6
    <3> QED
      BY <2>1, <3>1, <1>1, <1>6, <1>7 DEF LastIsTrue
  <2> QED
    BY <2>1, <1>1, <1>5 DEF LastIsTrue
<1> QED
  BY <1>1, <1>8, <1>9, <1>10, <1>11 DEF CardInv, CardTrue

\* What fails, or happens elsewhere, makes the section blind.
LEMMA LoseCard == ASSUME CardInv, (\E i \in DOMAIN flows : K!Lose(i)) \/ K!Elsewhere PROVE CardInv'
<1>1. /\ blind' = TRUE /\ data' = data /\ begun' = begun /\ latest' = latest
  BY DEF K!Lose, K!Elsewhere, K!hook
<1>2. ASSUME NEW i \in DOMAIN flows, K!Lose(i) PROVE CardShape'
  <2> DEFINE f == [flows[i] EXCEPT !.answer = "failed",
                     !.phase = IF @ \in {"sent", "answered"} THEN "answered" ELSE "read"]
  <2>1. flows' = [flows EXCEPT ![i] = f] /\ promise' = promise /\ past' = past /\ due' = due
    BY <1>2 DEF K!Lose, K!server
  <2>2. flows[i] \in CardFlows
    BY FlowTyped DEF CardInv
  <2>3. f \in CardFlows /\ f.stamp = flows[i].stamp
    BY <2>2 DEF CardFlows
  <2> HIDE DEF f
  <2>4. /\ flows' \in Seq(CardFlows) /\ DOMAIN flows' = DOMAIN flows /\ flows'[i] = f
        /\ \A j \in DOMAIN flows : j # i => flows'[j] = flows[j]
    BY <2>1, <2>3, FlowChanged DEF CardInv
  <2>5. \A j \in DOMAIN flows' : flows'[j].stamp = flows[j].stamp
    BY <2>3, <2>4
  <2> QED
    BY <1>1, <2>1, <2>4, <2>5 DEF CardInv, CardShape
<1>3. ASSUME K!Elsewhere PROVE CardShape'
  <2>1. flows' = flows
    BY <1>3 DEF K!Elsewhere
  <2>2. /\ promise \in {K!None, "private", "public"} /\ past \in Nat /\ due \in BOOLEAN
        /\ (due => promise # K!None)
    BY DEF CardInv, CardShape
  <2>3. /\ promise' \in {K!None, "private", "public"} /\ past' \in Nat /\ due' \in BOOLEAN
        /\ (due' => promise' # K!None)
    <3>1. CASE promise # K!None /\ due' = TRUE /\ promise' = promise /\ past' = past
      BY <2>2, <3>1
    <3>2. CASE promise' = K!None /\ past' = past + 1 /\ due' = FALSE
      <4>1. past' \in Nat
        BY <2>2, <3>2
      <4> QED
        BY <3>2, <4>1, Zenon
    <3>3. CASE promise = K!None /\ promise' = "private" /\ past' = past /\ due' = due
      BY <2>2, <3>3
    <3> QED
      BY <1>3, <3>1, <3>2, <3>3 DEF K!Elsewhere
  <2> QED
    BY <1>1, <2>1, <2>3 DEF CardInv, CardShape
<1> QED
  BY <1>1, <1>2, <1>3 DEF CardInv, CardTrue

-----------------------------------------------------------------------------
(* Loads begin and flows end.                                              *)

\* The load that begins is the last, and has still to read.
LEMMA LoadBegins ==
  ASSUME CardInv, NEW i \in DOMAIN flows',
         flows' \in Seq(CardFlows), flows'[i].phase = "loading", flows'[i].answer = "ok",
         flows'[i].stamp = begun + 1, begun' = begun + 1,
         \A j \in DOMAIN flows' : j # i => j \in DOMAIN flows /\ flows'[j] = flows[j],
         promise' = promise, past' = past, due' = due, data' = data, blind' = blind,
         latest' = latest
  PROVE  CardInv'
<1>1. begun \in Nat /\ latest \in Nat /\ latest <= begun
  BY DEF CardInv, CardShape
<1>2. \A j \in DOMAIN flows' : j # i => flows'[j].stamp \in Nat /\ flows'[j].stamp <= begun
  BY FlowTyped DEF CardInv
<1>3. CardShape'
  BY <1>1, <1>2 DEF CardInv, CardShape
<1>4. LoadsApart => LoadsApart'
  <2> SUFFICES ASSUME LoadsApart PROVE LoadsApart'
    OBVIOUS
  <2>1. \A j \in DOMAIN flows' :
          IsLoad(flows'[j]) => flows'[j].answer = "ok" /\ flows'[j].stamp > 0 /\ flows'[j].stamp # latest'
    BY <1>1 DEF LoadsApart
  <2>2. ASSUME NEW j \in DOMAIN flows', NEW k \in DOMAIN flows', IsLoad(flows'[j]), IsLoad(flows'[k]),
               flows'[j].stamp = flows'[k].stamp, j # k
        PROVE  FALSE
    <3>1. CASE j = i
      BY <3>1, <2>2, <1>1, <1>2
    <3>2. CASE k = i
      BY <3>2, <2>2, <1>1, <1>2
    <3>3. CASE j # i /\ k # i
      BY <3>3, <2>2 DEF LoadsApart
    <3> QED
      BY <3>1, <3>2, <3>3
  <2> QED
    BY <2>1, <2>2 DEF LoadsApart
<1>5. LastIsTrue'
  BY DEF LastIsTrue, IsLoad
<1>6. begun' # 0
  BY <1>1
<1> QED
  BY <1>3, <1>4, <1>5, <1>6 DEF CardInv, CardTrue

LEMMA ContinueCard == ASSUME CardInv, NEW i \in DOMAIN flows, K!Continue(i) PROVE CardInv'
<1> DEFINE f == [flows[i] EXCEPT !.phase = "loading", !.stamp = begun']
<1>1. /\ flows[i].answer = "ok" /\ flows' = [flows EXCEPT ![i] = f] /\ begun' = begun + 1
      /\ promise' = promise /\ past' = past /\ due' = due /\ data' = data /\ blind' = blind
      /\ latest' = latest
  BY DEF K!Continue, K!StartLoad, K!server
<1>2. flows[i] \in CardFlows /\ begun' \in Nat
  BY <1>1, FlowTyped DEF CardInv, CardShape
<1>3. f \in CardFlows /\ f.phase = "loading" /\ f.answer = "ok" /\ f.stamp = begun + 1
  BY <1>1, <1>2 DEF CardFlows
<1> HIDE DEF f
<1>4. /\ flows' \in Seq(CardFlows) /\ DOMAIN flows' = DOMAIN flows /\ flows'[i] = f
      /\ \A j \in DOMAIN flows : j # i => flows'[j] = flows[j]
  BY <1>1, <1>3, FlowChanged DEF CardInv
<1>5. \A j \in DOMAIN flows' : j # i => j \in DOMAIN flows /\ flows'[j] = flows[j]
  BY <1>4
<1> QED
  BY <1>1, <1>3, <1>4, <1>5, LoadBegins

LEMMA MountCard == ASSUME CardInv, K!Mount PROVE CardInv'
<1> DEFINE f == [K!Flow("load") EXCEPT !.phase = "loading", !.stamp = begun']
           i == Len(flows) + 1
<1>1. /\ flows' = Append(flows, f) /\ begun' = begun + 1
      /\ promise' = promise /\ past' = past /\ due' = due /\ data' = data /\ blind' = blind
      /\ latest' = latest
  BY DEF K!Mount, K!server
<1>2. begun' \in Nat
  BY <1>1 DEF CardInv, CardShape
<1>3. f \in CardFlows /\ f.phase = "loading" /\ f.answer = "ok" /\ f.stamp = begun + 1
  BY <1>1, <1>2, NoDataTyped DEF CardFlows, K!Flow
<1> HIDE DEF f
<1>4. /\ flows' \in Seq(CardFlows) /\ DOMAIN flows' = 1 .. (Len(flows) + 1)
      /\ DOMAIN flows = 1 .. Len(flows) /\ Len(flows) \in Nat
      /\ flows'[i] = f /\ \A j \in DOMAIN flows : flows'[j] = flows[j]
  BY <1>1, <1>3, FlowAdded DEF CardInv
<1>5. i \in DOMAIN flows' /\ \A j \in DOMAIN flows' : j # i => j \in DOMAIN flows /\ flows'[j] = flows[j]
  BY <1>4
<1> HIDE DEF i
<1> QED
  BY <1>1, <1>3, <1>4, <1>5, LoadBegins

\* What is left when a flow ends: each of the others, but for what is shown of it.
LEMMA FlowsLeft ==
  ASSUME CardShape, NEW i \in DOMAIN flows, K!End(i)
  PROVE  /\ flows' \in Seq(CardFlows)
         /\ \A j \in DOMAIN flows' : \E k \in DOMAIN flows :
              /\ k = (IF j < i THEN j ELSE j + 1) /\ k # i
              /\ flows'[j].phase = flows[k].phase /\ flows'[j].answer = flows[k].answer
              /\ flows'[j].read = flows[k].read /\ flows'[j].stamp = flows[k].stamp
         /\ \A k \in DOMAIN flows : k # i => \E j \in DOMAIN flows' : k = (IF j < i THEN j ELSE j + 1)
<1> DEFINE rest == K!RemoveAt(flows, i)
           at(j) == IF j < i THEN j ELSE j + 1
           left(j) == K!Left(data', rest[j])
<1>1. /\ flows \in Seq(CardFlows) /\ Len(flows) \in Nat /\ DOMAIN flows = 1 .. Len(flows)
      /\ i \in 1 .. Len(flows)
  BY DEF CardShape
<1>2. K!RemoveAt(flows, i) = L!RemoveAt(flows, i)
  BY DEF K!RemoveAt, L!RemoveAt
<1>3. /\ rest \in Seq(CardFlows) /\ Len(rest) = Len(flows) - 1
      /\ \A j \in DOMAIN rest : at(j) \in DOMAIN flows /\ rest[j] = flows[at(j)]
  BY <1>1, <1>2, Removed
<1>4. flows' = [j \in DOMAIN rest |-> left(j)]
  BY DEF K!End
<1> HIDE DEF rest
<1>5. DOMAIN rest = 1 .. (Len(flows) - 1)
  BY <1>3
<1>6. ASSUME NEW j \in DOMAIN rest
      PROVE  /\ left(j) \in CardFlows /\ left(j).phase = rest[j].phase /\ left(j).answer = rest[j].answer
             /\ left(j).read = rest[j].read /\ left(j).stamp = rest[j].stamp
  <2> DEFINE b == rest[j].shown /\ (rest[j].op = "create" => data'.active = K!None)
                               /\ (rest[j].op \in {"show", "hide"} => data'.active # K!None)
  <2>1. rest[j] \in CardFlows /\ b \in BOOLEAN
    BY <1>3
  <2>2. left(j) = [rest[j] EXCEPT !.shown = b]
    BY DEF K!Left
  <2> HIDE DEF b, left
  <2> QED
    BY <2>1, <2>2 DEF CardFlows
<1> HIDE DEF left
<1>7. DOMAIN flows' = 1 .. (Len(flows) - 1) /\ flows' \in Seq(CardFlows)
  BY <1>1, <1>4, <1>5, <1>6
<1>8. ASSUME NEW j \in DOMAIN flows'
      PROVE  \E k \in DOMAIN flows :
               /\ k = at(j) /\ k # i
               /\ flows'[j].phase = flows[k].phase /\ flows'[j].answer = flows[k].answer
               /\ flows'[j].read = flows[k].read /\ flows'[j].stamp = flows[k].stamp
  <2>1. j \in DOMAIN rest /\ flows'[j] = left(j)
    BY <1>4, <1>5, <1>7
  <2>2. at(j) \in DOMAIN flows /\ rest[j] = flows[at(j)] /\ at(j) # i
    BY <2>1, <1>1, <1>3, <1>5
  <2> HIDE DEF at
  <2> QED
    BY <2>1, <2>2, <1>6
<1>9. ASSUME NEW k \in DOMAIN flows, k # i
      PROVE  \E j \in DOMAIN flows' : k = at(j)
  <2>1. CASE k < i
    BY <2>1, <1>1, <1>7, <1>9
  <2>2. CASE ~(k < i)
    <3>1. k - 1 \in DOMAIN flows' /\ ~(k - 1 < i) /\ k - 1 + 1 = k
      BY <2>2, <1>1, <1>7, <1>9
    <3> QED
      BY <3>1
  <2> QED
    BY <2>1, <2>2
<1> QED
  BY <1>7, <1>8, <1>9

LEMMA EndCard == ASSUME CardInv, NEW i \in DOMAIN flows, K!End(i) PROVE CardInv'
<1> DEFINE f == flows[i]
           loaded == f.phase = "read" /\ f.answer = "ok"
           at(j) == IF j < i THEN j ELSE j + 1
<1>1. /\ f.phase = "read" \/ (f.phase = "answered" /\ (f.answer # "ok" \/ ~K!Loads(f.op)))
      /\ data' = (IF loaded THEN f.read ELSE data) /\ latest' = (IF loaded THEN f.stamp ELSE latest)
      /\ promise' = promise /\ past' = past /\ due' = due /\ begun' = begun
  BY DEF K!End, K!server
<1>0. blind' = (blind \/ (loaded /\ f.stamp < latest))
  BY Zenon DEF K!End
<1>2. /\ f.stamp \in Nat /\ f.stamp <= begun /\ f.read \in CardData /\ f.op \in CardOps \cup {"load"}
      /\ f.phase \in {"sent", "answered", "loading", "read"}
  BY FlowTyped DEF CardInv
<1>3. K!Loads(f.op)
  BY <1>2 DEF K!Loads, CardOps
<1>4. ~(f.phase = "answered" /\ f.answer = "ok")
  BY <1>1, <1>3
<1>5. /\ flows' \in Seq(CardFlows)
      /\ \A j \in DOMAIN flows' : \E k \in DOMAIN flows :
           /\ k = at(j) /\ k # i
           /\ flows'[j].phase = flows[k].phase /\ flows'[j].answer = flows[k].answer
           /\ flows'[j].read = flows[k].read /\ flows'[j].stamp = flows[k].stamp
      /\ \A k \in DOMAIN flows : k # i => \E j \in DOMAIN flows' : k = at(j)
  BY FlowsLeft DEF CardInv
<1>6. \A j \in DOMAIN flows' :
        /\ at(j) \in DOMAIN flows /\ at(j) # i
        /\ flows'[j].phase = flows[at(j)].phase /\ flows'[j].answer = flows[at(j)].answer
        /\ flows'[j].read = flows[at(j)].read /\ flows'[j].stamp = flows[at(j)].stamp
  BY <1>5
<1>7. i \in Nat /\ DOMAIN flows' \subseteq Nat
  BY <1>5 DEF CardInv, CardShape
<1>8. \A j, k \in DOMAIN flows' : at(j) = at(k) => j = k
  BY <1>7
<1> HIDE DEF at
<1>9. CardShape'
  <2>1. data' \in CardData /\ latest' \in Nat /\ latest' <= begun'
    <3>1. CASE loaded
      BY <1>1, <1>2, <3>1
    <3>2. CASE ~loaded
      BY <1>1, <3>2 DEF CardInv, CardShape
    <3> QED
      BY <3>1, <3>2
  <2>2. \A j \in DOMAIN flows' : flows'[j].stamp <= begun'
    BY <1>1, <1>6, FlowTyped DEF CardInv
  <2>3. blind' \in BOOLEAN
    BY <1>0
  <2> QED
    BY <1>1, <1>5, <2>1, <2>2, <2>3 DEF CardInv, CardShape
<1>10. SUFFICES ASSUME ~blind' PROVE CardTrue'
  BY <1>9 DEF CardInv, CardTrue
<1>11. ~blind /\ (loaded => ~(f.stamp < latest))
  BY <1>0, <1>10
<1>12. LoadsApart /\ (begun = 0 => data = K!NoData) /\ (~Owed /\ begun > 0 => LastIsTrue)
  BY <1>11 DEF CardInv, CardTrue
<1>13. loaded => IsLoad(f) /\ f.stamp > 0 /\ f.stamp # latest
  BY <1>12 DEF LoadsApart, IsLoad
<1>14. LoadsApart'
  <2>1. ASSUME NEW j \in DOMAIN flows', IsLoad(flows'[j])
        PROVE  flows'[j].answer = "ok" /\ flows'[j].stamp > 0 /\ flows'[j].stamp # latest'
    <3>1. IsLoad(flows[at(j)]) /\ at(j) \in DOMAIN flows /\ at(j) # i
      BY <2>1, <1>6 DEF IsLoad
    <3>2. flows[at(j)].answer = "ok" /\ flows[at(j)].stamp > 0 /\ flows[at(j)].stamp # latest
      BY <3>1, <1>12 DEF LoadsApart
    <3>3. loaded => flows[at(j)].stamp # f.stamp
      BY <3>1, <1>12, <1>13 DEF LoadsApart
    <3> QED
      BY <2>1, <3>2, <3>3, <1>1, <1>6
  <2>2. ASSUME NEW j \in DOMAIN flows', NEW k \in DOMAIN flows', IsLoad(flows'[j]), IsLoad(flows'[k]),
               flows'[j].stamp = flows'[k].stamp
        PROVE  j = k
    <3>1. IsLoad(flows[at(j)]) /\ IsLoad(flows[at(k)]) /\ flows[at(j)].stamp = flows[at(k)].stamp
      BY <2>2, <1>6 DEF IsLoad
    <3>2. at(j) \in DOMAIN flows /\ at(k) \in DOMAIN flows
      BY <1>6
    <3>3. at(j) = at(k)
      BY <3>1, <3>2, <1>12 DEF LoadsApart
    <3> QED
      BY <3>3, <1>8
  <2> QED
    BY <2>1, <2>2 DEF LoadsApart
<1>15. begun' = 0 => data' = K!NoData
  BY <1>1, <1>2, <1>12, <1>13
<1>16. ASSUME Owed PROVE Owed'
  <2>1. PICK k \in DOMAIN flows : flows[k].phase = "answered" /\ flows[k].answer = "ok"
    BY <1>16 DEF Owed
  <2>2. k # i
    BY <2>1, <1>4
  <2>3. PICK j \in DOMAIN flows' : k = at(j)
    BY <2>2, <1>5
  <2> QED
    BY <2>1, <2>3, <1>6 DEF Owed
<1>17. K!Truth' = K!Truth
  BY <1>1 DEF K!Truth
<1>18. ASSUME LastIsTrue PROVE LastIsTrue'
  <2>1. ASSUME NEW k \in DOMAIN flows, IsLoad(flows[k]), flows[k].stamp = begun,
               flows[k].phase = "read" => flows[k].read = K!Truth
        PROVE  LastIsTrue'
    <3>1. CASE k = i
      <4>1. f.phase = "read"
        BY <3>1, <2>1, <1>1 DEF IsLoad
      <4>2. loaded
        BY <4>1, <2>1, <3>1, <1>12 DEF LoadsApart
      <4> QED
        BY <4>1, <4>2, <3>1, <2>1, <1>1, <1>17 DEF LastIsTrue
    <3>2. CASE k # i
      <4>1. PICK j \in DOMAIN flows' : k = at(j)
        BY <3>2, <1>5
      <4>2. IsLoad(flows'[j]) /\ flows'[j].stamp = begun'
            /\ (flows'[j].phase = "read" => flows'[j].read = K!Truth')
        BY <4>1, <2>1, <1>1, <1>6, <1>17 DEF IsLoad
      <4> QED
        BY <4>2 DEF LastIsTrue
    <3> QED
      BY <3>1, <3>2
  <2>2. CASE latest = begun /\ data = K!Truth
    <3>1. ~loaded
      <4> SUFFICES ASSUME loaded PROVE FALSE
        OBVIOUS
      <4>1. f.stamp # latest /\ ~(f.stamp < latest)
        BY <1>11, <1>13
      <4> QED
        BY <4>1, <2>2, <1>2 DEF CardInv, CardShape
    <3> QED
      BY <3>1, <2>2, <1>1, <1>17 DEF LastIsTrue
  <2> QED
    BY <1>18, <2>1, <2>2 DEF LastIsTrue
<1> QED
  BY <1>1, <1>12, <1>14, <1>15, <1>16, <1>18 DEF CardTrue

LEMMA NextCard == CardInv /\ [K!Next]_(K!vars) => CardInv'
<1> SUFFICES ASSUME CardInv, [K!Next]_(K!vars) PROVE CardInv'
  OBVIOUS
<1>1. CASE UNCHANGED K!vars
  <2>1. /\ promise' = promise /\ past' = past /\ due' = due /\ data' = data /\ flows' = flows
        /\ begun' = begun /\ latest' = latest /\ blind' = blind
    BY <1>1 DEF K!vars, K!server, K!hook, K!counts
  <2>2. CardShape' /\ K!Truth' = K!Truth
    BY <2>1 DEF CardInv, CardShape, K!Truth
  <2> QED
    BY <2>1, <2>2, CardStays
<1>2. CASE K!ShowForm
  <2>1. /\ promise' = promise /\ past' = past /\ due' = due /\ data' = data /\ flows' = flows
        /\ begun' = begun /\ latest' = latest /\ blind' = blind
    BY <1>2 DEF K!ShowForm, K!server, K!hook, K!counts
  <2>2. CardShape' /\ K!Truth' = K!Truth
    BY <2>1 DEF CardInv, CardShape, K!Truth
  <2> QED
    BY <2>1, <2>2, CardStays
<1>3. CASE K!Create \/ K!Toggle \/ K!Cancel
  <2>1. \E op \in CardOps : K!Ask(op)
    BY <1>3 DEF K!Create, K!Toggle, K!Cancel, CardOps
  <2> QED
    BY <2>1, AskCard
<1>4. CASE K!Mount
  BY <1>4, MountCard
<1>5. CASE K!Elsewhere \/ \E i \in DOMAIN flows : K!Lose(i)
  BY <1>5, LoseCard
<1>6. CASE \E i \in DOMAIN flows : K!Handle(i) \/ K!Read(i) \/ K!Continue(i) \/ K!End(i)
  BY <1>6, HandleCard, ReadCard, ContinueCard, EndCard
<1> QED
  BY <1>1, <1>2, <1>3, <1>4, <1>5, <1>6 DEF K!Next

LEMMA CardHolds == K!Spec => []CardInv
BY InitCard, NextCard, PTL DEF K!Spec

\* The section shows the promise and the history the server has, once nothing is under way
\* (usePromises.ts), however the form, the switch and the cancel link were used at once.
THEOREM CardShowsPromise == K!Spec => []K!Truthful
<1>1. CardInv => K!Truthful
  <2> SUFFICES ASSUME CardInv, flows = <<>>, data # K!NoData, ~blind PROVE data = K!Truth
    BY DEF K!Truthful, K!Ready
  <2>1. begun # 0 /\ (~Owed /\ begun > 0 => LastIsTrue) /\ begun \in Nat
    BY DEF CardInv, CardTrue, CardShape
  <2>2. DOMAIN flows = {}
    OBVIOUS
  <2>3. ~Owed
    BY <2>2 DEF Owed
  <2>4. LastIsTrue
    BY <2>1, <2>3
  <2> QED
    BY <2>2, <2>4 DEF LastIsTrue
<1> QED
  BY <1>1, CardHolds, PTL

\* The types of the promise, the data and the flows.
THEOREM CardTypes == K!Spec => []K!TypeOK
<1>1. CardInv => K!TypeOK
  <2> SUFFICES ASSUME CardInv PROVE K!TypeOK
    OBVIOUS
  <2>1. /\ promise \in {K!None, "private", "public"} /\ (due => promise # K!None)
        /\ data.active \in {K!None, "private", "public", "unread"} /\ past \in Nat
        /\ latest <= begun
    BY DEF CardInv, CardShape, CardData
  <2>2. \A i \in DOMAIN flows : flows[i].phase \in {"sent", "answered", "loading", "read"}
    BY FlowTyped DEF CardInv
  <2> QED
    BY <2>1, <2>2 DEF K!TypeOK
<1> QED
  BY <1>1, CardHolds, PTL

-----------------------------------------------------------------------------
(* Consistency: the types, the sums of weights, and the score.             *)

\* There is a last day of the model.
LastScore == LastScoreDay \in Nat

\* The habit, its completions and the viewer's date stay typed (consistency.go, service.go).
THEOREM ScoreTypes == ASSUME LastScore PROVE Score!Spec => []Score!TypeOK
<1>1. Score!Init => Score!TypeOK
  BY DEF Score!Init, Score!TypeOK
<1>2. Score!TypeOK /\ [Score!Next]_(Score!vars) => Score!TypeOK'
  <2> SUFFICES ASSUME Score!TypeOK, [Score!Next]_(Score!vars) PROVE Score!TypeOK'
    OBVIOUS
  <2> USE DEF Score!TypeOK
  <2>1. ASSUME NEW d \in Score!Days, NEW kind \in Score!Kinds, Score!CompleteHabit(d, kind) PROVE Score!TypeOK'
    BY <2>1 DEF Score!CompleteHabit
  <2>2. ASSUME NEW d \in Score!Days, NEW kind \in Score!Kinds \cup {"none"}, Score!ChangeCompletion(d, kind)
        PROVE  Score!TypeOK'
    BY <2>2 DEF Score!ChangeCompletion
  <2>3. CASE Score!UpdateHabit
    BY <2>3 DEF Score!UpdateHabit
  <2>4. CASE Score!NextDay
    BY <2>4 DEF Score!NextDay, Score!Days, LastScore
  <2>5. CASE Score!LookFromBehind
    BY <2>5 DEF Score!LookFromBehind, Score!Days, LastScore
  <2>6. CASE UNCHANGED Score!vars
    BY <2>6 DEF Score!vars
  <2> QED
    BY <2>1, <2>2, <2>3, <2>4, <2>5, <2>6 DEF Score!Next
<1> QED
  BY <1>1, <1>2, PTL DEF Score!Spec

\* Division, for the scores: rounded down, with a remainder.
LEMMA DivMod ==
  ASSUME NEW n \in Int, NEW k \in Nat \ {0}
  PROVE  n = k * (n \div k) + (n % k) /\ n % k \in 0 .. k - 1 /\ n \div k \in Int
<1>1. n \div k \in Int /\ n % k \in 0 .. k - 1
  OBVIOUS
<1>2. n = k * (n \div k) + (n % k)
  OBVIOUS
<1> QED
  BY <1>1, <1>2

LEMMA DivIs ==
  ASSUME NEW k \in Nat \ {0}, NEW q \in Int, NEW r \in 0 .. k - 1, NEW n \in Int, n = k * q + r
  PROVE  n \div k = q /\ n % k = r
<1>1. n = k * (n \div k) + (n % k) /\ n % k \in 0 .. k - 1 /\ n \div k \in Int
  BY DivMod
<1>2. CASE n \div k >= q + 1
  <2>1. k * (n \div k) >= k * (q + 1)
    BY <1>1, <1>2
  <2>2. k * (q + 1) = k * q + k
    OBVIOUS
  <2> QED
    BY <1>1, <2>1, <2>2
<1>3. CASE n \div k <= q - 1
  <2>1. k * (n \div k) <= k * (q - 1)
    BY <1>1, <1>3
  <2>2. k * (q - 1) = k * q - k
    OBVIOUS
  <2> QED
    BY <1>1, <2>1, <2>2
<1>4. CASE n \div k = q
  BY <1>1, <1>4
<1> QED
  BY <1>1, <1>2, <1>3, <1>4

\* The weights of v on s, in halves: what is there counts, and once more if it is in full.
AtLeast(v, s, h) == {x \in s : v[x] >= h}
Halves(v, s) == Cardinality(AtLeast(v, s, 1)) + Cardinality(AtLeast(v, s, 2))

LEMMA HalvesOf ==
  ASSUME NEW S, IsFiniteSet(S), NEW v \in [S -> 0 .. 2], NEW s \in SUBSET S
  PROVE  /\ Halves(v, s) \in Nat /\ Halves(v, {}) = 0
         /\ \A h \in {1, 2} : IsFiniteSet(AtLeast(v, s, h)) /\ Cardinality(AtLeast(v, s, h)) \in Nat
         /\ \A x \in s : Halves(v, s) = v[x] + Halves(v, s \ {x})
<1>1. \A t \in SUBSET S : \A h \in {1, 2} : IsFiniteSet(AtLeast(v, t, h)) /\ Cardinality(AtLeast(v, t, h)) \in Nat
  <2> SUFFICES ASSUME NEW t \in SUBSET S, NEW h \in {1, 2}
               PROVE  IsFiniteSet(AtLeast(v, t, h)) /\ Cardinality(AtLeast(v, t, h)) \in Nat
    OBVIOUS
  <2>1. AtLeast(v, t, h) \in SUBSET S
    BY DEF AtLeast
  <2> QED
    BY <2>1, FS_Subset, FS_CardinalityType
<1>2. Halves(v, {}) = 0
  <2>1. AtLeast(v, {}, 1) = {} /\ AtLeast(v, {}, 2) = {}
    BY DEF AtLeast
  <2> QED
    BY <2>1, FS_EmptySet DEF Halves
<1>3. ASSUME NEW x \in s PROVE Halves(v, s) = v[x] + Halves(v, s \ {x})
  <2>1. \A h \in {1, 2} : AtLeast(v, s \ {x}, h) = AtLeast(v, s, h) \ {x} /\ (x \in AtLeast(v, s, h) <=> v[x] >= h)
    BY DEF AtLeast
  <2>2. \A h \in {1, 2} : Cardinality(AtLeast(v, s \ {x}, h)) = IF v[x] >= h THEN Cardinality(AtLeast(v, s, h)) - 1
                                                       ELSE Cardinality(AtLeast(v, s, h))
    <3> SUFFICES ASSUME NEW h \in {1, 2}
                 PROVE  Cardinality(AtLeast(v, s \ {x}, h)) = IF v[x] >= h THEN Cardinality(AtLeast(v, s, h)) - 1
                                                               ELSE Cardinality(AtLeast(v, s, h))
      OBVIOUS
    <3> DEFINE M == AtLeast(v, s, h)
    <3>1. IsFiniteSet(M) /\ AtLeast(v, s \ {x}, h) = M \ {x} /\ (x \in M <=> v[x] >= h)
      BY <1>1, <2>1
    <3> HIDE DEF M
    <3>2. Cardinality(M \ {x}) = IF x \in M THEN Cardinality(M) - 1 ELSE Cardinality(M)
      BY <3>1, FS_RemoveElement
    <3> QED
      BY <3>1, <3>2 DEF M
  <2>3. \A h \in {1, 2} : Cardinality(AtLeast(v, s, h)) \in Nat /\ Cardinality(AtLeast(v, s \ {x}, h)) \in Nat
    BY <1>1
  <2>4. v[x] \in 0 .. 2
    OBVIOUS
  <2> DEFINE a == Cardinality(AtLeast(v, s, 1))
             b == Cardinality(AtLeast(v, s, 2))
             c == Cardinality(AtLeast(v, s \ {x}, 1))
             d == Cardinality(AtLeast(v, s \ {x}, 2))
             w == v[x]
  <2>5. /\ a \in Nat /\ b \in Nat /\ c \in Nat /\ d \in Nat /\ w \in 0 .. 2
        /\ c = (IF w >= 1 THEN a - 1 ELSE a) /\ d = (IF w >= 2 THEN b - 1 ELSE b)
    BY <2>2, <2>3, <2>4
  <2>6. Halves(v, s) = a + b /\ Halves(v, s \ {x}) = c + d
    BY DEF Halves
  <2> HIDE DEF a, b, c, d, w
  <2>7. a + b = w + (c + d)
    BY <2>5
  <2> QED
    BY <2>6, <2>7 DEF w
<1>4. Halves(v, s) \in Nat
  BY <1>1 DEF Halves
<1> QED
  BY <1>1, <1>2, <1>3, <1>4

\* A sum of weights is that, in whatever order they are added.
LEMMA SumIs ==
  ASSUME NEW S, IsFiniteSet(S), NEW v \in [S -> 0 .. 2]
  PROVE  Score!SumFunction(v) = Halves(v, S)
<1> DEFINE pick(s) == CHOOSE x \in s : TRUE
           Eq(f) == f = [s \in SUBSET S |-> IF s = {} THEN 0 ELSE v[pick(s)] + f[s \ {pick(s)}]]
           iter == CHOOSE f : Eq(f)
           half == [s \in SUBSET S |-> Halves(v, s)]
<1>1. Score!SumFunction(v) = iter[S]
  BY DEF Score!SumFunction, Score!SumFunctionOnSet, Score!FoldFunctionOnSet, Score!MapThenFoldSet
<1>2. \A s \in SUBSET S : s # {} => pick(s) \in s
  OBVIOUS
<1>3. \A s \in SUBSET S : Halves(v, s) = IF s = {} THEN 0 ELSE v[pick(s)] + Halves(v, s \ {pick(s)})
  <2> HIDE DEF pick
  <2> SUFFICES ASSUME NEW s \in SUBSET S
               PROVE  Halves(v, s) = IF s = {} THEN 0 ELSE v[pick(s)] + Halves(v, s \ {pick(s)})
    OBVIOUS
  <2>1. Halves(v, {}) = 0 /\ \A x \in s : Halves(v, s) = v[x] + Halves(v, s \ {x})
    BY HalvesOf
  <2> QED
    BY <1>2, <2>1
<1>4. Eq(half)
  <2> HIDE DEF pick
  <2>1. \A s \in SUBSET S : half[s] = IF s = {} THEN 0 ELSE v[pick(s)] + half[s \ {pick(s)}]
    <3> SUFFICES ASSUME NEW s \in SUBSET S
                 PROVE  half[s] = IF s = {} THEN 0 ELSE v[pick(s)] + half[s \ {pick(s)}]
      OBVIOUS
    <3>1. s \ {pick(s)} \in SUBSET S
      OBVIOUS
    <3> QED
      BY <1>3, <3>1
  <2> QED
    BY <2>1
<1>5. Eq(iter)
  <2> HIDE DEF Eq, half
  <2> QED
    BY <1>4
<1>6. \A s \in SUBSET S : iter[s] = IF s = {} THEN 0 ELSE v[pick(s)] + iter[s \ {pick(s)}]
  <2> HIDE DEF pick, iter
  <2> QED
    BY <1>5
<1> HIDE DEF iter, pick, half
<1>7. \A s \in SUBSET S : iter[s] = Halves(v, s)
  <2> DEFINE Bad == {s \in SUBSET S : iter[s] # Halves(v, s)}
             Sizes == {Cardinality(s) : s \in Bad}
  <2>1. SUFFICES ASSUME Bad # {} PROVE FALSE
    OBVIOUS
  <2>2. \A s \in SUBSET S : IsFiniteSet(s) /\ Cardinality(s) \in Nat
    BY FS_Subset, FS_CardinalityType
  <2>3. Sizes \subseteq Nat /\ Sizes # {}
    BY <2>1, <2>2
  <2>4. PICK n \in Sizes : \A m \in Sizes : ~(<<m, n>> \in Before)
    <3> HIDE DEF Sizes
    <3> QED
      BY <2>3, BeforeIsWellFounded, WFMin
  <2>5. PICK s \in Bad : n = Cardinality(s)
    OBVIOUS
  <2>6. s \in SUBSET S /\ iter[s] # Halves(v, s)
    OBVIOUS
  <2>7. s # {}
    BY <1>3, <1>6, <2>6
  <2>8. pick(s) \in s /\ s \ {pick(s)} \in SUBSET S
    BY <1>2, <2>6, <2>7
  <2>9. Cardinality(s \ {pick(s)}) = Cardinality(s) - 1 /\ Cardinality(s) \in Nat /\ Cardinality(s \ {pick(s)}) \in Nat
    BY <2>2, <2>6, <2>8, FS_RemoveElement
  <2>10. s \ {pick(s)} \in Bad
    BY <1>3, <1>6, <2>6, <2>7, <2>8
  <2>11. Cardinality(s \ {pick(s)}) \in Sizes
    BY <2>10
  <2> HIDE DEF Sizes, Bad
  <2>12. <<Cardinality(s \ {pick(s)}), n>> \in Before
    BY <2>5, <2>9 DEF Before
  <2> QED
    BY <2>4, <2>11, <2>12
<1> QED
  BY <1>1, <1>7

\* At most two halves for each, all of them if each is in full, none if none is there.
LEMMA HalvesBounds ==
  ASSUME NEW S, IsFiniteSet(S), NEW v \in [S -> 0 .. 2]
  PROVE  /\ Cardinality(S) \in Nat /\ Halves(v, S) \in 0 .. 2 * Cardinality(S)
         /\ ((Halves(v, S) = 2 * Cardinality(S)) <=> (\A x \in S : v[x] = 2))
         /\ ((Halves(v, S) = 0) <=> (\A x \in S : v[x] = 0))
<1> DEFINE n == Cardinality(S)
           a == Cardinality(AtLeast(v, S, 1))
           b == Cardinality(AtLeast(v, S, 2))
<1>1. \A h \in {1, 2} : AtLeast(v, S, h) \in SUBSET S
  BY DEF AtLeast
<1>2. \A h \in {1, 2} : /\ IsFiniteSet(AtLeast(v, S, h)) /\ Cardinality(AtLeast(v, S, h)) \in Nat
                        /\ Cardinality(AtLeast(v, S, h)) <= Cardinality(S)
                        /\ Cardinality(S) = Cardinality(AtLeast(v, S, h)) => S = AtLeast(v, S, h)
  BY <1>1, FS_Subset, FS_CardinalityType
<1>3. n \in Nat /\ a \in Nat /\ b \in Nat /\ a <= n /\ b <= n /\ Halves(v, S) = a + b
  BY <1>2, FS_CardinalityType DEF Halves
<1>4. (b = n) <=> (\A x \in S : v[x] = 2)
  <2>1. ASSUME b = n PROVE \A x \in S : v[x] = 2
    <3>1. S = AtLeast(v, S, 2)
      BY <1>2, <2>1
    <3>2. \A x \in S : v[x] >= 2 /\ v[x] \in 0 .. 2
      BY <3>1 DEF AtLeast
    <3> QED
      BY <3>2
  <2>2. ASSUME \A x \in S : v[x] = 2 PROVE b = n
    <3>1. AtLeast(v, S, 2) = S
      BY <2>2 DEF AtLeast
    <3> QED
      BY <3>1
  <2> QED
    BY <2>1, <2>2
<1>5. b = n => a = n
  <2>1. b = n => AtLeast(v, S, 1) = S
    BY <1>4 DEF AtLeast
  <2> QED
    BY <2>1
<1>6. (a = 0) <=> (\A x \in S : v[x] = 0)
  <2>1. (a = 0) <=> (AtLeast(v, S, 1) = {})
    BY <1>2, FS_EmptySet
  <2>2. (AtLeast(v, S, 1) = {}) <=> (\A x \in S : ~(v[x] >= 1))
    BY DEF AtLeast
  <2>3. \A x \in S : v[x] \in 0 .. 2
    OBVIOUS
  <2>4. (\A x \in S : ~(v[x] >= 1)) <=> (\A x \in S : v[x] = 0)
    BY <2>3
  <2> QED
    BY <2>1, <2>2, <2>4
<1>7. a = 0 => b = 0
  <2>1. a = 0 => AtLeast(v, S, 2) = {}
    BY <1>6 DEF AtLeast
  <2> QED
    BY <2>1, FS_EmptySet
<1> HIDE DEF a, b, n
<1>8. Halves(v, S) \in 0 .. 2 * n /\ ((Halves(v, S) = 2 * n) <=> (b = n)) /\ ((Halves(v, S) = 0) <=> (a = 0))
  BY <1>3, <1>5, <1>7
<1> QED
  BY <1>3, <1>4, <1>6, <1>8 DEF n

\* More weight makes a greater sum.
LEMMA HalvesGrow ==
  ASSUME NEW S, IsFiniteSet(S), NEW v \in [S -> 0 .. 2], NEW u \in [S -> 0 .. 2],
         \A x \in S : v[x] <= u[x]
  PROVE  Halves(v, S) <= Halves(u, S)
<1>1. \A h \in {1, 2} : AtLeast(v, S, h) \in SUBSET AtLeast(u, S, h) /\ AtLeast(u, S, h) \in SUBSET S
  BY DEF AtLeast
<1>2. ASSUME NEW h \in {1, 2}
      PROVE  /\ Cardinality(AtLeast(v, S, h)) <= Cardinality(AtLeast(u, S, h))
             /\ Cardinality(AtLeast(v, S, h)) \in Nat /\ Cardinality(AtLeast(u, S, h)) \in Nat
  <2>1. IsFiniteSet(AtLeast(u, S, h))
    BY <1>1, FS_Subset
  <2>2. IsFiniteSet(AtLeast(v, S, h)) /\ Cardinality(AtLeast(v, S, h)) <= Cardinality(AtLeast(u, S, h))
    BY <1>1, <2>1, FS_Subset
  <2> QED
    BY <2>1, <2>2, FS_CardinalityType
<1>3. /\ Cardinality(AtLeast(v, S, 1)) <= Cardinality(AtLeast(u, S, 1))
      /\ Cardinality(AtLeast(v, S, 1)) \in Nat /\ Cardinality(AtLeast(u, S, 1)) \in Nat
  BY <1>2
<1>4. /\ Cardinality(AtLeast(v, S, 2)) <= Cardinality(AtLeast(u, S, 2))
      /\ Cardinality(AtLeast(v, S, 2)) \in Nat /\ Cardinality(AtLeast(u, S, 2)) \in Nat
  BY <1>2
<1> QED
  BY <1>3, <1>4 DEF Halves

\* Sums of the same weights over two sets are the same.
LEMMA HalvesAgree ==
  ASSUME NEW S, IsFiniteSet(S), NEW T, NEW f \in Bijection(S, T),
         NEW v \in [S -> 0 .. 2], NEW u \in [T -> 0 .. 2], \A x \in S : u[f[x]] = v[x]
  PROVE  IsFiniteSet(T) /\ Cardinality(T) = Cardinality(S) /\ Halves(u, T) = Halves(v, S)
<1>1. f \in [S -> T] /\ (\A x, y \in S : f[x] = f[y] => x = y) /\ \A t \in T : \E x \in S : f[x] = t
  BY Fun_BijectionProperties DEF Bijection, Surjection
<1>2. ASSUME NEW h \in {1, 2} PROVE Cardinality(AtLeast(u, T, h)) = Cardinality(AtLeast(v, S, h))
  <2> DEFINE M == AtLeast(v, S, h)
             N == AtLeast(u, T, h)
             g == [x \in M |-> f[x]]
  <2>1. M \in SUBSET S /\ IsFiniteSet(M)
    BY FS_Subset DEF AtLeast
  <2>2. g \in [M -> N]
    BY <1>1 DEF AtLeast
  <2>3. \A x, y \in M : g[x] = g[y] => x = y
    BY <1>1, <2>1
  <2>4. \A t \in N : \E x \in M : g[x] = t
    BY <1>1 DEF AtLeast
  <2>5. g \in Bijection(M, N)
    <3> HIDE DEF M, N, g
    <3> QED
      BY <2>2, <2>3, <2>4 DEF Bijection, Injection, Surjection, IsInjective
  <2>6. ExistsBijection(M, N)
    BY <2>5 DEF ExistsBijection
  <2> HIDE DEF M, N, g
  <2>7. Cardinality(N) = Cardinality(M)
    BY <2>1, <2>6, FS_Bijection
  <2> QED
    BY <2>7 DEF M, N
<1>3. Cardinality(AtLeast(u, T, 1)) = Cardinality(AtLeast(v, S, 1)) /\ Cardinality(AtLeast(u, T, 2)) = Cardinality(AtLeast(v, S, 2))
  BY <1>2
<1>4. IsFiniteSet(T) /\ Cardinality(T) = Cardinality(S)
  BY FS_Bijection DEF ExistsBijection
<1> QED
  BY <1>3, <1>4 DEF Halves

\* Rounding is to the nearest, and to the ends of the scale only from them while fewer than a
\* thousand days or weeks count.
Rounded(r, sum, n) ==
  /\ r \in 0 .. 1000
  /\ 2 * n * r - 1000 * sum \in -n .. n
  /\ n < 1000 => (r = 1000 <=> sum = 2 * n) /\ (r = 0 <=> sum = 0)

LEMMA RoundIs ==
  ASSUME NEW n \in Nat \ {0}, NEW sum \in 0 .. 2 * n
  PROVE  Rounded(Score!Round1(sum, n), sum, n)
<1> DEFINE m == 2 * n
           x == 1000 * sum + n
           q == x \div m
           r == x % m
<1>1. m \in Nat \ {0} /\ x \in Int
  OBVIOUS
<1>2. Score!Round1(sum, n) = q
  BY DEF Score!Round1
<1>3. x = m * q + r /\ r \in 0 .. m - 1 /\ q \in Int
  <2> HIDE DEF m, x
  <2> QED
    BY <1>1, DivMod
<1> HIDE DEF q, r
<1>4. 2 * n * q - 1000 * sum = n - r
  BY <1>3
<1>5. n - r \in -n .. n
  BY <1>3
<1> DEFINE p == n * q
<1>6. p \in Int /\ 2 * n * q = 2 * p /\ m * q = 2 * p
  BY <1>3
<1>7. q >= 0
  <2>1. CASE q <= -1
    <3>1. n * q <= n * (-1)
      BY <1>3, <2>1
    <3> QED
      BY <1>3, <1>6, <3>1
  <2> QED
    BY <1>3, <2>1
<1>8. q <= 1000
  <2>1. CASE q >= 1001
    <3>1. n * q >= n * 1001
      BY <1>3, <2>1
    <3> QED
      BY <1>3, <1>6, <3>1
  <2> QED
    BY <1>3, <2>1
<1>9. (q = 1000 /\ n < 1000) => sum = 2 * n
  <2> SUFFICES ASSUME q = 1000, n < 1000, sum <= 2 * n - 1 PROVE FALSE
    OBVIOUS
  <2>1. m * q = 2000 * n
    OBVIOUS
  <2> QED
    BY <1>3, <2>1
<1>10. sum = 2 * n => q = 1000
  <2> SUFFICES ASSUME sum = 2 * n PROVE q = 1000
    OBVIOUS
  <2>1. x = m * 1000 + n /\ n \in 0 .. m - 1
    OBVIOUS
  <2> HIDE DEF m, x
  <2> QED
    BY <1>1, <2>1, DivIs DEF q
<1>11. (q = 0 /\ n < 1000) => sum = 0
  <2> SUFFICES ASSUME q = 0, n < 1000, sum >= 1 PROVE FALSE
    OBVIOUS
  <2>1. m * q = 0
    OBVIOUS
  <2> QED
    BY <1>3, <2>1
<1>12. sum = 0 => q = 0
  <2> SUFFICES ASSUME sum = 0 PROVE q = 0
    OBVIOUS
  <2>1. x = m * 0 + n /\ n \in 0 .. m - 1
    OBVIOUS
  <2> HIDE DEF m, x
  <2> QED
    BY <1>1, <2>1, DivIs DEF q
<1>13. q \in 0 .. 1000
  BY <1>3, <1>7, <1>8
<1> QED
  BY <1>2, <1>4, <1>5, <1>9, <1>10, <1>11, <1>12, <1>13 DEF Rounded

\* A greater sum is not rounded to less.
LEMMA RoundGrows ==
  ASSUME NEW n \in Nat \ {0}, NEW a \in 0 .. 2 * n, NEW b \in 0 .. 2 * n, a <= b
  PROVE  Score!Round1(a, n) <= Score!Round1(b, n)
<1> DEFINE m == 2 * n
           x == 1000 * a + n
           y == 1000 * b + n
           q == x \div m
           p == y \div m
           r == x % m
           t == y % m
<1>1. m \in Nat \ {0} /\ x \in Int /\ y \in Int /\ x <= y
  OBVIOUS
<1>2. Score!Round1(a, n) = q /\ Score!Round1(b, n) = p
  BY DEF Score!Round1
<1> HIDE DEF m, x, y
<1>3. /\ x = m * q + r /\ r \in 0 .. m - 1 /\ q \in Int
      /\ y = m * p + t /\ t \in 0 .. m - 1 /\ p \in Int
  BY <1>1, DivMod
<1> HIDE DEF q, p, r, t
<1>4. SUFFICES ASSUME q >= p + 1 PROVE FALSE
  BY <1>2, <1>3
<1>5. m * q >= m * (p + 1)
  BY <1>1, <1>3, <1>4
<1>6. m * (p + 1) = m * p + m /\ m * q \in Int /\ m * p \in Int
  BY <1>1, <1>3
<1> QED
  BY <1>1, <1>3, <1>5, <1>6

\* The score of weights is the rounded share of their sum.
LEMMA ShareIs ==
  ASSUME NEW S, IsFiniteSet(S), NEW v \in [S -> 0 .. 2]
  PROVE  /\ Score!Share(v) = IF Cardinality(S) = 0 THEN 0 ELSE Score!Round1(Halves(v, S), Cardinality(S))
         /\ Score!Share(v) \in 0 .. 1000
<1>1. DOMAIN v = S /\ Score!Cardinality(S) = Cardinality(S)
  BY DEF Score!Cardinality, Cardinality
<1>2. Score!Share(v) = IF Cardinality(S) = 0 THEN 0 ELSE Score!Round1(Halves(v, S), Cardinality(S))
  BY <1>1, SumIs DEF Score!Share
<1>3. Cardinality(S) \in Nat /\ Halves(v, S) \in 0 .. 2 * Cardinality(S)
  BY HalvesBounds
<1> DEFINE n == Cardinality(S)
           w == Halves(v, S)
<1> HIDE DEF n, w
<1>4. n \in Nat /\ w \in 0 .. 2 * n
  BY <1>3 DEF n, w
<1>5. ASSUME n # 0 PROVE Score!Round1(w, n) \in 0 .. 1000
  <2>1. n \in Nat \ {0} /\ w \in 0 .. 2 * n
    BY <1>4, <1>5
  <2>2. Rounded(Score!Round1(w, n), w, n)
    BY <2>1, RoundIs
  <2> QED
    BY <2>2 DEF Rounded
<1> QED
  BY <1>2, <1>5 DEF n, w

\* More weight makes no smaller score.
LEMMA ShareGrows ==
  ASSUME NEW S, IsFiniteSet(S), NEW v \in [S -> 0 .. 2], NEW u \in [S -> 0 .. 2],
         \A x \in S : v[x] <= u[x]
  PROVE  Score!Share(v) <= Score!Share(u)
<1> DEFINE n == Cardinality(S)
           w == Halves(v, S)
           z == Halves(u, S)
<1>1. /\ Score!Share(v) = IF n = 0 THEN 0 ELSE Score!Round1(w, n)
      /\ Score!Share(u) = IF n = 0 THEN 0 ELSE Score!Round1(z, n)
  BY ShareIs
<1>2. n \in Nat /\ w \in 0 .. 2 * n /\ z \in 0 .. 2 * n
  BY HalvesBounds
<1>3. w <= z
  BY HalvesGrow
<1> HIDE DEF n, w, z
<1>4. n # 0 => Score!Round1(w, n) <= Score!Round1(z, n)
  BY <1>2, <1>3, RoundGrows
<1> QED
  BY <1>1, <1>4

\* What the score says of units that correspond one to one to the days or weeks it weighs.
LEMMA CountedIs ==
  ASSUME NEW S, IsFiniteSet(S), Cardinality(S) < 1000, NEW T, NEW f \in Bijection(S, T),
         NEW v \in [S -> 0 .. 2], NEW u \in [T -> 0 .. 2], \A x \in S : u[f[x]] = v[x]
  PROVE  /\ Cardinality(T) = 0 => Score!Share(v) = 0
         /\ Cardinality(T) > 0 =>
              /\ 2 * Cardinality(T) * Score!Share(v) - 1000 * Score!SumFunction(u) \in -Cardinality(T) .. Cardinality(T)
              /\ ((Score!Share(v) = 1000) <=> (\A y \in T : u[y] = 2))
              /\ ((Score!Share(v) = 0) <=> (\A y \in T : u[y] = 0))
<1> DEFINE n == Cardinality(T)
           w == Halves(u, T)
           score == Score!Share(v)
<1>1. IsFiniteSet(T) /\ Cardinality(T) = Cardinality(S) /\ Halves(u, T) = Halves(v, S)
  BY HalvesAgree
<1>2. Score!SumFunction(u) = w
  BY <1>1, SumIs
<1>3. Score!Share(v) = IF Cardinality(S) = 0 THEN 0 ELSE Score!Round1(Halves(v, S), Cardinality(S))
  BY ShareIs
<1>4. score = IF n = 0 THEN 0 ELSE Score!Round1(w, n)
  BY <1>1, <1>3
<1>5. /\ n \in Nat /\ w \in 0 .. 2 * n
      /\ ((w = 2 * n) <=> (\A y \in T : u[y] = 2))
      /\ ((w = 0) <=> (\A y \in T : u[y] = 0))
  BY <1>1, HalvesBounds
<1>6. n < 1000
  BY <1>1
<1>7. (\A y \in T : u[y] = 2) <=> (w = 2 * n)
  BY <1>5
<1>8. (\A y \in T : u[y] = 0) <=> (w = 0)
  BY <1>5
<1> HIDE DEF n, w, score
<1>9. ASSUME n > 0 PROVE /\ 2 * n * score - 1000 * w \in -n .. n
                         /\ ((score = 1000) <=> (w = 2 * n))
                         /\ ((score = 0) <=> (w = 0))
  <2>1. n \in Nat \ {0} /\ w \in 0 .. 2 * n
    BY <1>5, <1>9
  <2>2. Rounded(Score!Round1(w, n), w, n)
    BY <2>1, RoundIs
  <2>3. score = Score!Round1(w, n)
    BY <1>4, <2>1
  <2>4. Rounded(score, w, n)
    BY <2>2, <2>3
  <2> QED
    BY <1>6, <2>4 DEF Rounded
<1>10. n = 0 => score = 0
  BY <1>4
<1>11. ASSUME n > 0
       PROVE  /\ 2 * n * score - 1000 * Score!SumFunction(u) \in -n .. n
              /\ ((score = 1000) <=> (\A y \in T : u[y] = 2))
              /\ ((score = 0) <=> (\A y \in T : u[y] = 0))
  <2>1. 2 * n * score - 1000 * w \in -n .. n
    BY <1>9, <1>11
  <2>2. 2 * n * score - 1000 * Score!SumFunction(u) \in -n .. n
    BY <1>2, <2>1, Zenon
  <2>3. ((score = 1000) <=> (w = 2 * n)) /\ ((score = 0) <=> (w = 0))
    BY <1>9, <1>11
  <2>4. (score = 1000) <=> (\A y \in T : u[y] = 2)
    BY <1>7, <2>3
  <2>5. (score = 0) <=> (\A y \in T : u[y] = 0)
    BY <1>8, <2>3
  <2> QED
    BY <2>2, <2>4, <2>5
<1> QED
  BY <1>10, <1>11 DEF n, score

\* The first number of a set, and the greatest weight of a set of weights.
LEMMA FirstIs ==
  ASSUME NEW S \in SUBSET Nat, S # {}
  PROVE  Score!Min(S) \in S /\ \A y \in S : Score!Min(S) <= y
<1>1. PICK x \in S : \A y \in S : ~(<<y, x>> \in Before)
  BY BeforeIsWellFounded, WFMin
<1>2. \A y \in S : x <= y
  <2> SUFFICES ASSUME NEW y \in S, ~(x <= y) PROVE FALSE
    OBVIOUS
  <2>1. x \in Nat /\ y \in Nat
    OBVIOUS
  <2>2. <<y, x>> \in Before
    BY <2>1 DEF Before
  <2> QED
    BY <1>1, <2>2
<1>3. Score!Min(S) = CHOOSE z \in S : \A y \in S : z <= y
  BY DEF Score!Min
<1> QED
  BY <1>2, <1>3

LEMMA FirstOnly ==
  ASSUME NEW S \in SUBSET Nat, NEW x \in S, \A y \in S : x <= y
  PROVE  Score!Min(S) = x
<1>1. Score!Min(S) \in S /\ Score!Min(S) <= x
  BY FirstIs
<1>2. x <= Score!Min(S) /\ x \in Nat /\ Score!Min(S) \in Nat
  BY <1>1
<1> QED
  BY <1>1, <1>2

LEMMA MostIs ==
  ASSUME NEW S \in SUBSET (0 .. 2), S # {}
  PROVE  Score!Max(S) \in S /\ Score!Max(S) \in 0 .. 2 /\ \A y \in S : Score!Max(S) >= y
<1>1. \E x \in S : \A y \in S : x >= y
  <2>1. CASE 2 \in S
    BY <2>1
  <2>2. CASE 2 \notin S /\ 1 \in S
    BY <2>2
  <2>3. CASE 2 \notin S /\ 1 \notin S
    <3>1. \A x \in S : x = 0
      BY <2>3
    <3>2. PICK x \in S : TRUE
      OBVIOUS
    <3>3. x \in S /\ \A y \in S : x >= y
      BY <3>1, <3>2
    <3> QED
      BY <3>3
  <2> QED
    BY <2>1, <2>2, <2>3
<1>2. Score!Max(S) = CHOOSE x \in S : \A y \in S : x >= y
  BY DEF Score!Max
<1> QED
  BY <1>1, <1>2

LEMMA MostGrows ==
  ASSUME NEW S \in SUBSET (0 .. 2), S # {}, NEW T \in SUBSET (0 .. 2), T # {},
         \A x \in S : \E y \in T : x <= y
  PROVE  Score!Max(S) <= Score!Max(T)
<1>1. Score!Max(S) \in S /\ Score!Max(S) \in 0 .. 2
  BY MostIs
<1>2. Score!Max(T) \in 0 .. 2 /\ \A y \in T : Score!Max(T) >= y
  BY MostIs
<1>3. PICK y \in T : Score!Max(S) <= y
  BY <1>1
<1>4. Score!Max(T) >= y /\ y \in 0 .. 2
  BY <1>2
<1> QED
  BY <1>1, <1>2, <1>3, <1>4

LEMMA WeightIs ==
  /\ \A kind : Score!Weight(kind) \in 0 .. 2
  /\ Score!Weight("none") = 0 /\ Score!Weight("minimum") = 1 /\ Score!Weight("full") = 2
BY DEF Score!Weight

\* The days of a week are those the calendar divides into it, and a week starts on a Monday.
LEMMA WeekIs ==
  ASSUME NEW k \in Nat \ {0}, NEW d \in Int, NEW w \in Int
  PROVE  (d \div k = w) <=> (k * w <= d /\ d <= k * w + (k - 1))
<1>1. ASSUME d \div k = w PROVE k * w <= d /\ d <= k * w + (k - 1)
  <2> DEFINE q == d \div k
             r == d % k
  <2>1. d = k * q + r /\ r \in 0 .. k - 1 /\ q \in Int
    BY DivMod
  <2> HIDE DEF q, r
  <2>2. q = w
    BY <1>1 DEF q
  <2>3. k * w \in Int
    OBVIOUS
  <2> QED
    BY <2>1, <2>2, <2>3
<1>2. ASSUME k * w <= d, d <= k * w + (k - 1) PROVE d \div k = w
  <2> DEFINE x == k * w
             r == d - x
  <2>1. x \in Int
    OBVIOUS
  <2> HIDE DEF x
  <2>2. r \in 0 .. k - 1 /\ d = x + r
    BY <1>2, <2>1 DEF x
  <2> HIDE DEF r
  <2>3. d = k * w + r
    BY <2>2 DEF x
  <2> QED
    BY <2>2, <2>3, DivIs
<1> QED
  BY <1>1, <1>2

LEMMA MondayIs ==
  ASSUME Week \in Nat \ {0}, NEW d \in Nat
  PROVE  Score!IsoWeekStart(d) = Week * (d \div Week) /\ d \div Week \in Int
<1> DEFINE q == d \div Week
           r == d % Week
<1>1. d = Week * q + r /\ r \in 0 .. Week - 1 /\ q \in Int
  BY DivMod
<1>2. (d + 1) % Week = IF r = Week - 1 THEN 0 ELSE r + 1
  <2> HIDE DEF q, r
  <2>1. CASE r = Week - 1
    <3>1. d + 1 = Week * (q + 1) + 0
      <4>1. Week * (q + 1) = Week * q + Week
        BY <1>1
      <4>2. Week * q \in Int
        BY <1>1
      <4> QED
        BY <1>1, <2>1, <4>1, <4>2
    <3>2. q + 1 \in Int /\ 0 \in 0 .. Week - 1 /\ d + 1 \in Int
      BY <1>1
    <3> QED
      BY <2>1, <3>1, <3>2, DivIs
  <2>2. CASE r # Week - 1
    <3>1. d + 1 = Week * q + (r + 1) /\ r + 1 \in 0 .. Week - 1 /\ d + 1 \in Int
      <4>1. Week * q \in Int
        BY <1>1
      <4> QED
        BY <1>1, <2>2, <4>1
    <3> QED
      BY <1>1, <2>2, <3>1, DivIs
  <2> QED
    BY <2>1, <2>2
<1>3. (Score!Weekday(d) + Week - 1) % Week = r
  <2> DEFINE x == Score!Weekday(d) + Week - 1
  <2>1. Score!Weekday(d) = IF r = Week - 1 THEN 0 ELSE r + 1
    BY <1>2 DEF Score!Weekday
  <2> HIDE DEF q, r
  <2>2. CASE r = Week - 1
    <3>1. x = Week * 0 + r /\ x \in Int
      BY <1>1, <2>1, <2>2
    <3> HIDE DEF x
    <3> QED
      <4>1. x % Week = r
        BY <1>1, <3>1, DivIs
      <4> QED
        BY <4>1 DEF x
  <2>3. CASE r # Week - 1
    <3>1. x = Week * 1 + r /\ x \in Int
      BY <1>1, <2>1, <2>3
    <3> HIDE DEF x
    <3> QED
      <4>1. x % Week = r
        BY <1>1, <3>1, DivIs
      <4> QED
        BY <4>1 DEF x
  <2> QED
    BY <2>2, <2>3
<1>4. Score!IsoWeekStart(d) = d - r
  BY <1>3 DEF Score!IsoWeekStart
<1> HIDE DEF q, r
<1>5. Week * q \in Int
  BY <1>1
<1>6. d - r = Week * q
  BY <1>1, <1>5
<1> QED
  BY <1>1, <1>4, <1>6 DEF q

\* A score is rounded to a tenth, a whole window is less than a thousand days, and a week has days.
ScoreNumbers == LastScoreDay \in Nat /\ WindowDays \in 1 .. 999 /\ Week \in Nat \ {0}

Completed == [Score!Days -> Score!Kinds \cup {"none"}]

\* What may start the score.
Starts(c) == {created} \cup {d \in Score!Logged(c) : d \in Score!WindowStart(today) .. today}

LEMMA StartIs ==
  ASSUME ScoreNumbers, Score!TypeOK, NEW c \in Completed
  PROVE  LET start == Score!EffectiveStart(c, today)
         IN /\ Starts(c) \in SUBSET Nat /\ Score!Earliest(c, today) = Score!Min(Starts(c))
            /\ Score!Earliest(c, today) \in Starts(c) /\ \A d \in Starts(c) : Score!Earliest(c, today) <= d
            /\ start = Score!MaxOf(Score!WindowStart(today), Score!Earliest(c, today))
            /\ start \in Nat /\ start >= Score!WindowStart(today) /\ start >= Score!Earliest(c, today)
            /\ today \in Nat /\ Score!WindowStart(today) \in Int /\ today < Score!WindowStart(today) + 999
            /\ start .. today \in SUBSET (Score!Days \cap (Score!WindowStart(today) .. today))
<1> DEFINE first == Score!Earliest(c, today)
           start == Score!EffectiveStart(c, today)
           window == Score!WindowStart(today)
<1>1. created \in 0 .. LastScoreDay /\ today \in 0 .. LastScoreDay /\ LastScoreDay \in Nat /\ WindowDays \in 1 .. 999
  BY DEF Score!TypeOK, Score!Days, ScoreNumbers
<1>2. Starts(c) \in SUBSET Nat
  BY <1>1 DEF Starts, Score!Logged, Score!Days
<1>3. first = Score!Min(Starts(c))
  BY DEF Score!Earliest, Starts
<1>4. Starts(c) # {}
  BY DEF Starts
<1>5. first \in Starts(c) /\ \A d \in Starts(c) : first <= d
  BY <1>2, <1>3, <1>4, FirstIs
<1>6. first \in Nat
  BY <1>2, <1>5
<1>7. window = today - (WindowDays - 1)
  BY DEF Score!WindowStart
<1>8. start = Score!MaxOf(window, first)
  BY DEF Score!EffectiveStart
<1>9. start = IF window > first THEN window ELSE first
  BY <1>8 DEF Score!MaxOf
<1> HIDE DEF first, start, window
<1>10. window \in Int /\ today < window + 999
  BY <1>1, <1>7
<1>11. start \in Nat /\ start >= window /\ start >= first
  BY <1>6, <1>9, <1>10
<1>12. start .. today \in SUBSET ((0 .. LastScoreDay) \cap (window .. today))
  BY <1>1, <1>10, <1>11
<1> QED
  BY <1>1, <1>2, <1>3, <1>5, <1>8, <1>10, <1>11, <1>12 DEF first, start, window, Score!Days

\* What the score says of the units it is counted over.
Counted(score, units) ==
  LET n == Cardinality(units)
  IN /\ n = 0 => score = 0
     /\ n > 0 => /\ 2 * n * score - 1000 * Score!Sum(units) \in -n .. n
                 /\ (score = 1000 <=> \A unit \in units : Score!Best(unit) = 2)
                 /\ (score = 0 <=> \A unit \in units : Score!Best(unit) = 0)

LEMMA UnitsCount ==
  ASSUME NEW S, IsFiniteSet(S), Cardinality(S) < 1000, NEW T, NEW f \in Bijection(S, T),
         NEW v \in [S -> 0 .. 2], \A x \in S : Score!Best(f[x]) = v[x]
  PROVE  Counted(Score!Share(v), T)
<1> DEFINE u == [y \in T |-> Score!Best(y)]
<1>1. f \in [S -> T] /\ \A y \in T : \E x \in S : f[x] = y
  BY Fun_BijectionProperties DEF Bijection, Surjection
<1>2. \A y \in T : Score!Best(y) \in 0 .. 2
  BY <1>1
<1>3. u \in [T -> 0 .. 2]
  BY <1>2
<1>4. \A x \in S : u[f[x]] = v[x]
  BY <1>1
<1>5. Score!Sum(T) = Score!SumFunction(u)
  BY DEF Score!Sum
<1>6. \A y \in T : u[y] = Score!Best(y)
  OBVIOUS
<1> HIDE DEF u
<1>7. /\ Cardinality(T) = 0 => Score!Share(v) = 0
      /\ Cardinality(T) > 0 =>
           /\ 2 * Cardinality(T) * Score!Share(v) - 1000 * Score!SumFunction(u) \in -Cardinality(T) .. Cardinality(T)
           /\ ((Score!Share(v) = 1000) <=> (\A y \in T : u[y] = 2))
           /\ ((Score!Share(v) = 0) <=> (\A y \in T : u[y] = 0))
  BY <1>3, <1>4, CountedIs
<1> DEFINE n == Cardinality(T)
           score == Score!Share(v)
           sum == Score!Sum(T)
<1>8. n = 0 => score = 0
  BY <1>7
<1>9. ASSUME n > 0
      PROVE  /\ 2 * n * score - 1000 * sum \in -n .. n
             /\ ((score = 1000) <=> (\A y \in T : Score!Best(y) = 2))
             /\ ((score = 0) <=> (\A y \in T : Score!Best(y) = 0))
  <2>1. /\ 2 * n * score - 1000 * Score!SumFunction(u) \in -n .. n
        /\ ((score = 1000) <=> (\A y \in T : u[y] = 2))
        /\ ((score = 0) <=> (\A y \in T : u[y] = 0))
    BY <1>7, <1>9
  <2>2. (\A y \in T : u[y] = 2) <=> (\A y \in T : Score!Best(y) = 2)
    BY <1>6
  <2>3. (\A y \in T : u[y] = 0) <=> (\A y \in T : Score!Best(y) = 0)
    BY <1>6
  <2>4. sum = Score!SumFunction(u)
    BY <1>5
  <2> HIDE DEF n, score, sum
  <2>5. 2 * n * score - 1000 * sum \in -n .. n
    BY <2>1, <2>4
  <2>6. ((score = 1000) <=> (\A y \in T : u[y] = 2)) /\ ((score = 0) <=> (\A y \in T : u[y] = 0))
    BY <2>1
  <2>7. (score = 1000) <=> (\A y \in T : Score!Best(y) = 2)
    BY <2>2, <2>6
  <2>8. (score = 0) <=> (\A y \in T : Score!Best(y) = 0)
    BY <2>3, <2>6
  <2> QED
    BY <2>5, <2>7, <2>8
<1> QED
  BY <1>8, <1>9 DEF Counted

LEMMA SpanIs ==
  ASSUME NEW start \in Int, today \in Int, today < start + 999
  PROVE  IsFiniteSet(start .. today) /\ Cardinality(start .. today) < 1000
<1> DEFINE k == Cardinality(start .. today)
<1>1. IsFiniteSet(start .. today) /\ k = IF start > today THEN 0 ELSE today - start + 1
  BY FS_Interval
<1> HIDE DEF k
<1>2. k < 1000
  BY <1>1
<1> QED
  BY <1>1, <1>2 DEF k

\* By days, each day that applies is a unit.
LEMMA DaysCount ==
  ASSUME ScoreNumbers, Score!TypeOK, freq # "weekly", NEW start \in Nat, today < start + 999,
         start .. today \in SUBSET Score!Days
  PROVE  Counted(Score!CalcDailyOrCustom(completions, start, today),
                 {{d} : d \in {d \in start .. today : Score!IsApplicableDay(d)}})
<1> DEFINE S == {d \in start .. today : Score!IsApplicableDay(d)}
           T == {{d} : d \in S}
           f == [d \in S |-> {d}]
           v == [d \in S |-> Score!Weight(Score!Kind(completions, d))]
<1>1. today \in Int
  BY DEF Score!TypeOK, Score!Days, ScoreNumbers
<1>2. IsFiniteSet(start .. today) /\ Cardinality(start .. today) < 1000
  BY <1>1, SpanIs
<1>3. S \in SUBSET (start .. today)
  OBVIOUS
<1> HIDE DEF S
<1>4. IsFiniteSet(S) /\ Cardinality(S) < 1000
  <2> DEFINE D == start .. today
  <2>1. IsFiniteSet(D) /\ Cardinality(D) < 1000 /\ S \in SUBSET D
    BY <1>2, <1>3
  <2> HIDE DEF D
  <2>2. IsFiniteSet(S) /\ Cardinality(S) <= Cardinality(D)
    BY <2>1, FS_Subset
  <2>3. Cardinality(S) \in Nat /\ Cardinality(D) \in Nat
    BY <2>1, <2>2, FS_CardinalityType
  <2> QED
    BY <2>1, <2>2, <2>3
<1>5. f \in Bijection(S, T)
  <2>1. f \in [S -> T] /\ (\A x, y \in S : f[x] = f[y] => x = y) /\ \A t \in T : \E x \in S : f[x] = t
    OBVIOUS
  <2> HIDE DEF f, T
  <2> QED
    BY <2>1 DEF Bijection, Injection, Surjection, IsInjective
<1>6. v \in [S -> 0 .. 2]
  BY WeightIs
<1>7. ASSUME NEW x \in S PROVE Score!Best(f[x]) = v[x]
  <2>1. x \in Score!Days
    BY <1>3
  <2>2. Score!Kind(completions, x) = completions[x]
    BY <2>1 DEF Score!Kind
  <2> DEFINE P == {Score!Weight(completions[d]) : d \in {x}}
  <2>3. P = {Score!Weight(completions[x])} /\ P \in SUBSET (0 .. 2) /\ P # {}
    BY WeightIs
  <2>4. Score!Best(f[x]) = Score!Max(P)
    BY DEF Score!Best
  <2> HIDE DEF P
  <2>5. Score!Max(P) \in P
    BY <2>3, MostIs
  <2> QED
    BY <2>2, <2>3, <2>4, <2>5
<1>8. Score!CalcDailyOrCustom(completions, start, today) = Score!Share(v)
  BY DEF Score!CalcDailyOrCustom, S
<1> HIDE DEF f, v, T
<1>9. Counted(Score!Share(v), T)
  BY <1>4, <1>5, <1>6, <1>7, UnitsCount
<1> QED
  BY <1>8, <1>9 DEF T, S

\* The weeks of the score: the Mondays from which a day of it is reached, and its days by week.
Mondays(start) == {d \in Score!FirstWeek(start) .. today :
                     (d - Score!FirstWeek(start)) % Week = 0 /\ Score!Overlap(d, start, today) # {}}
InWeek(start, w) == {d \in start .. today : d \div Week = w}
Weeks(start) == {InWeek(start, w) : w \in {d \div Week : d \in start .. today}}

LEMMA OverlapIs ==
  ASSUME ScoreNumbers, Score!TypeOK, NEW start \in Nat, NEW w \in Int
  PROVE  Score!Overlap(Week * w, start, today) = InWeek(start, w)
<1> DEFINE m == Week * w
           k == Week
<1>1. k \in Nat \ {0} /\ today \in Int /\ m \in Int
  BY DEF Score!TypeOK, Score!Days, ScoreNumbers
<1>2. Score!Overlap(m, start, today) = (IF m > start THEN m ELSE start) .. (IF m + (k - 1) < today THEN m + (k - 1) ELSE today)
  BY DEF Score!Overlap, Score!MaxOf, Score!MinOf
<1>3. ASSUME NEW d \in Int PROVE (d \div Week = w) <=> (m <= d /\ d <= m + (k - 1))
  BY <1>1, <1>3, WeekIs
<1> HIDE DEF m, k
<1>4. ASSUME NEW d \in Int
      PROVE  d \in Score!Overlap(m, start, today) <=> (d \in start .. today /\ m <= d /\ d <= m + (k - 1))
  BY <1>1, <1>2
<1>5. ASSUME NEW d PROVE d \in Score!Overlap(m, start, today) => d \in Int
  BY <1>1, <1>2
<1>6. ASSUME NEW d PROVE d \in InWeek(start, w) <=> d \in start .. today /\ d \div Week = w
  BY DEF InWeek
<1>7. ASSUME NEW d PROVE d \in Score!Overlap(m, start, today) <=> d \in InWeek(start, w)
  <2>1. d \in start .. today => d \in Int
    OBVIOUS
  <2>2. CASE d \in Int
    <3>1. (d \div Week = w) <=> (m <= d /\ d <= m + (k - 1))
      BY <1>3, <2>2
    <3>2. d \in Score!Overlap(m, start, today) <=> (d \in start .. today /\ m <= d /\ d <= m + (k - 1))
      BY <1>4, <2>2
    <3> QED
      BY <1>6, <3>1, <3>2, Zenon
  <2>3. CASE d \notin Int
    BY <1>5, <1>6, <2>1, <2>3, Zenon
  <2> QED
    BY <2>2, <2>3
<1>8. Score!Overlap(m, start, today) = InWeek(start, w)
  BY <1>7
<1> QED
  BY <1>8 DEF m

LEMMA MondaysAre ==
  ASSUME ScoreNumbers, Score!TypeOK, NEW start \in Nat
  PROVE  /\ \A m \in Mondays(start) : \E w \in Int :
              m = Week * w /\ Score!Overlap(m, start, today) = InWeek(start, w) /\ InWeek(start, w) # {}
         /\ \A d \in start .. today : d \div Week \in Int /\ Week * (d \div Week) \in Mondays(start)
<1> DEFINE first == start \div Week
<1>1. Week \in Nat \ {0} /\ today \in Int /\ today \in Nat
  BY DEF Score!TypeOK, Score!Days, ScoreNumbers
<1>2. Score!FirstWeek(start) = Week * first /\ first \in Int
  BY <1>1, MondayIs DEF Score!FirstWeek
<1>3. start \div Week = first
  OBVIOUS
<1>4. Week * first <= start
  <2> HIDE DEF first
  <2> QED
    BY <1>1, <1>2, <1>3, WeekIs
<1> HIDE DEF first
<1>5. ASSUME NEW m \in Mondays(start)
      PROVE  \E w \in Int :
               m = Week * w /\ Score!Overlap(m, start, today) = InWeek(start, w) /\ InWeek(start, w) # {}
  <2> DEFINE x == m - Week * first
             q == x \div Week
             r == x % Week
  <2>1. m \in Int /\ Week * first \in Int /\ (m - Week * first) % Week = 0 /\ Score!Overlap(m, start, today) # {}
    BY <1>1, <1>2 DEF Mondays
  <2>2. x \in Int /\ r = 0
    BY <2>1
  <2> HIDE DEF x
  <2>3. x = Week * q + r /\ q \in Int
    BY <1>1, <2>2, DivMod
  <2> HIDE DEF q, r
  <2>4. x = Week * q /\ Week * q \in Int
    BY <1>1, <2>2, <2>3
  <2>5. Week * (first + q) = Week * first + Week * q
    BY <1>1, <1>2, <2>3
  <2>6. m = Week * (first + q)
    BY <2>1, <2>4, <2>5 DEF x
  <2> DEFINE w == first + q
  <2>7. w \in Int /\ m = Week * w
    BY <1>2, <2>3, <2>6
  <2> HIDE DEF w
  <2>8. Score!Overlap(m, start, today) = InWeek(start, w)
    BY <2>7, OverlapIs
  <2> QED
    BY <2>1, <2>7, <2>8
<1>6. ASSUME NEW d \in start .. today
      PROVE  d \div Week \in Int /\ Week * (d \div Week) \in Mondays(start)
  <2> DEFINE w == d \div Week
             m == Week * w
  <2>1. d \in Nat /\ d \in Int /\ d >= start /\ d <= today
    BY <1>1
  <2>2. w \in Int
    BY <1>1, <2>1, DivMod
  <2>3. d \div Week = w
    OBVIOUS
  <2> HIDE DEF w
  <2>4. m <= d /\ d <= m + (Week - 1) /\ m \in Int
    BY <1>1, <2>1, <2>2, <2>3, WeekIs
  <2>5. first <= w
    <3> SUFFICES ASSUME w + 1 <= first PROVE FALSE
      BY <1>2, <2>2
    <3>1. Week * (w + 1) <= Week * first
      BY <1>1, <1>2, <2>2
    <3>2. Week * (w + 1) = m + Week
      BY <1>1, <2>2
    <3>3. Week * first \in Int
      BY <1>1, <1>2
    <3> QED
      BY <1>1, <1>4, <2>1, <2>4, <3>1, <3>2, <3>3
  <2>6. Week * first <= m /\ Week * first \in Int
    BY <1>1, <1>2, <2>2, <2>5
  <2>7. (m - Week * first) % Week = 0
    <3> DEFINE x == m - Week * first
    <3>1. m - Week * first = Week * (w - first)
      BY <1>1, <1>2, <2>2
    <3>2. w - first \in Int /\ x \in Int /\ 0 \in 0 .. Week - 1
      BY <1>1, <1>2, <2>2, <2>4, <2>6
    <3> DEFINE q == w - first
    <3>3. x = Week * q + 0 /\ q \in Int
      BY <2>4, <2>6, <3>1, <3>2
    <3> HIDE DEF x, q
    <3>4. x % Week = 0
      BY <1>1, <3>2, <3>3, DivIs
    <3> QED
      BY <3>4 DEF x
  <2>8. Score!Overlap(m, start, today) = InWeek(start, w)
    BY <2>2, OverlapIs
  <2>9. d \in InWeek(start, w)
    BY <2>3 DEF InWeek
  <2>10. m \in Score!FirstWeek(start) .. today
    BY <1>1, <1>2, <2>1, <2>4, <2>6
  <2>11. (m - Score!FirstWeek(start)) % Week = 0
    BY <1>2, <2>7
  <2> HIDE DEF m
  <2>12. m \in Mondays(start)
    BY <2>8, <2>9, <2>10, <2>11 DEF Mondays
  <2> QED
    BY <2>2, <2>12 DEF m, w
<1> QED
  BY <1>5, <1>6

\* The best weight of the days of a unit is that of any of them, or none.
LEMMA BestIs ==
  ASSUME Score!TypeOK, NEW unit \in SUBSET Score!Days, unit # {}
  PROVE  Score!Best(unit) = Score!Max({0} \cup {Score!Weight(Score!Kind(completions, d)) : d \in unit})
<1> DEFINE P == {Score!Weight(completions[d]) : d \in unit}
           Q == {0} \cup {Score!Weight(Score!Kind(completions, d)) : d \in unit}
<1>1. \A d \in unit : Score!Kind(completions, d) = completions[d]
  BY DEF Score!Kind
<1>2. P \in SUBSET (0 .. 2) /\ P # {}
  BY WeightIs
<1>3. Q = {0} \cup P
  BY <1>1
<1>4. Score!Best(unit) = Score!Max(P)
  BY DEF Score!Best
<1> HIDE DEF P, Q
<1>5. Q \in SUBSET (0 .. 2) /\ Q # {}
  BY <1>2, <1>3
<1>6. Score!Max(P) <= Score!Max(Q)
  <2>1. \A x \in P : \E y \in Q : x <= y
    BY <1>2, <1>3
  <2> QED
    BY <1>2, <1>5, <2>1, MostGrows
<1>7. Score!Max(Q) <= Score!Max(P)
  <2>3. PICK x \in P : TRUE
    BY <1>2
  <2>1. x \in P /\ 0 <= x
    BY <1>2, <2>3
  <2>2. \A y \in Q : \E z \in P : y <= z
    BY <1>2, <1>3, <2>1
  <2> QED
    BY <1>2, <1>5, <2>2, MostGrows
<1>8. Score!Max(P) \in 0 .. 2 /\ Score!Max(Q) \in 0 .. 2
  BY <1>2, <1>5, MostIs
<1>9. Score!Max(P) = Score!Max(Q)
  BY <1>6, <1>7, <1>8
<1> QED
  BY <1>4, <1>9 DEF Q

\* By weeks, each week with a day between the start and today is a unit.
LEMMA WeeksCount ==
  ASSUME ScoreNumbers, Score!TypeOK, NEW start \in Nat, today < start + 999,
         start .. today \in SUBSET Score!Days
  PROVE  Counted(Score!CalcWeekly(completions, start, today), Weeks(start))
<1> DEFINE S == Mondays(start)
           T == Weeks(start)
           f == [m \in S |-> Score!Overlap(m, start, today)]
           v == [m \in S |-> Score!Max({0} \cup {Score!Weight(Score!Kind(completions, d)) : d \in Score!Overlap(m, start, today)})]
           g == [m \in S |-> Score!MaxOf(m, start)]
<1>1. today \in Int /\ Week \in Nat \ {0}
  BY DEF Score!TypeOK, Score!Days, ScoreNumbers
<1>2. \A m \in S : \E w \in Int :
        m = Week * w /\ Score!Overlap(m, start, today) = InWeek(start, w) /\ InWeek(start, w) # {}
  BY MondaysAre
<1>3. \A d \in start .. today : d \div Week \in Int /\ Week * (d \div Week) \in S
  BY MondaysAre
<1>4. \A w : InWeek(start, w) \in SUBSET (start .. today) /\ \A d \in InWeek(start, w) : d \div Week = w
  BY DEF InWeek
<1>5. IsFiniteSet(start .. today) /\ Cardinality(start .. today) < 1000
  BY <1>1, SpanIs
<1>6. \A m \in S : g[m] \in start .. today /\ g[m] \in Score!Overlap(m, start, today)
  <2> SUFFICES ASSUME NEW m \in S
               PROVE  Score!MaxOf(m, start) \in start .. today /\ Score!MaxOf(m, start) \in Score!Overlap(m, start, today)
    OBVIOUS
  <2> HIDE DEF S
  <2>1. PICK w \in Int : m = Week * w /\ Score!Overlap(m, start, today) = InWeek(start, w) /\ InWeek(start, w) # {}
    BY <1>2
  <2> DEFINE b == Score!MaxOf(m, start)
             e == Score!MinOf(m + (Week - 1), today)
  <2>2. m \in Int /\ Score!Overlap(m, start, today) = b .. e
    BY <1>1, <2>1 DEF Score!Overlap
  <2>3. b \in Int /\ b >= start
    BY <2>2 DEF Score!MaxOf
  <2>4. e \in Int /\ e <= today
    BY <1>1, <2>2 DEF Score!MinOf
  <2> HIDE DEF b, e
  <2>5. PICK d : d \in b .. e
    BY <2>1, <2>2
  <2>6. b \in b .. e /\ b \in start .. today
    BY <1>1, <2>3, <2>4, <2>5
  <2> QED
    BY <2>2, <2>6 DEF b
<1> HIDE DEF S, T, g
<1>7. \A x, y \in S : \A d : d \in f[x] /\ d \in f[y] => x = y
  <2> SUFFICES ASSUME NEW x \in S, NEW y \in S, NEW d, d \in f[x], d \in f[y] PROVE x = y
    OBVIOUS
  <2>1. PICK w \in Int : x = Week * w /\ Score!Overlap(x, start, today) = InWeek(start, w)
    BY <1>2
  <2>2. PICK z \in Int : y = Week * z /\ Score!Overlap(y, start, today) = InWeek(start, z)
    BY <1>2
  <2>3. w = z
    BY <1>4, <2>1, <2>2
  <2> QED
    BY <2>1, <2>2, <2>3
<1>8. IsFiniteSet(S) /\ Cardinality(S) < 1000
  <2>1. g \in [S -> start .. today] /\ \A x, y \in S : g[x] = g[y] => x = y
    <3>1. g \in [S -> start .. today]
      BY <1>6 DEF g
    <3>2. \A m \in S : g[m] \in f[m]
      BY <1>6
    <3> HIDE DEF f
    <3> QED
      BY <1>7, <3>1, <3>2
  <2>2. g \in Injection(S, start .. today)
    BY <2>1 DEF Injection, IsInjective
  <2>3. IsFiniteSet(S) /\ Cardinality(S) <= Cardinality(start .. today)
    BY <1>5, <2>2, FS_Injection
  <2>4. Cardinality(S) \in Nat /\ Cardinality(start .. today) \in Nat
    BY <1>5, <2>3, FS_CardinalityType
  <2> QED
    BY <1>5, <2>3, <2>4
<1>9. f \in Bijection(S, T)
  <2>1. f \in [S -> T]
    <3> SUFFICES ASSUME NEW m \in S PROVE Score!Overlap(m, start, today) \in T
      OBVIOUS
    <3>1. PICK w \in Int : m = Week * w /\ Score!Overlap(m, start, today) = InWeek(start, w) /\ InWeek(start, w) # {}
      BY <1>2
    <3>2. PICK d : d \in InWeek(start, w)
      BY <3>1
    <3>3. d \in start .. today /\ d \div Week = w
      BY <1>4, <3>2
    <3> QED
      BY <3>1, <3>3 DEF T, Weeks
  <2>2. \A x, y \in S : f[x] = f[y] => x = y
    <3>1. \A m \in S : g[m] \in f[m]
      BY <1>6
    <3> HIDE DEF f
    <3> QED
      BY <1>7, <3>1
  <2>3. \A t \in T : \E x \in S : f[x] = t
    <3> SUFFICES ASSUME NEW t \in T PROVE \E x \in S : f[x] = t
      OBVIOUS
    <3>1. PICK d \in start .. today : t = InWeek(start, d \div Week)
      BY DEF T, Weeks
    <3>2. d \div Week \in Int /\ Week * (d \div Week) \in S
      BY <1>3
    <3>3. Score!Overlap(Week * (d \div Week), start, today) = InWeek(start, d \div Week)
      BY <3>2, OverlapIs
    <3> QED
      BY <3>1, <3>2, <3>3
  <2> HIDE DEF f
  <2> QED
    BY <2>1, <2>2, <2>3 DEF Bijection, Injection, Surjection, IsInjective
<1>10. v \in [S -> 0 .. 2]
  <2> SUFFICES ASSUME NEW m \in S PROVE v[m] \in 0 .. 2
    OBVIOUS
  <2> DEFINE Q == {0} \cup {Score!Weight(Score!Kind(completions, d)) : d \in Score!Overlap(m, start, today)}
  <2>1. Q \in SUBSET (0 .. 2) /\ Q # {}
    BY WeightIs
  <2>2. v[m] = Score!Max(Q)
    OBVIOUS
  <2> HIDE DEF Q, v
  <2> QED
    BY <2>1, <2>2, MostIs
<1>11. ASSUME NEW m \in S PROVE Score!Best(f[m]) = v[m]
  <2>1. f[m] \in SUBSET Score!Days /\ f[m] # {}
    BY <1>2, <1>4
  <2>2. Score!Best(f[m]) = Score!Max({0} \cup {Score!Weight(Score!Kind(completions, d)) : d \in f[m]})
    BY <2>1, BestIs
  <2> QED
    BY <2>2
<1>12. Score!CalcWeekly(completions, start, today) = Score!Share(v)
  BY DEF Score!CalcWeekly, S, Mondays
<1> HIDE DEF f, v
<1>13. Counted(Score!Share(v), T)
  BY <1>8, <1>9, <1>10, <1>11, UnitsCount
<1> QED
  BY <1>12, <1>13 DEF T

\* The score is what is kept of its units.
LEMMA CountsTrue == ASSUME ScoreNumbers, Score!TypeOK PROVE Score!ScoreCounts
<1> DEFINE start == Score!EffectiveStart(completions, today)
           days == {d \in start .. today : freq = "weekly" \/ Score!IsApplicableDay(d)}
           units == Score!Units
           score == Score!Calculate(completions, today)
<1>1. completions \in Completed
  BY DEF Completed, Score!TypeOK
<1>2. /\ start \in Nat /\ start >= Score!WindowStart(today) /\ Score!WindowStart(today) \in Int
      /\ today \in Nat /\ today < Score!WindowStart(today) + 999
      /\ start .. today \in SUBSET Score!Days
  BY <1>1, StartIs
<1>3. score = IF start > today THEN 0
              ELSE IF freq = "weekly" THEN Score!CalcWeekly(completions, start, today)
              ELSE Score!CalcDailyOrCustom(completions, start, today)
  BY DEF Score!Calculate, Score!Calc
<1>4. units = IF freq = "weekly" THEN {{d \in days : d \div Week = w} : w \in {d \div Week : d \in days}}
              ELSE {{d} : d \in days}
  BY DEF Score!Units
<1> HIDE DEF start, score, units
<1>5. today < start + 999
  BY <1>2
<1>6. ASSUME start > today PROVE Counted(score, units)
  <2>1. start .. today = {}
    BY <1>2, <1>6
  <2>2. days = {}
    BY <2>1
  <2>3. units = {}
    BY <1>4, <2>2
  <2>4. Cardinality(units) = 0
    BY <2>3, FS_EmptySet
  <2>5. score = 0
    BY <1>3, <1>6
  <2> QED
    BY <2>4, <2>5 DEF Counted
<1>7. ASSUME start <= today, freq = "weekly" PROVE Counted(score, units)
  <2>1. days = start .. today
    BY <1>7
  <2>2. units = Weeks(start)
    BY <1>4, <1>7, <2>1 DEF Weeks, InWeek
  <2>3. Counted(Score!CalcWeekly(completions, start, today), Weeks(start))
    BY <1>2, <1>5, WeeksCount
  <2>4. score = Score!CalcWeekly(completions, start, today)
    BY <1>2, <1>3, <1>7
  <2> QED
    BY <2>2, <2>3, <2>4
<1>8. ASSUME start <= today, freq # "weekly" PROVE Counted(score, units)
  <2>1. days = {d \in start .. today : Score!IsApplicableDay(d)}
    BY <1>8
  <2>2. units = {{d} : d \in {d \in start .. today : Score!IsApplicableDay(d)}}
    BY <1>4, <1>8, <2>1
  <2>3. Counted(Score!CalcDailyOrCustom(completions, start, today),
                {{d} : d \in {d \in start .. today : Score!IsApplicableDay(d)}})
    BY <1>2, <1>5, <1>8, DaysCount
  <2>4. score = Score!CalcDailyOrCustom(completions, start, today)
    BY <1>2, <1>3, <1>8
  <2> QED
    BY <2>2, <2>3, <2>4
<1>9. Counted(score, units)
  BY <1>2, <1>6, <1>7, <1>8
<1>10. Score!Cardinality(units) = Cardinality(units)
  BY DEF Score!Cardinality, Cardinality
<1> QED
  BY <1>9, <1>10 DEF Score!ScoreCounts, Counted, score, units

LEMMA UnitsFinite ==
  ASSUME ScoreNumbers, Score!TypeOK, NEW start \in Nat
  PROVE  IsFiniteSet({d \in start .. today : Score!IsApplicableDay(d)}) /\ IsFiniteSet(Mondays(start))
<1>1. today \in Int /\ Week \in Nat \ {0}
  BY DEF Score!TypeOK, Score!Days, ScoreNumbers
<1>2. Score!FirstWeek(start) \in Int
  BY <1>1, MondayIs DEF Score!FirstWeek
<1>3. IsFiniteSet(start .. today) /\ IsFiniteSet(Score!FirstWeek(start) .. today)
  BY <1>1, <1>2, FS_Interval
<1> DEFINE S == {d \in start .. today : Score!IsApplicableDay(d)}
<1>4. S \in SUBSET (start .. today) /\ Mondays(start) \in SUBSET (Score!FirstWeek(start) .. today)
  BY DEF Mondays
<1> HIDE DEF S
<1>5. IsFiniteSet(S) /\ IsFiniteSet(Mondays(start))
  BY <1>3, <1>4, FS_Subset
<1> QED
  BY <1>5 DEF S

\* The score is on its scale.
Tenths == 0 .. 1000

LEMMA ScoreIs ==
  ASSUME ScoreNumbers, Score!TypeOK, NEW c \in Completed, NEW start \in Nat
  PROVE  Score!Calc(c, start, today) \in Tenths
<1>1. today \in Int /\ Week \in Nat \ {0}
  BY DEF Score!TypeOK, Score!Days, ScoreNumbers
<1>2. Score!CalcDailyOrCustom(c, start, today) \in 0 .. 1000
  <2> DEFINE S == {d \in start .. today : Score!IsApplicableDay(d)}
             v == [d \in S |-> Score!Weight(Score!Kind(c, d))]
  <2>1. IsFiniteSet(S)
    BY UnitsFinite
  <2>2. Score!CalcDailyOrCustom(c, start, today) = Score!Share(v)
    BY DEF Score!CalcDailyOrCustom
  <2>3. v \in [S -> 0 .. 2]
    BY WeightIs
  <2> HIDE DEF S, v
  <2>4. Score!Share(v) \in 0 .. 1000
    BY <2>1, <2>3, ShareIs
  <2> QED
    BY <2>2, <2>4
<1>3. Score!CalcWeekly(c, start, today) \in 0 .. 1000
  <2> DEFINE S == Mondays(start)
             v == [m \in S |-> Score!Max({0} \cup {Score!Weight(Score!Kind(c, d)) : d \in Score!Overlap(m, start, today)})]
  <2>1. IsFiniteSet(S)
    BY UnitsFinite
  <2>2. Score!CalcWeekly(c, start, today) = Score!Share(v)
    BY DEF Score!CalcWeekly, Mondays
  <2>3. v \in [S -> 0 .. 2]
    <3> SUFFICES ASSUME NEW m \in S PROVE v[m] \in 0 .. 2
      OBVIOUS
    <3> DEFINE Q == {0} \cup {Score!Weight(Score!Kind(c, d)) : d \in Score!Overlap(m, start, today)}
    <3>1. Q \in SUBSET (0 .. 2) /\ Q # {}
      BY WeightIs
    <3>2. v[m] = Score!Max(Q)
      OBVIOUS
    <3> HIDE DEF Q, v
    <3> QED
      BY <3>1, <3>2, MostIs
  <2> HIDE DEF S, v
  <2>4. Score!Share(v) \in 0 .. 1000
    BY <2>1, <2>3, ShareIs
  <2> QED
    BY <2>2, <2>4
<1> QED
  BY <1>2, <1>3 DEF Score!Calc, Tenths

\* Completions that weigh as much or more from one start on score as much or more.
LEMMA CalcGrows ==
  ASSUME ScoreNumbers, Score!TypeOK, NEW c \in Completed, NEW k \in Completed, NEW start \in Nat,
         \A d \in start .. today : Score!Weight(Score!Kind(c, d)) <= Score!Weight(Score!Kind(k, d))
  PROVE  Score!Calc(c, start, today) <= Score!Calc(k, start, today)
<1>1. today \in Int /\ Week \in Nat \ {0}
  BY DEF Score!TypeOK, Score!Days, ScoreNumbers
<1>2. Score!CalcDailyOrCustom(c, start, today) <= Score!CalcDailyOrCustom(k, start, today)
  <2> DEFINE S == {d \in start .. today : Score!IsApplicableDay(d)}
             v == [d \in S |-> Score!Weight(Score!Kind(c, d))]
             u == [d \in S |-> Score!Weight(Score!Kind(k, d))]
  <2>1. IsFiniteSet(S)
    BY UnitsFinite
  <2>2. /\ Score!CalcDailyOrCustom(c, start, today) = Score!Share(v)
        /\ Score!CalcDailyOrCustom(k, start, today) = Score!Share(u)
    BY DEF Score!CalcDailyOrCustom
  <2>3. v \in [S -> 0 .. 2] /\ u \in [S -> 0 .. 2]
    BY WeightIs
  <2>4. \A x \in S : v[x] <= u[x]
    OBVIOUS
  <2> HIDE DEF S, v, u
  <2>5. Score!Share(v) <= Score!Share(u)
    BY <2>1, <2>3, <2>4, ShareGrows
  <2> QED
    BY <2>2, <2>5
<1>3. Score!CalcWeekly(c, start, today) <= Score!CalcWeekly(k, start, today)
  <2> DEFINE S == Mondays(start)
             Q(b, m) == {0} \cup {Score!Weight(Score!Kind(b, d)) : d \in Score!Overlap(m, start, today)}
             v == [m \in S |-> Score!Max(Q(c, m))]
             u == [m \in S |-> Score!Max(Q(k, m))]
  <2>1. IsFiniteSet(S)
    BY UnitsFinite
  <2>2. /\ Score!CalcWeekly(c, start, today) = Score!Share(v)
        /\ Score!CalcWeekly(k, start, today) = Score!Share(u)
    BY DEF Score!CalcWeekly, Mondays
  <2>3. \A b, m : Q(b, m) \in SUBSET (0 .. 2) /\ Q(b, m) # {}
    BY WeightIs
  <2>4. ASSUME NEW m \in S PROVE Score!Max(Q(c, m)) <= Score!Max(Q(k, m))
    <3>1. Score!Overlap(m, start, today) \in SUBSET (start .. today)
      BY MondaysAre DEF InWeek
    <3>2. \A x \in Q(c, m) : \E y \in Q(k, m) : x <= y
      <4> SUFFICES ASSUME NEW x \in Q(c, m) PROVE \E y \in Q(k, m) : x <= y
        OBVIOUS
      <4>1. CASE x = 0
        BY <4>1
      <4>2. CASE x # 0
        <5>1. PICK d \in Score!Overlap(m, start, today) : x = Score!Weight(Score!Kind(c, d))
          BY <4>2
        <5>2. Score!Weight(Score!Kind(k, d)) \in Q(k, m)
          OBVIOUS
        <5>3. x <= Score!Weight(Score!Kind(k, d))
          BY <3>1, <5>1
        <5> QED
          BY <5>2, <5>3
      <4> QED
        BY <4>1, <4>2
    <3> HIDE DEF Q
    <3> QED
      BY <2>3, <3>2, MostGrows
  <2>5. v \in [S -> 0 .. 2] /\ u \in [S -> 0 .. 2]
    <3> HIDE DEF Q, S
    <3>1. \A b, m : Score!Max(Q(b, m)) \in 0 .. 2
      BY <2>3, MostIs
    <3> QED
      BY <3>1
  <2>6. \A m \in S : v[m] <= u[m]
    <3> HIDE DEF Q, S
    <3> QED
      BY <2>4
  <2> HIDE DEF S, v, u
  <2>7. Score!Share(v) <= Score!Share(u)
    BY <2>1, <2>5, <2>6, ShareGrows
  <2> QED
    BY <2>2, <2>7
<1> QED
  BY <1>2, <1>3 DEF Score!Calc

\* What is logged from the start on does not move it.
LEMMA HelpsTrue == ASSUME ScoreNumbers, Score!TypeOK PROVE Score!LoggingHelps
<1> DEFINE start == Score!EffectiveStart(completions, today)
<1>1. completions \in Completed
  BY DEF Completed, Score!TypeOK
<1>2. SUFFICES ASSUME NEW d \in start .. today, NEW kind \in Score!Kinds,
                      Score!Weight(kind) > Score!Weight(completions[d])
               PROVE  LET more == Score!Calculate([completions EXCEPT ![d] = kind], today)
                      IN /\ more >= Score!Calculate(completions, today)
                         /\ Score!GetFlameLevel(more) >= Score!GetFlameLevel(Score!Calculate(completions, today))
  BY DEF Score!LoggingHelps
<1> DEFINE k == [completions EXCEPT ![d] = kind]
<1>3. /\ start \in Nat /\ start >= Score!WindowStart(today) /\ Score!WindowStart(today) \in Int
      /\ start >= Score!Earliest(completions, today) /\ today \in Nat
      /\ start .. today \in SUBSET (Score!Days \cap (Score!WindowStart(today) .. today))
      /\ Starts(completions) \in SUBSET Nat
      /\ Score!Earliest(completions, today) = Score!Min(Starts(completions))
      /\ Score!Earliest(completions, today) \in Starts(completions)
      /\ \A x \in Starts(completions) : Score!Earliest(completions, today) <= x
      /\ start = Score!MaxOf(Score!WindowStart(today), Score!Earliest(completions, today))
  BY <1>1, StartIs
<1>4. d \in Score!Days /\ d \in Score!WindowStart(today) .. today /\ kind # "none"
  BY <1>3 DEF Score!Kinds
<1>5. k \in Completed
  BY <1>1, <1>4 DEF Completed
<1>6. \A x \in Score!Days : k[x] = IF x = d THEN kind ELSE completions[x]
  BY <1>1, <1>4 DEF Completed
<1> HIDE DEF k
<1>7. Score!Logged(k) = Score!Logged(completions) \cup {d}
  BY <1>4, <1>6 DEF Score!Logged
<1>8. Starts(k) = Starts(completions) \cup {d}
  BY <1>4, <1>7 DEF Starts
<1>9. /\ Score!Earliest(k, today) = Score!Min(Starts(k)) /\ Starts(k) \in SUBSET Nat
      /\ Score!EffectiveStart(k, today) = Score!MaxOf(Score!WindowStart(today), Score!Earliest(k, today))
  BY <1>5, StartIs
<1>10. Score!Min(Starts(k)) = Score!Earliest(completions, today)
  <2> DEFINE first == Score!Earliest(completions, today)
  <2>1. first \in Nat /\ start >= first /\ d >= start /\ d \in Nat
    BY <1>3
  <2>2. \A x \in Starts(completions) : first <= x
    BY <1>3
  <2>3. first \in Starts(k)
    BY <1>3, <1>8
  <2> HIDE DEF first, start
  <2>4. first <= d
    BY <1>3, <2>1
  <2>5. \A x \in Starts(k) : first <= x
    BY <1>8, <2>2, <2>4
  <2>6. Score!Min(Starts(k)) = first
    BY <1>9, <2>3, <2>5, FirstOnly
  <2> QED
    BY <2>6 DEF first
<1>11. Score!EffectiveStart(k, today) = start
  BY <1>3, <1>9, <1>10
<1>12. Score!Calculate(k, today) = Score!Calc(k, start, today) /\ Score!Calculate(completions, today) = Score!Calc(completions, start, today)
  BY <1>11 DEF Score!Calculate
<1> HIDE DEF start
<1>13. ASSUME NEW x \in start .. today
       PROVE  Score!Weight(Score!Kind(completions, x)) <= Score!Weight(Score!Kind(k, x))
  <2>1. x \in Score!Days
    BY <1>3
  <2>2. Score!Kind(completions, x) = completions[x] /\ Score!Kind(k, x) = k[x]
    BY <2>1 DEF Score!Kind
  <2>3. Score!Weight(completions[x]) \in 0 .. 2 /\ Score!Weight(kind) \in 0 .. 2
    BY WeightIs
  <2>4. CASE x = d
    BY <1>2, <1>6, <2>1, <2>2, <2>3, <2>4
  <2>5. CASE x # d
    BY <1>6, <2>1, <2>2, <2>3, <2>5
  <2> QED
    BY <2>4, <2>5
<1>14. Score!Calc(completions, start, today) <= Score!Calc(k, start, today)
  BY <1>1, <1>3, <1>5, <1>13, CalcGrows
<1>15. Score!Calc(completions, start, today) \in Tenths
  BY <1>1, <1>3, ScoreIs
<1>16. Score!Calc(k, start, today) \in Tenths
  BY <1>3, <1>5, ScoreIs
<1> DEFINE a == Score!Calc(completions, start, today)
           b == Score!Calc(k, start, today)
<1>17. b >= a /\ Score!GetFlameLevel(b) >= Score!GetFlameLevel(a)
  <2> HIDE DEF a, b
  <2>1. a <= b /\ a \in 0 .. 1000 /\ b \in 0 .. 1000
    BY <1>14, <1>15, <1>16 DEF a, b, Tenths
  <2> QED
    BY <2>1 DEF Score!GetFlameLevel, Score!None, Score!Ember, Score!Steady, Score!Strong, Score!Blazing
<1> QED
  BY <1>12, <1>17 DEF k

LEMMA WindowTrue == ASSUME ScoreNumbers, Score!TypeOK PROVE Score!OnlyWindowCounts
<1> DEFINE window == Score!WindowStart(today) .. today
           c == completions
           k == [d \in Score!Days |-> IF d \in window THEN completions[d] ELSE "none"]
           start == Score!EffectiveStart(c, today)
           Clipped(b) == [Score!Stats(b, today) EXCEPT !.dates = {}, !.total = 0]
<1>1. c \in Completed /\ k \in Completed
  BY DEF Completed, Score!TypeOK
<1>2. /\ start \in Nat /\ today \in Nat /\ Score!WindowStart(today) \in Int
      /\ start .. today \in SUBSET (Score!Days \cap window)
  BY <1>1, StartIs
<1>3. today \in window /\ today \in Score!Days
  BY <1>2 DEF Score!WindowStart, ScoreNumbers, Score!TypeOK, Score!Days
<1>4. {d \in Score!Logged(c) : d \in window} = {d \in Score!Logged(k) : d \in window}
  BY DEF Score!Logged
<1>5. \A d \in window : d \in Score!Days => Score!Kind(c, d) = Score!Kind(k, d)
  BY DEF Score!Kind
<1>6. Score!EffectiveStart(k, today) = start
  BY <1>4 DEF Score!EffectiveStart, Score!Earliest
<1> HIDE DEF k, start, window
<1>7. \A d \in start .. today : Score!Weight(Score!Kind(c, d)) = Score!Weight(Score!Kind(k, d))
  BY <1>2, <1>5
<1>8. Score!Calc(c, start, today) = Score!Calc(k, start, today)
  <2>1. \A d : Score!Weight(Score!Kind(c, d)) \in 0 .. 2 /\ Score!Weight(Score!Kind(k, d)) \in 0 .. 2
    BY WeightIs
  <2>2. \A d \in start .. today : Score!Weight(Score!Kind(c, d)) <= Score!Weight(Score!Kind(k, d))
    BY <1>7, <2>1
  <2>9. \A d \in start .. today : Score!Weight(Score!Kind(k, d)) <= Score!Weight(Score!Kind(c, d))
    BY <1>7, <2>1
  <2> HIDE DEF c
  <2>3. Score!Calc(c, start, today) <= Score!Calc(k, start, today)
    BY <1>1, <1>2, <2>2, CalcGrows
  <2>4. Score!Calc(k, start, today) <= Score!Calc(c, start, today)
    BY <1>1, <1>2, <2>9, CalcGrows
  <2>5. Score!Calc(c, start, today) \in Tenths
    BY <1>1, <1>2, ScoreIs
  <2>6. Score!Calc(k, start, today) \in Tenths
    BY <1>1, <1>2, ScoreIs
  <2> DEFINE a == Score!Calc(c, start, today)
             b == Score!Calc(k, start, today)
  <2>7. a <= b /\ b <= a /\ a \in Tenths /\ b \in Tenths
    BY <2>3, <2>4, <2>5, <2>6
  <2> HIDE DEF a, b
  <2>8. a = b
    BY <2>7 DEF Tenths
  <2> QED
    BY <2>8 DEF a, b
<1>9. Score!Calculate(c, today) = Score!Calculate(k, today)
  BY <1>6, <1>8 DEF Score!Calculate, start
<1>10. Score!Kind(c, today) = Score!Kind(k, today)
  BY <1>3, <1>5
<1>11. Score!Cardinality({d \in Score!Logged(c) : d \in window}) = Score!Cardinality({d \in Score!Logged(k) : d \in window})
  BY <1>4
<1>12. \A b : Clipped(b) = [consistency |-> Score!Calculate(b, today),
                            flame |-> Score!GetFlameLevel(Score!Calculate(b, today)),
                            inWindow |-> Score!Cardinality({d \in Score!Logged(b) : d \in window}),
                            todayKind |-> Score!Kind(b, today), total |-> 0, dates |-> {}]
  <2> SUFFICES ASSUME NEW b
               PROVE  Clipped(b) = [consistency |-> Score!Calculate(b, today),
                                    flame |-> Score!GetFlameLevel(Score!Calculate(b, today)),
                                    inWindow |-> Score!Cardinality({d \in Score!Logged(b) : d \in window}),
                                    todayKind |-> Score!Kind(b, today), total |-> 0, dates |-> {}]
    OBVIOUS
  <2> DEFINE a == Score!Calculate(b, today)
             e == Score!GetFlameLevel(a)
             f == Score!Cardinality({d \in Score!Logged(b) : d \in window})
             g == Score!Kind(b, today)
             h == Score!Cardinality(Score!Logged(b))
             i == {d \in Score!Logged(b) : d <= today}
  <2>1. Score!Stats(b, today) = [consistency |-> a, flame |-> e, inWindow |-> f, todayKind |-> g, total |-> h, dates |-> i]
    BY DEF Score!Stats, window
  <2> HIDE DEF a, e, f, g, h, i
  <2> DEFINE r == [consistency |-> a, flame |-> e, inWindow |-> f, todayKind |-> g, total |-> h, dates |-> i]
             q == [r EXCEPT !.dates = {}]
  <2>2. q = [consistency |-> a, flame |-> e, inWindow |-> f, todayKind |-> g, total |-> h, dates |-> {}]
    OBVIOUS
  <2>3. [q EXCEPT !.total = 0] = [consistency |-> a, flame |-> e, inWindow |-> f, todayKind |-> g, total |-> 0, dates |-> {}]
    <3> HIDE DEF q
    <3> QED
      BY <2>2
  <2>4. [r EXCEPT !.dates = {}, !.total = 0] = [q EXCEPT !.total = 0]
    <3> HIDE DEF r
    <3> QED
      OBVIOUS
  <2>5. Clipped(b) = [r EXCEPT !.dates = {}, !.total = 0]
    BY <2>1
  <2> HIDE DEF r, q
  <2>6. Clipped(b) = [consistency |-> a, flame |-> e, inWindow |-> f, todayKind |-> g, total |-> 0, dates |-> {}]
    BY <2>3, <2>4, <2>5
  <2> QED
    BY <2>6 DEF a, e, f, g
<1> HIDE DEF Clipped
<1>13. Clipped(c) = Clipped(k)
  BY <1>9, <1>10, <1>11, <1>12
<1> QED
  BY <1>13 DEF Score!OnlyWindowCounts, Clipped, k, window

LEMMA RangeTrue == ASSUME ScoreNumbers, Score!TypeOK PROVE Score!RangeAgrees
<1> DEFINE first == Score!Earliest(completions, today)
           window == Score!WindowStart(today)
<1>1. SUFFICES ASSUME created <= first
               PROVE  Score!CalculateForDateRange(completions, window, today) = Score!Calculate(completions, today)
  BY DEF Score!RangeAgrees
<1>2. completions \in Completed
  BY DEF Completed, Score!TypeOK
<1>3. /\ first \in Starts(completions) /\ Starts(completions) \in SUBSET Nat
      /\ \A d \in Starts(completions) : first <= d
      /\ today \in Nat /\ window \in Int
  BY <1>2, StartIs
<1>4. created \in Starts(completions)
  BY DEF Starts
<1>5. first = created
  <2>1. first <= created /\ first \in Nat /\ created \in Nat
    BY <1>3, <1>4
  <2> HIDE DEF first
  <2> QED
    BY <1>1, <2>1
<1>6. ~(window > today)
  BY DEF Score!WindowStart, ScoreNumbers, Score!TypeOK, Score!Days
<1> QED
  BY <1>5, <1>6 DEF Score!CalculateForDateRange, Score!Calculate, Score!EffectiveStart

\* The flame of a habit, for any window and any bounds: the score is what was kept of the days or
\* weeks it covers, more of that lowers neither it nor its level, nothing outside the window
\* matters, and the milestones of challenges agree with it (consistency.go:93-382).
THEOREM ScoreAlwaysTrue ==
  ASSUME ScoreNumbers
  PROVE  Score!Spec => [](/\ Score!ScoreCounts /\ Score!LoggingHelps /\ Score!OnlyWindowCounts
                          /\ Score!RangeAgrees)
<1>1. Score!TypeOK => /\ Score!ScoreCounts /\ Score!LoggingHelps /\ Score!OnlyWindowCounts
                      /\ Score!RangeAgrees
  BY CountsTrue, HelpsTrue, WindowTrue, RangeTrue
<1>2. Score!Spec => []Score!TypeOK
  BY ScoreTypes DEF LastScore, ScoreNumbers
<1> QED
  BY <1>1, <1>2, PTL
=============================================================================
