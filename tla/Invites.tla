--------------------------------- MODULE Invites ---------------------------------
(***************************************************************************)
(* Challenge invites (backend/internal/challenges/invite_service.go and    *)
(* invite_store.go): a link with which its creator proposes a habit and a  *)
(* reward.  Creating counts and then inserts, revoking looks up and then   *)
(* writes; a claim is one transaction that locks the invite and makes a    *)
(* friendship, a habit and an Active challenge.  The deletion of an        *)
(* account runs over the same rows statement by statement.                 *)
(*                                                                         *)
(* As in Friendships a request r is a process, pc[r] its next statement,   *)
(* and what its transaction wrote is in writes[r] until it commits.  The   *)
(* two rows of a friendship are one here; Friendships has the rest of      *)
(* their life, Challenges that of a challenge.                             *)
(***************************************************************************)
EXTENDS Naturals, FiniteSets

CONSTANTS
  Users,
  Ids,        \* invites that may ever exist
  Requests,
  Cap,        \* maxPendingInvitesPerCreator
  TTL,        \* inviteTTLDays
  Period,     \* period_days of every invite
  MaxDay,     \* bound on the clock
  MaxCalls    \* bound on the requests ever made

VARIABLES
  now,
  invites,     \* challenge_invites
  friends,     \* pairs with an Accepted friendship
  habits,      \* habits that were made by claims
  challenges,  \* challenges that were made by claims
  told,        \* invites of whose claim the creator was told
  gone,        \* deleted accounts
  pc, job,     \* per request its next statement, and its input with what it has read
  writes,      \* per request what its open transaction wrote
  crossed,     \* users two of whose creations overlapped
  calls

tables == <<invites, friends, habits, challenges, told, gone>>
vars == <<now, tables, pc, job, writes, crossed, calls>>

NoUser  == "nobody"
NoId    == "none"
Pair(u, v) == {u, v}
NoRow   == [status |-> "unborn", creator |-> NoUser, expires |-> 0, by |-> NoUser, at |-> 0]
Deleted == [NoRow EXCEPT !.status = "deleted"]
NoJob   == [who |-> NoUser, invite |-> NoId, at |-> 0]
Nothing == [friends |-> {}, habits |-> {}, challenges |-> {}]

Creator(i) == invites[i].creator
Pending(u) == {i \in Ids : invites[i].status = "pending" /\ Creator(i) = u}

\* The phases of a claim that hold the lock of its invite.
Claiming == {"befriend", "habit", "challenge", "mark", "commit"}

\* The phases of the deletion of an account.
Deleting == {"dropHabits", "dropFriends", "dropChallenges", "dropInvites"}

\* What the other open transactions have locked: of the tables, and of the invites.
Locked(r, field) == UNION {writes[q][field] : q \in Requests \ {r}}
LockedInvites(r) == {job[q].invite : q \in {q \in Requests \ {r} : pc[q] \in Claiming}}

Go(r, where) == pc' = [pc EXCEPT ![r] = where]

\* The end of a handler; what its transaction wrote is forgotten.
End(r) ==
  /\ Go(r, "idle")
  /\ job' = [job EXCEPT ![r] = NoJob] /\ writes' = [writes EXCEPT ![r] = Nothing]

Begin(r, where, u, i) ==
  /\ pc[r] = "idle"
  /\ calls < MaxCalls /\ calls' = calls + 1
  /\ Go(r, where)
  /\ job' = [job EXCEPT ![r] = [who |-> u, invite |-> i, at |-> now]]
  /\ UNCHANGED <<now, tables, writes>>

Write(r, field, rows) == writes' = [writes EXCEPT ![r][field] = @ \cup rows]

-----------------------------------------------------------------------------
(* CreateInvite.                                                           *)

\* The count; expired invites that were not revoked count as well.
StartCreate(r, u) ==
  /\ Cardinality(Pending(u)) < Cap
  /\ Begin(r, "insert", u, NoId)
  /\ crossed' = IF \E q \in Requests : pc[q] = "insert" /\ job[q].who = u
                THEN crossed \cup {u} ELSE crossed

\* The time is taken between the count and the insert.
InsertInvite(r, i) ==
  /\ pc[r] = "insert" /\ invites[i].status = "unborn"
  /\ \E t \in job[r].at .. now :
       invites' = [invites EXCEPT ![i] =
                     [status |-> "pending", creator |-> job[r].who, expires |-> t + TTL,
                      by |-> NoUser, at |-> 0]]
  /\ End(r)
  /\ UNCHANGED <<now, friends, habits, challenges, told, gone, crossed, calls>>

-----------------------------------------------------------------------------
(* RevokeInvite.                                                           *)

StartRevoke(r, i) ==
  /\ invites[i].status = "pending"
  /\ Begin(r, "revoke", Creator(i), i)
  /\ UNCHANGED crossed

\* Faulty variant: the update does not ask whether the invite is still pending.
Revoked_Always(v) == [v EXCEPT !.status = "revoked"]

\* revokePendingInvite: an invite that was claimed meanwhile stays so, and the answer is the same.
Revoked(v) == IF v.status = "pending" THEN [v EXCEPT !.status = "revoked"] ELSE v

UpdateRevoked(r) ==
  /\ pc[r] = "revoke" /\ job[r].invite \notin LockedInvites(r)
  /\ invites' = [invites EXCEPT ![job[r].invite] = IF @.status = "deleted" THEN @ ELSE Revoked(@)]
  /\ End(r)
  /\ UNCHANGED <<now, friends, habits, challenges, told, gone, crossed, calls>>

-----------------------------------------------------------------------------
(* ClaimInvite.                                                            *)

\* Faulty variant: an invite is valid on the instant it expires.
Claimable_Late(v, u) == v.status = "pending" /\ v.expires >= now /\ v.creator # u

\* The switch after the lock.
Claimable(v, u) == v.status = "pending" /\ v.expires > now /\ v.creator # u

\* EffectiveInviteStatus, which the landing page shows.
Effective(v) == IF v.status = "pending" /\ v.expires <= now THEN "expired" ELSE v.status

\* findInviteByTokenForUpdate waits for the row; the time is taken once it is held.
StartClaim(r, u, i) ==
  /\ i \notin LockedInvites(r) /\ Claimable(invites[i], u)
  /\ Begin(r, "befriend", u, i)
  /\ UNCHANGED crossed

\* EnsureFriendship waits for whoever holds the rows.
Befriend(r) ==
  LET pair == Pair(Creator(job[r].invite), job[r].who)
  IN /\ pc[r] = "befriend" /\ pair \notin Locked(r, "friends")
     /\ Write(r, "friends", {pair})
     /\ Go(r, "habit")
     /\ UNCHANGED <<now, tables, job, crossed, calls>>

\* Rows are told apart by the request and the claim that made them.
RowId(r) == <<r, calls>>

HabitOf(r) == [id |-> RowId(r), invite |-> job[r].invite, owner |-> job[r].who]

\* Faulty variant: CreateHabit runs on the pool and not in the transaction of the claim.
CreateHabit_Pool(r) == habits' = habits \cup {HabitOf(r)} /\ writes' = writes

\* CreateHabit on the querier of the context.
CreateHabit(r) == Write(r, "habits", {HabitOf(r)}) /\ habits' = habits

MakeHabit(r) ==
  /\ pc[r] = "habit"
  /\ CreateHabit(r)
  /\ Go(r, "challenge")
  /\ UNCHANGED <<now, invites, friends, challenges, told, gone, job, crossed, calls>>

ChallengeOf(i, u, habit, at) ==
  [invite |-> i, from |-> Creator(i), to |-> u, habit |-> habit.id, ends |-> at + Period]

\* The habit is new, so the partial unique index holds no row of it.
InsertChallenge(r) ==
  /\ pc[r] = "challenge"
  /\ LET j == job[r]
     IN Write(r, "challenges", {ChallengeOf(j.invite, j.who, h, j.at) : h \in writes[r].habits})
  /\ Go(r, "mark")
  /\ UNCHANGED <<now, tables, job, crossed, calls>>

\* markInviteClaimed and the commit: everything the claim wrote appears at once.
MarkClaimed(r) ==
  /\ pc[r] = "mark" /\ invites[job[r].invite].status = "pending"
  /\ Go(r, "commit")
  /\ UNCHANGED <<now, tables, job, writes, crossed, calls>>

CommitClaim(r) ==
  /\ pc[r] = "commit"
  /\ invites' = [invites EXCEPT ![job[r].invite] =
                   [@ EXCEPT !.status = "claimed", !.by = job[r].who, !.at = job[r].at]]
  /\ friends' = friends \cup writes[r].friends
  /\ habits' = habits \cup writes[r].habits
  /\ challenges' = challenges \cup writes[r].challenges
  /\ Go(r, "notify") /\ writes' = [writes EXCEPT ![r] = Nothing]
  /\ UNCHANGED <<now, told, gone, job, crossed, calls>>

\* handleChallengeInviteClaimed, after the commit.
Notify(r) ==
  /\ pc[r] = "notify"
  /\ told' = told \cup {job[r].invite}
  /\ End(r)
  /\ UNCHANGED <<now, invites, friends, habits, challenges, gone, crossed, calls>>

-----------------------------------------------------------------------------
(* DeleteAccount: the handlers of UserDeleted in one transaction, in the   *)
(* order they are registered in (cmd/api/main.go).  Each statement deletes *)
(* what is committed when it begins and waits for the rows it deletes.     *)

StartDelete(r, u) ==
  /\ u \notin gone /\ \A q \in Requests : pc[q] \in Deleting => job[q].who # u
  /\ Begin(r, "dropHabits", u, NoId)
  /\ UNCHANGED crossed

Drop(r, from, field, rows, to) ==
  /\ pc[r] = from /\ rows \cap Locked(r, field) = {}
  /\ Write(r, field, rows)
  /\ Go(r, to)
  /\ UNCHANGED <<now, tables, job, crossed, calls>>

HabitsOf(u)     == {h \in habits : h.owner = u}
FriendsOf(u)    == {p \in friends : u \in p}
ChallengesOf(u) == {c \in challenges : u \in {c.from, c.to}}

DropHabits(r)  == Drop(r, "dropHabits", "habits", HabitsOf(job[r].who), "dropFriends")
DropFriends(r) == Drop(r, "dropFriends", "friends", FriendsOf(job[r].who), "dropChallenges")
DropChallenges(r) ==
  Drop(r, "dropChallenges", "challenges", ChallengesOf(job[r].who), "dropInvites")

\* deleteUserInvites, and the commit.
DropInvites(r) ==
  LET mine == {i \in Ids : Creator(i) = job[r].who}
  IN /\ pc[r] = "dropInvites" /\ mine \cap LockedInvites(r) = {}
     /\ invites' = [i \in Ids |-> IF i \in mine THEN Deleted ELSE invites[i]]
     /\ friends' = friends \ writes[r].friends
     /\ habits' = habits \ writes[r].habits
     /\ challenges' = challenges \ writes[r].challenges
     /\ gone' = gone \cup {job[r].who}
     /\ End(r)
     /\ UNCHANGED <<now, told, crossed, calls>>

-----------------------------------------------------------------------------
(* Failures and time.                                                      *)

\* r waits for a row that q has locked.
WaitsFor(r, q) ==
  /\ r # q
  /\ \/ /\ pc[r] = "befriend" /\ Pair(Creator(job[r].invite), job[r].who) \in writes[q].friends
     \/ /\ pc[r] = "dropFriends" /\ FriendsOf(job[r].who) \cap writes[q].friends # {}
     \/ /\ pc[r] = "dropChallenges" /\ ChallengesOf(job[r].who) \cap writes[q].challenges # {}
     \/ /\ pc[r] = "dropInvites" /\ pc[q] \in Claiming /\ Creator(job[q].invite) = job[r].who
     \/ /\ pc[r] = "revoke" /\ pc[q] \in Claiming /\ job[q].invite = job[r].invite

WaitCycle(S) == S # {} /\ \A r \in S : \E q \in S : WaitsFor(r, q)

\* An error of the database (a deadlock among them), a cancelled request or a crash: the open
\* transaction is rolled back.
Interrupt(r) ==
  /\ pc[r] # "idle"
  /\ End(r)
  /\ UNCHANGED <<now, tables, crossed, calls>>

Tick ==
  /\ now < MaxDay /\ now' = now + 1
  /\ UNCHANGED <<tables, pc, job, writes, crossed, calls>>

-----------------------------------------------------------------------------

Init ==
  /\ now = 0 /\ invites = [i \in Ids |-> NoRow]
  /\ friends \in SUBSET {Pair(u, v) : u, v \in Users} /\ \A p \in friends : Cardinality(p) = 2
  /\ habits = {} /\ challenges = {} /\ told = {} /\ gone = {}
  /\ pc = [r \in Requests |-> "idle"] /\ job = [r \in Requests |-> NoJob]
  /\ writes = [r \in Requests |-> Nothing] /\ crossed = {} /\ calls = 0

Arrive(r) ==
  \/ \E u \in Users : StartCreate(r, u) \/ StartDelete(r, u)
  \/ \E i \in Ids : StartRevoke(r, i) \/ \E u \in Users : StartClaim(r, u, i)

Step(r) ==
  \/ \E i \in Ids : InsertInvite(r, i)
  \/ UpdateRevoked(r)
  \/ Befriend(r) \/ MakeHabit(r) \/ InsertChallenge(r)
  \/ MarkClaimed(r) \/ CommitClaim(r) \/ Notify(r)
  \/ DropHabits(r) \/ DropFriends(r) \/ DropChallenges(r) \/ DropInvites(r)

Next == Tick \/ \E r \in Requests : Arrive(r) \/ Step(r) \/ Interrupt(r)

Spec == Init /\ [][Next]_vars

-----------------------------------------------------------------------------
(* Properties.                                                             *)

TypeOK ==
  /\ now \in 0 .. MaxDay /\ calls \in 0 .. MaxCalls
  /\ invites \in [Ids -> [status: {"unborn", "pending", "claimed", "revoked", "deleted"},
                         creator: Users \cup {NoUser}, by: Users \cup {NoUser},
                         expires: Nat, at: Nat]]
  /\ \A p \in friends : p \subseteq Users
  /\ told \subseteq Ids /\ gone \subseteq Users /\ crossed \subseteq Users
  /\ \A r \in Requests : job[r].who \in Users \cup {NoUser} /\ job[r].invite \in Ids \cup {NoId}

HabitsMade(i)     == {h \in habits : h.invite = i}
ChallengesMade(i) == {c \in challenges : c.invite = i}

\* "in ONE Postgres transaction" (invite_service.go:129): whoever claims an invite while others
\* claim or revoke it, whatever is interrupted and retried, an invite that is not claimed made
\* nothing, and a claimed one made one friendship, one habit of the claimer and one challenge
\* about it, in time.  Accounts that are being deleted take their rows away.
ClaimIsWhole ==
  \A i \in Ids : LET v == invites[i] IN
    /\ v.status \in {"unborn", "pending", "revoked"} =>
         i \notin told /\ HabitsMade(i) = {} /\ ChallengesMade(i) = {}
    /\ v.status = "claimed" /\ {v.creator, v.by} \cap gone = {} =>
         /\ v.by # v.creator /\ v.at < v.expires /\ Pair(v.creator, v.by) \in friends
         /\ \E h \in HabitsMade(i) :
              /\ h.owner = v.by /\ HabitsMade(i) = {h}
              /\ ChallengesMade(i) = {ChallengeOf(i, v.by, h, v.at)}

\* The landing page offers what a claim would take (invite_models.go:97, invite_service.go:161).
PageIsRight ==
  \A i \in Ids, u \in Users :
    Claimable(invites[i], u) <=> Effective(invites[i]) = "pending" /\ u # Creator(i)

\* "Maximum of 20 pending invites reached" (invite_service.go:26): creations that overlap may
\* pass it together, others may not.
CapHolds == \A u \in Users \ crossed : Cardinality(Pending(u)) <= Cap

\* Claims and revocations never wait for each other in a cycle; with the deletion of an account
\* a claim can, and one of the two is aborted.
OnlyDeletionsDeadlock ==
  \A S \in SUBSET Requests : WaitCycle(S) => \E r \in S : pc[r] \in Deleting
=============================================================================
