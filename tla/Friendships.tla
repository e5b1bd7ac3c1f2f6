----------------------------- MODULE Friendships ----------------------------
(***************************************************************************)
(* The friendships table of backend/internal/social and the requests that  *)
(* change it: send, accept, decline and remove, the friendship a challenge *)
(* invite's claim makes sure of, and the account-deletion cascade.         *)
(*                                                                         *)
(* A friendship is two rows, one per direction.  Each request runs at READ *)
(* COMMITTED: what it read may have changed by the time it writes.  The    *)
(* versions a transaction has not committed are in writes[r]; such a row   *)
(* is locked and the other requests wait for it.  A deleted row is NoRow.  *)
(***************************************************************************)
EXTENDS Integers, FiniteSets

CONSTANTS
  Users,      \* accounts
  Rank,       \* Rank[u]: the position of u in the order of UUIDs
  Requests,   \* requests that may be in flight at once
  Ops,        \* the operations clients use: a subset of AllOps
  MaxRows     \* bound on the row ids handed out

AllOps == {"send", "accept", "decline", "remove", "ensure", "delete"}

ASSUME FriendshipsAssumption ==
  /\ Rank \in [Users -> Nat]
  /\ \A u, v \in Users : Rank[u] = Rank[v] => u = v
  /\ Ops \subseteq AllOps
  /\ MaxRows \in Nat

VARIABLES
  accounts,   \* users whose account exists
  rows,       \* friendships, by direction <<user_id, friend_id>>
  minted,     \* row ids handed out
  pc,         \* per request: the next step of its handler
  who,        \* per request: the direction it works on
  seen,       \* per request: the row ids its read returned, by direction
  writes,     \* per request: uncommitted row versions, by direction
  willing     \* history: <<u, v>> when u asked for or agreed to v

reqVars == <<pc, who, seen, writes>>
vars    == <<accounts, rows, minted, reqVars, willing>>

Pairs == {p \in Users \X Users : p[1] # p[2]}
Rev(p) == <<p[2], p[1]>>
Both(p) == {p, Rev(p)}

NoRow  == [id |-> 0, status |-> "none"]
Row    == [id : 1 .. MaxRows, status : {"Pending", "Accepted"}]
NoOne  == <<>>
NoFun  == [p \in {} |-> 0]
Partial(S, T) == UNION {[D -> T] : D \in SUBSET S}
PCs    == {"idle", "send", "update", "reverse", "decline", "remove",
           "upsert1", "upsert2", "commit"}

Accepted(p) == rows[p].status = "Accepted"

\* Another transaction has an uncommitted version of this direction.
Locked(r, p) == \E q \in Requests \ {r} : p \in DOMAIN writes[q]

\* gen_random_uuid(), as the next number.
NewId == minted + 1
TakeId == minted < MaxRows /\ minted' = NewId

-----------------------------------------------------------------------------

Begin(r, step, p, ids) ==
  /\ pc[r] = "idle"
  /\ pc' = [pc EXCEPT ![r] = step]
  /\ who' = [who EXCEPT ![r] = p]
  /\ seen' = [seen EXCEPT ![r] = ids]
  /\ UNCHANGED writes

\* The handler ends its transaction and answers.
Answer(r) ==
  /\ pc' = [pc EXCEPT ![r] = "idle"]
  /\ who' = [who EXCEPT ![r] = NoOne]
  /\ seen' = [seen EXCEPT ![r] = NoFun]
  /\ writes' = [writes EXCEPT ![r] = NoFun]

\* A row version written inside r's transaction.
Write(r, p, row) ==
  writes' = [writes EXCEPT ![r] =
    [q \in DOMAIN @ \cup {p} |-> IF q = p THEN row ELSE @[q]]]

Go(r, step) ==
  /\ pc' = [pc EXCEPT ![r] = step]
  /\ UNCHANGED <<who, seen>>

-----------------------------------------------------------------------------
(* SendFriendRequest: look in both directions, then insert.                *)

\* Faulty variant: only the caller's own direction is looked up.
StartSend_OwnDirection(r, p) ==
  /\ "send" \in Ops
  /\ p[1] \in accounts
  /\ rows[p] = NoRow
  /\ Begin(r, "send", p, NoFun)
  /\ willing' = willing \cup {p}
  /\ UNCHANGED <<accounts, rows, minted>>

StartSend(r, p) ==
  /\ "send" \in Ops
  /\ p[1] \in accounts
  /\ \A q \in Both(p) : rows[q] = NoRow
  /\ Begin(r, "send", p, NoFun)
  /\ willing' = willing \cup {p}
  /\ UNCHANGED <<accounts, rows, minted>>

InsertRequest(r) ==
  /\ pc[r] = "send"
  /\ LET p == who[r]
     IN  /\ ~Locked(r, p)
         /\ \/ /\ rows[p] = NoRow
               /\ TakeId
               /\ rows' = [rows EXCEPT ![p] = [id |-> NewId, status |-> "Pending"]]
            \/ /\ rows[p] # NoRow          \* 409, the unique index
               /\ UNCHANGED <<rows, minted>>
  /\ Answer(r)
  /\ UNCHANGED <<accounts, willing>>

-----------------------------------------------------------------------------
(* AcceptFriendRequest: one transaction.                                   *)

\* findPendingRequestForRecipient: the caller is the request's recipient.
MayAnswer_Anyone(u, p) == rows[p].status = "Pending"

MayAnswer(u, p) == rows[p].status = "Pending" /\ p[2] = u

StartAccept(r, u, p) ==
  /\ "accept" \in Ops
  /\ u \in accounts
  /\ MayAnswer(u, p)
  /\ Begin(r, "update", p, [q \in {p} |-> rows[q].id])
  /\ willing' = willing \cup {<<u, IF u = p[1] THEN p[2] ELSE p[1]>>}
  /\ UNCHANGED <<accounts, rows, minted>>

\* Faulty variant: the forward row is updated in a transaction of its own.
UpdateAccepted_OwnTransaction(r) ==
  /\ pc[r] = "update"
  /\ rows[who[r]].id = seen[r][who[r]]
  /\ rows' = [rows EXCEPT ![who[r]].status = "Accepted"]
  /\ Go(r, "reverse")
  /\ UNCHANGED <<writes, accounts, minted, willing>>

\* acceptFriendship updates by id, whatever the status is by then; when the row
\* is gone RETURNING yields nothing and the handler fails with a 500.
UpdateAccepted(r) ==
  /\ pc[r] = "update"
  /\ LET p == who[r]
     IN  /\ ~Locked(r, p)
         /\ \/ /\ rows[p].id = seen[r][p]
               /\ Write(r, p, [rows[p] EXCEPT !.status = "Accepted"])
               /\ Go(r, "reverse")
            \/ /\ rows[p].id # seen[r][p]
               /\ Answer(r)
  /\ UNCHANGED <<accounts, rows, minted, willing>>

\* Faulty variant: the recipient is inserted on both sides of the reverse row.
InsertReverse_Self(r) ==
  /\ pc[r] = "reverse"
  /\ TakeId
  /\ Write(r, <<who[r][2], who[r][2]>>, [id |-> NewId, status |-> "Accepted"])
  /\ Go(r, "commit")
  /\ UNCHANGED <<accounts, rows, willing>>

\* The reverse row; a row already there is a lost race and a 404.
InsertReverse(r) ==
  /\ pc[r] = "reverse"
  /\ LET p == Rev(who[r])
     IN  /\ ~Locked(r, p)
         /\ \/ /\ rows[p] = NoRow
               /\ TakeId
               /\ Write(r, p, [id |-> NewId, status |-> "Accepted"])
               /\ Go(r, "commit")
            \/ /\ rows[p] # NoRow
               /\ Answer(r)
               /\ UNCHANGED minted
  /\ UNCHANGED <<accounts, rows, willing>>

-----------------------------------------------------------------------------
(* DeclineFriendRequest: read, then delete by id; RemoveFriend: one DELETE *)
(* of both directions, which locks and deletes row by row what its         *)
(* statement snapshot showed.                                              *)

StartDecline(r, u, p) ==
  /\ "decline" \in Ops
  /\ u \in accounts
  /\ MayAnswer(u, p)
  /\ Begin(r, "decline", p, [q \in {p} |-> rows[q].id])
  /\ UNCHANGED <<accounts, rows, minted, willing>>

DeleteDeclined(r) ==
  /\ pc[r] = "decline"
  /\ LET p == who[r]
     IN  /\ ~Locked(r, p)
         /\ rows' = IF rows[p].id = seen[r][p] THEN [rows EXCEPT ![p] = NoRow] ELSE rows
  /\ Answer(r)
  /\ UNCHANGED <<accounts, minted, willing>>

\* Faulty variant: only the caller's own direction is deleted.
StartRemove_OneDirection(r, p) ==
  /\ "remove" \in Ops
  /\ p[1] \in accounts
  /\ rows[p] # NoRow
  /\ Begin(r, "remove", p, [q \in {p} |-> rows[q].id])
  /\ UNCHANGED <<accounts, rows, minted, willing>>

StartRemove(r, p) ==
  /\ "remove" \in Ops
  /\ p[1] \in accounts
  /\ LET hits == {q \in Both(p) : rows[q] # NoRow}
     IN  /\ hits # {}
         /\ Begin(r, "remove", p, [q \in hits |-> rows[q].id])
  /\ UNCHANGED <<accounts, rows, minted, willing>>

DeleteOne(r, p) ==
  /\ pc[r] = "remove"
  /\ p \in DOMAIN seen[r]
  /\ ~Locked(r, p)
  /\ IF rows[p].id = seen[r][p] THEN Write(r, p, NoRow) ELSE UNCHANGED writes
  /\ seen' = [seen EXCEPT ![r] = [q \in DOMAIN @ \ {p} |-> @[q]]]
  /\ pc' = [pc EXCEPT ![r] = IF DOMAIN seen[r] = {p} THEN "commit" ELSE @]
  /\ UNCHANGED <<who, accounts, rows, minted, willing>>

-----------------------------------------------------------------------------
(* EnsureFriendship, inside the claim transaction of an invite.            *)

\* Faulty variant: rows are locked in the order creator, claimer.
LockOrder_AsGiven(p) == p

\* Always (min, max) before (max, min).
LockOrder(p) == IF Rank[p[1]] <= Rank[p[2]] THEN p ELSE Rev(p)

StartEnsure(r, p) ==
  /\ "ensure" \in Ops
  /\ p[1] \in accounts /\ p[2] \in accounts
  /\ Begin(r, "upsert1", LockOrder(p), NoFun)
  /\ willing' = willing \cup Both(p)
  /\ UNCHANGED <<accounts, rows, minted>>

\* INSERT ... ON CONFLICT DO UPDATE SET status = 'Accepted'.
Upsert(r, p, next) ==
  /\ ~Locked(r, p)
  /\ \/ /\ rows[p] = NoRow
        /\ TakeId
        /\ Write(r, p, [id |-> NewId, status |-> "Accepted"])
     \/ /\ rows[p] # NoRow
        /\ Write(r, p, [rows[p] EXCEPT !.status = "Accepted"])
        /\ UNCHANGED minted
  /\ Go(r, next)
  /\ UNCHANGED <<accounts, rows, willing>>

UpsertFirst(r)  == pc[r] = "upsert1" /\ Upsert(r, who[r], "upsert2")
UpsertSecond(r) == pc[r] = "upsert2" /\ Upsert(r, Rev(who[r]), "commit")

-----------------------------------------------------------------------------

Commit(r) ==
  /\ pc[r] = "commit"
  /\ rows' = [p \in Pairs |-> IF p \in DOMAIN writes[r] THEN writes[r][p] ELSE rows[p]]
  /\ Answer(r)
  /\ UNCHANGED <<accounts, minted, willing>>

\* The directions r's next statement cannot do without.
Wants(r) ==
  CASE pc[r] \in {"send", "update", "decline", "upsert1"} -> {who[r]}
    [] pc[r] \in {"reverse", "upsert2"} -> {Rev(who[r])}
    [] pc[r] = "remove" -> DOMAIN seen[r]
    [] OTHER -> {}

WaitsFor(r, q) == r # q /\ Wants(r) \cap DOMAIN writes[q] # {}

\* Every member of S waits for a member of S.
WaitCycle(S) == S # {} /\ \A r \in S : \E q \in S : WaitsFor(r, q)

\* PostgreSQL's deadlock detector aborts a transaction of the cycle: a 500.
DeadlockAbort(r) ==
  /\ \E S \in SUBSET Requests : r \in S /\ WaitCycle(S)
  /\ Answer(r)
  /\ UNCHANGED <<accounts, rows, minted, willing>>

\* The client goes away or the process stops: the open transaction is lost.
Interrupt(r) ==
  /\ pc[r] # "idle"
  /\ Answer(r)
  /\ UNCHANGED <<accounts, rows, minted, willing>>

\* deleteFriendshipsForUser, inside the account-deletion transaction.
DeleteAccount(u) ==
  /\ "delete" \in Ops
  /\ u \in accounts
  /\ LET mine == {p \in Pairs : u \in {p[1], p[2]}}
     IN  /\ \A p \in mine, q \in Requests : p \notin DOMAIN writes[q]
         /\ rows' = [p \in Pairs |-> IF p \in mine THEN NoRow ELSE rows[p]]
  /\ accounts' = accounts \ {u}
  /\ UNCHANGED <<minted, reqVars, willing>>

Init ==
  /\ accounts = Users
  /\ rows = [p \in Pairs |-> NoRow]
  /\ minted = 0
  /\ pc = [r \in Requests |-> "idle"] /\ who = [r \in Requests |-> NoOne]
  /\ seen = [r \in Requests |-> NoFun] /\ writes = [r \in Requests |-> NoFun]
  /\ willing = {}

Arrive(r) ==
  \E p \in Pairs :
    \/ StartSend(r, p) \/ StartRemove(r, p) \/ StartEnsure(r, p)
    \/ \E u \in Users : StartAccept(r, u, p) \/ StartDecline(r, u, p)

Step(r) ==
  \/ InsertRequest(r) \/ UpdateAccepted(r) \/ InsertReverse(r) \/ DeleteDeclined(r)
  \/ UpsertFirst(r) \/ UpsertSecond(r) \/ Commit(r) \/ DeadlockAbort(r)
  \/ \E p \in Pairs : DeleteOne(r, p)

Next ==
  \/ \E r \in Requests : Arrive(r) \/ Step(r) \/ Interrupt(r)
  \/ \E u \in Users : DeleteAccount(u)

Spec == Init /\ [][Next]_vars

-----------------------------------------------------------------------------
(* Properties.                                                             *)

TypeOK ==
  /\ accounts \subseteq Users /\ willing \subseteq Pairs
  /\ rows \in [Pairs -> Row \cup {NoRow}]
  /\ minted \in 0 .. MaxRows
  /\ pc \in [Requests -> PCs]
  /\ who \in [Requests -> Pairs \cup {NoOne}]
  /\ seen \in [Requests -> Partial(Pairs, 1 .. MaxRows)]
  /\ writes \in [Requests -> Partial(Pairs, Row \cup {NoRow})]

\* crossmodule.go:35-37: friendship is symmetric, so checking one direction is
\* enough for AreFriends, FriendIDs and every visibility decision.
Symmetric == \A p \in Pairs : Accepted(p) => Accepted(Rev(p))

\* A friendship opens friends-only habits, so it needs both users' will: each
\* of the two asked for it, accepted it, or made or claimed an invite.
BothWilling == \A p \in Pairs : Accepted(p) => Both(p) \subseteq willing

\* crossmodule.go:51-55: claims lock the two rows in one order and never wait
\* for each other in a cycle.
ClaimsNeverDeadlock ==
  \A S \in SUBSET Requests :
    (\A r \in S : pc[r] \in {"upsert1", "upsert2", "commit"}) => ~WaitCycle(S)

\* service.go:110-111: no request beside one in the other direction; the unique
\* index covers one direction only, so this rests on the look-up.
NoCrossedRequests == \A p \in Pairs : rows[p].status = "Pending" => rows[Rev(p)] = NoRow

\* A friendship begins in both directions in one step, whatever the request that
\* begins it races with: accept's comment (service.go:161-165) rules out an
\* asymmetric friendship after an interruption.
BeginsMutual ==
  [][\A p \in Pairs : ~Accepted(p) /\ Accepted(p)' => Accepted(Rev(p))']_vars
=============================================================================
