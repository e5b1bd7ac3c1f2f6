------------------------- MODULE FriendshipsProofs -------------------------
(***************************************************************************)
(* Theorems of Friendships, for any users, any number of requests in       *)
(* flight and any bound on the rows: the types, that a friendship is       *)
(* wanted by both, that invite claims never wait for each other in a       *)
(* cycle, that a friendship begins in both directions at once, and that it *)
(* stays symmetric as long as nobody declines or removes; and, with the    *)
(* history variable of MCFriendships, that as long as requests do not      *)
(* overlap it stays symmetric whatever they do.                            *)
(***************************************************************************)
EXTENDS MCFriendships, TLAPS

-----------------------------------------------------------------------------
(* Partial functions and directions.                                       *)

LEMMA PartialElim ==
  ASSUME NEW S, NEW T, NEW f \in Partial(S, T)
  PROVE  f \in [DOMAIN f -> T] /\ DOMAIN f \subseteq S
BY DEF Partial

LEMMA PartialIntro ==
  ASSUME NEW S, NEW T, NEW D \in SUBSET S, NEW f \in [D -> T]
  PROVE  f \in Partial(S, T)
BY DEF Partial

LEMMA NoFunPartial == ASSUME NEW S, NEW T PROVE NoFun \in Partial(S, T)
<1>1. NoFun \in [{} -> T]
  BY DEF NoFun
<1> QED
  BY <1>1, PartialIntro

LEMMA Directions ==
  ASSUME NEW p \in Pairs
  PROVE  /\ Rev(p) \in Pairs /\ Rev(Rev(p)) = p /\ Rev(p) # p
         /\ Both(p) \subseteq Pairs /\ Both(Rev(p)) = Both(p)
         /\ p[1] \in Users /\ p[2] \in Users /\ p = <<p[1], p[2]>> /\ p # NoOne
         /\ \A u : u \in {p[1], p[2]} <=> u \in {Rev(p)[1], Rev(p)[2]}
BY DEF Pairs, Rev, Both, NoOne

-----------------------------------------------------------------------------
(* What a request holds at each step: the invariant behind all the rest.   *)

Running(r) == pc[r] # "idle"

PhaseOK(r) ==
  /\ Running(r) => who[r] \in Pairs
  /\ pc[r] \in {"update", "decline"} => DOMAIN seen[r] = {who[r]}
  /\ pc[r] \in {"idle", "send", "update", "decline", "upsert1"}
       => DOMAIN writes[r] = {}
  /\ pc[r] \in {"reverse", "upsert2"} => DOMAIN writes[r] = {who[r]}
  /\ pc[r] \in {"upsert1", "upsert2"} => Rank[who[r][1]] <= Rank[who[r][2]]

TypeInv == TypeOK /\ \A r \in Requests : PhaseOK(r)

LEMMA InitTypeInv == Init => TypeInv
<1> SUFFICES ASSUME Init PROVE TypeInv
  OBVIOUS
<1>1. NoFun \in Partial(Pairs, 1 .. MaxRows) /\ NoFun \in Partial(Pairs, Row \cup {NoRow})
  BY NoFunPartial
<1>2. DOMAIN NoFun = {}
  BY DEF NoFun
<1> QED
  BY <1>1, <1>2, FriendshipsAssumption DEF Init, TypeInv, TypeOK, PhaseOK, Running, PCs

\* What ending a handler leaves behind, whatever came before.
LEMMA AnswerTypeInv ==
  ASSUME TypeInv, NEW r \in Requests, Answer(r)
  PROVE  /\ pc' \in [Requests -> PCs]
         /\ who' \in [Requests -> Pairs \cup {NoOne}]
         /\ seen' \in [Requests -> Partial(Pairs, 1 .. MaxRows)]
         /\ writes' \in [Requests -> Partial(Pairs, Row \cup {NoRow})]
         /\ \A q \in Requests : PhaseOK(q)'
<1>1. NoFun \in Partial(Pairs, 1 .. MaxRows) /\ NoFun \in Partial(Pairs, Row \cup {NoRow})
  BY NoFunPartial
<1>2. DOMAIN NoFun = {}
  BY DEF NoFun
<1> QED
  BY <1>1, <1>2 DEF TypeInv, TypeOK, PhaseOK, Running, PCs, Answer

\* A row version written by r keeps the types, and adds p to what r holds.
LEMMA WriteTypes ==
  ASSUME TypeInv, NEW r \in Requests, NEW p \in Pairs,
         NEW row \in Row \cup {NoRow}, Write(r, p, row)
  PROVE  /\ writes' \in [Requests -> Partial(Pairs, Row \cup {NoRow})]
         /\ DOMAIN writes'[r] = DOMAIN writes[r] \cup {p}
         /\ writes'[r][p] = row
         /\ \A q \in DOMAIN writes[r] \ {p} : writes'[r][q] = writes[r][q]
         /\ \A q \in Requests \ {r} : writes'[q] = writes[q]
<1> DEFINE D == DOMAIN writes[r] \cup {p}
           f == [q \in D |-> IF q = p THEN row ELSE writes[r][q]]
<1>1. writes \in [Requests -> Partial(Pairs, Row \cup {NoRow})]
  BY DEF TypeInv, TypeOK
<1>2. writes[r] \in [DOMAIN writes[r] -> Row \cup {NoRow}] /\ DOMAIN writes[r] \subseteq Pairs
  BY <1>1, PartialElim
<1>3. writes' = [writes EXCEPT ![r] = f]
  BY DEF Write
<1>4. f \in [D -> Row \cup {NoRow}] /\ D \in SUBSET Pairs
  BY <1>2
<1>5. f \in Partial(Pairs, Row \cup {NoRow})
  BY <1>4, PartialIntro
<1> QED
  BY <1>1, <1>3, <1>5

\* A request that begins keeps the types.
LEMMA BeginTypeInv ==
  ASSUME TypeInv, NEW r \in Requests, NEW p \in Pairs,
         NEW step \in {"send", "update", "decline", "remove", "upsert1"},
         NEW ids \in Partial(Pairs, 1 .. MaxRows),
         Begin(r, step, p, ids),
         step \in {"update", "decline"} => DOMAIN ids = {p},
         step = "upsert1" => Rank[p[1]] <= Rank[p[2]],
         UNCHANGED <<accounts, rows, minted>>, willing' \subseteq Pairs
  PROVE  TypeInv'
BY DEF TypeInv, TypeOK, PhaseOK, Running, PCs, Begin, Row

\* The ids a statement read: every row there has one.
LEMMA SeenIds ==
  ASSUME TypeInv, NEW D \in SUBSET Pairs, \A q \in D : rows[q] # NoRow
  PROVE  [q \in D |-> rows[q].id] \in Partial(Pairs, 1 .. MaxRows)
<1>1. \A q \in D : rows[q].id \in 1 .. MaxRows
  BY DEF TypeInv, TypeOK, Row
<1>2. [q \in D |-> rows[q].id] \in [D -> 1 .. MaxRows]
  BY <1>1
<1> QED
  BY <1>2, PartialIntro

LEMMA ArriveTypeInv ==
  ASSUME TypeInv, NEW r \in Requests, Arrive(r)
  PROVE  TypeInv'
<1>1. willing \subseteq Pairs
  BY DEF TypeInv, TypeOK
<1>2. NoFun \in Partial(Pairs, 1 .. MaxRows)
  BY NoFunPartial
<1>3. PICK p \in Pairs : \/ StartSend(r, p) \/ StartRemove(r, p) \/ StartEnsure(r, p)
                         \/ \E u \in Users : StartAccept(r, u, p) \/ StartDecline(r, u, p)
  BY DEF Arrive
<1>4. CASE StartSend(r, p)
  <2>1. Begin(r, "send", p, NoFun) /\ willing' = willing \cup {p}
        /\ UNCHANGED <<accounts, rows, minted>>
    BY <1>4 DEF StartSend
  <2> QED
    BY <1>1, <1>2, <2>1, BeginTypeInv
<1>5. CASE StartRemove(r, p)
  <2> DEFINE hits == {q \in Both(p) : rows[q] # NoRow}
             ids  == [q \in hits |-> rows[q].id]
  <2>1. Begin(r, "remove", p, ids) /\ UNCHANGED <<accounts, rows, minted, willing>>
    BY <1>5 DEF StartRemove
  <2>2. hits \in SUBSET Pairs
    BY Directions
  <2>3. ids \in Partial(Pairs, 1 .. MaxRows)
    BY <2>2, SeenIds
  <2> HIDE DEF ids
  <2> QED
    BY <1>1, <2>1, <2>3, BeginTypeInv
<1>6. CASE StartEnsure(r, p)
  <2>1. /\ Begin(r, "upsert1", LockOrder(p), NoFun)
        /\ willing' = willing \cup Both(p) /\ UNCHANGED <<accounts, rows, minted>>
    BY <1>6 DEF StartEnsure
  <2>2. LockOrder(p) \in Pairs /\ Rank[LockOrder(p)[1]] <= Rank[LockOrder(p)[2]]
    BY FriendshipsAssumption DEF LockOrder, Rev, Pairs
  <2>3. willing' \subseteq Pairs
    BY <1>1, <2>1, Directions
  <2> QED
    BY <1>2, <2>1, <2>2, <2>3, BeginTypeInv
<1>7. ASSUME NEW u \in Users, StartAccept(r, u, p) \/ StartDecline(r, u, p)
      PROVE  TypeInv'
  <2> DEFINE ids == [q \in {p} |-> rows[q].id]
  <2>1. /\ Begin(r, "update", p, ids) \/ Begin(r, "decline", p, ids)
        /\ UNCHANGED <<accounts, rows, minted>>
        /\ willing' \subseteq willing \cup {<<u, IF u = p[1] THEN p[2] ELSE p[1]>>}
        /\ MayAnswer(u, p)
    BY <1>7 DEF StartAccept, StartDecline
  <2>2. rows[p] # NoRow /\ u = p[2]
    BY <2>1 DEF MayAnswer, NoRow
  <2>3. ids \in Partial(Pairs, 1 .. MaxRows) /\ DOMAIN ids = {p}
    BY <2>2, SeenIds
  <2>4. willing' \subseteq Pairs
    BY <1>1, <2>1, <2>2 DEF Pairs
  <2> HIDE DEF ids
  <2> QED
    BY <2>1, <2>3, <2>4, BeginTypeInv
<1> QED
  BY <1>3, <1>4, <1>5, <1>6, <1>7

\* A handler that ends, having done to the table what the types allow.
LEMMA EndTypeInv ==
  ASSUME TypeInv, NEW r \in Requests, Answer(r),
         rows' \in [Pairs -> Row \cup {NoRow}], minted' \in 0 .. MaxRows,
         UNCHANGED <<accounts, willing>>
  PROVE  TypeInv'
BY AnswerTypeInv DEF TypeInv, TypeOK

\* A row version written on the way: r goes on to a step that holds p too.
LEMMA GoTypeInv ==
  ASSUME TypeInv, NEW r \in Requests, NEW p \in Pairs, NEW row \in Row \cup {NoRow},
         Write(r, p, row), NEW step \in {"reverse", "upsert2", "commit"}, Go(r, step),
         Running(r),
         step \in {"reverse", "upsert2"} => p = who[r] /\ DOMAIN writes[r] = {},
         step = "upsert2" => Rank[who[r][1]] <= Rank[who[r][2]],
         minted' \in 0 .. MaxRows, UNCHANGED <<accounts, rows, willing>>
  PROVE  TypeInv'
<1>1. TypeOK'
  BY WriteTypes DEF TypeInv, TypeOK, Go, PCs
<1>2. ASSUME NEW q \in Requests PROVE PhaseOK(q)'
  <2>1. UNCHANGED <<who, seen>> /\ pc' = [pc EXCEPT ![r] = step] /\ pc \in [Requests -> PCs]
    BY DEF Go, TypeInv, TypeOK
  <2>2. CASE q = r
    <3>1. DOMAIN writes'[r] = DOMAIN writes[r] \cup {p} /\ pc'[r] = step
      BY <2>1, WriteTypes
    <3> QED
      BY <2>1, <2>2, <3>1 DEF TypeInv, PhaseOK, Running
  <2>3. CASE q # r
    <3>1. writes'[q] = writes[q] /\ pc'[q] = pc[q]
      BY <2>1, <2>3, WriteTypes
    <3> QED
      BY <2>1, <2>3, <3>1 DEF TypeInv, PhaseOK, Running
  <2> QED
    BY <2>2, <2>3
<1> QED
  BY <1>1, <1>2 DEF TypeInv

LEMMA TakeIdTypes ==
  ASSUME TypeInv, TakeId
  PROVE  /\ minted' \in 0 .. MaxRows
         /\ \A s \in {"Pending", "Accepted"} : [id |-> NewId, status |-> s] \in Row
BY FriendshipsAssumption DEF TypeInv, TypeOK, TakeId, NewId, Row

LEMMA UpsertTypeInv ==
  ASSUME TypeInv, NEW r \in Requests, NEW p \in Pairs,
         NEW next \in {"upsert2", "commit"}, Upsert(r, p, next), Running(r),
         next = "upsert2" => /\ p = who[r] /\ DOMAIN writes[r] = {}
                             /\ Rank[who[r][1]] <= Rank[who[r][2]]
  PROVE  TypeInv'
<1>1. Go(r, next) /\ UNCHANGED <<accounts, rows, willing>>
  BY DEF Upsert
<1>2. CASE TakeId /\ Write(r, p, [id |-> NewId, status |-> "Accepted"])
  BY <1>1, <1>2, TakeIdTypes, GoTypeInv
<1>3. CASE /\ rows[p] # NoRow /\ UNCHANGED minted
           /\ Write(r, p, [rows[p] EXCEPT !.status = "Accepted"])
  <2>1. [rows[p] EXCEPT !.status = "Accepted"] \in Row /\ minted' \in 0 .. MaxRows
    BY <1>3 DEF TypeInv, TypeOK, Row
  <2> QED
    BY <1>1, <1>3, <2>1, GoTypeInv
<1> QED
  BY <1>2, <1>3 DEF Upsert

LEMMA DeleteOneTypeInv ==
  ASSUME TypeInv, NEW r \in Requests, NEW p \in Pairs, DeleteOne(r, p)
  PROVE  TypeInv'
<1> DEFINE rest == DOMAIN seen[r] \ {p}
           f == [q \in rest |-> seen[r][q]]
<1>1. seen[r] \in [DOMAIN seen[r] -> 1 .. MaxRows] /\ DOMAIN seen[r] \subseteq Pairs
  BY PartialElim DEF TypeInv, TypeOK
<1>2. f \in [rest -> 1 .. MaxRows] /\ rest \in SUBSET Pairs
  BY <1>1
<1>3. f \in Partial(Pairs, 1 .. MaxRows)
  BY <1>2, PartialIntro
<1>4. seen' = [seen EXCEPT ![r] = f]
  BY DEF DeleteOne
<1>5. writes' \in [Requests -> Partial(Pairs, Row \cup {NoRow})]
  <2>1. CASE Write(r, p, NoRow)
    BY <2>1, WriteTypes
  <2>2. CASE UNCHANGED writes
    BY <2>2 DEF TypeInv, TypeOK
  <2> QED
    BY <2>1, <2>2 DEF DeleteOne
<1>6. TypeOK'
  BY <1>3, <1>4, <1>5 DEF TypeInv, TypeOK, DeleteOne, PCs
<1>7. ASSUME NEW q \in Requests PROVE PhaseOK(q)'
  <2>1. CASE q = r
    BY <2>1 DEF TypeInv, TypeOK, PhaseOK, Running, DeleteOne
  <2>2. CASE q # r
    <3>1. writes'[q] = writes[q]
      BY <2>2 DEF TypeInv, TypeOK, DeleteOne, Write
    <3>2. pc'[q] = pc[q] /\ seen'[q] = seen[q] /\ who'[q] = who[q]
      BY <2>2 DEF TypeInv, TypeOK, DeleteOne
    <3> QED
      BY <3>1, <3>2 DEF TypeInv, PhaseOK, Running
  <2> QED
    BY <2>1, <2>2
<1> QED
  BY <1>6, <1>7 DEF TypeInv

LEMMA StepTypeInv ==
  ASSUME TypeInv, NEW r \in Requests, Step(r)
  PROVE  TypeInv'
<1> USE DEF TypeInv
<1>1. CASE InsertRequest(r)
  <2>1. Running(r) /\ who[r] \in Pairs
    BY <1>1 DEF InsertRequest, Running, PhaseOK
  <2>2. rows' \in [Pairs -> Row \cup {NoRow}] /\ minted' \in 0 .. MaxRows
    BY <1>1, <2>1, TakeIdTypes DEF InsertRequest, TypeOK
  <2> QED
    BY <1>1, <2>2, EndTypeInv DEF InsertRequest
<1>2. CASE UpdateAccepted(r)
  <2>1. who[r] \in Pairs /\ DOMAIN seen[r] = {who[r]} /\ DOMAIN writes[r] = {} /\ Running(r)
    BY <1>2 DEF UpdateAccepted, Running, PhaseOK
  <2>2. minted' \in 0 .. MaxRows /\ rows' \in [Pairs -> Row \cup {NoRow}]
    BY <1>2 DEF UpdateAccepted, TypeOK
  <2>3. CASE /\ rows[who[r]].id = seen[r][who[r]] /\ Go(r, "reverse")
             /\ Write(r, who[r], [rows[who[r]] EXCEPT !.status = "Accepted"])
    <3>1. seen[r][who[r]] \in 1 .. MaxRows
      <4>1. seen[r] \in [DOMAIN seen[r] -> 1 .. MaxRows]
        BY PartialElim DEF TypeOK
      <4> QED
        BY <2>1, <4>1
    <3>2. [rows[who[r]] EXCEPT !.status = "Accepted"] \in Row
      BY <2>1, <2>3, <3>1 DEF TypeOK, Row, NoRow
    <3> QED
      BY <1>2, <2>1, <2>2, <2>3, <3>2, GoTypeInv DEF UpdateAccepted
  <2>4. CASE Answer(r)
    BY <1>2, <2>2, <2>4, EndTypeInv DEF UpdateAccepted
  <2> QED
    BY <1>2, <2>3, <2>4 DEF UpdateAccepted
<1>3. CASE InsertReverse(r)
  <2>1. who[r] \in Pairs /\ Running(r)
    BY <1>3 DEF InsertReverse, Running, PhaseOK
  <2>2. Rev(who[r]) \in Pairs
    BY <2>1, Directions
  <2>3. CASE /\ TakeId /\ Go(r, "commit")
             /\ Write(r, Rev(who[r]), [id |-> NewId, status |-> "Accepted"])
    BY <1>3, <2>1, <2>2, <2>3, TakeIdTypes, GoTypeInv DEF InsertReverse
  <2>4. CASE Answer(r) /\ UNCHANGED minted
    <3>1. minted' \in 0 .. MaxRows /\ rows' \in [Pairs -> Row \cup {NoRow}]
      BY <1>3, <2>4 DEF InsertReverse, TypeOK
    <3> QED
      BY <1>3, <2>4, <3>1, EndTypeInv DEF InsertReverse
  <2> QED
    BY <1>3, <2>3, <2>4 DEF InsertReverse
<1>4. CASE DeleteDeclined(r)
  <2>1. rows' \in [Pairs -> Row \cup {NoRow}] /\ minted' \in 0 .. MaxRows
    BY <1>4 DEF DeleteDeclined, TypeOK
  <2> QED
    BY <1>4, <2>1, EndTypeInv DEF DeleteDeclined
<1>5. CASE UpsertFirst(r)
  <2>1. /\ who[r] \in Pairs /\ DOMAIN writes[r] = {} /\ Running(r)
        /\ Rank[who[r][1]] <= Rank[who[r][2]]
    BY <1>5 DEF UpsertFirst, Running, PhaseOK
  <2> QED
    BY <1>5, <2>1, UpsertTypeInv DEF UpsertFirst
<1>6. CASE UpsertSecond(r)
  <2>1. who[r] \in Pairs /\ Running(r)
    BY <1>6 DEF UpsertSecond, Running, PhaseOK
  <2>2. Rev(who[r]) \in Pairs
    BY <2>1, Directions
  <2> QED
    BY <1>6, <2>1, <2>2, UpsertTypeInv DEF UpsertSecond
<1>7. CASE Commit(r)
  <2>1. \A p \in DOMAIN writes[r] : writes[r][p] \in Row \cup {NoRow}
    BY PartialElim DEF TypeOK
  <2>2. rows' \in [Pairs -> Row \cup {NoRow}] /\ minted' \in 0 .. MaxRows
    BY <1>7, <2>1 DEF Commit, TypeOK
  <2> QED
    BY <1>7, <2>2, EndTypeInv DEF Commit
<1>8. CASE DeadlockAbort(r)
  <2>1. rows' \in [Pairs -> Row \cup {NoRow}] /\ minted' \in 0 .. MaxRows
    BY <1>8 DEF DeadlockAbort, TypeOK
  <2> QED
    BY <1>8, <2>1, EndTypeInv DEF DeadlockAbort
<1>9. CASE \E p \in Pairs : DeleteOne(r, p)
  BY <1>9, DeleteOneTypeInv
<1> QED
  BY <1>1, <1>2, <1>3, <1>4, <1>5, <1>6, <1>7, <1>8, <1>9 DEF Step

LEMMA NextTypeInv == TypeInv /\ [Next]_vars => TypeInv'
<1> SUFFICES ASSUME TypeInv, [Next]_vars PROVE TypeInv'
  OBVIOUS
<1>1. ASSUME NEW r \in Requests, Arrive(r) PROVE TypeInv'
  BY <1>1, ArriveTypeInv
<1>2. ASSUME NEW r \in Requests, Step(r) PROVE TypeInv'
  BY <1>2, StepTypeInv
<1>3. ASSUME NEW r \in Requests, Interrupt(r) PROVE TypeInv'
  <2>1. rows' \in [Pairs -> Row \cup {NoRow}] /\ minted' \in 0 .. MaxRows
    BY <1>3 DEF Interrupt, TypeInv, TypeOK
  <2> QED
    BY <1>3, <2>1, EndTypeInv DEF Interrupt
<1>4. ASSUME NEW u \in Users, DeleteAccount(u) PROVE TypeInv'
  BY <1>4 DEF DeleteAccount, TypeInv, TypeOK, PhaseOK, Running, reqVars
<1>5. CASE UNCHANGED vars
  BY <1>5 DEF vars, reqVars, TypeInv, TypeOK, PhaseOK, Running
<1> QED
  BY <1>1, <1>2, <1>3, <1>4, <1>5 DEF Next

\* Every variable keeps the shape the handlers give it, for any number of
\* users and requests.
THEOREM TypeCorrect == Spec => []TypeOK
<1>1. TypeInv => TypeOK
  BY DEF TypeInv
<1> QED
  BY <1>1, InitTypeInv, NextTypeInv, PTL DEF Spec

-----------------------------------------------------------------------------
(* Claims: a claim that waits for its second row holds its first.          *)

\* crossmodule.go:51-55: for any number of claims in flight, no set of them
\* waits in a cycle, because each locks (min, max) before (max, min).
LEMMA NoClaimCycle == TypeInv => ClaimsNeverDeadlock
<1> SUFFICES ASSUME TypeInv, NEW S \in SUBSET Requests,
                    \A r \in S : pc[r] \in {"upsert1", "upsert2", "commit"},
                    WaitCycle(S)
             PROVE  FALSE
  BY DEF ClaimsNeverDeadlock
<1>1. ASSUME NEW r \in S
      PROVE  /\ pc[r] # "commit" /\ who[r] \in Pairs
             /\ Rank[who[r][1]] <= Rank[who[r][2]]
  <2>1. PICK q \in S : Wants(r) \cap DOMAIN writes[q] # {}
    BY DEF WaitCycle, WaitsFor
  <2>2. pc[r] # "commit"
    BY <2>1 DEF Wants
  <2> QED
    BY <2>2 DEF TypeInv, PhaseOK, Running
<1>2. ASSUME NEW r \in S
      PROVE  \E q \in S : pc[q] = "upsert2" /\ who[q] \in Wants(r)
  <2>1. PICK q \in S : Wants(r) \cap DOMAIN writes[q] # {}
    BY DEF WaitCycle, WaitsFor
  <2>2. pc[q] \in {"upsert1", "upsert2"}
    BY <1>1
  <2> QED
    BY <2>1, <2>2 DEF TypeInv, PhaseOK
<1>3. PICK r \in S : pc[r] = "upsert2"
  BY <1>2 DEF WaitCycle
<1>4. PICK q \in S : pc[q] = "upsert2" /\ who[q] = Rev(who[r])
  BY <1>2, <1>3 DEF Wants
<1>5. Rank[who[r][1]] <= Rank[who[r][2]] /\ Rank[who[r][2]] <= Rank[who[r][1]]
  BY <1>1, <1>4 DEF Rev
<1> QED
  BY <1>1, <1>5, FriendshipsAssumption DEF Pairs

\* The upserts of invite claims never wait for each other in a circle, since both take the two
\* rows in one order (EnsureFriendship of crossmodule.go).
THEOREM ClaimsAreDeadlockFree == Spec => []ClaimsNeverDeadlock
BY InitTypeInv, NextTypeInv, NoClaimCycle, PTL DEF Spec

-----------------------------------------------------------------------------
(* Both wanted it: consent travels from the asking and the accepting to    *)
(* the uncommitted version and from there to the row.                      *)

RowWilled(p, row) ==
  /\ row.status = "Pending" => p \in willing
  /\ row.status = "Accepted" => Both(p) \subseteq willing

RequestWilled(r) ==
  /\ pc[r] = "send" => who[r] \in willing
  /\ pc[r] \in {"update", "reverse", "upsert1", "upsert2"} => Both(who[r]) \subseteq willing
  /\ \A p \in DOMAIN writes[r] : RowWilled(p, writes[r][p])

WillingInv ==
  /\ \A p \in Pairs : RowWilled(p, rows[p])
  /\ \A r \in Requests : RequestWilled(r)

\* A step that only adds consent, and leaves q where it is.
LEMMA StillWilled ==
  ASSUME WillingInv, willing \subseteq willing', NEW q \in Requests,
         pc'[q] = pc[q], who'[q] = who[q], writes'[q] = writes[q]
  PROVE  RequestWilled(q)'
BY DEF WillingInv, RequestWilled, RowWilled

LEMMA InitWilling == Init => WillingInv
BY DEF Init, WillingInv, RequestWilled, RowWilled, NoRow, NoFun

LEMMA AnswerWilling ==
  ASSUME TypeInv, WillingInv, NEW r \in Requests,
         Answer(r), UNCHANGED willing, \A p \in Pairs : RowWilled(p, rows'[p])
  PROVE  WillingInv'
<1>1. ASSUME NEW q \in Requests PROVE RequestWilled(q)'
  <2>1. CASE q = r
    BY <2>1 DEF Answer, RequestWilled, NoFun, TypeInv, TypeOK
  <2>2. CASE q # r
    BY <2>2, StillWilled DEF Answer, TypeInv, TypeOK
  <2> QED
    BY <2>1, <2>2
<1> QED
  BY <1>1 DEF WillingInv, RowWilled

LEMMA BeginWilling ==
  ASSUME TypeInv, WillingInv, NEW r \in Requests, NEW p \in Pairs, NEW step, NEW ids,
         Begin(r, step, p, ids), UNCHANGED rows, willing \subseteq willing',
         step = "send" => p \in willing',
         step \in {"update", "upsert1"} => Both(p) \subseteq willing',
         step \notin {"reverse", "upsert2"}
  PROVE  WillingInv'
<1>1. ASSUME NEW q \in Requests PROVE RequestWilled(q)'
  <2>1. CASE q = r
    BY <2>1 DEF Begin, RequestWilled, RowWilled, TypeInv, TypeOK, WillingInv
  <2>2. CASE q # r
    BY <2>2, StillWilled DEF Begin, TypeInv, TypeOK
  <2> QED
    BY <2>1, <2>2
<1> QED
  BY <1>1 DEF WillingInv, RowWilled

LEMMA WriteWilling ==
  ASSUME TypeInv, WillingInv, NEW r \in Requests, NEW p \in Pairs,
         NEW row \in Row \cup {NoRow}, Write(r, p, row), RowWilled(p, row),
         UNCHANGED <<rows, willing>>, NEW step, pc' = [pc EXCEPT ![r] = step],
         who' = who, step \in {"reverse", "upsert2"} => Both(who[r]) \subseteq willing,
         step \in {"reverse", "upsert2", "commit", pc[r]}
  PROVE  WillingInv'
<1>1. ASSUME NEW q \in Requests PROVE RequestWilled(q)'
  <2>1. CASE q = r
    <3>1. \A x \in DOMAIN writes'[r] : RowWilled(x, writes'[r][x])
      BY WriteTypes DEF WillingInv, RequestWilled
    <3>2. pc'[r] = step
      BY DEF TypeInv, TypeOK
    <3> QED
      BY <2>1, <3>1, <3>2 DEF RequestWilled, RowWilled, WillingInv
  <2>2. CASE q # r
    BY <2>2, WriteTypes, StillWilled DEF TypeInv, TypeOK
  <2> QED
    BY <2>1, <2>2
<1> QED
  BY <1>1 DEF WillingInv, RowWilled

LEMMA ArriveWilling ==
  ASSUME TypeInv, WillingInv, NEW r \in Requests, Arrive(r)
  PROVE  WillingInv'
<1>1. PICK p \in Pairs : \/ StartSend(r, p) \/ StartRemove(r, p) \/ StartEnsure(r, p)
                         \/ \E u \in Users : StartAccept(r, u, p) \/ StartDecline(r, u, p)
  BY DEF Arrive
<1>2. CASE StartSend(r, p)
  BY <1>2, BeginWilling DEF StartSend
<1>3. CASE StartRemove(r, p)
  BY <1>3, BeginWilling DEF StartRemove
<1>4. CASE StartEnsure(r, p)
  <2>1. LockOrder(p) \in Pairs /\ Both(LockOrder(p)) = Both(p)
    BY Directions DEF LockOrder
  <2> QED
    BY <1>4, <2>1, BeginWilling DEF StartEnsure
<1>5. ASSUME NEW u \in Users, StartAccept(r, u, p) PROVE WillingInv'
  <2>1. p \in willing /\ u = p[2]
    BY <1>5 DEF StartAccept, MayAnswer, WillingInv, RowWilled
  <2>2. <<u, IF u = p[1] THEN p[2] ELSE p[1]>> = Rev(p)
    BY <2>1 DEF Rev, Pairs
  <2> DEFINE ids == [q \in {p} |-> rows[q].id]
  <2>3. Begin(r, "update", p, ids) /\ willing' = willing \cup {Rev(p)} /\ UNCHANGED rows
    BY <1>5, <2>2 DEF StartAccept
  <2> HIDE DEF ids
  <2>4. Both(p) \subseteq willing'
    BY <2>1, <2>3 DEF Both
  <2> QED
    BY <2>3, <2>4, BeginWilling
<1>6. ASSUME NEW u \in Users, StartDecline(r, u, p) PROVE WillingInv'
  BY <1>6, BeginWilling DEF StartDecline
<1> QED
  BY <1>1, <1>2, <1>3, <1>4, <1>5, <1>6

LEMMA UpsertWilling ==
  ASSUME TypeInv, WillingInv, NEW r \in Requests, NEW p \in Pairs,
         NEW next \in {"upsert2", "commit"}, Upsert(r, p, next),
         Both(p) = Both(who[r]), Both(who[r]) \subseteq willing
  PROVE  WillingInv'
<1>1. Go(r, next) /\ UNCHANGED <<rows, willing>>
  BY DEF Upsert
<1>2. PICK row \in Row : Write(r, p, row) /\ row.status = "Accepted"
  <2>1. CASE TakeId /\ Write(r, p, [id |-> NewId, status |-> "Accepted"])
    BY <2>1, TakeIdTypes
  <2>2. CASE rows[p] # NoRow /\ Write(r, p, [rows[p] EXCEPT !.status = "Accepted"])
    BY <2>2 DEF TypeInv, TypeOK, Row
  <2> QED
    BY <2>1, <2>2 DEF Upsert
<1>3. RowWilled(p, row)
  BY <1>2 DEF RowWilled
<1> QED
  BY <1>1, <1>2, <1>3, WriteWilling DEF Go

LEMMA StepWilling ==
  ASSUME TypeInv, WillingInv, NEW r \in Requests, Step(r)
  PROVE  WillingInv'
<1>0. /\ \A p \in Pairs : RowWilled(p, rows[p])
      /\ rows \in [Pairs -> Row \cup {NoRow}]
      /\ pc[r] = "send" => who[r] \in Pairs /\ who[r] \in willing
      /\ pc[r] \in {"update", "reverse", "upsert1", "upsert2"}
           => who[r] \in Pairs /\ Both(who[r]) \subseteq willing
  <2>1. RequestWilled(r) /\ PhaseOK(r)
    BY DEF WillingInv, TypeInv
  <2> QED
    BY <2>1 DEF WillingInv, TypeInv, TypeOK, PhaseOK, Running, RequestWilled
<1>1. CASE InsertRequest(r)
  <2>1. who[r] \in Pairs /\ who[r] \in willing
    BY <1>0, <1>1 DEF InsertRequest
  <2>2. CASE rows' = rows
    BY <1>0, <1>1, <2>2, AnswerWilling DEF InsertRequest
  <2>3. CASE rows' = [rows EXCEPT ![who[r]] = [id |-> NewId, status |-> "Pending"]]
    <3>1. \A p \in Pairs : RowWilled(p, rows'[p])
      BY <1>0, <2>1, <2>3 DEF RowWilled
    <3> QED
      BY <1>1, <3>1, AnswerWilling DEF InsertRequest
  <2> QED
    BY <1>1, <2>2, <2>3 DEF InsertRequest
<1>2. CASE UpdateAccepted(r)
  <2>1. who[r] \in Pairs /\ Both(who[r]) \subseteq willing
    BY <1>0, <1>2 DEF UpdateAccepted
  <2>2. CASE /\ rows[who[r]].id = seen[r][who[r]] /\ Go(r, "reverse")
             /\ Write(r, who[r], [rows[who[r]] EXCEPT !.status = "Accepted"])
    <3> DEFINE row == [rows[who[r]] EXCEPT !.status = "Accepted"]
    <3>1. DOMAIN seen[r] = {who[r]}
      BY <1>2 DEF UpdateAccepted, TypeInv, PhaseOK
    <3>2. seen[r] \in [DOMAIN seen[r] -> 1 .. MaxRows]
      BY PartialElim DEF TypeInv, TypeOK
    <3>3. row \in Row /\ row.status = "Accepted"
      <4>1. rows[who[r]].id \in 1 .. MaxRows
        BY <2>1, <2>2, <3>1, <3>2
      <4>2. rows[who[r]] \in Row
        BY <1>0, <2>1, <4>1 DEF NoRow
      <4> QED
        BY <4>2 DEF Row
    <3>4. RowWilled(who[r], row)
      BY <2>1, <3>3 DEF RowWilled
    <3> HIDE DEF row
    <3> QED
      BY <1>2, <2>1, <2>2, <3>3, <3>4, WriteWilling DEF UpdateAccepted, Go, row
  <2>3. CASE Answer(r)
    BY <1>0, <1>2, <2>3, AnswerWilling DEF UpdateAccepted
  <2> QED
    BY <1>2, <2>2, <2>3 DEF UpdateAccepted
<1>3. CASE InsertReverse(r)
  <2>1. who[r] \in Pairs /\ Both(who[r]) \subseteq willing
    BY <1>0, <1>3 DEF InsertReverse
  <2>2. Rev(who[r]) \in Pairs /\ Both(Rev(who[r])) = Both(who[r])
    BY <2>1, Directions
  <2>3. CASE /\ TakeId /\ Go(r, "commit")
             /\ Write(r, Rev(who[r]), [id |-> NewId, status |-> "Accepted"])
    <3>1. RowWilled(Rev(who[r]), [id |-> NewId, status |-> "Accepted"])
      BY <2>1, <2>2 DEF RowWilled
    <3> QED
      BY <1>3, <2>1, <2>2, <2>3, <3>1, TakeIdTypes, WriteWilling DEF InsertReverse, Go
  <2>4. CASE Answer(r)
    BY <1>0, <1>3, <2>4, AnswerWilling DEF InsertReverse
  <2> QED
    BY <1>3, <2>3, <2>4 DEF InsertReverse
<1>4. CASE DeleteDeclined(r)
  <2>1. \A p \in Pairs : RowWilled(p, rows'[p])
    BY <1>0, <1>4 DEF DeleteDeclined, RowWilled, NoRow
  <2> QED
    BY <1>4, <2>1, AnswerWilling DEF DeleteDeclined
<1>5. CASE UpsertFirst(r)
  BY <1>0, <1>5, UpsertWilling DEF UpsertFirst
<1>6. CASE UpsertSecond(r)
  <2>1. who[r] \in Pairs /\ Both(who[r]) \subseteq willing
    BY <1>0, <1>6 DEF UpsertSecond
  <2> QED
    BY <1>6, <2>1, Directions, UpsertWilling DEF UpsertSecond
<1>7. CASE Commit(r)
  <2>1. \A p \in Pairs : RowWilled(p, rows'[p])
    BY <1>0, <1>7 DEF Commit, WillingInv, RequestWilled
  <2> QED
    BY <1>7, <2>1, AnswerWilling DEF Commit
<1>8. CASE DeadlockAbort(r)
  BY <1>0, <1>8, AnswerWilling DEF DeadlockAbort
<1>9. ASSUME NEW p \in Pairs, DeleteOne(r, p) PROVE WillingInv'
  <2> DEFINE step == IF DOMAIN seen[r] = {p} THEN "commit" ELSE pc[r]
  <2>1. /\ UNCHANGED <<who, rows, willing>> /\ pc' = [pc EXCEPT ![r] = step]
        /\ pc[r] = "remove" /\ pc \in [Requests -> PCs]
    BY <1>9 DEF DeleteOne, TypeInv, TypeOK
  <2>2. CASE Write(r, p, NoRow)
    <3>1. RowWilled(p, NoRow)
      BY DEF RowWilled, NoRow
    <3> QED
      BY <2>1, <2>2, <3>1, WriteWilling
  <2>3. CASE UNCHANGED writes
    BY <2>1, <2>3 DEF WillingInv, RequestWilled, RowWilled
  <2> QED
    BY <1>9, <2>2, <2>3 DEF DeleteOne
<1> QED
  BY <1>1, <1>2, <1>3, <1>4, <1>5, <1>6, <1>7, <1>8, <1>9 DEF Step

LEMMA NextWilling == TypeInv /\ WillingInv /\ [Next]_vars => WillingInv'
<1> SUFFICES ASSUME TypeInv, WillingInv, [Next]_vars PROVE WillingInv'
  OBVIOUS
<1>1. ASSUME NEW r \in Requests, Interrupt(r) PROVE WillingInv'
  BY <1>1, AnswerWilling DEF Interrupt, WillingInv
<1>2. ASSUME NEW u \in Users, DeleteAccount(u) PROVE WillingInv'
  BY <1>2 DEF DeleteAccount, reqVars, WillingInv, RequestWilled, RowWilled, NoRow
<1>3. CASE UNCHANGED vars
  BY <1>3 DEF vars, reqVars, WillingInv, RequestWilled, RowWilled
<1> QED
  BY <1>1, <1>2, <1>3, ArriveWilling, StepWilling DEF Next

\* A friendship needs both users' will, whatever requests race each other, and
\* also when they are declined, removed, claimed or cut short in between.
THEOREM FriendshipIsMutual == Spec => []BothWilling
<1>1. WillingInv => BothWilling
  BY DEF WillingInv, RowWilled, BothWilling, Accepted
<1> QED
  BY <1>1, InitTypeInv, NextTypeInv, InitWilling, NextWilling, PTL DEF Spec

-----------------------------------------------------------------------------
(* A friendship begins in both directions: what a transaction is about to  *)
(* install is a removal, or Accepted in both directions.                   *)

Removes(r) == \A p \in DOMAIN writes[r] : writes[r][p].status = "none"
Accepts(r) == \A p \in DOMAIN writes[r] : writes[r][p].status = "Accepted"

RequestMutual(r) ==
  /\ pc[r] \in {"reverse", "upsert2"} => Accepts(r)
  /\ pc[r] = "remove" => Removes(r)
  /\ pc[r] = "commit" => Removes(r) \/ (Accepts(r) /\ DOMAIN writes[r] = Both(who[r]))

MutualInv == \A r \in Requests : RequestMutual(r)

LEMMA InitMutual == Init => MutualInv
BY DEF Init, MutualInv, RequestMutual

LEMMA OthersMutual ==
  ASSUME TypeInv, MutualInv, NEW r \in Requests,
         \A q \in Requests \ {r} : pc'[q] = pc[q] /\ writes'[q] = writes[q] /\ who'[q] = who[q],
         RequestMutual(r)'
  PROVE  MutualInv'
BY DEF MutualInv, RequestMutual, Removes, Accepts, Both, Rev

LEMMA AnswerMutual ==
  ASSUME TypeInv, MutualInv, NEW r \in Requests, Answer(r)
  PROVE  MutualInv'
<1>1. pc'[r] = "idle"
  BY DEF TypeInv, TypeOK, Answer
<1>2. RequestMutual(r)'
  BY <1>1 DEF RequestMutual
<1>3. \A q \in Requests \ {r} : pc'[q] = pc[q] /\ writes'[q] = writes[q] /\ who'[q] = who[q]
  BY DEF TypeInv, TypeOK, Answer
<1> QED
  BY <1>2, <1>3, OthersMutual

LEMMA WriteMutual ==
  ASSUME TypeInv, MutualInv, NEW r \in Requests, NEW p \in Pairs,
         NEW row \in Row, row.status = "Accepted", Write(r, p, row), Accepts(r),
         NEW step \in {"reverse", "upsert2", "commit"}, Go(r, step),
         step = "commit" => DOMAIN writes[r] \cup {p} = Both(who[r])
  PROVE  MutualInv'
<1>1. Accepts(r)'
  BY WriteTypes DEF Accepts
<1>2. pc'[r] = step /\ DOMAIN writes'[r] = DOMAIN writes[r] \cup {p} /\ who' = who
  BY WriteTypes DEF Go, TypeInv, TypeOK
<1>3. RequestMutual(r)'
  BY <1>1, <1>2 DEF RequestMutual, Both, Rev
<1>4. \A q \in Requests \ {r} : pc'[q] = pc[q] /\ writes'[q] = writes[q] /\ who'[q] = who[q]
  BY WriteTypes DEF Go, TypeInv, TypeOK
<1> QED
  BY <1>3, <1>4, OthersMutual

LEMMA ArriveMutual ==
  ASSUME TypeInv, MutualInv, NEW r \in Requests, Arrive(r)
  PROVE  MutualInv'
<1>1. PICK step \in {"send", "update", "upsert1", "decline", "remove"} :
        \E p, ids : Begin(r, step, p, ids)
  BY DEF Arrive, StartSend, StartRemove, StartEnsure, StartAccept, StartDecline
<1>2. DOMAIN writes[r] = {}
  BY <1>1 DEF Begin, TypeInv, PhaseOK
<1>3. RequestMutual(r)'
  BY <1>1, <1>2 DEF Begin, TypeInv, TypeOK, RequestMutual, Removes
<1>4. \A q \in Requests \ {r} : pc'[q] = pc[q] /\ writes'[q] = writes[q] /\ who'[q] = who[q]
  BY <1>1 DEF Begin, TypeInv, TypeOK
<1> QED
  BY <1>3, <1>4, OthersMutual

LEMMA StepMutual ==
  ASSUME TypeInv, MutualInv, NEW r \in Requests, Step(r)
  PROVE  MutualInv'
<1>0. /\ RequestMutual(r) /\ PhaseOK(r)
      /\ rows \in [Pairs -> Row \cup {NoRow}]
      /\ pc[r] \in {"update", "reverse", "upsert1", "upsert2"} => who[r] \in Pairs
  BY DEF MutualInv, TypeInv, TypeOK, PhaseOK, Running
<1>1. CASE Answer(r)
  BY <1>1, AnswerMutual
<1>2. CASE UpdateAccepted(r)
  <2>1. who[r] \in Pairs /\ DOMAIN seen[r] = {who[r]} /\ Accepts(r)
    BY <1>0, <1>2 DEF UpdateAccepted, PhaseOK, Accepts
  <2>2. CASE /\ rows[who[r]].id = seen[r][who[r]] /\ Go(r, "reverse")
             /\ Write(r, who[r], [rows[who[r]] EXCEPT !.status = "Accepted"])
    <3> DEFINE row == [rows[who[r]] EXCEPT !.status = "Accepted"]
    <3>1. seen[r] \in [DOMAIN seen[r] -> 1 .. MaxRows]
      BY PartialElim DEF TypeInv, TypeOK
    <3>2. rows[who[r]] \in Row
      BY <1>0, <2>1, <2>2, <3>1 DEF NoRow
    <3>3. row \in Row /\ row.status = "Accepted" /\ Write(r, who[r], row)
      BY <2>2, <3>2 DEF Row
    <3> HIDE DEF row
    <3> QED
      BY <2>1, <2>2, <3>3, WriteMutual
  <2> QED
    BY <1>1, <1>2, <2>2 DEF UpdateAccepted
<1>3. CASE InsertReverse(r)
  <2>1. /\ who[r] \in Pairs /\ Rev(who[r]) \in Pairs /\ Accepts(r)
        /\ DOMAIN writes[r] \cup {Rev(who[r])} = Both(who[r])
    BY <1>0, <1>3, Directions DEF InsertReverse, PhaseOK, Both, RequestMutual
  <2>2. CASE /\ TakeId /\ Go(r, "commit")
             /\ Write(r, Rev(who[r]), [id |-> NewId, status |-> "Accepted"])
    BY <2>1, <2>2, TakeIdTypes, WriteMutual
  <2> QED
    BY <1>1, <1>3, <2>2 DEF InsertReverse
<1>4. ASSUME NEW p \in Pairs, NEW next \in {"upsert2", "commit"}, Upsert(r, p, next),
             Accepts(r), next = "commit" => DOMAIN writes[r] \cup {p} = Both(who[r])
      PROVE  MutualInv'
  <2>1. Go(r, next)
    BY <1>4 DEF Upsert
  <2>2. PICK row \in Row : Write(r, p, row) /\ row.status = "Accepted"
    <3>1. CASE TakeId /\ Write(r, p, [id |-> NewId, status |-> "Accepted"])
      BY <3>1, TakeIdTypes
    <3>2. CASE rows[p] # NoRow /\ Write(r, p, [rows[p] EXCEPT !.status = "Accepted"])
      BY <1>0, <3>2 DEF Row
    <3> QED
      BY <1>4, <3>1, <3>2 DEF Upsert
  <2> QED
    BY <1>4, <2>1, <2>2, WriteMutual
<1>5. CASE UpsertFirst(r)
  BY <1>0, <1>4, <1>5 DEF UpsertFirst, PhaseOK, Accepts
<1>6. CASE UpsertSecond(r)
  <2>1. who[r] \in Pairs /\ DOMAIN writes[r] \cup {Rev(who[r])} = Both(who[r]) /\ Accepts(r)
    BY <1>0, <1>6 DEF UpsertSecond, PhaseOK, Both, RequestMutual
  <2> QED
    BY <1>4, <1>6, <2>1, Directions DEF UpsertSecond
<1>7. ASSUME NEW p \in Pairs, DeleteOne(r, p) PROVE MutualInv'
  <2>1. Removes(r)'
    <3>1. CASE Write(r, p, NoRow)
      BY <1>0, <1>7, <3>1, WriteTypes DEF DeleteOne, RequestMutual, Removes, NoRow
    <3>2. CASE UNCHANGED writes
      BY <1>0, <1>7, <3>2 DEF DeleteOne, RequestMutual, Removes
    <3> QED
      BY <1>7, <3>1, <3>2 DEF DeleteOne
  <2>2. pc'[r] \in {"remove", "commit"}
    BY <1>7 DEF DeleteOne, TypeInv, TypeOK
  <2>3. RequestMutual(r)'
    BY <2>1, <2>2 DEF RequestMutual
  <2>4. \A q \in Requests \ {r} : pc'[q] = pc[q] /\ writes'[q] = writes[q] /\ who'[q] = who[q]
    <3>1. pc' = [pc EXCEPT ![r] = pc'[r]] /\ who' = who
      BY <1>7 DEF DeleteOne, TypeInv, TypeOK
    <3>2. \A q \in Requests \ {r} : writes'[q] = writes[q]
      BY <1>7 DEF DeleteOne, Write, TypeInv, TypeOK
    <3> QED
      BY <3>1, <3>2 DEF TypeInv, TypeOK
  <2> QED
    BY <2>3, <2>4, OthersMutual
<1> QED
  BY <1>1, <1>2, <1>3, <1>5, <1>6, <1>7
     DEF Step, InsertRequest, DeleteDeclined, Commit, DeadlockAbort

LEMMA NextMutual == TypeInv /\ MutualInv /\ [Next]_vars => MutualInv'
<1> SUFFICES ASSUME TypeInv, MutualInv, [Next]_vars PROVE MutualInv'
  OBVIOUS
<1>1. ASSUME NEW r \in Requests, Interrupt(r) PROVE MutualInv'
  BY <1>1, AnswerMutual DEF Interrupt
<1>2. CASE UNCHANGED reqVars
  BY <1>2 DEF reqVars, MutualInv, RequestMutual, Removes, Accepts
<1>3. ASSUME NEW u \in Users, DeleteAccount(u) PROVE UNCHANGED reqVars
  BY <1>3 DEF DeleteAccount, reqVars
<1> QED
  BY <1>1, <1>2, <1>3, ArriveMutual, StepMutual DEF Next, vars, reqVars

\* A friendship begins in both directions in one step (accept, service.go:161-165,
\* and the claim's upserts), for every operation, interleaving and interruption.
THEOREM FriendshipBeginsMutual == Spec => BeginsMutual
<1> DEFINE Begins == \A p \in Pairs : ~Accepted(p) /\ Accepted(p)' => Accepted(Rev(p))'
<1>1. TypeInv /\ MutualInv /\ [Next]_vars => [Begins]_vars
  <2> SUFFICES ASSUME TypeInv, MutualInv, Next PROVE Begins
    BY DEF Begins
  <2>1. CASE rows' = rows
    BY <2>1 DEF Begins, Accepted
  <2>2. ASSUME NEW r \in Requests, InsertRequest(r) PROVE Begins
    BY <2>2 DEF InsertRequest, Accepted, TypeInv, TypeOK, PhaseOK, Running
  <2>3. ASSUME NEW r \in Requests, DeleteDeclined(r) PROVE Begins
    BY <2>3 DEF DeleteDeclined, Accepted, NoRow, TypeInv, TypeOK, PhaseOK, Running
  <2>4. ASSUME NEW r \in Requests, Commit(r) PROVE Begins
    <3>1. RequestMutual(r) /\ who[r] \in Pairs
      BY <2>4 DEF Commit, MutualInv, TypeInv, PhaseOK, Running
    <3>2. CASE Removes(r)
      BY <2>4, <3>2 DEF Commit, Removes, Accepted
    <3>3. CASE Accepts(r) /\ DOMAIN writes[r] = Both(who[r])
      <4>1. \A p \in Pairs : p \in Both(who[r]) <=> Rev(p) \in Both(who[r])
        BY <3>1, Directions DEF Both
      <4>2. \A p \in Pairs : Accepted(p)' <=> p \in Both(who[r]) \/ Accepted(p)
        BY <2>4, <3>3 DEF Commit, Accepts, Accepted
      <4> QED
        BY <4>1, <4>2, Directions
    <3> QED
      BY <2>4, <3>1, <3>2, <3>3 DEF Commit, RequestMutual
  <2>5. ASSUME NEW u \in Users, DeleteAccount(u) PROVE Begins
    BY <2>5 DEF DeleteAccount, Accepted, NoRow
  <2>6. CASE \E r \in Requests : Arrive(r) \/ Interrupt(r)
    BY <2>1, <2>6 DEF Arrive, StartSend, StartRemove, StartEnsure, StartAccept, StartDecline,
                      Interrupt
  <2>7. CASE \E r \in Requests : \/ UpdateAccepted(r) \/ InsertReverse(r) \/ UpsertFirst(r)
                                 \/ UpsertSecond(r) \/ DeadlockAbort(r)
                                 \/ \E p \in Pairs : DeleteOne(r, p)
    BY <2>1, <2>7 DEF UpdateAccepted, InsertReverse, UpsertFirst, UpsertSecond, Upsert,
                      DeadlockAbort, DeleteOne
  <2> QED
    BY <2>2, <2>3, <2>4, <2>5, <2>6, <2>7 DEF Next, Step
<1>2. Spec => [][Begins]_vars
  BY <1>1, InitTypeInv, NextTypeInv, InitMutual, NextMutual, PTL DEF Spec
<1> QED
  BY <1>2 DEF BeginsMutual

-----------------------------------------------------------------------------
(* Symmetry, while no request declines or removes: a transaction commits   *)
(* both directions or none.                                                *)

RequestPaired(r) ==
  /\ pc[r] \notin {"decline", "remove"}
  /\ pc[r] = "commit" => DOMAIN writes[r] = Both(who[r])
  /\ \A p \in DOMAIN writes[r] : writes[r][p].status = "Accepted"

PairInv == Symmetric /\ \A r \in Requests : RequestPaired(r)

NothingRemoves == Ops \cap {"decline", "remove"} = {}

LEMMA InitPaired == Init => PairInv
BY DEF Init, PairInv, Symmetric, Accepted, RequestPaired, NoRow, NoFun

LEMMA AnswerPaired ==
  ASSUME TypeInv, PairInv, NEW r \in Requests,
         Answer(r), Symmetric'
  PROVE  PairInv'
BY DEF TypeInv, TypeOK, PairInv, RequestPaired, Answer, NoFun

LEMMA SymmetricStill ==
  ASSUME Symmetric, UNCHANGED rows PROVE Symmetric'
BY DEF Symmetric, Accepted

LEMMA GoPaired ==
  ASSUME TypeInv, PairInv, NEW r \in Requests, NEW p \in Pairs,
         NEW row \in Row, row.status = "Accepted", Write(r, p, row), UNCHANGED rows,
         NEW step \in {"reverse", "upsert2", "commit"}, Go(r, step),
         step = "commit" => DOMAIN writes[r] \cup {p} = Both(who[r])
  PROVE  PairInv'
<1>1. ASSUME NEW q \in Requests PROVE RequestPaired(q)'
  <2>1. CASE q = r
    <3>1. \A x \in DOMAIN writes'[r] : writes'[r][x].status = "Accepted"
      BY WriteTypes DEF PairInv, RequestPaired
    <3>2. pc'[r] = step /\ DOMAIN writes'[r] = DOMAIN writes[r] \cup {p} /\ who' = who
      BY WriteTypes DEF Go, TypeInv, TypeOK
    <3> QED
      BY <2>1, <3>1, <3>2 DEF RequestPaired, Both, Rev
  <2>2. CASE q # r
    <3>1. writes'[q] = writes[q] /\ pc'[q] = pc[q] /\ who' = who
      BY <2>2, WriteTypes DEF Go, TypeInv, TypeOK
    <3> QED
      BY <3>1 DEF PairInv, RequestPaired, Both, Rev
  <2> QED
    BY <2>1, <2>2
<1> QED
  BY <1>1, SymmetricStill DEF PairInv

LEMMA ArrivePaired ==
  ASSUME NothingRemoves, TypeInv, PairInv, NEW r \in Requests, Arrive(r)
  PROVE  PairInv'
<1>1. UNCHANGED rows
  BY DEF Arrive, StartSend, StartRemove, StartEnsure, StartAccept, StartDecline
<1>2. PICK step \in {"send", "update", "upsert1"} :
        \E p \in Pairs : \E ids : Begin(r, step, p, ids)
  <2>1. PICK p \in Pairs : \/ StartSend(r, p) \/ StartEnsure(r, p)
                           \/ \E u \in Users : StartAccept(r, u, p)
    BY DEF NothingRemoves, Arrive, StartRemove, StartDecline
  <2>2. LockOrder(p) \in Pairs
    BY Directions DEF LockOrder
  <2> QED
    BY <2>1, <2>2 DEF StartSend, StartEnsure, StartAccept
<1>3. \A q \in Requests : RequestPaired(q)'
  BY <1>2 DEF TypeInv, TypeOK, PairInv, RequestPaired, Begin
<1> QED
  BY <1>1, <1>3, SymmetricStill DEF PairInv

LEMMA StepPaired ==
  ASSUME TypeInv, PairInv, NEW r \in Requests, Step(r)
  PROVE  PairInv'
<1>0. /\ Symmetric /\ RequestPaired(r) /\ PhaseOK(r)
      /\ rows \in [Pairs -> Row \cup {NoRow}]
      /\ pc[r] \in {"send", "update", "reverse", "upsert1", "upsert2", "commit"}
           => who[r] \in Pairs
  BY DEF PairInv, TypeInv, TypeOK, PhaseOK, Running
<1>1. CASE InsertRequest(r)
  <2>1. who[r] \in Pairs
    BY <1>0, <1>1 DEF InsertRequest
  <2>2. CASE rows' = rows
    BY <1>0, <1>1, <2>2, SymmetricStill, AnswerPaired DEF InsertRequest
  <2>3. CASE /\ rows[who[r]] = NoRow
             /\ rows' = [rows EXCEPT ![who[r]] = [id |-> NewId, status |-> "Pending"]]
    <3>1. ~Accepted(who[r]) /\ ~Accepted(Rev(who[r]))
      BY <1>0, <2>1, <2>3, Directions DEF Symmetric, Accepted, NoRow
    <3>2. \A p \in Pairs : Accepted(p)' <=> Accepted(p)
      BY <1>0, <2>1, <2>3, <3>1 DEF Accepted
    <3>3. Symmetric'
      BY <1>0, <3>2, Directions DEF Symmetric
    <3> QED
      BY <1>1, <3>3, AnswerPaired DEF InsertRequest
  <2> QED
    BY <1>1, <2>2, <2>3 DEF InsertRequest
<1>2. CASE UpdateAccepted(r)
  <2>1. who[r] \in Pairs /\ DOMAIN seen[r] = {who[r]}
    BY <1>0, <1>2 DEF UpdateAccepted, PhaseOK
  <2>2. CASE /\ rows[who[r]].id = seen[r][who[r]] /\ Go(r, "reverse")
             /\ Write(r, who[r], [rows[who[r]] EXCEPT !.status = "Accepted"])
    <3> DEFINE row == [rows[who[r]] EXCEPT !.status = "Accepted"]
    <3>1. seen[r] \in [DOMAIN seen[r] -> 1 .. MaxRows]
      BY PartialElim DEF TypeInv, TypeOK
    <3>2. rows[who[r]].id \in 1 .. MaxRows
      BY <2>1, <2>2, <3>1
    <3>3. row \in Row /\ row.status = "Accepted"
      <4>1. rows[who[r]] \in Row
        BY <1>0, <2>1, <3>2 DEF NoRow
      <4> QED
        BY <4>1 DEF Row
    <3>4. Write(r, who[r], row)
      BY <2>2
    <3> HIDE DEF row
    <3> QED
      BY <1>2, <2>1, <2>2, <3>3, <3>4, GoPaired DEF UpdateAccepted
  <2>3. CASE Answer(r)
    BY <1>0, <1>2, <2>3, SymmetricStill, AnswerPaired DEF UpdateAccepted
  <2> QED
    BY <1>2, <2>2, <2>3 DEF UpdateAccepted
<1>3. CASE InsertReverse(r)
  <2>1. /\ who[r] \in Pairs /\ Rev(who[r]) \in Pairs
        /\ DOMAIN writes[r] \cup {Rev(who[r])} = Both(who[r])
    BY <1>0, <1>3, Directions DEF InsertReverse, PhaseOK, Both
  <2>2. CASE /\ TakeId /\ Go(r, "commit")
             /\ Write(r, Rev(who[r]), [id |-> NewId, status |-> "Accepted"])
    BY <1>3, <2>1, <2>2, TakeIdTypes, GoPaired DEF InsertReverse
  <2>3. CASE Answer(r)
    BY <1>0, <1>3, <2>3, SymmetricStill, AnswerPaired DEF InsertReverse
  <2> QED
    BY <1>3, <2>2, <2>3 DEF InsertReverse
<1>4. CASE DeleteDeclined(r)
  BY <1>0, <1>4 DEF DeleteDeclined, RequestPaired
<1>5. ASSUME NEW p \in Pairs, NEW next \in {"upsert2", "commit"}, Upsert(r, p, next),
             next = "commit" => DOMAIN writes[r] \cup {p} = Both(who[r])
      PROVE  PairInv'
  <2>1. Go(r, next) /\ UNCHANGED rows
    BY <1>5 DEF Upsert
  <2>2. PICK row \in Row : Write(r, p, row) /\ row.status = "Accepted"
    <3>1. CASE TakeId /\ Write(r, p, [id |-> NewId, status |-> "Accepted"])
      BY <3>1, TakeIdTypes
    <3>2. CASE rows[p] # NoRow /\ Write(r, p, [rows[p] EXCEPT !.status = "Accepted"])
      BY <1>0, <3>2 DEF Row
    <3> QED
      BY <1>5, <3>1, <3>2 DEF Upsert
  <2> QED
    BY <1>5, <2>1, <2>2, GoPaired
<1>6. CASE UpsertFirst(r)
  BY <1>0, <1>5, <1>6 DEF UpsertFirst
<1>7. CASE UpsertSecond(r)
  <2>1. who[r] \in Pairs /\ DOMAIN writes[r] \cup {Rev(who[r])} = Both(who[r])
    BY <1>0, <1>7 DEF UpsertSecond, PhaseOK, Both
  <2> QED
    BY <1>5, <1>7, <2>1, Directions DEF UpsertSecond
<1>8. CASE Commit(r)
  <2>1. /\ who[r] \in Pairs /\ DOMAIN writes[r] = Both(who[r])
        /\ \A p \in Both(who[r]) : writes[r][p].status = "Accepted"
    BY <1>0, <1>8 DEF Commit, RequestPaired
  <2>2. \A p \in Pairs : Accepted(p)' <=> p \in Both(who[r]) \/ Accepted(p)
    BY <1>8, <2>1 DEF Commit, Accepted
  <2>3. \A p \in Pairs : p \in Both(who[r]) <=> Rev(p) \in Both(who[r])
    BY <2>1, Directions DEF Both
  <2>4. Symmetric'
    BY <1>0, <2>2, <2>3, Directions DEF Symmetric
  <2> QED
    BY <1>8, <2>4, AnswerPaired DEF Commit
<1>9. CASE DeadlockAbort(r)
  BY <1>0, <1>9, SymmetricStill, AnswerPaired DEF DeadlockAbort
<1>10. CASE \E p \in Pairs : DeleteOne(r, p)
  BY <1>0, <1>10 DEF DeleteOne, RequestPaired
<1> QED
  BY <1>1, <1>2, <1>3, <1>4, <1>6, <1>7, <1>8, <1>9, <1>10 DEF Step

LEMMA NextPaired ==
  ASSUME NothingRemoves PROVE TypeInv /\ PairInv /\ [Next]_vars => PairInv'
<1> SUFFICES ASSUME TypeInv, PairInv, [Next]_vars PROVE PairInv'
  OBVIOUS
<1>1. ASSUME NEW r \in Requests, Interrupt(r) PROVE PairInv'
  BY <1>1, SymmetricStill, AnswerPaired DEF Interrupt, PairInv
<1>2. ASSUME NEW u \in Users, DeleteAccount(u) PROVE PairInv'
  <2>1. \A p \in Pairs : Accepted(p)' <=> Accepted(p) /\ u \notin {p[1], p[2]}
    BY <1>2 DEF DeleteAccount, Accepted, NoRow
  <2>2. Symmetric'
    BY <2>1, Directions DEF PairInv, Symmetric
  <2> QED
    BY <1>2, <2>2 DEF DeleteAccount, reqVars, PairInv, RequestPaired
<1>3. CASE UNCHANGED vars
  BY <1>3, SymmetricStill DEF vars, reqVars, PairInv, RequestPaired
<1> QED
  BY <1>1, <1>2, <1>3, ArrivePaired, StepPaired DEF Next

\* crossmodule.go:35-37: friendship is symmetric, for any number of sends,
\* accepts, claims and account deletions in flight, in any order and cut short
\* anywhere.  The assumption is needed: a decline or a removal that read before
\* an accept committed leaves one direction behind.
THEOREM FriendshipIsSymmetric == ASSUME NothingRemoves PROVE Spec => []Symmetric
<1>1. PairInv => Symmetric
  BY DEF PairInv
<1>2. TypeInv /\ PairInv /\ [Next]_vars => PairInv'
  BY NextPaired
<1> QED
  BY <1>1, <1>2, InitTypeInv, NextTypeInv, InitPaired, PTL DEF Spec

-----------------------------------------------------------------------------
(* What the only request under way relies on: the rows it looked at have   *)
(* not been changed since, except that an account's deletion emptied them. *)

Orderly == Symmetric /\ NoCrossedRequests

Empty(p) == rows[p] = NoRow

FoundPending(r) ==
  rows[who[r]].id = seen[r][who[r]] => rows[who[r]].status = "Pending"

StillToRemove(r) ==
  /\ DOMAIN seen[r] \cup DOMAIN writes[r] \subseteq Both(who[r])
  /\ \A q \in Both(who[r]) : \/ Empty(q) \/ q \in DOMAIN writes[r]
                             \/ q \in DOMAIN seen[r] /\ rows[q].id = seen[r][q]

WholePair(r) ==
  /\ DOMAIN writes[r] \subseteq Both(who[r])
  /\ \A q \in Both(who[r]) \ DOMAIN writes[r] : Empty(q)

RequestAlone(r) ==
  /\ pc[r] = "send" => \A q \in Both(who[r]) : Empty(q)
  /\ pc[r] \in {"update", "decline"} => FoundPending(r)
  /\ pc[r] = "reverse" => rows[who[r]].status = "Pending"
  /\ pc[r] = "remove" => StillToRemove(r)
  /\ pc[r] = "commit" => WholePair(r)

AllAlone == Orderly /\ \A r \in Requests : RequestAlone(r)

AloneInv == alone => OneAtATime /\ AllAlone

LEMMA InitAlone == MCInit => AloneInv
BY DEF MCInit, Init, AloneInv, OneAtATime, AllAlone, Orderly, Symmetric, NoCrossedRequests,
       Accepted, NoRow, RequestAlone

\* The request goes on, and the table is as it was.
LEMMA GoesOn ==
  ASSUME Orderly, NEW r \in Requests, OneAtATime', pc'[r] # "idle", RequestAlone(r)',
         UNCHANGED rows
  PROVE  AllAlone'
<1>1. Orderly'
  BY DEF Orderly, Symmetric, NoCrossedRequests, Accepted
<1>2. ASSUME NEW q \in Requests, q # r PROVE RequestAlone(q)'
  <2>1. pc'[q] = "idle"
    BY <1>2 DEF OneAtATime
  <2> QED
    BY <2>1 DEF RequestAlone
<1> QED
  BY <1>1, <1>2 DEF AllAlone

\* The request ends: nobody is under way.
LEMMA Ends ==
  ASSUME TypeInv, OneAtATime, NEW r \in Requests, pc[r] # "idle", Answer(r), Orderly'
  PROVE  AllAlone'
<1>1. ASSUME NEW q \in Requests PROVE pc'[q] = "idle"
  BY DEF TypeInv, TypeOK, Answer, OneAtATime
<1> QED
  BY <1>1 DEF AllAlone, RequestAlone

LEMMA OrderlyStill == ASSUME Orderly, UNCHANGED rows PROVE Orderly'
BY DEF Orderly, Symmetric, NoCrossedRequests, Accepted

\* A table whose rows changed within one pair only.
LEMMA PairChanged ==
  ASSUME Orderly, NEW w \in Pairs, \A p \in Pairs \ Both(w) : rows'[p] = rows[p],
         \A p \in Both(w) : /\ Accepted(p)' => Accepted(Rev(p))'
                            /\ rows'[p].status = "Pending" => rows'[Rev(p)] = NoRow
  PROVE  Orderly'
<1> SUFFICES ASSUME NEW p \in Pairs
             PROVE  /\ Accepted(p)' => Accepted(Rev(p))'
                    /\ rows'[p].status = "Pending" => rows'[Rev(p)] = NoRow
  BY DEF Orderly, Symmetric, NoCrossedRequests, Accepted
<1>1. CASE p \in Both(w)
  BY <1>1
<1>2. CASE p \notin Both(w)
  <2>1. Rev(p) \in Pairs \ Both(w)
    BY <1>2, Directions DEF Both
  <2> QED
    BY <1>2, <2>1 DEF Orderly, Symmetric, NoCrossedRequests, Accepted
<1> QED
  BY <1>1, <1>2

\* What is there to be read of a row.
LEMMA RowFacts ==
  ASSUME TypeInv, NEW p \in Pairs
  PROVE  /\ rows[p] = NoRow => rows[p].id = 0 /\ rows[p].status = "none"
         /\ rows[p] # NoRow => rows[p].id \in 1 .. MaxRows
                               /\ rows[p].status \in {"Pending", "Accepted"}
BY DEF TypeInv, TypeOK, Row, NoRow

-----------------------------------------------------------------------------

LEMMA ArriveAlone ==
  ASSUME TypeInv, AllAlone, OneAtATime', NEW r \in Requests, Arrive(r)
  PROVE  AllAlone'
<1>0. /\ Orderly /\ UNCHANGED rows
      /\ pc \in [Requests -> PCs] /\ who \in [Requests -> Pairs \cup {NoOne}]
      /\ seen \in [Requests -> Partial(Pairs, 1 .. MaxRows)]
  BY DEF AllAlone, TypeInv, TypeOK, Arrive, StartSend, StartRemove, StartEnsure, StartAccept,
         StartDecline
<1>1. PICK p \in Pairs : \/ StartSend(r, p) \/ StartRemove(r, p) \/ StartEnsure(r, p)
                         \/ \E u \in Users : StartAccept(r, u, p) \/ StartDecline(r, u, p)
  BY DEF Arrive
<1>2. ASSUME NEW step \in PCs, NEW w, NEW ids, Begin(r, step, w, ids)
      PROVE  pc'[r] = step /\ who'[r] = w /\ seen'[r] = ids /\ writes' = writes
             /\ pc[r] = "idle"
  BY <1>0, <1>2 DEF Begin
<1>3. CASE StartSend(r, p)
  <2>1. pc'[r] = "send" /\ who'[r] = p
    BY <1>2, <1>3 DEF StartSend, PCs
  <2>2. RequestAlone(r)'
    BY <1>0, <1>3, <2>1 DEF StartSend, RequestAlone, Empty, Both, Rev
  <2> QED
    BY <1>0, <2>1, <2>2, GoesOn
<1>4. CASE StartRemove(r, p)
  <2> DEFINE hits == {q \in Both(p) : rows[q] # NoRow}
  <2>1. /\ pc'[r] = "remove" /\ who'[r] = p /\ seen'[r] = [q \in hits |-> rows[q].id]
        /\ writes' = writes /\ pc[r] = "idle"
    BY <1>2, <1>4 DEF StartRemove, PCs
  <2>2. DOMAIN writes[r] = {}
    BY <2>1 DEF TypeInv, PhaseOK
  <2>3. StillToRemove(r)'
    BY <1>0, <2>1, <2>2 DEF StillToRemove, Empty, Both, Rev
  <2>4. RequestAlone(r)'
    BY <2>1, <2>3 DEF RequestAlone
  <2> QED
    BY <1>0, <2>1, <2>4, GoesOn
<1>5. CASE StartEnsure(r, p)
  <2>1. pc'[r] = "upsert1"
    BY <1>2, <1>5 DEF StartEnsure, PCs
  <2> QED
    BY <1>0, <2>1, GoesOn DEF RequestAlone
<1>6. ASSUME NEW u \in Users, StartAccept(r, u, p) \/ StartDecline(r, u, p) PROVE AllAlone'
  <2>1. /\ pc'[r] \in {"update", "decline"} /\ who'[r] = p /\ rows[p].status = "Pending"
    BY <1>2, <1>6 DEF StartAccept, StartDecline, MayAnswer, PCs
  <2>2. RequestAlone(r)'
    BY <1>0, <2>1 DEF RequestAlone, FoundPending
  <2> QED
    BY <1>0, <2>1, <2>2, GoesOn
<1> QED
  BY <1>1, <1>3, <1>4, <1>5, <1>6

LEMMA RemoveAlone ==
  ASSUME TypeInv, AllAlone, OneAtATime', NEW r \in Requests, NEW p \in Pairs, DeleteOne(r, p)
  PROVE  AllAlone'
<1>1. /\ pc[r] = "remove" /\ p \in DOMAIN seen[r] /\ UNCHANGED <<who, rows>>
      /\ seen' = [seen EXCEPT ![r] = [q \in DOMAIN @ \ {p} |-> @[q]]]
      /\ pc' = [pc EXCEPT ![r] = IF DOMAIN seen[r] = {p} THEN "commit" ELSE @]
  BY DEF DeleteOne
<1>2. /\ DOMAIN seen'[r] = DOMAIN seen[r] \ {p}
      /\ \A q \in DOMAIN seen[r] \ {p} : seen'[r][q] = seen[r][q]
      /\ pc'[r] = IF DOMAIN seen[r] = {p} THEN "commit" ELSE "remove"
  BY <1>1 DEF TypeInv, TypeOK
<1>3. StillToRemove(r) /\ Orderly
  BY <1>1 DEF AllAlone, RequestAlone
<1>4. /\ DOMAIN writes[r] \subseteq DOMAIN writes'[r]
      /\ DOMAIN writes'[r] \subseteq DOMAIN writes[r] \cup {p}
      /\ rows[p].id = seen[r][p] => p \in DOMAIN writes'[r]
  <2>1. CASE rows[p].id = seen[r][p]
    <3>1. Write(r, p, NoRow)
      BY <2>1 DEF DeleteOne
    <3> QED
      BY <3>1, WriteTypes
  <2>2. CASE rows[p].id # seen[r][p]
    BY <2>2 DEF DeleteOne
  <2> QED
    BY <2>1, <2>2
<1>5. StillToRemove(r)'
  BY <1>1, <1>2, <1>3, <1>4 DEF StillToRemove, Empty, Both, Rev
<1>6. DOMAIN seen[r] = {p} => WholePair(r)'
  BY <1>1, <1>2, <1>5 DEF StillToRemove, WholePair
<1>7. RequestAlone(r)'
  BY <1>2, <1>5, <1>6 DEF RequestAlone
<1> QED
  BY <1>1, <1>2, <1>3, <1>7, GoesOn

LEMMA StepAlone ==
  ASSUME TypeInv, MutualInv, AllAlone, OneAtATime, OneAtATime', NEW r \in Requests, Step(r)
  PROVE  AllAlone'
<1> DEFINE w == who[r]
<1>0. /\ Orderly /\ RequestAlone(r) /\ PhaseOK(r) /\ RequestMutual(r)
      /\ rows \in [Pairs -> Row \cup {NoRow}]
  BY DEF AllAlone, TypeInv, TypeOK, MutualInv
<1>a. pc[r] # "idle" => w \in Pairs /\ Rev(w) \in Pairs /\ Rev(Rev(w)) = w /\ Rev(w) # w
                        /\ w \in Both(w) /\ Rev(w) \in Both(w) /\ Both(w) = {w, Rev(w)}
  BY <1>0, Directions DEF PhaseOK, Running, Both
<1>b. ASSUME NEW next, Go(r, next) PROVE pc'[r] = next /\ who' = who /\ seen' = seen
  BY <1>b DEF Go, TypeInv, TypeOK
<1>1. CASE InsertRequest(r)
  <2>1. pc[r] = "send" /\ Answer(r)
    BY <1>1 DEF InsertRequest
  <2>2. CASE rows' = rows
    BY <1>0, <2>1, <2>2, OrderlyStill, Ends
  <2>3. CASE rows' = [rows EXCEPT ![w] = [id |-> NewId, status |-> "Pending"]]
    <3>1. /\ rows'[w].status = "Pending" /\ rows'[Rev(w)] = NoRow
          /\ \A p \in Pairs \ Both(w) : rows'[p] = rows[p]
      BY <1>0, <1>a, <2>1, <2>3 DEF RequestAlone, Empty
    <3>2. Orderly'
      BY <1>0, <1>a, <2>1, <3>1, PairChanged DEF Accepted, NoRow
    <3> QED
      BY <2>1, <3>2, Ends
  <2> QED
    BY <1>1, <2>2, <2>3 DEF InsertRequest
<1>2. CASE UpdateAccepted(r)
  <2>1. pc[r] = "update" /\ UNCHANGED rows
    BY <1>2 DEF UpdateAccepted
  <2>2. CASE Answer(r)
    BY <1>0, <2>1, <2>2, OrderlyStill, Ends
  <2>3. CASE rows[w].id = seen[r][w] /\ Go(r, "reverse")
    <3>1. rows[w].status = "Pending" /\ pc'[r] = "reverse" /\ who' = who
      BY <1>0, <1>b, <2>1, <2>3 DEF RequestAlone, FoundPending
    <3>2. RequestAlone(r)'
      BY <2>1, <3>1 DEF RequestAlone
    <3> QED
      BY <1>0, <2>1, <3>1, <3>2, GoesOn
  <2> QED
    BY <1>2, <2>2, <2>3 DEF UpdateAccepted
<1>3. CASE InsertReverse(r)
  <2>1. pc[r] = "reverse" /\ UNCHANGED rows /\ DOMAIN writes[r] = {w}
    BY <1>0, <1>3 DEF InsertReverse, PhaseOK
  <2>2. CASE Answer(r)
    BY <1>0, <2>1, <2>2, OrderlyStill, Ends
  <2>3. CASE /\ TakeId /\ Go(r, "commit")
             /\ Write(r, Rev(w), [id |-> NewId, status |-> "Accepted"])
    <3>1. DOMAIN writes'[r] = Both(w)
      <4>1. Rev(w) \in Pairs /\ [id |-> NewId, status |-> "Accepted"] \in Row
        BY <1>a, <2>1, <2>3, TakeIdTypes
      <4>2. DOMAIN writes'[r] = DOMAIN writes[r] \cup {Rev(w)}
        BY <2>3, <4>1, WriteTypes
      <4> QED
        BY <1>a, <2>1, <4>2
    <3>2. pc'[r] = "commit" /\ who' = who
      BY <1>b, <2>3
    <3>3. RequestAlone(r)'
      BY <3>1, <3>2 DEF RequestAlone, WholePair
    <3> QED
      BY <1>0, <2>1, <3>2, <3>3, GoesOn
  <2> QED
    BY <1>3, <2>2, <2>3 DEF InsertReverse
<1>4. CASE DeleteDeclined(r)
  <2>1. pc[r] = "decline" /\ Answer(r)
    BY <1>4 DEF DeleteDeclined
  <2>2. CASE rows' = rows
    BY <1>0, <2>1, <2>2, OrderlyStill, Ends
  <2>3. CASE rows[w].id = seen[r][w] /\ rows' = [rows EXCEPT ![w] = NoRow]
    <3>1. rows[Rev(w)] = NoRow
      BY <1>0, <1>a, <2>1, <2>3 DEF RequestAlone, FoundPending, Orderly, NoCrossedRequests
    <3>2. /\ rows'[w] = NoRow /\ rows'[Rev(w)] = NoRow
          /\ \A p \in Pairs \ Both(w) : rows'[p] = rows[p]
      BY <1>0, <1>a, <2>1, <2>3, <3>1
    <3>3. Orderly'
      BY <1>0, <1>a, <2>1, <3>2, PairChanged DEF Accepted, NoRow
    <3> QED
      BY <2>1, <3>3, Ends
  <2> QED
    BY <1>4, <2>2, <2>3 DEF DeleteDeclined
<1>5. CASE UpsertFirst(r)
  <2>1. pc[r] = "upsert1" /\ UNCHANGED rows /\ Go(r, "upsert2")
    BY <1>5 DEF UpsertFirst, Upsert
  <2>2. pc'[r] = "upsert2"
    BY <1>b, <2>1
  <2> QED
    BY <1>0, <2>1, <2>2, GoesOn DEF RequestAlone
<1>6. CASE UpsertSecond(r)
  <2>1. /\ pc[r] = "upsert2" /\ UNCHANGED rows /\ Go(r, "commit") /\ DOMAIN writes[r] = {w}
    BY <1>0, <1>6 DEF UpsertSecond, Upsert, PhaseOK
  <2>2. PICK row \in Row : Write(r, Rev(w), row)
    <3>1. CASE TakeId /\ Write(r, Rev(w), [id |-> NewId, status |-> "Accepted"])
      BY <3>1, TakeIdTypes
    <3>2. CASE rows[Rev(w)] # NoRow
               /\ Write(r, Rev(w), [rows[Rev(w)] EXCEPT !.status = "Accepted"])
      BY <1>0, <1>a, <2>1, <3>2 DEF Row
    <3> QED
      BY <1>6, <3>1, <3>2 DEF UpsertSecond, Upsert
  <2>3. DOMAIN writes'[r] = Both(w)
    <3>1. Rev(w) \in Pairs /\ DOMAIN writes'[r] = DOMAIN writes[r] \cup {Rev(w)}
      BY <1>a, <2>1, <2>2, WriteTypes
    <3> QED
      BY <1>a, <2>1, <3>1
  <2>4. pc'[r] = "commit" /\ who' = who
    BY <1>b, <2>1
  <2>5. RequestAlone(r)'
    BY <2>3, <2>4 DEF RequestAlone, WholePair
  <2> QED
    BY <1>0, <2>1, <2>4, <2>5, GoesOn
<1>7. CASE Commit(r)
  <2>1. /\ pc[r] = "commit" /\ Answer(r)
        /\ rows' = [p \in Pairs |-> IF p \in DOMAIN writes[r] THEN writes[r][p] ELSE rows[p]]
    BY <1>7 DEF Commit
  <2>2. WholePair(r)
    BY <1>0, <2>1 DEF RequestAlone
  <2>3. \A p \in Pairs \ Both(w) : rows'[p] = rows[p]
    BY <2>1, <2>2 DEF WholePair
  <2>4. \/ \A p \in Both(w) : rows'[p].status = "Accepted"
        \/ \A p \in Both(w) : rows'[p].status = "none"
    <3>1. \/ Removes(r) \/ (Accepts(r) /\ DOMAIN writes[r] = Both(w))
      BY <1>0, <2>1 DEF RequestMutual
    <3> QED
      BY <1>a, <2>1, <2>2, <3>1 DEF Removes, Accepts, WholePair, Empty, NoRow
  <2>5. \A p \in Both(w) : Rev(p) \in Both(w)
    BY <1>a, <2>1
  <2>6. Orderly'
    BY <1>0, <1>a, <2>1, <2>3, <2>4, <2>5, PairChanged DEF Accepted
  <2> QED
    BY <2>1, <2>6, Ends
<1>8. CASE DeadlockAbort(r)
  <2>1. CASE pc[r] = "idle"
    <3>1. \A q \in Requests : pc'[q] = pc[q]
      BY <1>8, <2>1 DEF DeadlockAbort, Answer, TypeInv, TypeOK
    <3>2. UNCHANGED <<rows>> /\ \A q \in Requests \ {r} : who'[q] = who[q] /\ seen'[q] = seen[q]
                                                       /\ writes'[q] = writes[q]
      BY <1>8 DEF DeadlockAbort, Answer, TypeInv, TypeOK
    <3>3. \A q \in Requests \ {r} : RequestAlone(q)'
      BY <3>1, <3>2 DEF AllAlone, RequestAlone, FoundPending, StillToRemove, WholePair, Empty,
                        Both, Rev
    <3>4. RequestAlone(r)'
      BY <2>1, <3>1 DEF RequestAlone
    <3> QED
      BY <1>0, <3>2, <3>3, <3>4, OrderlyStill DEF AllAlone
  <2>2. CASE pc[r] # "idle"
    BY <1>0, <1>8, <2>2, OrderlyStill, Ends DEF DeadlockAbort
  <2> QED
    BY <2>1, <2>2
<1>9. CASE \E p \in Pairs : DeleteOne(r, p)
  BY <1>9, RemoveAlone
<1> QED
  BY <1>1, <1>2, <1>3, <1>4, <1>5, <1>6, <1>7, <1>8, <1>9 DEF Step

LEMMA DeleteAlone ==
  ASSUME TypeInv, AllAlone, NEW u \in Users, DeleteAccount(u)
  PROVE  AllAlone'
<1> DEFINE Mine(p) == u \in {p[1], p[2]}
<1>1. /\ \A p \in Pairs : rows'[p] = IF Mine(p) THEN NoRow ELSE rows[p]
      /\ UNCHANGED <<pc, who, seen, writes>>
      /\ \A p \in Pairs, q \in Requests : Mine(p) => p \notin DOMAIN writes[q]
  BY DEF DeleteAccount, reqVars
<1>2. \A p \in Pairs : Rev(p) \in Pairs /\ (Mine(p) <=> Mine(Rev(p)))
  BY Directions
<1> HIDE DEF Mine
<1>3. Orderly'
  BY <1>1, <1>2 DEF AllAlone, Orderly, Symmetric, NoCrossedRequests, Accepted, NoRow
<1>4. ASSUME NEW q \in Requests PROVE RequestAlone(q)'
  <2>0. RequestAlone(q) /\ PhaseOK(q)
    BY DEF AllAlone, TypeInv
  <2>1. CASE pc[q] = "idle"
    BY <1>1, <2>1 DEF RequestAlone
  <2>2. CASE pc[q] # "idle"
    <3>1. who[q] \in Pairs /\ Both(who[q]) \subseteq Pairs
      BY <2>0, <2>2, Directions DEF PhaseOK, Running
    <3>2. \A p \in Pairs : Empty(p) => Empty(p)'
      BY <1>1 DEF Empty
    <3>3. pc[q] = "send" => \A p \in Both(who[q])' : Empty(p)'
      BY <1>1, <2>0, <3>1, <3>2 DEF RequestAlone, Both, Rev
    <3>4. pc[q] \in {"update", "decline"} => FoundPending(q)'
      <4> SUFFICES ASSUME pc[q] \in {"update", "decline"} PROVE FoundPending(q)'
        OBVIOUS
      <4>1. seen[q] \in [DOMAIN seen[q] -> 1 .. MaxRows] /\ DOMAIN seen[q] = {who[q]}
        BY <2>0, PartialElim DEF TypeInv, TypeOK, PhaseOK
      <4>2. seen[q][who[q]] # 0
        BY <4>1
      <4>3. CASE Mine(who[q])
        BY <1>1, <3>1, <4>2, <4>3 DEF FoundPending, NoRow
      <4>4. CASE ~Mine(who[q])
        BY <1>1, <2>0, <3>1, <4>4 DEF FoundPending, RequestAlone
      <4> QED
        BY <4>3, <4>4
    <3>5. pc[q] = "reverse" => rows'[who[q]].status = "Pending"
      BY <1>1, <2>0, <3>1 DEF PhaseOK, RequestAlone
    <3>6. pc[q] = "remove" => StillToRemove(q)'
      <4> SUFFICES ASSUME pc[q] = "remove" PROVE StillToRemove(q)'
        OBVIOUS
      <4>1. StillToRemove(q)
        BY <2>0 DEF RequestAlone
      <4>2. Both(who[q])' = Both(who[q])
        BY <1>1 DEF Both, Rev
      <4>3. ASSUME NEW p \in Both(who[q]), Mine(p) PROVE Empty(p)'
        BY <1>1, <3>1, <4>3 DEF Empty
      <4>4. ASSUME NEW p \in Both(who[q]), ~Mine(p) PROVE rows'[p] = rows[p]
        BY <1>1, <3>1, <4>4
      <4> QED
        BY <1>1, <4>1, <4>2, <4>3, <4>4 DEF StillToRemove, Empty
    <3>7. pc[q] = "commit" => WholePair(q)'
      <4>1. Both(who[q])' = Both(who[q])
        BY <1>1 DEF Both, Rev
      <4> QED
        BY <1>1, <2>0, <3>1, <3>2, <4>1 DEF RequestAlone, WholePair
    <3> QED
      BY <1>1, <3>3, <3>4, <3>5, <3>6, <3>7 DEF RequestAlone
  <2> QED
    BY <2>1, <2>2
<1> QED
  BY <1>3, <1>4 DEF AllAlone

LEMMA NextAlone ==
  ASSUME TypeInv, MutualInv, AloneInv, Next, alone' = (alone /\ OneAtATime')
  PROVE  AloneInv'
<1> SUFFICES ASSUME alone' PROVE OneAtATime' /\ AllAlone'
  BY DEF AloneInv
<1>1. OneAtATime /\ AllAlone /\ OneAtATime'
  BY DEF AloneInv
<1>2. ASSUME NEW r \in Requests, Interrupt(r) PROVE AllAlone'
  BY <1>1, <1>2, OrderlyStill, Ends DEF Interrupt, AllAlone
<1> QED
  BY <1>1, <1>2, ArriveAlone, StepAlone, DeleteAlone DEF Next

\* crossmodule.go:35-37 and service.go:110-111, for requests that do not overlap: any
\* sequence of sends, answers, removals and claims, each perhaps cut short, and of account
\* deletions at any moment.
THEOREM OrderlyAlone == MCSpec => []OrderlyWhenAlone
<1> DEFINE Moves == Next /\ alone' = (alone /\ OneAtATime')
<1>1. MCInit => TypeInv /\ MutualInv /\ AloneInv
  BY InitTypeInv, InitMutual, InitAlone DEF MCInit
<1>2. TypeInv /\ MutualInv /\ AloneInv /\ [Moves]_<<vars, alone>>
        => (TypeInv /\ MutualInv /\ AloneInv)'
  <2> SUFFICES ASSUME TypeInv, MutualInv, AloneInv, [Moves]_<<vars, alone>>
               PROVE  (TypeInv /\ MutualInv /\ AloneInv)'
    OBVIOUS
  <2>1. CASE Moves
    BY <2>1, NextTypeInv, NextMutual, NextAlone
  <2>2. CASE UNCHANGED <<vars, alone>>
    <3>1. [Next]_vars
      BY <2>2
    <3>2. AloneInv'
      BY <2>2 DEF AloneInv, OneAtATime, AllAlone, Orderly, Symmetric, NoCrossedRequests, Accepted,
                  RequestAlone, FoundPending, StillToRemove, WholePair, Empty, vars, reqVars
    <3> QED
      BY <3>1, <3>2, NextTypeInv, NextMutual
  <2> QED
    BY <2>1, <2>2
<1>3. AloneInv => OrderlyWhenAlone
  BY DEF AloneInv, AllAlone, Orderly, OrderlyWhenAlone
<1> QED
  BY <1>1, <1>2, <1>3, PTL DEF MCSpec
=============================================================================
