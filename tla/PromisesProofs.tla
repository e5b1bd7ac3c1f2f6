--------------------------- MODULE PromisesProofs ---------------------------
(***************************************************************************)
(* Theorems of Promises, for any habits and any number of requests in      *)
(* flight: the types, that a promise lives the life PromiseLifecycle       *)
(* states, that it is judged only when it is over, and that it has a       *)
(* habit; and, with the history variable of MCPromises, that archived      *)
(* habits hold no Active promise and visibility rows follow the habits as  *)
(* long as requests do not overlap.                                        *)
(***************************************************************************)
EXTENDS MCPromises, TLAPS

-----------------------------------------------------------------------------
(* The inductive invariant: the types, what an archive holds, what a       *)
(* resolution has read.                                                    *)

\* A row an archive has cancelled and not committed is Active for all others,
\* it is the only one of its transaction, and no two transactions hold it.
HeldOK ==
  \A r \in Requests : \A p \in held[r] :
    /\ Open(p)
    /\ \A q \in held[r] : q = p
    /\ ~LockedByOther(r, p)

\* What LookToGet read stays true: ids are not reused, end dates do not move.
ReadOK ==
  \A r \in Requests :
    pc[r] = "resolve" =>
      /\ job[r].id \in 1 .. minted
      /\ job[r].id \in DOMAIN promises => promises[job[r].id].ends < today + Skew

IInv == TypeOK /\ HeldOK /\ ReadOK /\ JudgedWhenOver /\ PromiseHasHabit

NoRows == [p \in {} |-> 0]

LEMMA JobTyped ==
  /\ NoJob \in Job
  /\ \A op \in {"create", "get", "toggle", "archive", "visibility", "cancel"}, h \in Habits,
       ends \in Days, public \in BOOLEAN, id \in Ids \cup {None} :
         /\ Ask(op, h, ends, public, id) \in Job /\ Ask(op, h, ends, public, id).habit = h
         /\ For(op, h) \in Job /\ For(op, h).habit = h
  /\ 0 \in Days
BY PromisesAssumption DEF NoJob, Job, For, Ask, Days, None

LEMMA InitIInv == Init => IInv
<1> SUFFICES ASSUME Init PROVE IInv
  OBVIOUS
<1>1. TypeOK
  BY JobTyped, PromisesAssumption DEF Init, TypeOK, PCs
<1> QED
  BY <1>1 DEF Init, IInv, HeldOK, ReadOK, JudgedWhenOver, PromiseHasHabit

LEMMA BeginIInv ==
  ASSUME IInv, NEW r \in Requests, NEW step \in {"look", "cancel", "setting"},
         NEW j \in Job, j.habit \in Habits, Begin(r, step, j), UNCHANGED <<today, dbVars>>
  PROVE  IInv'
BY DEF Begin, IInv, TypeOK, HeldOK, ReadOK, JudgedWhenOver, PromiseHasHabit, PCs,
       dbVars, Open, LockedByOther, Active

LEMMA ArriveIInv ==
  ASSUME IInv, NEW r \in Requests, Arrive(r)
  PROVE  IInv'
<1>1. PICK h \in Habits :
        \/ \E ends \in Days, public \in BOOLEAN : StartPromise(r, h, ends, public)
        \/ StartGet(r, h) \/ StartCancel(r, h) \/ StartArchive(r, h) \/ StartVisibility(r, h)
        \/ \E public \in BOOLEAN : StartToggle(r, h, public)
  BY DEF Arrive
<1>2. Active(h) \subseteq Ids
  BY PromisesAssumption DEF Active, IInv, TypeOK, Ids
<1>3. UNCHANGED <<today, dbVars>>
  BY <1>1 DEF StartPromise, StartGet, StartCancel, StartArchive, StartVisibility, StartToggle
<1>4. ASSUME NEW step \in {"look", "cancel", "setting"},
             NEW op \in {"create", "get", "toggle", "archive", "visibility", "cancel"},
             NEW ends \in Days, NEW public \in BOOLEAN, NEW id \in Ids \cup {None},
             Begin(r, step, Ask(op, h, ends, public, id))
      PROVE  IInv'
  BY <1>3, <1>4, JobTyped, BeginIInv
<1>5. /\ 0 \in Days /\ FALSE \in BOOLEAN /\ None \in Ids \cup {None}
      /\ \A op : For(op, h) = Ask(op, h, 0, FALSE, None)
  BY JobTyped DEF For
<1>6. CASE \E ends \in Days, public \in BOOLEAN : StartPromise(r, h, ends, public)
  BY <1>4, <1>5, <1>6 DEF StartPromise
<1>7. CASE StartGet(r, h) \/ StartArchive(r, h) \/ StartVisibility(r, h)
  BY <1>4, <1>5, <1>7 DEF StartGet, StartArchive, StartVisibility
<1>8. CASE StartCancel(r, h)
  BY <1>2, <1>4, <1>5, <1>8 DEF StartCancel
<1>9. CASE \E public \in BOOLEAN : StartToggle(r, h, public)
  BY <1>4, <1>5, <1>9 DEF StartToggle
<1> QED
  BY <1>1, <1>6, <1>7, <1>8, <1>9

\* What a handler's last step may do to the tables.
TablesTyped ==
  /\ today \in 0 .. MaxDay
  /\ habits \in [Habits -> {"none", "active", "archived", "gone"}]
  /\ settings \subseteq Habits /\ minted \in 0 .. MaxRows
  /\ DOMAIN promises \subseteq 1 .. minted /\ \A p \in DOMAIN promises : promises[p] \in Promise

LEMMA ReturnIInv ==
  ASSUME IInv, NEW r \in Requests, Return(r), UNCHANGED today, TablesTyped',
         minted' >= minted,
         \A p \in DOMAIN promises' :
           \/ p \in DOMAIN promises /\ promises'[p].ends = promises[p].ends
           \/ p = minted + 1,
         \A q \in Requests \ {r} : \A p \in held[q] : Open(p)',
         JudgedWhenOver', PromiseHasHabit'
  PROVE  IInv'
<1>1. /\ pc' = [pc EXCEPT ![r] = "idle"] /\ job' = [job EXCEPT ![r] = NoJob]
      /\ held' = [held EXCEPT ![r] = {}] /\ pc \in [Requests -> PCs]
      /\ job \in [Requests -> Job] /\ held \in [Requests -> SUBSET Ids]
      /\ TypeOK /\ HeldOK /\ ReadOK
  BY DEF Return, IInv, TypeOK
<1>2. TypeOK'
  BY <1>1, JobTyped DEF TypeOK, TablesTyped, PCs
<1>3. HeldOK'
  BY <1>1 DEF HeldOK, LockedByOther
<1>4. ReadOK'
  <2>1. minted \in Nat /\ minted' \in Nat
    BY <1>1, <1>2, PromisesAssumption DEF TypeOK
  <2>2. ASSUME NEW q \in Requests, pc'[q] = "resolve"
        PROVE  /\ q # r /\ pc[q] = "resolve" /\ job'[q] = job[q]
    BY <1>1, <2>2
  <2>3. ASSUME NEW q \in Requests, pc'[q] = "resolve"
        PROVE  /\ job[q].id \in 1 .. minted'
               /\ job[q].id \in DOMAIN promises' => promises'[job[q].id].ends < today + Skew
    BY <1>1, <2>1, <2>2, <2>3 DEF ReadOK
  <2> QED
    BY <2>2, <2>3 DEF ReadOK
<1> QED
  BY <1>2, <1>3, <1>4 DEF IInv

\* The same when the tables are left alone.
LEMMA GiveUpIInv ==
  ASSUME IInv, NEW r \in Requests, Return(r), UNCHANGED <<today, dbVars>>
  PROVE  IInv'
<1>1. /\ UNCHANGED <<today, habits, settings, promises, minted>>
      /\ TypeOK /\ HeldOK /\ JudgedWhenOver /\ PromiseHasHabit
  BY DEF dbVars, IInv
<1>2. TablesTyped' /\ minted' >= minted
  BY <1>1, PromisesAssumption DEF TablesTyped, TypeOK
<1>3. JudgedWhenOver' /\ PromiseHasHabit' /\ \A q \in Requests : \A p \in held[q] : Open(p)'
  BY <1>1 DEF JudgedWhenOver, PromiseHasHabit, HeldOK, Open
<1> QED
  BY <1>1, <1>2, <1>3, ReturnIInv

LEMMA GoIInv ==
  ASSUME IInv, NEW r \in Requests, pc[r] \in {"look", "setting"}, UNCHANGED <<today, dbVars>>,
         NEW step \in {"insert", "toggle", "retire", "archive", "resolve",
                        "updateSetting", "insertSetting"},
         NEW id \in Ids \cup {None}, Go(r, step, id),
         step = "resolve" => id \in DOMAIN promises /\ promises[id].ends < today + Skew
  PROVE  IInv'
<1>1. /\ UNCHANGED <<today, habits, settings, promises, minted, held>>
      /\ pc' = [pc EXCEPT ![r] = step] /\ job' = [job EXCEPT ![r].id = id]
      /\ TypeOK /\ HeldOK /\ ReadOK /\ JudgedWhenOver /\ PromiseHasHabit
  BY DEF dbVars, IInv, Go
<1>2. /\ job' \in [Requests -> Job] /\ job'[r].id = id /\ job'[r].habit = job[r].habit
      /\ \A q \in Requests \ {r} : job'[q] = job[q]
  BY <1>1 DEF TypeOK, Job
<1>3. TypeOK'
  <2>1. job[r].habit \in Habits
    BY <1>1 DEF TypeOK
  <2> QED
    BY <1>1, <1>2, <2>1 DEF TypeOK, PCs
<1>4. HeldOK'
  BY <1>1 DEF HeldOK, Open, LockedByOther
<1>5. ReadOK'
  BY <1>1, <1>2 DEF ReadOK, TypeOK
<1>6. JudgedWhenOver' /\ PromiseHasHabit'
  BY <1>1 DEF JudgedWhenOver, PromiseHasHabit
<1> QED
  BY <1>3, <1>4, <1>5, <1>6 DEF IInv

LEMMA LookIInv ==
  ASSUME IInv, NEW r \in Requests,
         LookToCreate(r) \/ LookToGet(r) \/ LookToToggle(r) \/ LookToArchive(r) \/ FindSetting(r)
  PROVE  IInv'
<1>1. None \in Ids \cup {None} /\ \A h : Active(h) \subseteq Ids /\ Active(h) \subseteq DOMAIN promises
  BY PromisesAssumption DEF Active, IInv, TypeOK, Ids
<1>2. CASE LookToCreate(r)
  BY <1>1, <1>2, GoIInv, GiveUpIInv DEF LookToCreate
<1>3. CASE LookToGet(r)
  <2>1. CASE Return(r)
    BY <1>3, <2>1, GiveUpIInv DEF LookToGet
  <2>2. ASSUME NEW local \in LocalDates, NEW p \in Active(job[r].habit),
               Over(p, local), Go(r, "resolve", p)
        PROVE  IInv'
    <3>1. p \in DOMAIN promises /\ promises[p].ends < today + Skew /\ p \in Ids
      <4>1. p \in DOMAIN promises /\ promises[p].ends \in Int /\ today \in Int
        BY <1>1, PromisesAssumption DEF IInv, TypeOK, Promise, Days
      <4> QED
        BY <1>1, <2>2, <4>1, PromisesAssumption DEF Over, LocalDates
    <3> QED
      BY <1>3, <2>2, <3>1, GoIInv DEF LookToGet
  <2> QED
    BY <1>3, <2>1, <2>2 DEF LookToGet
<1>4. CASE LookToToggle(r)
  BY <1>1, <1>4, GoIInv, GiveUpIInv DEF LookToToggle
<1>5. CASE LookToArchive(r)
  BY <1>1, <1>5, GoIInv DEF LookToArchive
<1>6. CASE FindSetting(r)
  BY <1>1, <1>6, GoIInv DEF FindSetting
<1> QED
  BY <1>2, <1>3, <1>4, <1>5, <1>6

-----------------------------------------------------------------------------
(* The writes.                                                             *)

LEMMA InsertIInv ==
  ASSUME IInv, NEW r \in Requests, InsertPromise(r)
  PROVE  IInv'
<1> DEFINE j   == job[r]
           new == [habit |-> j.habit, ends |-> j.ends, public |-> j.public, status |-> "Active"]
<1>1. Return(r) /\ UNCHANGED <<today, habits, settings>>
  BY DEF InsertPromise
<1>2. CASE UNCHANGED <<minted, promises>>
  BY <1>1, <1>2, GiveUpIInv DEF dbVars
<1>3. CASE /\ ForeignKey(j.habit) /\ minted < MaxRows /\ minted' = minted + 1
           /\ promises' = [p \in DOMAIN promises \cup {minted + 1} |->
                             IF p = minted + 1 THEN new ELSE promises[p]]
  <2>1. /\ TypeOK /\ HeldOK /\ JudgedWhenOver /\ PromiseHasHabit
        /\ j \in Job /\ minted \in Nat /\ minted + 1 \notin DOMAIN promises
    BY PromisesAssumption DEF IInv, TypeOK
  <2>2. j.habit \in Habits
    BY <2>1 DEF InsertPromise, TypeOK
  <2>3. new \in Promise /\ new.status = "Active"
    BY <2>1, <2>2 DEF Job, Promise
  <2>4. /\ DOMAIN promises' = DOMAIN promises \cup {minted + 1}
        /\ promises'[minted + 1] = new
        /\ \A p \in DOMAIN promises : promises'[p] = promises[p]
    BY <1>3, <2>1
  <2> HIDE DEF new
  <2>5. TablesTyped' /\ minted' >= minted
    BY <1>1, <1>3, <2>1, <2>3, <2>4, PromisesAssumption DEF TypeOK, TablesTyped
  <2>6. \A q \in Requests : \A p \in held[q] : Open(p)'
    BY <2>1, <2>4 DEF HeldOK, Open
  <2>7. JudgedWhenOver'
    BY <1>1, <2>1, <2>3, <2>4 DEF JudgedWhenOver
  <2>8. PromiseHasHabit'
    <3>1. new.habit = j.habit
      BY DEF new
    <3> QED
      BY <1>1, <1>3, <2>1, <2>4, <3>1 DEF PromiseHasHabit, ForeignKey
  <2> QED
    BY <1>1, <2>4, <2>5, <2>6, <2>7, <2>8, ReturnIInv
<1> QED
  BY <1>2, <1>3 DEF InsertPromise

\* A row rewritten in place: its habit and its end date stay.
LEMMA RewriteIInv ==
  ASSUME IInv, NEW r \in Requests, Return(r), UNCHANGED <<today, habits, minted>>,
         settings' \subseteq Habits,
         DOMAIN promises' = DOMAIN promises,
         \A p \in DOMAIN promises :
           /\ promises'[p] \in Promise
           /\ promises'[p].habit = promises[p].habit /\ promises'[p].ends = promises[p].ends
           /\ promises'[p].status \in {"Kept", "EndedBelow"} =>
                \/ promises[p].status = promises'[p].status
                \/ promises[p].ends < today + Skew,
         \A q \in Requests \ {r} : \A p \in held[q] : promises'[p].status = promises[p].status
  PROVE  IInv'
<1>1. TypeOK /\ HeldOK /\ JudgedWhenOver /\ PromiseHasHabit
  BY DEF IInv
<1>2. TablesTyped' /\ minted' >= minted
  BY <1>1, PromisesAssumption DEF TypeOK, TablesTyped
<1>3. \A q \in Requests \ {r} : \A p \in held[q] : Open(p)'
  BY <1>1 DEF HeldOK, Open
<1>4. JudgedWhenOver'
  BY <1>1 DEF JudgedWhenOver
<1>5. PromiseHasHabit'
  BY <1>1 DEF PromiseHasHabit
<1> QED
  BY <1>2, <1>3, <1>4, <1>5, ReturnIInv

LEMMA EndIInv ==
  ASSUME IInv, NEW r \in Requests, NEW how \in Ends, EndPromise(r, how)
  PROVE  IInv'
<1> DEFINE id == job[r].id
<1>1. Return(r) /\ UNCHANGED <<today, habits, settings, minted>> /\ ~LockedByOther(r, id)
  BY DEF EndPromise
<1>2. TypeOK /\ HeldOK /\ ReadOK
  BY DEF IInv
<1>3. CASE Open(id) /\ promises' = [promises EXCEPT ![id].status = how]
  <2>1. DOMAIN promises' = DOMAIN promises /\ id \in DOMAIN promises
    BY <1>3 DEF Open
  <2>2. ASSUME NEW p \in DOMAIN promises
        PROVE  /\ promises'[p] \in Promise
               /\ promises'[p].habit = promises[p].habit /\ promises'[p].ends = promises[p].ends
               /\ promises'[p].status = IF p = id THEN how ELSE promises[p].status
    BY <1>2, <1>3 DEF TypeOK, Promise, Ends
  <2>3. how \in {"Kept", "EndedBelow"} => promises[id].ends < today + Skew
    BY <1>2, <2>1 DEF EndPromise, ReadOK
  <2>4. \A q \in Requests \ {r} : \A p \in held[q] : p # id /\ p \in DOMAIN promises
    BY <1>1, <1>2 DEF LockedByOther, HeldOK, Open
  <2>5. settings' \subseteq Habits
    BY <1>1, <1>2 DEF TypeOK
  <2> QED
    BY <1>1, <2>1, <2>2, <2>3, <2>4, <2>5, RewriteIInv
<1>4. CASE UNCHANGED promises
  BY <1>1, <1>4, GiveUpIInv DEF dbVars
<1> QED
  BY <1>3, <1>4 DEF EndPromise

LEMMA SetPublicIInv ==
  ASSUME IInv, NEW r \in Requests, SetPublic(r)
  PROVE  IInv'
<1> DEFINE id == job[r].id
<1>1. Return(r) /\ UNCHANGED <<today, habits, settings, minted>>
  BY DEF SetPublic
<1>2. TypeOK /\ HeldOK /\ job[r] \in Job
  BY DEF IInv, TypeOK
<1>3. CASE id \in DOMAIN promises /\ promises' = [promises EXCEPT ![id].public = job[r].public]
  <2>1. DOMAIN promises' = DOMAIN promises
    BY <1>3
  <2>2. ASSUME NEW p \in DOMAIN promises
        PROVE  /\ promises'[p] \in Promise
               /\ promises'[p].habit = promises[p].habit /\ promises'[p].ends = promises[p].ends
               /\ promises'[p].status = promises[p].status
    BY <1>2, <1>3 DEF TypeOK, Promise, Job
  <2>3. \A q \in Requests : \A p \in held[q] : p \in DOMAIN promises
    BY <1>2 DEF HeldOK, Open
  <2>4. settings' \subseteq Habits
    BY <1>1, <1>2 DEF TypeOK
  <2> QED
    BY <1>1, <2>1, <2>2, <2>3, <2>4, RewriteIInv
<1>4. CASE UNCHANGED promises
  BY <1>1, <1>4, GiveUpIInv DEF dbVars
<1> QED
  BY <1>3, <1>4 DEF SetPublic

LEMMA RetireIInv ==
  ASSUME IInv, NEW r \in Requests, RetirePromise(r)
  PROVE  IInv'
<1> DEFINE id == job[r].id
           mine == IF Open(id) THEN {id} ELSE {}
<1>1. /\ UNCHANGED <<job, today, habits, settings, promises, minted>>
      /\ pc[r] = "retire" /\ ~LockedByOther(r, id)
      /\ held' = [held EXCEPT ![r] = mine] /\ pc' = [pc EXCEPT ![r] = "archive"]
      /\ TypeOK /\ HeldOK /\ ReadOK /\ JudgedWhenOver /\ PromiseHasHabit
  BY DEF RetirePromise, dbVars, IInv
<1>2. mine \in SUBSET Ids /\ \A p \in mine : Open(p) /\ p = id
  BY <1>1, PromisesAssumption DEF Open, TypeOK, Ids
<1> HIDE DEF mine
<1>3. TypeOK'
  BY <1>1, <1>2 DEF TypeOK, PCs
<1>4. HeldOK'
  <2>1. /\ held'[r] = mine /\ \A q \in Requests \ {r} : held'[q] = held[q]
        /\ \A p : Open(p)' <=> Open(p)
    BY <1>1 DEF TypeOK, Open
  <2>2. \A q \in Requests \ {r} : \A p \in held[q] : p \notin mine
    BY <1>1, <1>2 DEF LockedByOther
  <2> QED
    BY <1>1, <1>2, <2>1, <2>2 DEF HeldOK, LockedByOther
<1>5. ReadOK'
  BY <1>1 DEF ReadOK, TypeOK
<1>6. JudgedWhenOver' /\ PromiseHasHabit'
  BY <1>1 DEF JudgedWhenOver, PromiseHasHabit
<1> QED
  BY <1>3, <1>4, <1>5, <1>6 DEF IInv

LEMMA CommitArchiveIInv ==
  ASSUME IInv, NEW r \in Requests, CommitArchive(r)
  PROVE  IInv'
<1> DEFINE h == job[r].habit
<1>1. Return(r) /\ UNCHANGED <<today, minted>>
  BY DEF CommitArchive
<1>2. /\ TypeOK /\ HeldOK /\ JudgedWhenOver /\ PromiseHasHabit /\ h \in Habits
  BY DEF IInv, CommitArchive, TypeOK
<1>3. CASE UNCHANGED <<habits, settings, promises>>
  BY <1>1, <1>3, GiveUpIInv DEF dbVars
<1>4. CASE /\ habits' = [habits EXCEPT ![h] = "archived"] /\ settings' = settings \ {h}
           /\ promises' = [p \in DOMAIN promises |->
                IF p \in held[r] THEN [promises[p] EXCEPT !.status = "Cancelled"]
                ELSE promises[p]]
  <2>1. DOMAIN promises' = DOMAIN promises
    BY <1>4
  <2>2. ASSUME NEW p \in DOMAIN promises
        PROVE  /\ promises'[p] \in Promise
               /\ promises'[p].habit = promises[p].habit /\ promises'[p].ends = promises[p].ends
               /\ promises'[p].status = IF p \in held[r] THEN "Cancelled" ELSE promises[p].status
    BY <1>2, <1>4 DEF TypeOK, Promise, Ends
  <2>3. TablesTyped' /\ minted' >= minted
    BY <1>1, <1>2, <1>4, <2>1, <2>2, PromisesAssumption DEF TypeOK, TablesTyped
  <2>4. \A q \in Requests \ {r} : \A p \in held[q] : Open(p)'
    BY <1>2, <2>1, <2>2 DEF HeldOK, Open, LockedByOther
  <2>5. JudgedWhenOver'
    BY <1>1, <1>2, <2>1, <2>2 DEF JudgedWhenOver
  <2>6. PromiseHasHabit'
    BY <1>2, <1>4, <2>1, <2>2 DEF PromiseHasHabit, TypeOK
  <2> QED
    BY <1>1, <2>1, <2>2, <2>3, <2>4, <2>5, <2>6, ReturnIInv
<1> QED
  BY <1>3, <1>4 DEF CommitArchive

LEMMA WriteSettingIInv ==
  ASSUME IInv, NEW r \in Requests, WriteSetting(r)
  PROVE  IInv'
<1>1. /\ Return(r) /\ UNCHANGED <<today, habits, promises, minted>>
      /\ TypeOK /\ HeldOK /\ pc[r] # "idle"
  BY DEF WriteSetting, IInv
<1>2. settings' \subseteq Habits
  BY <1>1 DEF WriteSetting, TypeOK
<1> QED
  BY <1>1, <1>2, RewriteIInv DEF TypeOK

LEMMA NextIInv == IInv /\ [Next]_vars => IInv'
<1> SUFFICES ASSUME IInv, [Next]_vars PROVE IInv'
  OBVIOUS
<1>1. ASSUME NEW r \in Requests, Step(r) PROVE IInv'
  BY <1>1, LookIInv, InsertIInv, EndIInv, SetPublicIInv, RetireIInv, CommitArchiveIInv,
     WriteSettingIInv DEF Step
<1>2. ASSUME NEW r \in Requests, Interrupt(r) PROVE IInv'
  BY <1>2, GiveUpIInv DEF Interrupt
<1> USE DEF IInv, TypeOK, HeldOK, ReadOK, JudgedWhenOver, PromiseHasHabit, Open, LockedByOther
<1>3. ASSUME NEW h \in Habits, CreateHabit(h) PROVE IInv'
  BY <1>3 DEF CreateHabit, reqVars
<1>4. CASE DeleteAccount
  BY <1>4 DEF DeleteAccount, reqVars
<1>5. CASE Tick
  BY <1>5, PromisesAssumption DEF Tick, reqVars, dbVars, Promise, Days
<1>6. CASE UNCHANGED vars
  BY <1>6 DEF vars, reqVars, dbVars
<1> QED
  BY <1>1, <1>2, <1>3, <1>4, <1>5, <1>6, ArriveIInv DEF Next

\* Every variable keeps the shape the handlers give it; a request holds a row
\* lock only between an archive's cancellation and its commit.
THEOREM TypeCorrect == Spec => []TypeOK
<1>1. IInv => TypeOK
  BY DEF IInv
<1> QED
  BY <1>1, InitIInv, NextIInv, PTL DEF Spec

\* A promise is judged only after its end date, although the request that judges
\* it read it earlier and others cancelled, archived or made promises since.
THEOREM JudgementWaits == Spec => []JudgedWhenOver
<1>1. IInv => JudgedWhenOver
  BY DEF IInv
<1> QED
  BY <1>1, InitIInv, NextIInv, PTL DEF Spec

\* No promise outlives its habit's row.
THEOREM NoOrphanPromise == Spec => []PromiseHasHabit
<1>1. IInv => PromiseHasHabit
  BY DEF IInv
<1> QED
  BY <1>1, InitIInv, NextIInv, PTL DEF Spec

-----------------------------------------------------------------------------
(* Promises implements PromiseLifecycle.                                   *)

Stage == [p \in Ids |-> StageOf(p)]
Habit == [p \in Ids |-> HabitOf(p)]
Rests == UNCHANGED <<Stage, Habit>>

LEMMA InitLife == Init => Life!Init
BY PromisesAssumption DEF Init, Life!Init, StageOf, HabitOf, Ids

LEMMA QuietLife ==
  ASSUME UNCHANGED minted, DOMAIN promises' = DOMAIN promises,
         \A p \in DOMAIN promises : /\ promises'[p].status = promises[p].status
                                   /\ promises'[p].habit = promises[p].habit
  PROVE  Rests
BY DEF Rests, Stage, Habit, StageOf, HabitOf

\* One promise ends; all else rests.
LEMMA EndLife ==
  ASSUME IInv, NEW id, Open(id), NEW how \in Ends, UNCHANGED minted,
         DOMAIN promises' = DOMAIN promises,
         \A p \in DOMAIN promises :
           /\ promises'[p].status = IF p = id THEN how ELSE promises[p].status
           /\ promises'[p].habit = promises[p].habit
  PROVE  Life!Next
<1>1. id \in Ids /\ DOMAIN promises \subseteq Ids
  BY PromisesAssumption DEF IInv, TypeOK, Ids, Open
<1>2. Stage[id] = "Active" /\ how \in Life!Ends
  BY <1>1 DEF Stage, StageOf, Open, Life!Ends, Ends
<1>3. \A p \in Ids : StageOf(p)' = IF p = id THEN how ELSE StageOf(p)
  BY <1>1 DEF StageOf, Open
<1>4. Stage' = [Stage EXCEPT ![id] = how]
  BY <1>3 DEF Stage
<1>5. Habit' = Habit
  BY DEF Habit, HabitOf
<1>6. Life!End(id, how)
  BY <1>2, <1>4, <1>5 DEF Life!End, Stage, Habit
<1> QED
  BY <1>1, <1>2, <1>6 DEF Life!Next

LEMMA InsertLife ==
  ASSUME IInv, NEW r \in Requests, InsertPromise(r)
  PROVE  Life!Next \/ Rests
<1> DEFINE h   == job[r].habit
           new == minted + 1
<1>1. CASE UNCHANGED <<minted, promises>>
  BY <1>1, QuietLife
<1>2. CASE /\ ~IndexTaken(h) /\ minted < MaxRows /\ minted' = new
           /\ promises' = [p \in DOMAIN promises \cup {new} |->
                IF p = new THEN [habit |-> h, ends |-> job[r].ends,
                                 public |-> job[r].public, status |-> "Active"]
                ELSE promises[p]]
  <2>1. /\ minted \in Nat /\ DOMAIN promises \subseteq 1 .. minted /\ new \in Ids
        /\ Ids \subseteq Nat /\ h \in Habits
    BY <1>2, PromisesAssumption DEF IInv, TypeOK, Ids, InsertPromise
  <2>2. Stage[new] = "unborn"
    BY <2>1 DEF Stage, StageOf
  <2>3. \A q \in Ids : Stage[q] = "Active" => Habit[q] # h
    BY <1>2 DEF Stage, Habit, StageOf, HabitOf, IndexTaken, Active
  <2>4. \A q \in Ids : /\ StageOf(q)' = IF q = new THEN "Active" ELSE StageOf(q)
                       /\ HabitOf(q)' = IF q = new THEN h ELSE HabitOf(q)
    BY <1>2, <2>1 DEF StageOf, HabitOf
  <2>5. Stage' = [Stage EXCEPT ![new] = "Active"] /\ Habit' = [Habit EXCEPT ![new] = h]
    BY <2>4 DEF Stage, Habit
  <2>6. Life!Make(new, h)
    BY <2>2, <2>3, <2>5 DEF Life!Make, Stage, Habit
  <2> QED
    BY <2>1, <2>6 DEF Life!Next
<1> QED
  BY <1>1, <1>2 DEF InsertPromise

LEMMA CommitLife ==
  ASSUME IInv, NEW r \in Requests, CommitArchive(r)
  PROVE  Life!Next \/ Rests
<1>1. CASE UNCHANGED promises
  BY <1>1, QuietLife DEF CommitArchive
<1>2. CASE promises' = [p \in DOMAIN promises |->
             IF p \in held[r] THEN [promises[p] EXCEPT !.status = "Cancelled"] ELSE promises[p]]
  <2>1. \A p \in DOMAIN promises :
          /\ promises'[p].status = IF p \in held[r] THEN "Cancelled" ELSE promises[p].status
          /\ promises'[p].habit = promises[p].habit
    BY <1>2 DEF IInv, TypeOK, Promise
  <2>2. DOMAIN promises' = DOMAIN promises /\ UNCHANGED minted /\ "Cancelled" \in Ends
    BY <1>2 DEF CommitArchive, Ends
  <2>3. CASE held[r] = {}
    BY <2>1, <2>2, <2>3, QuietLife
  <2>4. CASE held[r] # {}
    <3>1. PICK id \in held[r] : Open(id) /\ \A p \in held[r] : p = id
      BY <2>4 DEF IInv, HeldOK
    <3> QED
      BY <2>1, <2>2, <3>1, EndLife
  <2> QED
    BY <2>3, <2>4
<1> QED
  BY <1>1, <1>2 DEF CommitArchive

LEMMA StepLife ==
  ASSUME IInv, NEW r \in Requests, Step(r)
  PROVE  Life!Next \/ Rests
<1>1. CASE UNCHANGED dbVars
  BY <1>1, QuietLife DEF dbVars
<1>2. CASE InsertPromise(r)
  BY <1>2, InsertLife
<1>3. ASSUME NEW how \in Ends, EndPromise(r, how) PROVE Life!Next \/ Rests
  <2>1. CASE UNCHANGED promises
    BY <1>3, <2>1, QuietLife DEF EndPromise
  <2>2. CASE Open(job[r].id) /\ promises' = [promises EXCEPT ![job[r].id].status = how]
    <3>1. /\ UNCHANGED minted /\ DOMAIN promises' = DOMAIN promises
          /\ \A p \in DOMAIN promises :
               /\ promises'[p].status = IF p = job[r].id THEN how ELSE promises[p].status
               /\ promises'[p].habit = promises[p].habit
      BY <1>3, <2>2 DEF EndPromise, IInv, TypeOK, Promise
    <3> QED
      BY <2>2, <3>1, EndLife
  <2> QED
    BY <1>3, <2>1, <2>2 DEF EndPromise
<1>4. CASE SetPublic(r)
  <2>1. CASE UNCHANGED promises
    BY <1>4, <2>1, QuietLife DEF SetPublic
  <2>2. CASE promises' = [promises EXCEPT ![job[r].id].public = job[r].public]
    BY <1>4, <2>2, QuietLife DEF SetPublic, IInv, TypeOK, Promise
  <2> QED
    BY <1>4, <2>1, <2>2 DEF SetPublic
<1>5. CASE CommitArchive(r)
  BY <1>5, CommitLife
<1>6. CASE WriteSetting(r)
  BY <1>6, QuietLife DEF WriteSetting
<1> QED
  BY <1>1, <1>2, <1>3, <1>4, <1>5, <1>6
  DEF Step, LookToCreate, LookToGet, LookToToggle, LookToArchive, RetirePromise, FindSetting

LEMMA NextLife == IInv /\ [Next]_vars => Life!Next \/ Rests
<1> SUFFICES ASSUME IInv, [Next]_vars PROVE Life!Next \/ Rests
  OBVIOUS
<1>1. ASSUME NEW r \in Requests, Arrive(r) \/ Interrupt(r) PROVE UNCHANGED dbVars
  BY <1>1 DEF Arrive, Interrupt, StartPromise, StartGet, StartCancel, StartArchive,
              StartVisibility, StartToggle
<1>2. CASE DeleteAccount
  <2>1. DOMAIN promises' = {} /\ UNCHANGED minted
    BY <1>2 DEF DeleteAccount
  <2>2. \A p \in Ids : /\ StageOf(p)' = IF StageOf(p) = "unborn" THEN "unborn" ELSE "deleted"
                       /\ HabitOf(p)' = NoHabit
    BY <2>1 DEF StageOf, HabitOf, IInv, TypeOK, Promise, Ends
  <2>3. Life!DeleteAll
    BY <2>2 DEF Life!DeleteAll
  <2> QED
    BY <2>3 DEF Life!Next
<1>3. ASSUME NEW h \in Habits, CreateHabit(h) PROVE Rests
  BY <1>3, QuietLife DEF CreateHabit
<1>4. CASE Tick \/ UNCHANGED vars
  BY <1>4, QuietLife DEF Tick, vars, dbVars
<1>5. UNCHANGED dbVars => Rests
  BY QuietLife DEF dbVars
<1> QED
  BY <1>1, <1>2, <1>3, <1>4, <1>5, StepLife DEF Next

\* A promise lives the life its owner is promised, whatever requests race: it
\* ends once, what it ended as is never rewritten, and no second promise of its
\* habit begins while it is Active.
THEOREM PromiseLives == Spec => LifeSpec
<1>1. IInv /\ [Next]_vars => [Life!Next]_<<Stage, Habit>>
  BY NextLife DEF Rests
<1>2. IInv /\ [Next]_vars => [Life!Next]_<<[p \in Ids |-> StageOf(p)], [p \in Ids |-> HabitOf(p)]>>
  BY <1>1 DEF Stage, Habit
<1> QED
  BY <1>2, InitLife, InitIInv, NextIInv, PTL DEF Spec, LifeSpec, Life!Spec

-----------------------------------------------------------------------------
(* The tables, and what the only request under way relies on: its habit is *)
(* as it found it, or gone with its account.                               *)

OneActive == \A h \in Habits : \A p, q \in Active(h) : p = q

InStep == ArchivedHoldsNoPromise /\ SettingsInSync /\ OneActive

RequestAlone(r) ==
  LET h == job[r].habit
  IN /\ pc[r] = "look" /\ job[r].op # "archive" => habits[h] \in {"active", "gone"}
     /\ pc[r] \in {"insert", "setting", "updateSetting", "insertSetting"}
          => habits[h] \in {"active", "gone"}
     /\ pc[r] = "retire" => Active(h) \subseteq {job[r].id}
     /\ pc[r] = "archive" => Active(h) \subseteq held[r]

AllAlone == InStep /\ \A r \in Requests : RequestAlone(r)

AloneInv == alone => OneAtATime /\ AllAlone

LEMMA InitAlone == MCInit => AloneInv
BY DEF MCInit, Init, AloneInv, OneAtATime, AllAlone, InStep, ArchivedHoldsNoPromise,
       SettingsInSync, OneActive, Active, RequestAlone

\* No promise becomes Active, and the habits and the visibility rows stay.
LEMMA FewerActive ==
  ASSUME InStep, UNCHANGED <<habits, settings>>, \A h \in Habits : Active(h)' \subseteq Active(h)
  PROVE  InStep'
BY DEF InStep, ArchivedHoldsNoPromise, SettingsInSync, OneActive

LEMMA SameActive ==
  ASSUME UNCHANGED promises
  PROVE  \A h \in Habits : Active(h)' = Active(h)
BY DEF Active

\* The request goes on with the database as it was.
LEMMA GoesOn ==
  ASSUME InStep, NEW r \in Requests, OneAtATime', pc'[r] # "idle", RequestAlone(r)',
         UNCHANGED dbVars
  PROVE  AllAlone'
<1>1. InStep'
  BY SameActive, FewerActive DEF dbVars
<1>2. ASSUME NEW q \in Requests, q # r PROVE RequestAlone(q)'
  <2>1. pc'[q] = "idle"
    BY <1>2 DEF OneAtATime
  <2> QED
    BY <2>1 DEF RequestAlone
<1> QED
  BY <1>1, <1>2 DEF AllAlone

\* The request ends: nobody is under way.
LEMMA Finishes ==
  ASSUME IInv, OneAtATime, NEW r \in Requests, pc[r] # "idle", Return(r), InStep'
  PROVE  AllAlone'
<1>1. ASSUME NEW q \in Requests PROVE pc'[q] = "idle"
  BY DEF IInv, TypeOK, Return, OneAtATime
<1> QED
  BY <1>1 DEF AllAlone, RequestAlone

-----------------------------------------------------------------------------

LEMMA ArriveAlone ==
  ASSUME IInv, AllAlone, OneAtATime', NEW r \in Requests, Arrive(r)
  PROVE  AllAlone'
<1>1. PICK h \in Habits :
        \/ \E ends \in Days, public \in BOOLEAN : StartPromise(r, h, ends, public)
        \/ StartGet(r, h) \/ StartCancel(r, h) \/ StartArchive(r, h) \/ StartVisibility(r, h)
        \/ \E public \in BOOLEAN : StartToggle(r, h, public)
  BY DEF Arrive
<1>2. InStep /\ UNCHANGED dbVars /\ pc \in [Requests -> PCs] /\ job \in [Requests -> Job]
  BY <1>1 DEF AllAlone, IInv, TypeOK, StartPromise, StartGet, StartCancel, StartArchive,
              StartVisibility, StartToggle
<1>3. ASSUME NEW step \in {"look", "cancel", "setting"}, NEW j, j.habit = h,
             Begin(r, step, j),
             step = "setting" \/ (step = "look" /\ j.op # "archive") => habits[h] = "active"
      PROVE  AllAlone'
  <2>1. pc'[r] = step /\ job'[r] = j
    BY <1>2, <1>3 DEF Begin
  <2>2. RequestAlone(r)'
    BY <1>2, <1>3, <2>1 DEF RequestAlone, dbVars
  <2> QED
    BY <1>2, <2>1, <2>2, GoesOn
<1>4. \A op, ends, public, id :
        Ask(op, h, ends, public, id).habit = h /\ For(op, h).habit = h /\ For(op, h).op = op
  BY DEF Ask, For
<1>5. CASE \/ \E ends \in Days, public \in BOOLEAN : StartPromise(r, h, ends, public)
           \/ \E public \in BOOLEAN : StartToggle(r, h, public)
  BY <1>3, <1>4, <1>5 DEF StartPromise, StartToggle
<1>6. CASE StartGet(r, h) \/ StartVisibility(r, h)
  BY <1>3, <1>4, <1>6 DEF StartGet, StartVisibility
<1>7. CASE StartArchive(r, h)
  BY <1>3, <1>4, <1>7 DEF StartArchive
<1>8. CASE StartCancel(r, h)
  BY <1>3, <1>4, <1>8 DEF StartCancel
<1> QED
  BY <1>1, <1>5, <1>6, <1>7, <1>8

\* A promise is made of a habit that was active when it was looked up.
LEMMA InsertAlone ==
  ASSUME IInv, AllAlone, OneAtATime, NEW r \in Requests, InsertPromise(r)
  PROVE  AllAlone'
<1>h. PICK h \in Habits : h = job[r].habit
  BY DEF InsertPromise, IInv, TypeOK
<1> DEFINE new == [habit |-> h, ends |-> job[r].ends, public |-> job[r].public,
                   status |-> "Active"]
<1>1. /\ pc[r] = "insert" /\ Return(r) /\ UNCHANGED <<habits, settings>>
      /\ InStep /\ habits[h] \in {"active", "gone"}
  BY <1>h DEF InsertPromise, AllAlone, RequestAlone
<1>2. CASE UNCHANGED promises
  BY <1>1, <1>2, SameActive, FewerActive, Finishes
<1>3. CASE /\ ForeignKey(h) /\ ~IndexTaken(h)
           /\ promises' = [p \in DOMAIN promises \cup {minted + 1} |->
                             IF p = minted + 1 THEN new ELSE promises[p]]
  <2>1. habits[h] = "active" /\ Active(h) = {}
    BY <1>1, <1>3 DEF ForeignKey, IndexTaken
  <2>2. Active(h)' \subseteq {minted + 1}
    BY <1>3, <2>1 DEF Active
  <2>3. \A k \in Habits \ {h} : Active(k)' \subseteq Active(k)
    BY <1>3 DEF Active
  <2>4. InStep'
    BY <1>1, <2>1, <2>2, <2>3 DEF InStep, ArchivedHoldsNoPromise, SettingsInSync, OneActive
  <2> QED
    BY <1>1, <2>4, Finishes
<1> QED
  BY <1>h, <1>2, <1>3 DEF InsertPromise

\* Archiving has cancelled the only Active promise of its habit.
LEMMA CommitAlone ==
  ASSUME IInv, AllAlone, OneAtATime, NEW r \in Requests, CommitArchive(r)
  PROVE  AllAlone'
<1>h. PICK h \in Habits : h = job[r].habit
  BY DEF CommitArchive, IInv, TypeOK
<1>1. /\ pc[r] = "archive" /\ Return(r) /\ InStep /\ Active(h) \subseteq held[r]
      /\ h \in Habits /\ habits \in [Habits -> {"none", "active", "archived", "gone"}]
  BY <1>h DEF CommitArchive, AllAlone, RequestAlone, IInv, TypeOK
<1>2. CASE UNCHANGED <<habits, settings, promises>>
  BY <1>1, <1>2, SameActive, FewerActive, Finishes
<1>3. CASE /\ habits' = [habits EXCEPT ![h] = "archived"] /\ settings' = settings \ {h}
           /\ promises' = [p \in DOMAIN promises |->
                IF p \in held[r] THEN [promises[p] EXCEPT !.status = "Cancelled"]
                ELSE promises[p]]
  <2>1. ASSUME NEW k \in Habits PROVE Active(k)' \subseteq Active(k) \ held[r]
    <3>1. \A p \in DOMAIN promises : promises[p] \in Promise
      BY DEF IInv, TypeOK
    <3>2. ASSUME NEW p \in DOMAIN promises, p \in held[r] PROVE promises'[p].status = "Cancelled"
      BY <1>3, <3>1, <3>2 DEF Promise
    <3>3. ASSUME NEW p \in DOMAIN promises, p \notin held[r] PROVE promises'[p] = promises[p]
      BY <1>3, <3>3
    <3>4. DOMAIN promises' = DOMAIN promises
      BY <1>3
    <3> QED
      BY <3>2, <3>3, <3>4 DEF Active
  <2>2. Active(h)' = {}
    BY <1>1, <2>1
  <2>3. InStep'
    BY <1>1, <1>3, <2>1, <2>2 DEF InStep, ArchivedHoldsNoPromise, SettingsInSync, OneActive
  <2> QED
    BY <1>1, <2>3, Finishes
<1> QED
  BY <1>h, <1>2, <1>3 DEF CommitArchive

LEMMA StepAlone ==
  ASSUME IInv, AllAlone, OneAtATime, OneAtATime', NEW r \in Requests, Step(r)
  PROVE  AllAlone'
<1>r. pc[r] # "idle"
  BY DEF Step, LookToCreate, LookToGet, LookToToggle, LookToArchive, InsertPromise, SetPublic,
         RetirePromise, CommitArchive, FindSetting, WriteSetting, EndPromise
<1>h. PICK h \in Habits : h = job[r].habit
  BY <1>r DEF IInv, TypeOK
<1>0. /\ InStep /\ RequestAlone(r)
      /\ pc \in [Requests -> PCs] /\ job \in [Requests -> Job] /\ held \in [Requests -> SUBSET Ids]
  BY DEF AllAlone, IInv, TypeOK
<1>a. ASSUME NEW next, NEW id, Go(r, next, id)
      PROVE  /\ pc'[r] = next /\ job'[r].habit = h /\ job'[r].id = id /\ held' = held
             /\ job'[r].op = job[r].op
  BY <1>0, <1>h, <1>a DEF Go, Job
<1>b. ASSUME pc[r] # "idle", Return(r), UNCHANGED dbVars PROVE AllAlone'
  BY <1>0, <1>b, SameActive, FewerActive, Finishes DEF dbVars
<1>1. CASE LookToCreate(r)
  <2>1. pc[r] = "look" /\ job[r].op = "create" /\ UNCHANGED dbVars
    BY <1>1 DEF LookToCreate
  <2>2. CASE Go(r, "insert", None)
    <3>1. RequestAlone(r)'
      BY <1>0, <1>h, <1>a, <2>1, <2>2 DEF RequestAlone, dbVars
    <3> QED
      BY <1>0, <1>h, <1>a, <2>1, <2>2, <3>1, GoesOn
  <2> QED
    BY <1>1, <1>b, <2>1, <2>2 DEF LookToCreate
<1>2. CASE LookToGet(r) \/ LookToToggle(r)
  <2>1. pc[r] = "look" /\ UNCHANGED dbVars
    BY <1>2 DEF LookToGet, LookToToggle
  <2>2. ASSUME NEW next \in {"resolve", "toggle"}, NEW id, Go(r, next, id) PROVE AllAlone'
    BY <1>0, <1>h, <1>a, <2>1, <2>2, GoesOn DEF RequestAlone
  <2> QED
    BY <1>2, <1>b, <2>1, <2>2 DEF LookToGet, LookToToggle
<1>3. CASE LookToArchive(r)
  <2>1. pc[r] = "look" /\ UNCHANGED dbVars
    BY <1>3 DEF LookToArchive
  <2>2. ASSUME NEW p \in Active(h), Go(r, "retire", p) PROVE AllAlone'
    <3>1. Active(h) \subseteq {p}
      BY <1>0, <2>1, <2>2 DEF InStep, OneActive
    <3>2. Active(h)' = Active(h)
      BY <2>1 DEF Active, dbVars
    <3>3. job'[r].habit = h /\ job'[r].id = p /\ pc'[r] = "retire"
      BY <1>a, <2>2
    <3>4. RequestAlone(r)'
      BY <3>1, <3>2, <3>3 DEF RequestAlone
    <3> QED
      BY <1>0, <2>1, <3>3, <3>4, GoesOn
  <2>3. CASE Active(h) = {} /\ Go(r, "archive", None)
    <3>1. Active(h)' = Active(h)
      BY <2>1 DEF Active, dbVars
    <3>2. job'[r].habit = h /\ pc'[r] = "archive"
      BY <1>a, <2>3
    <3>3. RequestAlone(r)'
      BY <2>3, <3>1, <3>2 DEF RequestAlone
    <3> QED
      BY <1>0, <2>1, <3>2, <3>3, GoesOn
  <2> QED
    BY <1>3, <1>h, <2>2, <2>3 DEF LookToArchive
<1>4. CASE InsertPromise(r)
  BY <1>4, InsertAlone
<1>5. CASE SetPublic(r)
  <2>1. pc[r] = "toggle" /\ Return(r) /\ UNCHANGED <<habits, settings>>
    BY <1>5 DEF SetPublic
  <2>2. \A k \in Habits : Active(k)' \subseteq Active(k)
    <3>1. \A p \in DOMAIN promises : promises[p] \in Promise
      BY DEF IInv, TypeOK
    <3>2. CASE UNCHANGED promises
      BY <3>2, SameActive
    <3>3. CASE promises' = [promises EXCEPT ![job[r].id].public = job[r].public]
      BY <3>1, <3>3 DEF Active, Promise
    <3> QED
      BY <1>5, <3>2, <3>3 DEF SetPublic
  <2> QED
    BY <1>0, <2>1, <2>2, FewerActive, Finishes
<1>6. CASE \E how \in Ends : EndPromise(r, how)
  <2>1. PICK how \in Ends : EndPromise(r, how)
    BY <1>6
  <2>2. pc[r] # "idle" /\ Return(r) /\ UNCHANGED <<habits, settings>>
    BY <2>1 DEF EndPromise
  <2>3. \A k \in Habits : Active(k)' \subseteq Active(k)
    <3>1. \A p \in DOMAIN promises : promises[p] \in Promise
      BY DEF IInv, TypeOK
    <3>2. CASE UNCHANGED promises
      BY <3>2, SameActive
    <3>3. CASE promises' = [promises EXCEPT ![job[r].id].status = how]
      BY <3>1, <3>3 DEF Active, Promise, Ends
    <3> QED
      BY <2>1, <3>2, <3>3 DEF EndPromise
  <2> QED
    BY <1>0, <2>2, <2>3, FewerActive, Finishes
<1>7. CASE RetirePromise(r)
  <2>1. /\ pc[r] = "retire" /\ UNCHANGED <<job, dbVars>> /\ pc'[r] = "archive"
        /\ held'[r] = IF Open(job[r].id) THEN {job[r].id} ELSE {}
    BY <1>0, <1>7 DEF RetirePromise
  <2>2. Active(h) \subseteq {job[r].id} /\ job'[r].habit = h
    BY <1>0, <1>h, <2>1 DEF RequestAlone
  <2>3. Active(h) \subseteq held'[r]
    BY <2>1, <2>2 DEF Open, Active
  <2>4. Active(h)' = Active(h)
    BY <2>1 DEF Active, dbVars
  <2>5. RequestAlone(r)'
    BY <2>1, <2>2, <2>3, <2>4 DEF RequestAlone
  <2> QED
    BY <1>0, <2>1, <2>5, GoesOn
<1>8. CASE CommitArchive(r)
  BY <1>8, CommitAlone
<1>9. CASE FindSetting(r)
  <2>1. pc[r] = "setting" /\ UNCHANGED dbVars
    BY <1>9 DEF FindSetting
  <2>2. PICK next \in {"updateSetting", "insertSetting"} : Go(r, next, None)
    BY <1>9 DEF FindSetting
  <2>3. RequestAlone(r)'
    BY <1>0, <1>h, <1>a, <2>1, <2>2 DEF RequestAlone, dbVars
  <2> QED
    BY <1>0, <1>h, <1>a, <2>1, <2>2, <2>3, GoesOn
<1>10. CASE WriteSetting(r)
  <2>1. pc[r] \in {"updateSetting", "insertSetting"} /\ Return(r) /\ UNCHANGED <<habits, promises>>
    BY <1>10 DEF WriteSetting
  <2>2. \A k \in Habits : Active(k)' = Active(k)
    BY <2>1, SameActive
  <2>3. SettingsInSync'
    BY <1>0, <1>h, <1>10, <2>1 DEF WriteSetting, RequestAlone, InStep, SettingsInSync
  <2>4. InStep'
    BY <1>0, <2>1, <2>2, <2>3 DEF InStep, ArchivedHoldsNoPromise, OneActive
  <2> QED
    BY <2>1, <2>4, Finishes
<1> QED
  BY <1>1, <1>2, <1>3, <1>4, <1>5, <1>6, <1>7, <1>8, <1>9, <1>10 DEF Step

LEMMA CreateAlone ==
  ASSUME IInv, AllAlone, NEW k \in Habits, CreateHabit(k)
  PROVE  AllAlone'
<1>1. /\ habits[k] = "none" /\ habits' = [habits EXCEPT ![k] = "active"]
      /\ settings' = settings \cup {k} /\ UNCHANGED <<promises, pc, job, held>>
      /\ habits \in [Habits -> {"none", "active", "archived", "gone"}]
  BY DEF CreateHabit, reqVars, IInv, TypeOK
<1>2. \A h : Active(h)' = Active(h)
  BY <1>1 DEF Active
<1>3. InStep'
  BY <1>1, <1>2 DEF AllAlone, InStep, ArchivedHoldsNoPromise, SettingsInSync, OneActive
<1>4. ASSUME NEW r \in Requests PROVE RequestAlone(r)'
  <2>1. RequestAlone(r)
    BY DEF AllAlone
  <2>2. \A h : habits[h] \in {"active", "gone"} /\ h \in Habits => habits'[h] = habits[h]
    BY <1>1
  <2>3. pc[r] # "idle" => job[r].habit \in Habits
    BY DEF IInv, TypeOK
  <2> QED
    BY <1>1, <1>2, <2>1, <2>2, <2>3 DEF RequestAlone
<1> QED
  BY <1>3, <1>4 DEF AllAlone

LEMMA DeleteAlone ==
  ASSUME IInv, AllAlone, DeleteAccount
  PROVE  AllAlone'
<1>1. /\ habits' = [h \in Habits |-> "gone"] /\ promises' = [p \in {} |-> 0]
      /\ UNCHANGED <<pc, job, held>>
  BY DEF DeleteAccount, reqVars
<1>2. \A h : Active(h)' = {}
  BY <1>1 DEF Active
<1>3. InStep'
  BY <1>1, <1>2 DEF InStep, ArchivedHoldsNoPromise, SettingsInSync, OneActive
<1>4. ASSUME NEW r \in Requests PROVE RequestAlone(r)'
  <2>1. pc[r] # "idle" => job[r].habit \in Habits
    BY DEF IInv, TypeOK
  <2> QED
    BY <1>1, <1>2, <2>1 DEF RequestAlone
<1> QED
  BY <1>3, <1>4 DEF AllAlone

\* Nothing but the clock moves.
LEMMA RestAlone ==
  ASSUME AllAlone, UNCHANGED <<dbVars, reqVars>>
  PROVE  AllAlone'
BY DEF AllAlone, InStep, ArchivedHoldsNoPromise, SettingsInSync, OneActive, Active, RequestAlone,
       dbVars, reqVars

LEMMA NextAlone ==
  ASSUME IInv, AloneInv, Next, alone' = (alone /\ OneAtATime')
  PROVE  AloneInv'
<1> SUFFICES ASSUME alone' PROVE OneAtATime' /\ AllAlone'
  BY DEF AloneInv
<1>1. OneAtATime /\ AllAlone /\ OneAtATime'
  BY DEF AloneInv
<1>2. ASSUME NEW r \in Requests, Interrupt(r) PROVE AllAlone'
  BY <1>1, <1>2, SameActive, FewerActive, Finishes DEF Interrupt, AllAlone, dbVars
<1>3. CASE Tick
  BY <1>1, <1>3, RestAlone DEF Tick
<1> QED
  BY <1>1, <1>2, <1>3, ArriveAlone, StepAlone, CreateAlone, DeleteAlone DEF Next

\* promise_archive_integration_test.go:3-6 and 0005_social.up.sql:18-20, for requests that do
\* not overlap: any sequence of them, each perhaps cut short, with an account deletion at any
\* moment.
THEOREM InStepAlone == MCSpec => []InStepWhenAlone
<1> DEFINE Moves == Next /\ alone' = (alone /\ OneAtATime')
<1>1. MCInit => IInv /\ AloneInv
  BY InitIInv, InitAlone DEF MCInit
<1>2. IInv /\ AloneInv /\ [Moves]_<<vars, alone>> => (IInv /\ AloneInv)'
  <2> SUFFICES ASSUME IInv, AloneInv, [Moves]_<<vars, alone>>
               PROVE  (IInv /\ AloneInv)'
    OBVIOUS
  <2>1. CASE Moves
    BY <2>1, NextIInv, NextAlone
  <2>2. CASE UNCHANGED <<vars, alone>>
    <3>1. [Next]_vars /\ UNCHANGED <<dbVars, reqVars>>
      BY <2>2 DEF vars
    <3>2. AllAlone => AllAlone'
      BY <3>1, RestAlone
    <3>3. OneAtATime => OneAtATime'
      BY <3>1 DEF OneAtATime, reqVars
    <3> QED
      BY <2>2, <3>1, <3>2, <3>3, NextIInv DEF AloneInv
  <2> QED
    BY <2>1, <2>2
<1>3. AloneInv => InStepWhenAlone
  BY DEF AloneInv, AllAlone, InStep, InStepWhenAlone
<1> QED
  BY <1>1, <1>2, <1>3, PTL DEF MCSpec
=============================================================================
