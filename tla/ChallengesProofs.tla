-------------------------- MODULE ChallengesProofs --------------------------
(***************************************************************************)
(* Theorems of Challenges, for any users, habits, offers and any number of *)
(* requests in flight: the types, that a row's counters tell one story,    *)
(* that completion is announced, that a reward is safe, that dates were    *)
(* logged, that one challenge per triple is Active, and what a list shows; *)
(* and, for requests that do not overlap, that Challenges implements       *)
(* ChallengeLifecycle.                                                     *)
(***************************************************************************)
EXTENDS Challenges, FiniteSetTheorems, TLAPS

-----------------------------------------------------------------------------
(* Partial functions, rows and the pure parts.                             *)

\* Partial functions from ids to rows, as a set.
Snapshots == UNION {[S -> Row] : S \in SUBSET Ids}

LEMMA SnapshotElim ==
  ASSUME NEW f \in Snapshots
  PROVE  f \in [DOMAIN f -> Row] /\ DOMAIN f \subseteq Ids
BY DEF Snapshots

LEMMA SnapshotIntro ==
  ASSUME NEW D \in SUBSET Ids, NEW f \in [D -> Row]
  PROVE  f \in Snapshots
BY DEF Snapshots

\* TypeOK over the set of all tables, which TLC cannot build and the provers like.
Typed ==
  /\ now \in 0 .. MaxDay
  /\ accounts \subseteq Users
  /\ completions \subseteq Habits \X Days /\ everLogged \subseteq Habits \X Days
  /\ minted \in 0 .. MaxRows
  /\ rows \in Snapshots /\ DOMAIN rows \subseteq 1 .. minted
  /\ notifications \subseteq Notification
  /\ pc \in [Requests -> PCs]
  /\ job \in [Requests -> Jobs]
  /\ turn \in [Requests -> Ids \cup {None}]
  /\ todo \in [Requests -> Snapshots] /\ writes \in [Requests -> Snapshots]
  /\ announced \in [Requests -> SUBSET Notification]
  /\ claims \in [Ids -> Nat] /\ reverted \subseteq Ids

LEMMA TypedIs == Typed => TypeOK
<1>1. ASSUME NEW f \in [Requests -> Snapshots] PROVE HoldTables(f)
  BY SnapshotElim DEF HoldTables, IsTable
<1>2. rows \in Snapshots => IsTable(rows)
  BY SnapshotElim DEF IsTable
<1> QED
  BY <1>1, <1>2 DEF Typed, TypeOK

LEMMA NoRowsSnapshot == NoRows \in Snapshots /\ DOMAIN NoRows = {}
<1>1. NoRows \in [{} -> Row] /\ DOMAIN NoRows = {}
  BY DEF NoRows
<1> QED
  BY <1>1, SnapshotIntro

LEMMA DatesCount ==
  ASSUME NEW D \in SUBSET Days
  PROVE  Cardinality(D) \in Nat
<1>1. IsFiniteSet(Days)
  <2>1. 0 - Backdate \in Int /\ MaxDay + Skew \in Int
    BY ConstantsAssumption
  <2> QED
    BY <2>1, FS_Interval DEF Days
<1>2. IsFiniteSet(D)
  BY <1>1, FS_Subset
<1> QED
  BY <1>2, FS_CardinalityType

LEMMA TypesApart ==
  /\ CountTypes \subseteq DedupTypes /\ DedupTypes \subseteq MilestoneTypes
  /\ ImprovementMilestone \notin DedupTypes
BY DEF CountTypes, DedupTypes, MilestoneTypes, ConsistencyTarget, DaysInPeriod,
       TotalCompletions, CustomDateRange, ImprovementMilestone

LEMMA ProgressType ==
  ASSUME NEW row \in Row, NEW level \in Levels
  PROVE  CalculateProgress(row, level) \in Nat
<1>1. /\ row.count \in Nat /\ row.target \in Nat /\ level \in Nat
      /\ row.baseline \in Nat \cup {None}
  BY ConstantsAssumption DEF Row, Levels
<1>2. DEFINE base == IF row.baseline = None THEN 0 ELSE row.baseline
<1>3. base \in Nat
  BY <1>1
<1> HIDE DEF base
<1>4. ~(level <= base) => level - base \in Nat
  BY <1>1, <1>3
<1>5. CalculateProgress(row, level) =
        IF row.type \in CountTypes THEN Min2(row.count, row.target)
        ELSE IF row.type = ImprovementMilestone
             THEN IF level <= base THEN 0 ELSE Min2(level - base, row.target)
             ELSE Min2(level, row.target)
  BY DEF CalculateProgress, base
<1>6. \A a, b \in Nat : Min2(a, b) \in Nat
  BY DEF Min2
<1>7. CASE row.type \in CountTypes
  BY <1>1, <1>5, <1>6, <1>7
<1>8. CASE row.type = ImprovementMilestone /\ row.type \notin CountTypes
  <2>1. CASE level <= base
    BY <1>5, <1>8, <2>1
  <2>2. CASE ~(level <= base)
    <3>1. CalculateProgress(row, level) = Min2(level - base, row.target)
      BY <1>5, <1>8, <2>2
    <3> QED
      BY <1>1, <1>4, <1>6, <2>2, <3>1
  <2> QED
    BY <2>1, <2>2
<1>9. CASE row.type # ImprovementMilestone /\ row.type \notin CountTypes
  BY <1>1, <1>5, <1>6, <1>9
<1> QED
  BY <1>7, <1>8, <1>9

\* The row after the date or the baseline has been taken in.
Dated(row, ev) == IF row.type \in DedupTypes THEN WithDate(row, ev.date) ELSE row
Based(row, ev) ==
  IF row.type = ImprovementMilestone /\ row.baseline = None
  THEN [Dated(row, ev) EXCEPT !.baseline = ev.level] ELSE Dated(row, ev)
Scored(row, ev, range) == IF row.type = CustomDateRange THEN range ELSE ev.level

LEMMA ProgressedIs ==
  ASSUME NEW row \in Row, NEW ev \in Event, NEW range \in Levels
  PROVE  Progressed(row, ev, range) =
    IF IsMilestoneReached(Based(row, ev), Scored(row, ev, range))
    THEN [Based(row, ev) EXCEPT !.status = "Completed", !.progress = row.target,
                                !.completedAt = TRUE]
    ELSE [Based(row, ev) EXCEPT !.progress =
            CalculateProgress(Based(row, ev), Scored(row, ev, range))]
BY DEF Progressed, Based, Dated, Scored

Fixed(a, b) ==
  /\ a.creator = b.creator /\ a.recipient = b.recipient /\ a.habit = b.habit
  /\ a.type = b.type /\ a.target = b.target /\ a.from = b.from /\ a.ends = b.ends

LEMMA DatedIs ==
  ASSUME NEW row \in Row, NEW ev \in Event
  PROVE  /\ Dated(row, ev) \in Row /\ Fixed(Dated(row, ev), row)
         /\ Dated(row, ev).status = row.status
         /\ Dated(row, ev).completedAt = row.completedAt
         /\ row.type \in DedupTypes =>
              /\ Dated(row, ev).dates = row.dates \cup {ev.date}
              /\ Dated(row, ev).count = Cardinality(Dated(row, ev).dates)
         /\ row.type \notin DedupTypes => Dated(row, ev) = row
<1>1. CASE row.type \notin DedupTypes
  BY <1>1 DEF Dated, Fixed
<1>2. CASE row.type \in DedupTypes
  <2> DEFINE dates == row.dates \cup {ev.date}
  <2>1. dates \in SUBSET Days /\ Cardinality(dates) \in Nat
    BY DatesCount DEF Row, Event
  <2>2. Dated(row, ev) = [row EXCEPT !.dates = dates, !.count = Cardinality(dates)]
    BY <1>2 DEF Dated, WithDate
  <2> HIDE DEF dates
  <2>3. Dated(row, ev) \in Row
    BY <2>1, <2>2 DEF Row
  <2>4. /\ Dated(row, ev).dates = dates /\ Dated(row, ev).count = Cardinality(dates)
        /\ Fixed(Dated(row, ev), row) /\ Dated(row, ev).status = row.status
        /\ Dated(row, ev).completedAt = row.completedAt
    BY <2>2 DEF Row, Fixed
  <2> QED
    BY <1>2, <2>3, <2>4 DEF dates
<1> QED
  BY <1>1, <1>2

LEMMA BasedIs ==
  ASSUME NEW row \in Row, NEW ev \in Event
  PROVE  /\ Based(row, ev) \in Row /\ Fixed(Based(row, ev), row)
         /\ Based(row, ev).status = row.status
         /\ Based(row, ev).completedAt = row.completedAt
         /\ Based(row, ev).dates = Dated(row, ev).dates
         /\ Based(row, ev).count = Dated(row, ev).count
<1>1. ev.level \in Levels
  BY DEF Event
<1>2. [Dated(row, ev) EXCEPT !.baseline = ev.level] \in Row
  BY <1>1, DatedIs DEF Row
<1>3. /\ Dated(row, ev) \in Row /\ Fixed(Dated(row, ev), row)
      /\ Dated(row, ev).status = row.status
      /\ Dated(row, ev).completedAt = row.completedAt
  BY DatedIs
<1> HIDE DEF Dated
<1> QED
  BY <1>2, <1>3 DEF Based, Fixed, Row

LEMMA ProgressedType ==
  ASSUME NEW row \in Row, NEW ev \in Event, NEW range \in Levels
  PROVE  Progressed(row, ev, range) \in Row
<1> DEFINE based == Based(row, ev)
           p == CalculateProgress(based, Scored(row, ev, range))
<1>1. based \in Row /\ row.target \in Nat
  BY BasedIs DEF Row
<1>2. Scored(row, ev, range) \in Levels
  BY DEF Scored, Event
<1>3. p \in Nat
  BY <1>1, <1>2, ProgressType
<1>4. Progressed(row, ev, range) \in
        {[based EXCEPT !.status = "Completed", !.progress = row.target, !.completedAt = TRUE],
         [based EXCEPT !.progress = p]}
  BY ProgressedIs
<1> HIDE DEF based, p
<1>5. [based EXCEPT !.status = "Completed", !.progress = row.target, !.completedAt = TRUE]
        \in Row
  BY <1>1 DEF Row, Statuses
<1>6. [based EXCEPT !.progress = p] \in Row
  BY <1>1, <1>3 DEF Row
<1> QED
  BY <1>4, <1>5, <1>6

LEMMA OverwriteIs ==
  ASSUME NEW stored \in Row, NEW row \in Row
  PROVE  LET o == Overwrite(stored, row)
         IN  /\ o \in Row /\ Fixed(o, stored)
             /\ o.status = row.status /\ o.completedAt = row.completedAt
             /\ o.dates = row.dates /\ o.count = row.count /\ o.progress = row.progress
BY DEF Overwrite, Row, Fixed

-----------------------------------------------------------------------------
(* Types.  TypeOK alone is not inductive: what an action computes is typed   *)
(* only because of what pc says the working variables of the request hold.   *)

PhaseOK(r) ==
  /\ pc[r] \in {"list", "apply", "commit"} => job[r] \in Event
  /\ pc[r] \in {"expire", "insert"} => job[r] \in Create
  /\ pc[r] \in {"claim", "cancel"} => job[r] \in ById
  /\ pc[r] \in {"select", "show"} => job[r] \in Listing
  /\ pc[r] \notin {"apply", "commit"} =>
       todo[r] = NoRows /\ writes[r] = NoRows /\ announced[r] = {}
  /\ pc[r] = "apply" => turn[r] \in DOMAIN todo[r]
  /\ pc[r] = "commit" => DOMAIN todo[r] = {}
  /\ DOMAIN todo[r] \subseteq 1 .. minted /\ DOMAIN writes[r] \subseteq 1 .. minted

TypeInv == Typed /\ \A r \in Requests : PhaseOK(r)

\* The part of TypeOK about the database and the history.
DataOK ==
  /\ now \in 0 .. MaxDay
  /\ accounts \subseteq Users
  /\ completions \subseteq Habits \X Days /\ everLogged \subseteq Habits \X Days
  /\ minted \in 0 .. MaxRows
  /\ rows \in Snapshots /\ DOMAIN rows \subseteq 1 .. minted
  /\ notifications \subseteq Notification
  /\ claims \in [Ids -> Nat] /\ reverted \subseteq Ids

LEMMA InitTypeInv == Init => TypeInv
BY NoRowsSnapshot, ConstantsAssumption
   DEF Init, TypeInv, Typed, PhaseOK, PCs, Jobs, NoJob, Ids

\* The environment and the table may move while every request stays put.
LEMMA StillTypeInv ==
  ASSUME TypeInv, DataOK', UNCHANGED <<reqVars, minted>>
  PROVE  TypeInv'
BY DEF TypeInv, Typed, PhaseOK, DataOK, reqVars

\* A request begins with a job that fits its first step.
LEMMA BeginTypeInv ==
  ASSUME TypeInv, DataOK', NEW r \in Requests,
         NEW step \in {"list", "expire", "claim", "cancel", "select"}, NEW j \in Jobs,
         Begin(r, step, j), step = "select" => j \in Listing,
         step = "list" => j \in Event, step = "expire" => j \in Create,
         step \in {"claim", "cancel"} => j \in ById, UNCHANGED minted
  PROVE  TypeInv'
<1>1. Typed'
  BY DEF TypeInv, Typed, DataOK, Begin, PCs
<1>2. ASSUME NEW q \in Requests PROVE PhaseOK(q)'
  BY DEF TypeInv, Typed, PhaseOK, Begin
<1> QED
  BY <1>1, <1>2 DEF TypeInv

\* A handler that returns leaves nothing behind, whatever came before.
LEMMA ReturnTypeInv ==
  ASSUME TypeInv, DataOK', NEW r \in Requests, Return(r),
         DOMAIN rows \subseteq 1 .. minted, minted <= minted'
  PROVE  TypeInv'
<1>1. NoRows \in Snapshots /\ DOMAIN NoRows = {}
  BY NoRowsSnapshot
<1>2. Typed'
  BY <1>1 DEF TypeInv, Typed, DataOK, Return, PCs, Jobs
<1>3. 1 .. minted \subseteq 1 .. minted'
  BY DEF TypeInv, Typed, DataOK
<1>4. ASSUME NEW q \in Requests PROVE PhaseOK(q)'
  BY <1>1, <1>3 DEF TypeInv, Typed, PhaseOK, Return
<1> QED
  BY <1>2, <1>4 DEF TypeInv

\* What moving to the next row does to the loop's variables.
LEMMA NextRowIs ==
  ASSUME TypeInv, NEW r \in Requests, pc[r] = "apply", NextRow(r)
  PROVE  /\ todo' \in [Requests -> Snapshots] /\ turn' \in [Requests -> Ids \cup {None}]
         /\ pc' \in [Requests -> PCs] /\ pc'[r] \in {"apply", "commit"}
         /\ DOMAIN todo'[r] = DOMAIN todo[r] \ {turn[r]}
         /\ \A c \in DOMAIN todo'[r] : todo'[r][c] = todo[r][c]
         /\ pc'[r] = "apply" => turn'[r] \in DOMAIN todo'[r]
         /\ pc'[r] = "commit" => DOMAIN todo'[r] = {}
         /\ \A q \in Requests \ {r} :
              pc'[q] = pc[q] /\ todo'[q] = todo[q] /\ turn'[q] = turn[q]
<1> DEFINE rest == DOMAIN todo[r] \ {turn[r]}
           f == [c \in rest |-> todo[r][c]]
<1>1. /\ todo \in [Requests -> Snapshots] /\ turn \in [Requests -> Ids \cup {None}]
      /\ pc \in [Requests -> PCs] /\ "commit" \in PCs
  BY DEF TypeInv, Typed, PCs
<1>2. todo[r] \in [DOMAIN todo[r] -> Row] /\ DOMAIN todo[r] \subseteq Ids
  BY <1>1, SnapshotElim
<1>3. f \in [rest -> Row] /\ rest \in SUBSET Ids
  BY <1>2
<1>4. f \in Snapshots
  BY <1>3, SnapshotIntro
<1>5. /\ todo' = [todo EXCEPT ![r] = f]
      /\ \/ rest = {} /\ turn' = [turn EXCEPT ![r] = None] /\ pc' = [pc EXCEPT ![r] = "commit"]
         \/ (\E c \in rest : turn' = [turn EXCEPT ![r] = c]) /\ pc' = pc
  BY DEF NextRow
<1>6. todo'[r] = f /\ DOMAIN f = rest /\ \A c \in rest : f[c] = todo[r][c]
  BY <1>1, <1>5
<1> HIDE DEF f
<1>7. CASE rest = {} /\ turn' = [turn EXCEPT ![r] = None] /\ pc' = [pc EXCEPT ![r] = "commit"]
  BY <1>1, <1>3, <1>4, <1>5, <1>6, <1>7
<1>8. CASE (\E c \in rest : turn' = [turn EXCEPT ![r] = c]) /\ pc' = pc
  BY <1>1, <1>3, <1>4, <1>5, <1>6, <1>8
<1> QED
  BY <1>5, <1>7, <1>8

\* A turn of the loop keeps the types when the writes it makes are typed.
LEMMA LoopTypeInv ==
  ASSUME TypeInv, NEW r \in Requests, pc[r] = "apply", NextRow(r),
         writes' \in [Requests -> Snapshots], announced' \in [Requests -> SUBSET Notification],
         DOMAIN writes'[r] \subseteq 1 .. minted,
         \A q \in Requests \ {r} : writes'[q] = writes[q] /\ announced'[q] = announced[q],
         UNCHANGED <<job, envVars, dbVars, histVars>>
  PROVE  TypeInv'
<1>1. Typed'
  BY NextRowIs DEF TypeInv, Typed, envVars, dbVars, histVars
<1>2. ASSUME NEW q \in Requests PROVE PhaseOK(q)'
  <2>1. job'[q] = job[q] /\ minted' = minted
    BY DEF dbVars
  <2>2. CASE q = r
    <3>1. DOMAIN todo'[r] \subseteq 1 .. minted
      BY NextRowIs DEF TypeInv, PhaseOK
    <3> QED
      BY <2>1, <2>2, <3>1, NextRowIs DEF TypeInv, PhaseOK
  <2>3. CASE q # r
    BY <2>1, <2>3, NextRowIs DEF TypeInv, PhaseOK
  <2> QED
    BY <2>2, <2>3
<1> QED
  BY <1>1, <1>2 DEF TypeInv

LEMMA DataFromType == TypeInv => DataOK /\ \A r \in Requests : PhaseOK(r)
BY DEF TypeInv, Typed, DataOK

LEMMA RowsTyped ==
  ASSUME DataOK
  PROVE  rows \in [DOMAIN rows -> Row] /\ DOMAIN rows \subseteq Ids
BY SnapshotElim DEF DataOK

\* Rewriting rows of the table in place keeps it a table.
LEMMA InPlaceTyped ==
  ASSUME DataOK, NEW f, f \in [DOMAIN rows -> Row], rows' = f,
         notifications' \subseteq Notification, claims' \in [Ids -> Nat],
         reverted' \subseteq Ids, UNCHANGED <<envVars, minted, everLogged>>
  PROVE  DataOK'
BY RowsTyped, SnapshotIntro DEF DataOK, envVars

LEMMA ArriveTypeInv ==
  ASSUME TypeInv, NEW r \in Requests, Arrive(r)
  PROVE  TypeInv'
<1>1. DataOK
  BY DataFromType
<1>2. CASE \E h \in Habits, d \in Days, k \in Levels : CompleteHabit(r, h, d, k)
  <2>1. PICK h \in Habits, d \in Days, k \in Levels : CompleteHabit(r, h, d, k)
    BY <1>2
  <2> DEFINE ev == [habit |-> h, user |-> Owner[h], date |-> d, level |-> k]
  <2>2. ev \in Event /\ ev \in Jobs
    BY ConstantsAssumption DEF Event, Jobs
  <2>3. Begin(r, "list", ev) /\ UNCHANGED minted
    BY <2>1 DEF CompleteHabit, dbVars
  <2>4. DataOK'
    BY <1>1, <2>1 DEF CompleteHabit, DataOK, dbVars
  <2> HIDE DEF ev
  <2> QED
    BY <2>2, <2>3, <2>4, BeginTypeInv
<1>3. CASE \E o \in Offers : StartCreate(r, o)
  <2>1. PICK o \in Offers : StartCreate(r, o)
    BY <1>3
  <2>2. now \in Days
    BY <1>1, ConstantsAssumption DEF DataOK, Days
  <2> DEFINE j == [offer |-> o, at |-> now]
  <2>3. j \in Create /\ j \in Jobs
    BY <2>2 DEF Create, Jobs
  <2>4. Begin(r, "expire", j) /\ UNCHANGED minted
    BY <2>1 DEF StartCreate, dbVars
  <2>5. DataOK'
    BY <1>1, <2>1 DEF StartCreate, DataOK, dbVars, envVars, histVars
  <2> HIDE DEF j
  <2> QED
    BY <2>3, <2>4, <2>5, BeginTypeInv
<1>4. ASSUME NEW c \in Ids, NEW step \in {"claim", "cancel"}, Begin(r, step, [id |-> c]),
             UNCHANGED <<envVars, dbVars, histVars>>
      PROVE  TypeInv'
  <2>1. [id |-> c] \in ById /\ [id |-> c] \in Jobs /\ UNCHANGED minted
    BY <1>4 DEF ById, Jobs, dbVars
  <2>2. DataOK'
    BY <1>1, <1>4 DEF DataOK, dbVars, envVars, histVars
  <2> QED
    BY <1>4, <2>1, <2>2, BeginTypeInv
<1>5. CASE \E u \in Users, s \in Filters : StartList(r, u, s)
  <2>1. PICK u \in Users, s \in Filters : StartList(r, u, s)
    BY <1>5
  <2> DEFINE j == [viewer |-> u, status |-> s, at |-> now, found |-> {}]
  <2>2. j \in Listing /\ j \in Jobs
    BY <1>1 DEF Listing, Jobs, DataOK
  <2>3. Begin(r, "select", j) /\ UNCHANGED minted
    BY <2>1 DEF StartList, dbVars
  <2>4. DataOK'
    BY <1>1, <2>1 DEF StartList, DataOK, dbVars, envVars, histVars
  <2> HIDE DEF j
  <2> QED
    BY <2>2, <2>3, <2>4, BeginTypeInv
<1> QED
  BY <1>2, <1>3, <1>4, <1>5 DEF Arrive, StartClaim, StartCancel

\* Steps of the engine's loop.
LEMMA ListTypeInv ==
  ASSUME TypeInv, NEW r \in Requests, ListActive(r)
  PROVE  TypeInv'
<1>1. DataOK /\ rows \in [DOMAIN rows -> Row] /\ DOMAIN rows \subseteq Ids
  BY DataFromType, RowsTyped
<1>2. DataOK' /\ UNCHANGED minted
  BY <1>1 DEF ListActive, DataOK, dbVars, envVars, histVars
<1>3. DOMAIN rows \subseteq 1 .. minted /\ minted <= minted'
  BY <1>1, <1>2 DEF DataOK
<1>4. CASE Return(r)
  BY <1>2, <1>3, <1>4, ReturnTypeInv
<1>5. ASSUME NEW hits \in SUBSET DOMAIN rows, NEW c \in hits, pc[r] = "list",
             turn' = [turn EXCEPT ![r] = c],
             todo' = [todo EXCEPT ![r] = [d \in hits |-> rows[d]]],
             pc' = [pc EXCEPT ![r] = "apply"], UNCHANGED <<job, writes, announced>>
      PROVE  TypeInv'
  <2> DEFINE f == [d \in hits |-> rows[d]]
  <2>1. f \in [hits -> Row] /\ hits \in SUBSET Ids /\ DOMAIN f = hits
    BY <1>1
  <2>2. f \in Snapshots
    BY <2>1, SnapshotIntro
  <2>3. todo' = [todo EXCEPT ![r] = f]
    BY <1>5
  <2> HIDE DEF f
  <2>4. Typed'
    BY <1>2, <1>5, <2>1, <2>2, <2>3 DEF TypeInv, Typed, DataOK, PCs
  <2>5. ASSUME NEW q \in Requests PROVE PhaseOK(q)'
    BY <1>2, <1>3, <1>5, <2>1, <2>3 DEF TypeInv, Typed, PhaseOK
  <2> QED
    BY <2>4, <2>5 DEF TypeInv
<1> DEFINE hits == {c \in DOMAIN rows : /\ rows[c].habit = job[r].habit
                                        /\ rows[c].recipient = job[r].user
                                        /\ rows[c].status = "Active"
                                        /\ rows[c].ends > now}
<1>6. hits \in SUBSET DOMAIN rows
  OBVIOUS
<1>7. \/ Return(r)
      \/ /\ \E c \in hits : turn' = [turn EXCEPT ![r] = c]
         /\ todo' = [todo EXCEPT ![r] = [d \in hits |-> rows[d]]]
         /\ pc[r] = "list" /\ pc' = [pc EXCEPT ![r] = "apply"]
         /\ UNCHANGED <<job, writes, announced>>
  BY DEF ListActive
<1> HIDE DEF hits
<1> QED
  BY <1>4, <1>5, <1>6, <1>7

LEMMA SkipTypeInv ==
  ASSUME TypeInv, NEW r \in Requests, SkipRow(r)
  PROVE  TypeInv'
<1>1. /\ writes \in [Requests -> Snapshots] /\ announced \in [Requests -> SUBSET Notification]
      /\ DOMAIN writes[r] \subseteq 1 .. minted
  BY DEF TypeInv, Typed, PhaseOK
<1> QED
  BY <1>1, LoopTypeInv DEF SkipRow

\* What an UPDATE of the loop does to the uncommitted writes.
LEMMA UpdateIs ==
  ASSUME TypeInv, NEW r \in Requests, NEW range \in Levels, UpdateProgress(r, range)
  PROVE  LET c   == turn[r]
             new == Progressed(todo[r][c], job[r], range)
         IN  /\ pc[r] = "apply" /\ job[r] \in Event
             /\ c \in DOMAIN todo[r] /\ c \in 1 .. minted
             /\ todo[r][c] \in Row /\ new \in Row
             /\ writes' \in [Requests -> Snapshots]
             /\ \A q \in Requests \ {r} : writes'[q] = writes[q]
             /\ c \notin DOMAIN rows => writes'[r] = writes[r]
             /\ c \in DOMAIN rows =>
                  /\ DOMAIN writes'[r] = DOMAIN writes[r] \cup {c}
                  /\ writes'[r][c] = Overwrite(rows[c], new)
                  /\ \A d \in DOMAIN writes[r] \ {c} : writes'[r][d] = writes[r][d]
<1> DEFINE c   == turn[r]
           new == Progressed(todo[r][c], job[r], range)
           D   == DOMAIN writes[r] \cup {c}
           f   == [d \in D |-> IF d = c THEN Overwrite(rows[c], new) ELSE writes[r][d]]
<1>1. pc[r] = "apply" /\ job[r] \in Event /\ c \in DOMAIN todo[r] /\ c \in 1 .. minted
  BY DEF UpdateProgress, TypeInv, PhaseOK
<1>2. todo[r] \in Snapshots /\ writes[r] \in Snapshots
  BY DEF TypeInv, Typed
<1>3. todo[r] \in [DOMAIN todo[r] -> Row] /\ c \in Ids
  BY <1>1, <1>2, SnapshotElim
<1>4. todo[r][c] \in Row
  BY <1>1, <1>3
<1>5. new \in Row
  BY <1>1, <1>4, ProgressedType
<1>6. writes' = [writes EXCEPT ![r] = IF c \notin DOMAIN rows THEN writes[r] ELSE f]
  BY DEF UpdateProgress
<1>7. writes \in [Requests -> Snapshots]
  BY DEF TypeInv, Typed
<1> HIDE DEF new, c
<1>8. CASE c \notin DOMAIN rows
  <2>1. writes' = [writes EXCEPT ![r] = writes[r]]
    BY <1>6, <1>8
  <2>2. writes' = writes
    BY <1>7, <2>1
  <2> QED
    BY <1>1, <1>4, <1>5, <1>7, <1>8, <2>2 DEF new, c
<1>9. CASE c \in DOMAIN rows
  <2>1. rows[c] \in Row
    BY <1>9, DataFromType, RowsTyped
  <2>2. Overwrite(rows[c], new) \in Row
    BY <1>5, <2>1, OverwriteIs
  <2>3. writes[r] \in [DOMAIN writes[r] -> Row] /\ DOMAIN writes[r] \subseteq Ids
    BY <1>2, SnapshotElim
  <2>4. f \in [D -> Row] /\ D \in SUBSET Ids
    BY <1>3, <2>2, <2>3
  <2>5. f \in Snapshots
    BY <2>4, SnapshotIntro
  <2>6. writes' = [writes EXCEPT ![r] = f]
    BY <1>6, <1>9
  <2>7. /\ DOMAIN f = D /\ f[c] = Overwrite(rows[c], new)
        /\ \A d \in DOMAIN writes[r] \ {c} : f[d] = writes[r][d]
    OBVIOUS
  <2> HIDE DEF f
  <2>8. writes'[r] = f /\ writes' \in [Requests -> Snapshots]
        /\ \A q \in Requests \ {r} : writes'[q] = writes[q]
    BY <1>7, <2>5, <2>6
  <2> QED
    BY <1>1, <1>4, <1>5, <1>9, <2>7, <2>8 DEF new, c
<1> QED
  BY <1>8, <1>9

LEMMA UpdateTypeInv ==
  ASSUME TypeInv, NEW r \in Requests, NEW range \in Levels, UpdateProgress(r, range)
  PROVE  TypeInv'
<1>1. /\ pc[r] = "apply" /\ job[r] \in Event /\ turn[r] \in 1 .. minted
      /\ writes' \in [Requests -> Snapshots]
      /\ \A q \in Requests \ {r} : writes'[q] = writes[q]
      /\ DOMAIN writes'[r] \subseteq DOMAIN writes[r] \cup {turn[r]}
  BY UpdateIs
<1>2. DOMAIN writes'[r] \subseteq 1 .. minted
  BY <1>1 DEF TypeInv, PhaseOK
<1>3. turn[r] \in Ids /\ announced \in [Requests -> SUBSET Notification]
  BY <1>1, ConstantsAssumption DEF TypeInv, Typed, Ids
<1>4. [kind |-> "challenge_completed", user |-> job[r].user, id |-> turn[r]] \in Notification
  BY <1>1, <1>3 DEF Notification, Event
<1>5. /\ announced' \in [Requests -> SUBSET Notification]
      /\ \A q \in Requests \ {r} : announced'[q] = announced[q]
  BY <1>3, <1>4 DEF UpdateProgress
<1> QED
  BY <1>1, <1>2, <1>5, LoopTypeInv DEF UpdateProgress

\* A request that only gives up leaves the tables alone.
LEMMA GiveUpTypeInv ==
  ASSUME TypeInv, NEW r \in Requests, Return(r), UNCHANGED <<envVars, dbVars, histVars>>
  PROVE  TypeInv'
<1>1. DataOK
  BY DataFromType
<1>2. DataOK' /\ DOMAIN rows \subseteq 1 .. minted /\ minted <= minted'
  BY <1>1 DEF DataOK, envVars, dbVars, histVars
<1> QED
  BY <1>2, ReturnTypeInv

LEMMA CommitTypeInv ==
  ASSUME TypeInv, NEW r \in Requests, CommitProgress(r)
  PROVE  TypeInv'
<1> DEFINE f == [c \in DOMAIN rows |-> IF c \in DOMAIN writes[r] THEN writes[r][c] ELSE rows[c]]
<1>1. DataOK /\ rows \in [DOMAIN rows -> Row]
  BY DataFromType, RowsTyped
<1>2. writes[r] \in [DOMAIN writes[r] -> Row]
  BY SnapshotElim DEF TypeInv, Typed
<1>3. f \in [DOMAIN rows -> Row]
  BY <1>1, <1>2
<1>4. rows' = f
  BY DEF CommitProgress
<1> HIDE DEF f
<1>5. notifications' \subseteq Notification /\ claims' \in [Ids -> Nat]
      /\ UNCHANGED <<envVars, minted, everLogged>>
  BY DEF CommitProgress, TypeInv, Typed
<1>51. reverted' \subseteq Ids
  BY <1>2, SnapshotElim DEF CommitProgress, RevertedBy, TypeInv, Typed
<1>6. DataOK'
  BY <1>1, <1>3, <1>4, <1>5, <1>51, InPlaceTyped
<1>7. DOMAIN rows \subseteq 1 .. minted /\ minted <= minted' /\ Return(r)
  BY <1>1 DEF DataOK, CommitProgress
<1> QED
  BY <1>6, <1>7, ReturnTypeInv

\* The table with some of its rows in another status.
LEMMA StatusTyped ==
  ASSUME NEW row \in Row, NEW s \in Statuses
  PROVE  [row EXCEPT !.status = s] \in Row
BY DEF Row

LEMMA ExpireTypeInv ==
  ASSUME TypeInv, NEW r \in Requests, ExpireStaleActive(r)
  PROVE  TypeInv'
<1> DEFINE stale == {c \in DOMAIN rows : /\ Triple(rows[c]) = OfferTriple(job[r].offer)
                                         /\ rows[c].status = "Active"
                                         /\ rows[c].ends <= job[r].at}
           f == [c \in DOMAIN rows |-> IF c \in stale THEN [rows[c] EXCEPT !.status = "Expired"]
                                       ELSE rows[c]]
<1>1. DataOK /\ rows \in [DOMAIN rows -> Row]
  BY DataFromType, RowsTyped
<1>2. f \in [DOMAIN rows -> Row]
  BY <1>1, StatusTyped DEF Statuses
<1>3. rows' = f /\ pc[r] = "expire" /\ pc' = [pc EXCEPT ![r] = "insert"]
      /\ UNCHANGED <<job, todo, turn, writes, announced, minted, notifications, envVars, histVars>>
  BY DEF ExpireStaleActive
<1> HIDE DEF f
<1>4. DataOK'
  BY <1>1, <1>2, <1>3, InPlaceTyped DEF histVars, DataOK
<1>5. Typed'
  BY <1>3, <1>4 DEF TypeInv, Typed, DataOK, PCs
<1>6. ASSUME NEW q \in Requests PROVE PhaseOK(q)'
  BY <1>3 DEF TypeInv, Typed, PhaseOK
<1> QED
  BY <1>5, <1>6 DEF TypeInv

LEMMA NewRowTyped ==
  ASSUME NEW o \in Offers, NEW at \in Days, now \in Nat
  PROVE  NewRow(o, at) \in Row
<1>1. o \in Offer /\ at \in Int
  BY ConstantsAssumption DEF Days
<1>2. /\ o.creator \in Users /\ o.recipient \in Users /\ o.habit \in Habits
      /\ o.type \in MilestoneTypes /\ o.target \in Nat \ {0}
      /\ (IF o.type = CustomDateRange THEN o.start ELSE now) \in Int
      /\ (IF o.type = CustomDateRange THEN o.end ELSE at + o.period) \in Int
  BY <1>1 DEF Offer
<1> QED
  BY <1>2 DEF NewRow, Row, Statuses, None

LEMMA InsertTypeInv ==
  ASSUME TypeInv, NEW r \in Requests, InsertChallenge(r)
  PROVE  TypeInv'
<1> DEFINE o   == job[r].offer
           new == minted + 1
           D   == DOMAIN rows \cup {new}
           f   == [c \in D |-> IF c = new THEN NewRow(o, job[r].at) ELSE rows[c]]
           n   == [kind |-> "challenge_created", user |-> o.recipient, id |-> new]
<1>1. DataOK /\ rows \in [DOMAIN rows -> Row] /\ DOMAIN rows \subseteq Ids /\ Return(r)
      /\ UNCHANGED envVars
  BY DataFromType, RowsTyped DEF InsertChallenge
<1>2. job[r] \in Create
  BY DEF InsertChallenge, TypeInv, PhaseOK
<1>3. CASE UNCHANGED <<dbVars, histVars>>
  BY <1>1, <1>3, GiveUpTypeInv
<1>4. CASE /\ minted < MaxRows /\ minted' = new /\ rows' = f
           /\ notifications' = notifications \cup {n} /\ UNCHANGED histVars
  <2>1. new \in 1 .. MaxRows /\ minted \in Nat /\ MaxRows \in Nat
    BY <1>1, <1>4, ConstantsAssumption DEF DataOK
  <2>2. NewRow(o, job[r].at) \in Row
    BY <1>1, <1>2, NewRowTyped, ConstantsAssumption DEF Create, DataOK
  <2>3. f \in [D -> Row] /\ D \in SUBSET Ids
    BY <1>1, <2>1, <2>2 DEF Ids
  <2>4. f \in Snapshots /\ DOMAIN f = D
    BY <2>3, SnapshotIntro
  <2>5. D \subseteq 1 .. minted'
    BY <1>1, <1>4, <2>1 DEF DataOK
  <2>6. n \in Notification
    <3>1. o \in Offer
      BY <1>2, ConstantsAssumption DEF Create
    <3> QED
      BY <2>1, <3>1 DEF Notification, Offer, Ids
  <2> HIDE DEF f, n
  <2>7. DataOK'
    BY <1>1, <1>4, <2>1, <2>4, <2>5, <2>6 DEF DataOK, envVars, histVars
  <2>8. DOMAIN rows \subseteq 1 .. minted /\ minted <= minted'
    BY <1>1, <1>4, <2>1 DEF DataOK
  <2> QED
    BY <1>1, <2>7, <2>8, ReturnTypeInv
<1> QED
  BY <1>3, <1>4 DEF InsertChallenge

\* Claim and cancel write one row of the table or none.
LEMMA OneRowTypeInv ==
  ASSUME TypeInv, NEW r \in Requests, Return(r), NEW f \in [DOMAIN rows -> Row],
         rows' = f, claims' \in [Ids -> Nat],
         UNCHANGED <<minted, notifications, everLogged, reverted, envVars>>
  PROVE  TypeInv'
<1>1. DataOK
  BY DataFromType
<1>2. DataOK'
  BY <1>1, InPlaceTyped DEF DataOK
<1>3. DOMAIN rows \subseteq 1 .. minted /\ minted <= minted'
  BY <1>1 DEF DataOK
<1> QED
  BY <1>2, <1>3, ReturnTypeInv

LEMMA ClaimedTypeInv ==
  ASSUME TypeInv, NEW r \in Requests, UpdateClaimed(r)
  PROVE  TypeInv'
<1> DEFINE c == job[r].id
           f == [rows EXCEPT ![c].status = "Claimed", ![c].claimedAt = TRUE]
<1>1. DataOK /\ rows \in [DOMAIN rows -> Row] /\ claims \in [Ids -> Nat] /\ c \in Ids
  BY DataFromType, RowsTyped DEF DataOK, UpdateClaimed, TypeInv, PhaseOK, ById
<1>2. Return(r) /\ UNCHANGED <<minted, notifications, everLogged, reverted, envVars>>
  BY DEF UpdateClaimed
<1>3. CASE c \in DOMAIN rows /\ rows' = f /\ claims' = [claims EXCEPT ![c] = @ + 1]
  <2>1. rows[c] \in Row
    BY <1>1, <1>3
  <2>2. [rows[c] EXCEPT !.status = "Claimed", !.claimedAt = TRUE] \in Row
    BY <2>1 DEF Row, Statuses
  <2>3. f = [rows EXCEPT ![c] = [rows[c] EXCEPT !.status = "Claimed", !.claimedAt = TRUE]]
    BY <1>1, <1>3
  <2>4. f \in [DOMAIN rows -> Row] /\ claims' \in [Ids -> Nat]
    BY <1>1, <1>3, <2>2, <2>3
  <2> HIDE DEF f
  <2> QED
    BY <1>2, <1>3, <2>4, OneRowTypeInv
<1>4. CASE UNCHANGED <<rows, claims>>
  BY <1>1, <1>2, <1>4, OneRowTypeInv
<1> QED
  BY <1>3, <1>4 DEF UpdateClaimed

LEMMA CancelledTypeInv ==
  ASSUME TypeInv, NEW r \in Requests, UpdateCancelled(r)
  PROVE  TypeInv'
<1> DEFINE c == job[r].id
           f == [rows EXCEPT ![c].status = "Cancelled"]
<1>1. DataOK /\ rows \in [DOMAIN rows -> Row] /\ claims \in [Ids -> Nat]
  BY DataFromType, RowsTyped DEF DataOK
<1>2. /\ Return(r) /\ UNCHANGED <<minted, notifications, everLogged, reverted, envVars>>
      /\ claims' = claims
  BY DEF UpdateCancelled, histVars
<1>3. CASE c \in DOMAIN rows /\ rows' = f
  <2>1. [rows[c] EXCEPT !.status = "Cancelled"] \in Row
    BY <1>1, <1>3, StatusTyped DEF Statuses
  <2>2. f = [rows EXCEPT ![c] = [rows[c] EXCEPT !.status = "Cancelled"]]
    BY <1>1, <1>3
  <2>3. f \in [DOMAIN rows -> Row]
    BY <1>1, <1>3, <2>1, <2>2
  <2> HIDE DEF f
  <2> QED
    BY <1>1, <1>2, <1>3, <2>3, OneRowTypeInv
<1>4. CASE rows' = rows
  BY <1>1, <1>2, <1>4, OneRowTypeInv
<1> QED
  BY <1>3, <1>4 DEF UpdateCancelled

LEMMA DeleteTypeInv ==
  ASSUME TypeInv, NEW u \in Users, DeleteAccount(u)
  PROVE  TypeInv'
<1> DEFINE doomed == {c \in DOMAIN rows : u \in {rows[c].creator, rows[c].recipient}}
           D == DOMAIN rows \ doomed
           f == [c \in D |-> rows[c]]
<1>1. DataOK /\ rows \in [DOMAIN rows -> Row] /\ DOMAIN rows \subseteq Ids
  BY DataFromType, RowsTyped
<1>2. f \in [D -> Row] /\ D \in SUBSET Ids /\ DOMAIN f = D /\ D \subseteq DOMAIN rows
  BY <1>1
<1>3. f \in Snapshots
  BY <1>2, SnapshotIntro
<1>4. rows' = f
  BY DEF DeleteAccount
<1> HIDE DEF f, D
<1>5. DataOK'
  BY <1>1, <1>2, <1>3, <1>4 DEF DataOK, DeleteAccount, histVars
<1> QED
  BY <1>5, StillTypeInv DEF DeleteAccount

\* A list request reads the table and moves on.
LEMMA SelectTypeInv ==
  ASSUME TypeInv, NEW r \in Requests, SelectRows(r)
  PROVE  TypeInv'
<1> DEFINE mine  == {c \in DOMAIN rows : job[r].viewer \in {rows[c].creator, rows[c].recipient}}
           found == {rows[c] : c \in {d \in mine :
                       MatchesFilter(rows[d], job[r].status, job[r].at)}}
           j == [job[r] EXCEPT !.found = found]
<1>1. DataOK /\ rows \in [DOMAIN rows -> Row]
  BY DataFromType, RowsTyped
<1>2. /\ pc[r] = "select" /\ job' = [job EXCEPT ![r] = j] /\ pc' = [pc EXCEPT ![r] = "show"]
      /\ UNCHANGED <<todo, turn, writes, announced, envVars, dbVars, histVars>>
  BY DEF SelectRows
<1>3. job[r] \in Listing
  BY <1>2 DEF TypeInv, PhaseOK
<1>4. found \in SUBSET Row
  BY <1>1
<1> HIDE DEF found
<1>5. j \in Listing /\ j \in Jobs
  BY <1>3, <1>4 DEF Listing, Jobs
<1> HIDE DEF j
<1>6. DataOK'
  BY <1>1, <1>2 DEF DataOK, envVars, dbVars, histVars
<1>7. Typed'
  BY <1>2, <1>5, <1>6 DEF TypeInv, Typed, DataOK, PCs
<1>8. ASSUME NEW q \in Requests PROVE PhaseOK(q)'
  BY <1>2, <1>5 DEF TypeInv, Typed, PhaseOK, dbVars
<1> QED
  BY <1>7, <1>8 DEF TypeInv

LEMMA StepTypeInv ==
  ASSUME TypeInv, NEW r \in Requests, Step(r)
  PROVE  TypeInv'
<1>1. ASSUME NEW range \in Levels, UniqueViolation(r, range) PROVE TypeInv'
  BY <1>1, GiveUpTypeInv DEF UniqueViolation
<1>2. ASSUME DeadlockAbort(r) PROVE TypeInv'
  BY <1>2, GiveUpTypeInv DEF DeadlockAbort
<1>3. ASSUME Show(r) PROVE TypeInv'
  BY <1>3, GiveUpTypeInv DEF Show
<1> QED
  BY <1>1, <1>2, <1>3, SelectTypeInv, ListTypeInv, SkipTypeInv, UpdateTypeInv, CommitTypeInv, ExpireTypeInv,
     InsertTypeInv, ClaimedTypeInv, CancelledTypeInv DEF Step

LEMMA NextTypeInv == TypeInv /\ [Next]_vars => TypeInv'
<1> SUFFICES ASSUME TypeInv, [Next]_vars PROVE TypeInv'
  OBVIOUS
<1>1. DataOK
  BY DataFromType
<1>2. ASSUME NEW r \in Requests, Interrupt(r) PROVE TypeInv'
  BY <1>2, GiveUpTypeInv DEF Interrupt
<1>3. ASSUME NEW h \in Habits, NEW d \in Days, DeleteCompletion(h, d) PROVE TypeInv'
  BY <1>1, <1>3, StillTypeInv DEF DeleteCompletion, DataOK, dbVars, histVars
<1>4. CASE Tick
  <2>1. now' \in 0 .. MaxDay
    BY <1>1, <1>4, ConstantsAssumption DEF Tick, DataOK
  <2> QED
    BY <1>1, <1>4, <2>1, StillTypeInv DEF Tick, DataOK, dbVars, histVars
<1>5. CASE UNCHANGED vars
  BY <1>1, <1>5, StillTypeInv DEF vars, DataOK, envVars, dbVars, histVars
<1> QED
  BY <1>2, <1>3, <1>4, <1>5, ArriveTypeInv, StepTypeInv, DeleteTypeInv DEF Next

\* Every variable of Challenges keeps its shape: in particular what the engine
\* computes, writes over another version and commits is always a whole row.
THEOREM TypeCorrect == Spec => []TypeOK
<1>1. TypeInv => TypeOK
  BY TypedIs DEF TypeInv
<1> QED
  BY <1>1, InitTypeInv, NextTypeInv, PTL DEF Spec

-----------------------------------------------------------------------------
(* The list.  Its filter used the clock of the request's beginning, and the  *)
(* rows it found are shown by a later one.                                   *)

ListOK(r) ==
  /\ pc[r] \in {"select", "show"} => job[r].at <= now
  /\ pc[r] = "show" =>
       \A row \in job[r].found : MatchesFilter(row, job[r].status, job[r].at)

ListInv == \A r \in Requests : ListOK(r)

\* A request that stays where it is, or goes where no list is, while time passes.
LEMMA ListStays ==
  ASSUME TypeInv, TypeInv', NEW r \in Requests, ListOK(r), now <= now',
         \/ pc'[r] = pc[r] /\ job'[r] = job[r]
         \/ pc'[r] \notin {"select", "show"}
  PROVE  ListOK(r)'
<1>1. now \in Int /\ now' \in Int
  BY ConstantsAssumption DEF TypeInv, Typed
<1>2. CASE pc'[r] = pc[r] /\ job'[r] = job[r] /\ pc[r] \in {"select", "show"}
  <2>1. job[r].at \in Int
    BY <1>2, ConstantsAssumption DEF TypeInv, PhaseOK, Listing
  <2> QED
    BY <1>1, <1>2, <2>1 DEF ListOK
<1> QED
  BY <1>2 DEF ListOK

\* What a step of another kind does with the place of every request.
Elsewhere(r) ==
  \A q \in Requests :
    \/ pc'[q] = pc[q] /\ job'[q] = job[q]
    \/ q = r /\ pc'[q] \notin {"select", "show"}

LEMMA LeavesLists ==
  ASSUME TypeInv, NEW r \in Requests,
         \/ Return(r)
         \/ \E step \in {"list", "expire", "claim", "cancel"} : \E j : Begin(r, step, j)
         \/ \E step \in PCs \ {"select", "show"} :
              pc' = [pc EXCEPT ![r] = step] /\ job' = job
         \/ pc[r] = "apply" /\ NextRow(r) /\ job' = job
  PROVE  Elsewhere(r)
<1>1. pc \in [Requests -> PCs] /\ job \in [Requests -> Jobs]
  BY DEF TypeInv, Typed
<1>2. CASE pc[r] = "apply" /\ NextRow(r) /\ job' = job
  <2>1. pc'[r] \in {"apply", "commit"} /\ \A q \in Requests \ {r} : pc'[q] = pc[q]
    BY <1>2, NextRowIs
  <2> QED
    BY <1>2, <2>1 DEF Elsewhere
<1>3. CASE Return(r)
  <2>1. pc'[r] = "idle" /\ \A q \in Requests \ {r} : pc'[q] = pc[q] /\ job'[q] = job[q]
    BY <1>1, <1>3 DEF Return
  <2> QED
    BY <2>1 DEF Elsewhere
<1>4. ASSUME NEW step, NEW j, Begin(r, step, j), step \notin {"select", "show"}
      PROVE  Elsewhere(r)
  <2>1. pc'[r] = step /\ \A q \in Requests \ {r} : pc'[q] = pc[q] /\ job'[q] = job[q]
    BY <1>1, <1>4 DEF Begin
  <2> QED
    BY <1>4, <2>1 DEF Elsewhere
<1>5. ASSUME NEW step, step \notin {"select", "show"},
             pc' = [pc EXCEPT ![r] = step], job' = job
      PROVE  Elsewhere(r)
  <2>1. pc'[r] = step /\ \A q \in Requests \ {r} : pc'[q] = pc[q]
    BY <1>1, <1>5
  <2> QED
    BY <1>5, <2>1 DEF Elsewhere
<1> QED
  BY <1>2, <1>3, <1>4, <1>5

LEMMA SelectList ==
  ASSUME TypeInv, NEW r \in Requests, ListOK(r), SelectRows(r)
  PROVE  ListOK(r)' /\ \A q \in Requests \ {r} : pc'[q] = pc[q] /\ job'[q] = job[q]
<1> DEFINE mine  == {c \in DOMAIN rows : job[r].viewer \in {rows[c].creator, rows[c].recipient}}
           found == {rows[c] : c \in {d \in mine :
                       MatchesFilter(rows[d], job[r].status, job[r].at)}}
           j == [job[r] EXCEPT !.found = found]
<1>1. /\ pc[r] = "select" /\ job' = [job EXCEPT ![r] = j] /\ pc' = [pc EXCEPT ![r] = "show"]
      /\ now' = now
  BY DEF SelectRows, envVars
<1>2. job[r] \in Listing /\ pc \in [Requests -> PCs] /\ job \in [Requests -> Jobs]
  BY <1>1 DEF TypeInv, Typed, PhaseOK
<1>3. \A row \in found : MatchesFilter(row, job[r].status, job[r].at)
  OBVIOUS
<1> HIDE DEF found
<1>4. j.at = job[r].at /\ j.status = job[r].status /\ j.found = found
  BY <1>2 DEF Listing
<1> HIDE DEF j
<1>5. job'[r] = j /\ pc'[r] = "show"
  BY <1>1, <1>2
<1> QED
  BY <1>1, <1>2, <1>3, <1>4, <1>5 DEF ListOK

LEMMA NextList == TypeInv /\ TypeInv' /\ ListInv /\ [Next]_vars => ListInv'
<1> SUFFICES ASSUME TypeInv, TypeInv', ListInv, [Next]_vars PROVE ListInv'
  OBVIOUS
<1>1. ASSUME NEW r \in Requests, Elsewhere(r), now <= now' PROVE ListInv'
  BY <1>1, ListStays DEF ListInv, Elsewhere
<1>2. now \in Int
  BY ConstantsAssumption DEF TypeInv, Typed
<1>3. ASSUME NEW r \in Requests, NEW u \in Users, NEW s \in Filters, StartList(r, u, s)
      PROVE  ListInv'
  <2>1. /\ pc'[r] = "select" /\ job'[r].at = now /\ now' = now
        /\ \A q \in Requests \ {r} : pc'[q] = pc[q] /\ job'[q] = job[q]
    BY <1>3 DEF StartList, Begin, TypeInv, Typed, envVars
  <2>2. ListOK(r)'
    BY <1>2, <2>1 DEF ListOK
  <2> QED
    BY <1>2, <2>1, <2>2, ListStays DEF ListInv
<1>4. ASSUME NEW r \in Requests, SelectRows(r) PROVE ListInv'
  <2>1. now' = now
    BY <1>4 DEF SelectRows, envVars
  <2> QED
    BY <1>2, <1>4, <2>1, SelectList, ListStays DEF ListInv
<1>5. ASSUME NEW r \in Requests, Step(r), ~SelectRows(r) PROVE ListInv'
  <2>1. now' = now
    BY <1>5 DEF Step, ListActive, SkipRow, CommitProgress, DeadlockAbort, UpdateProgress,
                UniqueViolation, ExpireStaleActive, InsertChallenge, UpdateClaimed,
                UpdateCancelled, Show, envVars
  <2> DEFINE goes ==
        \/ Return(r)
        \/ \E step \in {"apply", "insert"} : pc' = [pc EXCEPT ![r] = step] /\ job' = job
        \/ pc[r] = "apply" /\ NextRow(r) /\ job' = job
  <2>3a. ListActive(r) => goes
    BY DEF ListActive
  <2>3b. SkipRow(r) \/ (\E range \in Levels : UpdateProgress(r, range)) => goes
    BY DEF SkipRow, UpdateProgress
  <2>3c. ExpireStaleActive(r) => goes
    BY DEF ExpireStaleActive
  <2>3d. \/ CommitProgress(r) \/ DeadlockAbort(r) \/ InsertChallenge(r) \/ UpdateClaimed(r)
         \/ UpdateCancelled(r) \/ Show(r) \/ \E range \in Levels : UniqueViolation(r, range)
         => goes
    BY DEF CommitProgress, DeadlockAbort, UniqueViolation, InsertChallenge, UpdateClaimed,
           UpdateCancelled, Show
  <2>2. goes
    BY <1>5, <2>3a, <2>3b, <2>3c, <2>3d DEF Step
  <2>3. Elsewhere(r)
    BY <2>2, LeavesLists DEF PCs
  <2> QED
    BY <1>1, <1>2, <2>1, <2>3
<1>6. ASSUME NEW r \in Requests, Arrive(r),
             ~\E u \in Users, s \in Filters : StartList(r, u, s)
      PROVE  ListInv'
  <2>1. /\ now' = now
        /\ \E step \in {"list", "expire", "claim", "cancel"} : \E j : Begin(r, step, j)
    BY <1>6 DEF Arrive, CompleteHabit, StartCreate, StartClaim, StartCancel, envVars
  <2>2. Elsewhere(r)
    BY <2>1, LeavesLists
  <2> QED
    BY <1>1, <1>2, <2>1, <2>2
<1>7. ASSUME NEW r \in Requests, Interrupt(r) PROVE ListInv'
  <2>1. Elsewhere(r) /\ now' = now
    BY <1>7, LeavesLists DEF Interrupt, envVars
  <2> QED
    BY <1>1, <1>2, <2>1
<1>8. ASSUME UNCHANGED reqVars, now <= now' PROVE ListInv'
  BY <1>8, ListStays DEF ListInv, reqVars
<1>9. ASSUME NEW r \in Requests, Arrive(r) \/ Step(r) \/ Interrupt(r) PROVE ListInv'
  BY <1>3, <1>4, <1>5, <1>6, <1>7, <1>9
<1>10. CASE \/ \E h \in Habits, d \in Days : DeleteCompletion(h, d)
            \/ \E u \in Users : DeleteAccount(u)
            \/ Tick \/ UNCHANGED vars
  <2>1. UNCHANGED reqVars
    BY <1>10 DEF DeleteCompletion, DeleteAccount, Tick, vars
  <2>2. now' = now \/ now' = now + 1
    BY <1>10 DEF DeleteCompletion, DeleteAccount, Tick, vars, envVars
  <2>3. now <= now'
    BY <1>2, <2>2
  <2> QED
    BY <1>8, <2>1, <2>3
<1> QED
  BY <1>9, <1>10 DEF Next

\* Between the filter's clock and the display's, and whatever other requests write
\* in between, a listed row stays in the status it was asked for or lapses.
THEOREM ListAlwaysAsFiltered == Spec => []ListedAsFiltered
<1>1. Init => ListInv
  BY DEF Init, ListInv, ListOK
<1>2. TypeInv /\ ListInv => ListedAsFiltered
  <2> SUFFICES ASSUME TypeInv, ListInv, NEW r \in Requests, pc[r] = "show",
                      NEW row \in job[r].found
               PROVE  \/ EffectiveStatus(row, now) = job[r].status
                      \/ /\ job[r].status = "Active" /\ EffectiveStatus(row, now) = "Expired"
                         /\ job[r].at < row.ends /\ row.ends <= now
    BY DEF ListedAsFiltered
  <2>1. /\ job[r].at \in Int /\ row \in Row /\ now \in Int /\ job[r].status \in Statuses
    BY ConstantsAssumption DEF TypeInv, Typed, PhaseOK, Listing
  <2>2. row.ends \in Int /\ row.status \in Statuses
    BY <2>1 DEF Row
  <2>3. job[r].at <= now /\ MatchesFilter(row, job[r].status, job[r].at)
    BY DEF ListInv, ListOK
  <2> QED
    BY <2>1, <2>2, <2>3 DEF MatchesFilter, EffectiveStatus, Statuses
<1> QED
  BY <1>1, <1>2, InitTypeInv, NextTypeInv, NextList, PTL DEF Spec

-----------------------------------------------------------------------------
(* Soundness of rows.  The engine computes from a row it read earlier and    *)
(* writes over the row that is there now, so the argument follows every      *)
(* version of a row: the committed one, the one read, the uncommitted one.   *)

DatesLogged(row) == \A d \in row.dates : <<row.habit, d>> \in everLogged
Sound(row)       == RowConsistent(row) /\ DatesLogged(row)
Note(c, u)       == [kind |-> "challenge_completed", user |-> u, id |-> c]

RowOK(c) ==
  /\ Sound(rows[c])
  /\ rows[c].completedAt => Note(c, rows[c].recipient) \in notifications

\* A version the engine of r has read and not yet processed.
ReadOK(r, c) ==
  /\ todo[r][c].status = "Active" /\ Sound(todo[r][c])
  /\ todo[r][c].habit = job[r].habit /\ todo[r][c].recipient = job[r].user
  /\ c \in DOMAIN rows => Fixed(todo[r][c], rows[c])

\* An uncommitted version: its row is locked, so it cannot have been deleted.
WriteOK(r, c) ==
  /\ c \in DOMAIN rows /\ Fixed(writes[r][c], rows[c]) /\ Sound(writes[r][c])
  /\ writes[r][c].status \in {"Active", "Completed"}
  /\ writes[r][c].completedAt => Note(c, writes[r][c].recipient) \in announced[r]

BatchOK(r) ==
  /\ pc[r] \in {"list", "apply", "commit"} => <<job[r].habit, job[r].date>> \in everLogged
  /\ \A c \in DOMAIN todo[r] : ReadOK(r, c)
  /\ \A c \in DOMAIN writes[r] : WriteOK(r, c)

BatchInv ==
  /\ \A c \in DOMAIN rows : RowOK(c)
  /\ \A r \in Requests : BatchOK(r)

LEMMA ReachedIs ==
  ASSUME NEW row \in Row, NEW level \in Levels
  PROVE  /\ row.type \in CountTypes => (IsMilestoneReached(row, level) <=> row.count >= row.target)
         /\ ~IsMilestoneReached(row, level) => CalculateProgress(row, level) # row.target
<1>1. row.count \in Nat /\ row.target \in Nat /\ level \in Nat
  BY ConstantsAssumption DEF Row, Levels
<1>2. CalculateProgress(row, level) \in Nat
  BY ProgressType
<1>3. CASE row.type \in CountTypes
  BY <1>1, <1>3 DEF IsMilestoneReached, CalculateProgress, Min2
<1>4. CASE row.type = ImprovementMilestone /\ row.type \notin CountTypes
  <2> HIDE DEF CalculateProgress
  <2> QED
    BY <1>1, <1>2, <1>4 DEF IsMilestoneReached
<1>5. CASE row.type # ImprovementMilestone /\ row.type \notin CountTypes
  BY <1>1, <1>5 DEF IsMilestoneReached, CalculateProgress, Min2
<1> QED
  BY <1>3, <1>4, <1>5

\* One eligible completion keeps the story of a row straight.
LEMMA ProgressedSound ==
  ASSUME NEW row \in Row, NEW ev \in Event, NEW range \in Levels,
         row.status = "Active", RowConsistent(row), Eligible(row, ev.date)
  PROVE  LET new == Progressed(row, ev, range)
         IN  /\ Fixed(new, row) /\ RowConsistent(new)
             /\ new.status \in {"Active", "Completed"}
             /\ new.dates \subseteq row.dates \cup {ev.date}
<1> DEFINE b == Based(row, ev)
           level == Scored(row, ev, range)
           new == Progressed(row, ev, range)
           p == CalculateProgress(b, level)
<1>1. /\ b \in Row /\ Fixed(b, row) /\ b.status = "Active" /\ b.completedAt = row.completedAt
      /\ b.dates = Dated(row, ev).dates /\ b.count = Dated(row, ev).count
  BY BasedIs
<1>2. row.completedAt = FALSE
  BY DEF RowConsistent
<1>3. level \in Levels
  BY DEF Scored, Event
<1>4. b.dates \subseteq row.dates \cup {ev.date} /\ b.count = Cardinality(b.dates)
      /\ \A d \in b.dates : b.type \in DedupTypes /\ d >= b.from
  <2>1. CASE row.type \in DedupTypes
    <3>1. b.dates = row.dates \cup {ev.date} /\ b.count = Cardinality(b.dates)
      BY <1>1, <2>1, DatedIs
    <3>2. ev.date >= row.from
      BY <2>1 DEF Eligible, DedupTypes, CountTypes, ConsistencyTarget, DaysInPeriod,
                  TotalCompletions, CustomDateRange
    <3> QED
      BY <1>1, <2>1, <3>1, <3>2 DEF RowConsistent, Fixed
  <2>2. CASE row.type \notin DedupTypes
    BY <1>1, <2>2, DatedIs DEF RowConsistent, Fixed
  <2> QED
    BY <2>1, <2>2
<1>5. row.target = b.target /\ p \in Nat /\ b.target \in Nat
  BY <1>1, <1>3, ProgressType DEF Fixed, Row
<1>6. new = IF IsMilestoneReached(b, level)
            THEN [b EXCEPT !.status = "Completed", !.progress = b.target, !.completedAt = TRUE]
            ELSE [b EXCEPT !.progress = p]
  BY <1>5, ProgressedIs
<1>7. /\ b.type \in CountTypes => (IsMilestoneReached(b, level) <=> b.count >= b.target)
      /\ ~IsMilestoneReached(b, level) => p # b.target
  BY <1>1, <1>3, ReachedIs
<1> HIDE DEF b, level, new, p
<1>8. CASE IsMilestoneReached(b, level)
  <2>1. /\ new.status = "Completed" /\ new.progress = new.target /\ new.completedAt = TRUE
        /\ new.count = b.count /\ new.dates = b.dates /\ Fixed(new, b)
    BY <1>1, <1>6, <1>8 DEF Row, Fixed
  <2>2. Fixed(new, row)
    BY <1>1, <2>1 DEF Fixed
  <2>3. RowConsistent(new)
    BY <1>4, <1>7, <1>8, <2>1 DEF RowConsistent, Fixed
  <2> QED
    BY <1>4, <2>1, <2>2, <2>3 DEF new
<1>9. CASE ~IsMilestoneReached(b, level)
  <2>1. /\ new.status = "Active" /\ new.progress = p /\ new.completedAt = FALSE
        /\ new.count = b.count /\ new.dates = b.dates /\ Fixed(new, b)
    BY <1>1, <1>2, <1>6, <1>9 DEF Row, Fixed
  <2>2. Fixed(new, row)
    BY <1>1, <2>1 DEF Fixed
  <2>3. RowConsistent(new)
    BY <1>4, <1>7, <1>9, <2>1 DEF RowConsistent, Fixed
  <2> QED
    BY <1>4, <2>1, <2>2, <2>3 DEF new
<1> QED
  BY <1>8, <1>9

\* A version with the same columns on the same fixed columns tells the same story.
LEMMA ConsistentCopy ==
  ASSUME NEW a, NEW b, Fixed(a, b), RowConsistent(b), a.status = b.status,
         a.completedAt = b.completedAt, a.dates = b.dates, a.count = b.count,
         a.progress = b.progress
  PROVE  RowConsistent(a)
BY DEF Fixed, RowConsistent

\* A change of status that does not cross the line of completion.
LEMMA ConsistentStatus ==
  ASSUME NEW row \in Row, RowConsistent(row), NEW a, Fixed(a, row), a.dates = row.dates,
         a.count = row.count, a.progress = row.progress, a.completedAt = row.completedAt,
         a.status \in {"Completed", "Claimed"} <=> row.status \in {"Completed", "Claimed"}
  PROVE  RowConsistent(a)
BY DEF Fixed, RowConsistent

\* What every step grants the requests it does not move: history only grows, a
\* row that stays keeps its fixed columns, and ids are never handed out again.
TableMoves ==
  /\ everLogged \subseteq everLogged'
  /\ \A c \in DOMAIN rows \cap DOMAIN rows' : Fixed(rows'[c], rows[c])
  /\ DOMAIN rows' \cap 1 .. minted \subseteq DOMAIN rows

Still(r) ==
  /\ pc'[r] = pc[r] /\ job'[r] = job[r] /\ todo'[r] = todo[r]
  /\ writes'[r] = writes[r] /\ announced'[r] = announced[r]

LEMMA FixedTransitive ==
  ASSUME NEW a, NEW b, NEW c, Fixed(a, b), Fixed(c, b)
  PROVE  Fixed(a, c)
BY DEF Fixed

LEMMA StillBatchOK ==
  ASSUME TypeInv, NEW r \in Requests, BatchOK(r), TableMoves, Still(r),
         DOMAIN writes[r] \subseteq DOMAIN rows'
  PROVE  BatchOK(r)'
<1>1. DOMAIN todo[r] \subseteq 1 .. minted
  BY DEF TypeInv, PhaseOK
<1>2. ASSUME NEW c \in DOMAIN todo[r] PROVE ReadOK(r, c)'
  <2>1. ReadOK(r, c) /\ todo'[r][c] = todo[r][c] /\ job'[r] = job[r]
    BY <1>2 DEF BatchOK, Still
  <2>2. Sound(todo[r][c])'
    BY <2>1 DEF ReadOK, Sound, DatesLogged, TableMoves, RowConsistent
  <2>3. c \in DOMAIN rows' => Fixed(todo[r][c], rows'[c])
    <3> SUFFICES ASSUME c \in DOMAIN rows' PROVE Fixed(todo[r][c], rows'[c])
      OBVIOUS
    <3>1. c \in DOMAIN rows
      BY <1>1, <1>2 DEF TableMoves
    <3> QED
      BY <2>1, <3>1, FixedTransitive DEF ReadOK, TableMoves
  <2> QED
    BY <2>1, <2>2, <2>3 DEF ReadOK
<1>3. ASSUME NEW c \in DOMAIN writes[r] PROVE WriteOK(r, c)'
  <2>1. /\ WriteOK(r, c) /\ writes'[r][c] = writes[r][c] /\ announced'[r] = announced[r]
        /\ c \in DOMAIN rows'
    BY <1>3 DEF BatchOK, Still
  <2>2. Sound(writes[r][c])'
    BY <2>1 DEF WriteOK, Sound, DatesLogged, TableMoves, RowConsistent
  <2>3. Fixed(writes[r][c], rows'[c])
    BY <2>1, FixedTransitive DEF WriteOK, TableMoves
  <2> QED
    BY <2>1, <2>2, <2>3 DEF WriteOK, Note
<1> QED
  BY <1>2, <1>3 DEF BatchOK, Still, TableMoves

LEMMA ReturnBatchOK ==
  ASSUME TypeInv, NEW r \in Requests, Return(r)
  PROVE  BatchOK(r)' /\ \A q \in Requests \ {r} : Still(q)
<1>1. todo'[r] = NoRows /\ writes'[r] = NoRows /\ pc'[r] = "idle"
  BY DEF Return, TypeInv, Typed
<1>2. \A q \in Requests \ {r} : Still(q)
  BY DEF Return, TypeInv, Typed, Still
<1> QED
  BY <1>1, <1>2, NoRowsSnapshot DEF BatchOK

\* A row that stays as it is, and whose recipient keeps the notification.
LEMMA RowStays ==
  ASSUME NEW c \in DOMAIN rows, RowOK(c), rows'[c] = rows[c], everLogged \subseteq everLogged',
         \A n \in notifications : n.user = rows[c].recipient => n \in notifications'
  PROVE  RowOK(c)'
<1>1. Sound(rows[c])'
  BY DEF RowOK, Sound, DatesLogged, RowConsistent
<1>2. rows[c].completedAt => Note(c, rows[c].recipient) \in notifications'
  BY DEF RowOK, Note
<1> QED
  BY <1>1, <1>2 DEF RowOK, Note

\* A row whose status moves on one side of the line of completion.
LEMMA RowMoves ==
  ASSUME TypeInv, NEW c \in DOMAIN rows, RowOK(c), Fixed(rows'[c], rows[c]),
         rows'[c].dates = rows[c].dates, rows'[c].count = rows[c].count,
         rows'[c].progress = rows[c].progress, rows'[c].completedAt = rows[c].completedAt,
         rows'[c].status \in {"Completed", "Claimed"}
           <=> rows[c].status \in {"Completed", "Claimed"},
         everLogged \subseteq everLogged', notifications \subseteq notifications'
  PROVE  RowOK(c)'
<1>1. rows[c] \in Row
  BY DataFromType, RowsTyped
<1>2. RowConsistent(rows'[c])
  BY <1>1, ConsistentStatus DEF RowOK, Sound
<1>3. DatesLogged(rows[c])'
  BY DEF RowOK, Sound, DatesLogged, Fixed
<1>4. rows'[c].completedAt => Note(c, rows'[c].recipient) \in notifications'
  BY DEF RowOK, Fixed
<1> QED
  BY <1>2, <1>3, <1>4 DEF RowOK, Sound, Note, DatesLogged

\* A request ends; the rest follows from what it did to the table.
LEMMA EndBatchInv ==
  ASSUME TypeInv, BatchInv, NEW r \in Requests, Return(r), TableMoves,
         \A q \in Requests \ {r} : DOMAIN writes[q] \subseteq DOMAIN rows',
         \A c \in DOMAIN rows' : RowOK(c)'
  PROVE  BatchInv'
<1>1. ASSUME NEW q \in Requests \ {r} PROVE BatchOK(q)'
  BY <1>1, ReturnBatchOK, StillBatchOK DEF BatchInv
<1> QED
  BY <1>1, ReturnBatchOK DEF BatchInv

\* The committed rows are as they were, and so is what the requests may see.
LEMMA SameRows ==
  ASSUME TypeInv, BatchInv, UNCHANGED rows, everLogged \subseteq everLogged',
         notifications \subseteq notifications'
  PROVE  /\ TableMoves /\ \A c \in DOMAIN rows' : RowOK(c)'
         /\ \A q \in Requests : DOMAIN writes[q] \subseteq DOMAIN rows'
<1>1. \A c \in DOMAIN rows' : RowOK(c)'
  BY RowStays DEF BatchInv
<1>2. \A q \in Requests : DOMAIN writes[q] \subseteq DOMAIN rows'
  BY DEF BatchInv, BatchOK, WriteOK
<1> QED
  BY <1>1, <1>2 DEF TableMoves, Fixed

LEMMA GiveUpBatchInv ==
  ASSUME TypeInv, BatchInv, NEW r \in Requests, Return(r), UNCHANGED <<envVars, dbVars, histVars>>
  PROVE  BatchInv'
<1>1. UNCHANGED rows /\ everLogged \subseteq everLogged' /\ notifications \subseteq notifications'
  BY DEF dbVars, histVars
<1> QED
  BY <1>1, SameRows, EndBatchInv

LEMMA BeginBatchInv ==
  ASSUME TypeInv, BatchInv, NEW r \in Requests, NEW step, NEW j, Begin(r, step, j),
         step \in {"list", "apply", "commit"} => <<j.habit, j.date>> \in everLogged',
         UNCHANGED <<rows, notifications>>, everLogged \subseteq everLogged'
  PROVE  BatchInv'
<1>1. TableMoves /\ (\A c \in DOMAIN rows' : RowOK(c)')
      /\ \A q \in Requests : DOMAIN writes[q] \subseteq DOMAIN rows'
  BY SameRows
<1>2. pc'[r] = step /\ job'[r] = j /\ UNCHANGED <<todo, writes, announced>>
  BY DEF Begin, TypeInv, Typed
<1>3. todo[r] = NoRows /\ writes[r] = NoRows
  BY DEF Begin, TypeInv, PhaseOK
<1>4. BatchOK(r)'
  BY <1>2, <1>3, NoRowsSnapshot DEF BatchOK
<1>5. ASSUME NEW q \in Requests \ {r} PROVE BatchOK(q)'
  <2>1. Still(q)
    BY <1>2 DEF Begin, TypeInv, Typed, Still
  <2> QED
    BY <1>1, <2>1, StillBatchOK DEF BatchInv
<1> QED
  BY <1>1, <1>4, <1>5 DEF BatchInv

LEMMA ArriveBatchInv ==
  ASSUME TypeInv, BatchInv, NEW r \in Requests, Arrive(r)
  PROVE  BatchInv'
<1>1. ASSUME NEW h \in Habits, NEW d \in Days, NEW k \in Levels, CompleteHabit(r, h, d, k)
      PROVE  BatchInv'
  BY <1>1, BeginBatchInv DEF CompleteHabit, dbVars
<1>2. ASSUME NEW o \in Offers, StartCreate(r, o) PROVE BatchInv'
  <2>1. Begin(r, "expire", [offer |-> o, at |-> now])
        /\ UNCHANGED <<rows, notifications, everLogged>>
    BY <1>2 DEF StartCreate, dbVars, histVars
  <2> QED
    BY <2>1, BeginBatchInv
<1>3. ASSUME NEW c \in Ids, NEW u \in Users, StartClaim(r, c, u) PROVE BatchInv'
  <2>1. Begin(r, "claim", [id |-> c]) /\ UNCHANGED <<rows, notifications, everLogged>>
    BY <1>3 DEF StartClaim, dbVars, histVars
  <2> QED
    BY <2>1, BeginBatchInv
<1>4. ASSUME NEW c \in Ids, StartCancel(r, c) PROVE BatchInv'
  <2>1. Begin(r, "cancel", [id |-> c]) /\ UNCHANGED <<rows, notifications, everLogged>>
    BY <1>4 DEF StartCancel, dbVars, histVars
  <2> QED
    BY <2>1, BeginBatchInv
<1>5. ASSUME NEW u \in Users, NEW s \in Filters, StartList(r, u, s) PROVE BatchInv'
  <2>1. UNCHANGED <<rows, notifications, everLogged>>
        /\ Begin(r, "select", [viewer |-> u, status |-> s, at |-> now, found |-> {}])
    BY <1>5 DEF StartList, dbVars, histVars
  <2> QED
    BY <2>1, BeginBatchInv
<1> QED
  BY <1>1, <1>2, <1>3, <1>4, <1>5 DEF Arrive

LEMMA ListBatchInv ==
  ASSUME TypeInv, BatchInv, NEW r \in Requests, ListActive(r)
  PROVE  BatchInv'
<1> DEFINE hits == {c \in DOMAIN rows : /\ rows[c].habit = job[r].habit
                                        /\ rows[c].recipient = job[r].user
                                        /\ rows[c].status = "Active"
                                        /\ rows[c].ends > now}
<1>1. UNCHANGED <<envVars, dbVars, histVars>> /\ pc[r] = "list"
  BY DEF ListActive
<1>2. UNCHANGED <<rows, notifications, everLogged>>
  BY <1>1 DEF dbVars, histVars
<1>3. TableMoves /\ (\A c \in DOMAIN rows' : RowOK(c)')
      /\ \A q \in Requests : DOMAIN writes[q] \subseteq DOMAIN rows'
  BY <1>2, SameRows
<1>4. CASE Return(r)
  BY <1>1, <1>4, GiveUpBatchInv
<1>5. CASE /\ todo' = [todo EXCEPT ![r] = [c \in hits |-> rows[c]]]
           /\ pc' = [pc EXCEPT ![r] = "apply"] /\ UNCHANGED <<job, writes, announced>>
  <2>1. /\ DOMAIN todo'[r] = hits /\ \A c \in hits : todo'[r][c] = rows[c]
    BY <1>5 DEF TypeInv, Typed
  <2>2. ASSUME NEW c \in DOMAIN todo'[r] PROVE ReadOK(r, c)'
    <3>1. c \in DOMAIN rows /\ todo'[r][c] = rows[c] /\ RowOK(c)'
          /\ rows[c].status = "Active" /\ rows[c].habit = job[r].habit
          /\ rows[c].recipient = job[r].user
      BY <1>2, <1>3, <2>1, <2>2
    <3>2. Sound(rows[c])'
      BY <3>1 DEF RowOK
    <3>3. Sound(todo[r][c])'
      BY <1>2, <3>1, <3>2 DEF Sound, DatesLogged, RowConsistent
    <3> QED
      BY <1>2, <1>5, <3>1, <3>3 DEF ReadOK, Fixed
  <2>3. BatchOK(r)'
    <3>1. writes[r] = NoRows /\ pc'[r] = "apply"
      BY <1>1, <1>5 DEF TypeInv, Typed, PhaseOK
    <3> QED
      BY <1>1, <1>2, <1>5, <2>2, <3>1, NoRowsSnapshot DEF BatchInv, BatchOK
  <2>4. ASSUME NEW q \in Requests \ {r} PROVE BatchOK(q)'
    <3>1. Still(q)
      BY <1>5 DEF TypeInv, Typed, Still
    <3> QED
      BY <1>3, <3>1, StillBatchOK DEF BatchInv
  <2> QED
    BY <1>3, <2>3, <2>4 DEF BatchInv
<1>6. \/ Return(r)
      \/ /\ todo' = [todo EXCEPT ![r] = [c \in hits |-> rows[c]]]
         /\ pc' = [pc EXCEPT ![r] = "apply"] /\ UNCHANGED <<job, writes, announced>>
  BY DEF ListActive
<1> QED
  BY <1>4, <1>5, <1>6

\* A turn of the loop, given that the versions it leaves uncommitted are sound.
LEMMA LoopBatchInv ==
  ASSUME TypeInv, BatchInv, NEW r \in Requests, pc[r] = "apply", NextRow(r),
         \A q \in Requests \ {r} : writes'[q] = writes[q] /\ announced'[q] = announced[q],
         UNCHANGED <<job, envVars, dbVars, histVars>>,
         \A c \in DOMAIN writes'[r] : WriteOK(r, c)'
  PROVE  BatchInv'
<1>1. UNCHANGED <<job, rows, notifications, everLogged>>
  BY DEF dbVars, histVars
<1>2. TableMoves /\ (\A c \in DOMAIN rows' : RowOK(c)')
      /\ \A q \in Requests : DOMAIN writes[q] \subseteq DOMAIN rows'
  BY <1>1, SameRows
<1>3. BatchOK(r)'
  <2>1. ASSUME NEW c \in DOMAIN todo'[r] PROVE ReadOK(r, c)'
    <3>1. c \in DOMAIN todo[r] /\ todo'[r][c] = todo[r][c]
      BY <2>1, NextRowIs
    <3>2. ReadOK(r, c)
      BY <3>1 DEF BatchInv, BatchOK
    <3>3. Sound(todo[r][c])'
      BY <1>1, <3>1, <3>2 DEF ReadOK, Sound, DatesLogged, RowConsistent
    <3> QED
      BY <1>1, <3>1, <3>2, <3>3 DEF ReadOK
  <2>2. <<job[r].habit, job[r].date>> \in everLogged
    BY DEF BatchInv, BatchOK
  <2> QED
    BY <1>1, <2>1, <2>2 DEF BatchOK
<1>4. ASSUME NEW q \in Requests \ {r} PROVE BatchOK(q)'
  <2>1. Still(q)
    BY <1>1, NextRowIs DEF Still
  <2> QED
    BY <1>2, <2>1, StillBatchOK DEF BatchInv
<1> QED
  BY <1>2, <1>3, <1>4 DEF BatchInv

LEMMA SkipBatchInv ==
  ASSUME TypeInv, BatchInv, NEW r \in Requests, SkipRow(r)
  PROVE  BatchInv'
<1>1. pc[r] = "apply" /\ NextRow(r) /\ UNCHANGED <<job, envVars, dbVars, histVars>>
      /\ UNCHANGED <<writes, announced, rows, everLogged>>
  BY DEF SkipRow, dbVars, histVars
<1>2. ASSUME NEW c \in DOMAIN writes'[r] PROVE WriteOK(r, c)'
  <2>1. WriteOK(r, c)
    BY <1>1, <1>2 DEF BatchInv, BatchOK
  <2> QED
    BY <1>1, <2>1 DEF WriteOK, Sound, DatesLogged, RowConsistent, Note
<1> QED
  BY <1>1, <1>2, LoopBatchInv

LEMMA UpdateBatchInv ==
  ASSUME TypeInv, BatchInv, NEW r \in Requests, NEW range \in Levels, UpdateProgress(r, range)
  PROVE  BatchInv'
<1> SUFFICES ASSUME NEW c, c = turn[r] PROVE BatchInv'
  OBVIOUS
<1> DEFINE old == todo[r][c]
           new == Progressed(old, job[r], range)
<1>1. /\ pc[r] = "apply" /\ NextRow(r) /\ UNCHANGED <<job, envVars, dbVars, histVars>>
      /\ UNCHANGED <<job, rows, everLogged>> /\ Eligible(old, job[r].date)
      /\ announced' = [announced EXCEPT ![r] =
           IF new.status # "Completed" THEN @
           ELSE @ \cup {[kind |-> "challenge_completed", user |-> job[r].user, id |-> c]}]
  BY DEF UpdateProgress, dbVars, histVars
<1>2. /\ job[r] \in Event /\ c \in DOMAIN todo[r] /\ old \in Row /\ new \in Row
      /\ \A q \in Requests \ {r} : writes'[q] = writes[q]
      /\ c \notin DOMAIN rows => writes'[r] = writes[r]
      /\ c \in DOMAIN rows =>
           /\ DOMAIN writes'[r] = DOMAIN writes[r] \cup {c}
           /\ writes'[r][c] = Overwrite(rows[c], new)
           /\ \A d \in DOMAIN writes[r] \ {c} : writes'[r][d] = writes[r][d]
  BY UpdateIs
<1>3. /\ ReadOK(r, c) /\ <<job[r].habit, job[r].date>> \in everLogged
  BY <1>1, <1>2 DEF BatchInv, BatchOK
<1>4. /\ Fixed(new, old) /\ RowConsistent(new) /\ new.status \in {"Active", "Completed"}
      /\ new.dates \subseteq old.dates \cup {job[r].date}
  BY <1>1, <1>2, <1>3, ProgressedSound DEF ReadOK, Sound
<1>5. \A d \in new.dates : <<job[r].habit, d>> \in everLogged
  BY <1>3, <1>4 DEF ReadOK, Sound, DatesLogged
<1>6. /\ announced[r] \subseteq announced'[r]
      /\ new.status = "Completed" => Note(c, job[r].user) \in announced'[r]
      /\ \A q \in Requests \ {r} : announced'[q] = announced[q]
  BY <1>1 DEF TypeInv, Typed, Note
<1> HIDE DEF new
<1>7. ASSUME NEW d \in DOMAIN writes'[r], d \in DOMAIN writes[r], writes'[r][d] = writes[r][d]
      PROVE  WriteOK(r, d)'
  <2>1. WriteOK(r, d)
    BY <1>7 DEF BatchInv, BatchOK
  <2> QED
    BY <1>1, <1>6, <1>7, <2>1 DEF WriteOK, Sound, DatesLogged, RowConsistent, Note
<1>8. ASSUME c \in DOMAIN rows PROVE WriteOK(r, c)'
  <2> DEFINE o == Overwrite(rows[c], new)
  <2>1. rows[c] \in Row
    BY <1>8, DataFromType, RowsTyped
  <2>2. /\ Fixed(o, rows[c]) /\ o.status = new.status /\ o.completedAt = new.completedAt
        /\ o.dates = new.dates /\ o.count = new.count /\ o.progress = new.progress
    BY <1>2, <2>1, OverwriteIs
  <2>3. Fixed(o, new) /\ o.habit = job[r].habit /\ o.recipient = job[r].user
    BY <1>3, <1>4, <1>8, <2>2 DEF ReadOK, Fixed
  <2>4. writes'[r][c] = o
    BY <1>2, <1>8
  <2> HIDE DEF o
  <2>5. RowConsistent(o)
    BY <1>4, <2>2, <2>3, ConsistentCopy
  <2>6. \A d \in o.dates : <<o.habit, d>> \in everLogged'
    BY <1>1, <1>5, <2>2, <2>3
  <2>7. Sound(writes[r][c])'
    BY <2>4, <2>5, <2>6 DEF Sound, DatesLogged, RowConsistent
  <2>8. o.completedAt => new.status = "Completed"
    BY <1>4, <2>2, <2>5 DEF RowConsistent
  <2>9. o.completedAt => Note(c, o.recipient) \in announced'[r]
    BY <1>6, <2>3, <2>8
  <2> QED
    BY <1>1, <1>4, <1>8, <2>2, <2>4, <2>7, <2>9 DEF WriteOK, Note
<1>9. \A d \in DOMAIN writes'[r] : WriteOK(r, d)'
  <2> SUFFICES ASSUME NEW d \in DOMAIN writes'[r] PROVE WriteOK(r, d)'
    OBVIOUS
  <2>1. CASE c \in DOMAIN rows /\ d = c
    BY <1>8, <2>1
  <2>2. CASE ~(c \in DOMAIN rows /\ d = c)
    BY <1>2, <1>7, <2>2
  <2> QED
    BY <2>1, <2>2
<1> QED
  BY <1>1, <1>2, <1>6, <1>9, LoopBatchInv

LEMMA CommitBatchInv ==
  ASSUME TypeInv, BatchInv, NEW r \in Requests, CommitProgress(r)
  PROVE  BatchInv'
<1>1. /\ rows' = [c \in DOMAIN rows |-> IF c \in DOMAIN writes[r] THEN writes[r][c] ELSE rows[c]]
      /\ notifications' = notifications \cup announced[r]
      /\ Return(r) /\ everLogged' = everLogged
  BY DEF CommitProgress
<1>2. DOMAIN rows' = DOMAIN rows
  BY <1>1
<1>3. \A c \in DOMAIN rows : rows'[c] = IF c \in DOMAIN writes[r] THEN writes[r][c] ELSE rows[c]
  BY <1>1
<1>4. ASSUME NEW c \in DOMAIN rows PROVE RowOK(c)' /\ Fixed(rows'[c], rows[c])
  <2>1. CASE c \in DOMAIN writes[r]
    <3>1. WriteOK(r, c) /\ rows'[c] = writes[r][c]
      BY <1>3, <1>4, <2>1 DEF BatchInv, BatchOK
    <3>2. Sound(rows[c])'
      BY <1>1, <3>1 DEF WriteOK, Sound, DatesLogged, RowConsistent
    <3> QED
      BY <1>1, <3>1, <3>2 DEF WriteOK, RowOK, Note
  <2>2. CASE c \notin DOMAIN writes[r]
    <3>1. rows'[c] = rows[c] /\ RowOK(c)
      BY <1>3, <1>4, <2>2 DEF BatchInv
    <3> QED
      BY <1>1, <3>1, RowStays DEF Fixed
  <2> QED
    BY <2>1, <2>2
<1>5. TableMoves
  BY <1>1, <1>2, <1>4 DEF TableMoves
<1>6. \A q \in Requests \ {r} : DOMAIN writes[q] \subseteq DOMAIN rows'
  BY <1>2 DEF BatchInv, BatchOK, WriteOK
<1> QED
  BY <1>1, <1>2, <1>4, <1>5, <1>6, EndBatchInv

\* A row given another status on its side of the line of completion.
LEMMA StatusMoves ==
  ASSUME TypeInv, NEW c \in DOMAIN rows, RowOK(c), NEW s,
         rows'[c] = [rows[c] EXCEPT !.status = s],
         s \in {"Completed", "Claimed"} <=> rows[c].status \in {"Completed", "Claimed"},
         everLogged \subseteq everLogged', notifications \subseteq notifications'
  PROVE  RowOK(c)' /\ Fixed(rows'[c], rows[c])
<1>1. rows[c] \in Row
  BY DataFromType, RowsTyped
<1>2. /\ Fixed(rows'[c], rows[c]) /\ rows'[c].dates = rows[c].dates
      /\ rows'[c].count = rows[c].count /\ rows'[c].progress = rows[c].progress
      /\ rows'[c].completedAt = rows[c].completedAt /\ rows'[c].status = s
  BY <1>1 DEF Row, Fixed
<1> QED
  BY <1>2, RowMoves

LEMMA ExpireBatchInv ==
  ASSUME TypeInv, BatchInv, NEW r \in Requests, ExpireStaleActive(r)
  PROVE  BatchInv'
<1> DEFINE stale == {c \in DOMAIN rows : /\ Triple(rows[c]) = OfferTriple(job[r].offer)
                                         /\ rows[c].status = "Active"
                                         /\ rows[c].ends <= job[r].at}
<1>1. /\ rows' = [c \in DOMAIN rows |-> IF c \in stale THEN [rows[c] EXCEPT !.status = "Expired"]
                                         ELSE rows[c]]
      /\ pc[r] = "expire" /\ pc' = [pc EXCEPT ![r] = "insert"]
      /\ UNCHANGED <<job, todo, turn, writes, announced, notifications, everLogged>>
  BY DEF ExpireStaleActive, histVars
<1>2. DOMAIN rows' = DOMAIN rows
  BY <1>1
<1>3. ASSUME NEW c \in DOMAIN rows PROVE RowOK(c)' /\ Fixed(rows'[c], rows[c])
  <2>1. RowOK(c)
    BY DEF BatchInv
  <2>2. CASE c \in stale
    <3>1. rows'[c] = [rows[c] EXCEPT !.status = "Expired"] /\ rows[c].status = "Active"
      BY <1>1, <2>2
    <3> QED
      BY <1>1, <2>1, <3>1, StatusMoves
  <2>3. CASE c \notin stale
    <3>1. rows'[c] = rows[c]
      BY <1>1, <2>3
    <3> QED
      BY <1>1, <2>1, <3>1, RowStays DEF Fixed
  <2> QED
    BY <2>2, <2>3
<1>4. TableMoves
  BY <1>1, <1>2, <1>3 DEF TableMoves
<1>5. ASSUME NEW q \in Requests PROVE BatchOK(q)'
  <2>1. DOMAIN writes[q] \subseteq DOMAIN rows'
    BY <1>2 DEF BatchInv, BatchOK, WriteOK
  <2>2. CASE q # r
    <3>1. Still(q)
      BY <1>1, <2>2 DEF TypeInv, Typed, Still
    <3> QED
      BY <1>4, <2>1, <3>1, StillBatchOK DEF BatchInv
  <2>3. CASE q = r
    <3>1. pc'[r] = "insert" /\ todo'[r] = NoRows /\ writes'[r] = NoRows
      BY <1>1 DEF TypeInv, Typed, PhaseOK
    <3> QED
      BY <2>3, <3>1, NoRowsSnapshot DEF BatchOK
  <2> QED
    BY <2>2, <2>3
<1> QED
  BY <1>2, <1>3, <1>5 DEF BatchInv

LEMMA InsertBatchInv ==
  ASSUME TypeInv, BatchInv, NEW r \in Requests, InsertChallenge(r)
  PROVE  BatchInv'
<1>1. Return(r) /\ UNCHANGED envVars
  BY DEF InsertChallenge
<1>2. CASE UNCHANGED <<dbVars, histVars>>
  BY <1>1, <1>2, GiveUpBatchInv
<1> SUFFICES ASSUME NEW new, new = minted + 1, NEW row, row = NewRow(job[r].offer, job[r].at),
                    rows' = [c \in DOMAIN rows \cup {new} |-> IF c = new THEN row ELSE rows[c]],
                    notifications \subseteq notifications', UNCHANGED histVars
             PROVE  BatchInv'
  BY <1>2 DEF InsertChallenge
<1>3. DOMAIN rows \subseteq 1 .. minted /\ minted \in Nat /\ ConstantsAssumption
  BY DataFromType, ConstantsAssumption DEF DataOK
<1>4. new \notin DOMAIN rows /\ new \notin 1 .. minted
  BY <1>3
<1>5. /\ DOMAIN rows' = DOMAIN rows \cup {new} /\ rows'[new] = row
      /\ \A c \in DOMAIN rows : rows'[c] = rows[c]
  BY <1>4
<1>6. everLogged' = everLogged
  BY DEF histVars
<1>7. TableMoves
  BY <1>4, <1>5, <1>6 DEF TableMoves, Fixed
<1>8. RowOK(new)'
  <2>1. row \in Row
    <3>1. job[r] \in Create
      BY DEF InsertChallenge, TypeInv, PhaseOK
    <3> QED
      BY <3>1, NewRowTyped, ConstantsAssumption DEF Create, TypeInv, Typed
  <2>2. /\ row.status = "Active" /\ row.progress = 0 /\ row.count = 0 /\ row.dates = {}
        /\ row.completedAt = FALSE
    BY DEF NewRow
  <2>3. row.target \in Nat \ {0} /\ Cardinality({}) = 0
    BY <2>1, FS_EmptySet DEF Row
  <2>4. RowConsistent(row)
    BY <2>2, <2>3 DEF RowConsistent
  <2>5. Sound(rows[new])'
    BY <1>5, <2>2, <2>4 DEF Sound, DatesLogged, RowConsistent
  <2> QED
    BY <1>5, <2>2, <2>5 DEF RowOK
<1>9. ASSUME NEW c \in DOMAIN rows PROVE RowOK(c)'
  <2>1. RowOK(c)
    BY DEF BatchInv
  <2> QED
    BY <1>5, <1>6, <2>1, RowStays
<1>10. \A c \in DOMAIN rows' : RowOK(c)'
  BY <1>5, <1>8, <1>9
<1>11. \A q \in Requests \ {r} : DOMAIN writes[q] \subseteq DOMAIN rows'
  BY <1>5 DEF BatchInv, BatchOK, WriteOK
<1> QED
  BY <1>1, <1>7, <1>10, <1>11, EndBatchInv

\* One row of the table moves on its side of the line of completion.
LEMMA OneRowBatchInv ==
  ASSUME TypeInv, BatchInv, NEW r \in Requests, Return(r), NEW c \in DOMAIN rows,
         DOMAIN rows' = DOMAIN rows, \A d \in DOMAIN rows \ {c} : rows'[d] = rows[d],
         RowOK(c)', Fixed(rows'[c], rows[c]), UNCHANGED <<notifications, everLogged>>
  PROVE  BatchInv'
<1>1. ASSUME NEW d \in DOMAIN rows PROVE RowOK(d)' /\ Fixed(rows'[d], rows[d])
  <2>1. CASE d = c
    BY <2>1
  <2>2. CASE d # c
    <3>1. RowOK(d) /\ rows'[d] = rows[d]
      BY <2>2 DEF BatchInv
    <3> QED
      BY <3>1, RowStays DEF Fixed
  <2> QED
    BY <2>1, <2>2
<1>2. TableMoves
  BY <1>1 DEF TableMoves
<1>3. \A q \in Requests \ {r} : DOMAIN writes[q] \subseteq DOMAIN rows'
  BY DEF BatchInv, BatchOK, WriteOK
<1> QED
  BY <1>1, <1>2, <1>3, EndBatchInv

LEMMA ClaimedBatchInv ==
  ASSUME TypeInv, BatchInv, NEW r \in Requests, UpdateClaimed(r)
  PROVE  BatchInv'
<1> SUFFICES ASSUME NEW c, c = job[r].id PROVE BatchInv'
  OBVIOUS
<1>1. Return(r) /\ UNCHANGED <<minted, notifications, everLogged, envVars>>
  BY DEF UpdateClaimed
<1>2. rows \in [DOMAIN rows -> Row]
  BY DataFromType, RowsTyped
<1>3. CASE /\ c \in DOMAIN rows /\ rows[c].status = "Completed"
           /\ rows' = [rows EXCEPT ![c].status = "Claimed", ![c].claimedAt = TRUE]
  <2>1. /\ DOMAIN rows' = DOMAIN rows /\ \A d \in DOMAIN rows \ {c} : rows'[d] = rows[d]
        /\ rows'[c] = [rows[c] EXCEPT !.status = "Claimed", !.claimedAt = TRUE]
    BY <1>2, <1>3
  <2>2. rows[c] \in Row /\ RowOK(c)
    BY <1>2, <1>3 DEF BatchInv
  <2>3. /\ Fixed(rows'[c], rows[c]) /\ rows'[c].dates = rows[c].dates
        /\ rows'[c].count = rows[c].count /\ rows'[c].progress = rows[c].progress
        /\ rows'[c].completedAt = rows[c].completedAt /\ rows'[c].status = "Claimed"
    BY <2>1, <2>2 DEF Row, Fixed
  <2>4. RowOK(c)'
    BY <1>1, <1>3, <2>2, <2>3, RowMoves
  <2> QED
    BY <1>1, <1>3, <2>1, <2>3, <2>4, OneRowBatchInv
<1>4. CASE rows' = rows
  BY <1>1, <1>4, SameRows, EndBatchInv
<1> QED
  BY <1>3, <1>4 DEF UpdateClaimed

LEMMA CancelledBatchInv ==
  ASSUME TypeInv, BatchInv, NEW r \in Requests, UpdateCancelled(r)
  PROVE  BatchInv'
<1> SUFFICES ASSUME NEW c, c = job[r].id PROVE BatchInv'
  OBVIOUS
<1>1. Return(r) /\ UNCHANGED <<minted, notifications, everLogged, envVars>>
  BY DEF UpdateCancelled, histVars
<1>2. rows \in [DOMAIN rows -> Row]
  BY DataFromType, RowsTyped
<1>3. CASE /\ c \in DOMAIN rows /\ Cancellable(rows[c])
           /\ rows' = [rows EXCEPT ![c].status = "Cancelled"]
  <2>1. /\ DOMAIN rows' = DOMAIN rows /\ \A d \in DOMAIN rows \ {c} : rows'[d] = rows[d]
        /\ rows'[c] = [rows[c] EXCEPT !.status = "Cancelled"]
    BY <1>2, <1>3
  <2>2. RowOK(c)
    BY <1>3 DEF BatchInv
  <2>3. RowOK(c)' /\ Fixed(rows'[c], rows[c])
    BY <1>1, <1>3, <2>1, <2>2, StatusMoves DEF Cancellable
  <2> QED
    BY <1>1, <1>3, <2>1, <2>3, OneRowBatchInv
<1>4. CASE rows' = rows
  BY <1>1, <1>4, SameRows, EndBatchInv
<1> QED
  BY <1>3, <1>4 DEF UpdateCancelled

LEMMA DeleteBatchInv ==
  ASSUME TypeInv, BatchInv, NEW u \in Users, DeleteAccount(u)
  PROVE  BatchInv'
<1> DEFINE doomed == {c \in DOMAIN rows : u \in {rows[c].creator, rows[c].recipient}}
<1>1. /\ rows' = [c \in DOMAIN rows \ doomed |-> rows[c]]
      /\ notifications' = {n \in notifications : n.user # u}
      /\ \A c \in doomed, q \in Requests : c \notin DOMAIN writes[q]
      /\ everLogged' = everLogged /\ UNCHANGED <<pc, job, todo, writes, announced>>
  BY DEF DeleteAccount, reqVars, histVars
<1>2. DOMAIN rows' = DOMAIN rows \ doomed /\ \A c \in DOMAIN rows' : rows'[c] = rows[c]
  BY <1>1
<1>3. ASSUME NEW c \in DOMAIN rows' PROVE RowOK(c)'
  <2>1. c \in DOMAIN rows /\ RowOK(c) /\ rows'[c] = rows[c] /\ rows[c].recipient # u
    BY <1>2, <1>3 DEF BatchInv
  <2> QED
    BY <1>1, <2>1, RowStays
<1>4. TableMoves
  BY <1>1, <1>2 DEF TableMoves, Fixed
<1>5. ASSUME NEW q \in Requests PROVE BatchOK(q)'
  <2>1. DOMAIN writes[q] \subseteq DOMAIN rows'
    BY <1>1, <1>2 DEF BatchInv, BatchOK, WriteOK
  <2>2. Still(q)
    BY <1>1 DEF Still
  <2> QED
    BY <1>4, <2>1, <2>2, StillBatchOK DEF BatchInv
<1> QED
  BY <1>3, <1>5 DEF BatchInv

\* The clock, the completions and the accounts are not what rows are made of.
LEMMA EnvBatchInv ==
  ASSUME TypeInv, BatchInv, UNCHANGED <<dbVars, reqVars, histVars>>
  PROVE  BatchInv'
<1>1. UNCHANGED <<rows, notifications, everLogged>>
  BY DEF dbVars, histVars
<1>2. TableMoves /\ (\A c \in DOMAIN rows' : RowOK(c)')
      /\ \A q \in Requests : DOMAIN writes[q] \subseteq DOMAIN rows'
  BY <1>1, SameRows
<1>3. \A q \in Requests : Still(q)
  BY DEF Still, reqVars
<1> QED
  BY <1>2, <1>3, StillBatchOK DEF BatchInv

\* A list request writes nothing.
LEMMA SelectBatchInv ==
  ASSUME TypeInv, BatchInv, NEW r \in Requests, SelectRows(r)
  PROVE  BatchInv'
<1>1. /\ UNCHANGED <<rows, notifications, everLogged, todo, writes, announced>>
      /\ pc[r] = "select" /\ pc'[r] = "show"
      /\ \A q \in Requests \ {r} : pc'[q] = pc[q] /\ job'[q] = job[q]
  BY DEF SelectRows, TypeInv, Typed, dbVars, histVars
<1>2. TableMoves /\ (\A c \in DOMAIN rows' : RowOK(c)')
      /\ \A q \in Requests : DOMAIN writes[q] \subseteq DOMAIN rows'
  BY <1>1, SameRows
<1>3. BatchOK(r)'
  <2>1. todo'[r] = NoRows /\ writes'[r] = NoRows
    BY <1>1 DEF TypeInv, PhaseOK
  <2> QED
    BY <1>1, <2>1, NoRowsSnapshot DEF BatchOK
<1>4. ASSUME NEW q \in Requests \ {r} PROVE BatchOK(q)'
  BY <1>1, <1>2, StillBatchOK DEF BatchInv, Still
<1> QED
  BY <1>2, <1>3, <1>4 DEF BatchInv

LEMMA NextBatchInv == TypeInv /\ BatchInv /\ [Next]_vars => BatchInv'
<1> SUFFICES ASSUME TypeInv, BatchInv, [Next]_vars PROVE BatchInv'
  OBVIOUS
<1>1. ASSUME NEW r \in Requests, Step(r) PROVE BatchInv'
  <2>1. ASSUME NEW range \in Levels, UniqueViolation(r, range) PROVE BatchInv'
    BY <2>1, GiveUpBatchInv DEF UniqueViolation
  <2>2. ASSUME DeadlockAbort(r) PROVE BatchInv'
    BY <2>2, GiveUpBatchInv DEF DeadlockAbort
  <2>3. ASSUME Show(r) PROVE BatchInv'
    BY <2>3, GiveUpBatchInv DEF Show
  <2> QED
    BY <1>1, <2>1, <2>2, <2>3, SelectBatchInv, ListBatchInv, SkipBatchInv, UpdateBatchInv, CommitBatchInv,
       ExpireBatchInv, InsertBatchInv, ClaimedBatchInv, CancelledBatchInv DEF Step
<1>2. ASSUME NEW r \in Requests, Interrupt(r) PROVE BatchInv'
  BY <1>2, GiveUpBatchInv DEF Interrupt
<1>3. ASSUME NEW h \in Habits, NEW d \in Days, DeleteCompletion(h, d) PROVE BatchInv'
  BY <1>3, EnvBatchInv DEF DeleteCompletion
<1>4. CASE Tick
  BY <1>4, EnvBatchInv DEF Tick
<1>5. CASE UNCHANGED vars
  BY <1>5, EnvBatchInv DEF vars
<1> QED
  BY <1>1, <1>2, <1>3, <1>4, <1>5, ArriveBatchInv, DeleteBatchInv DEF Next

LEMMA BatchInvariant == Spec => [](TypeInv /\ BatchInv)
<1>1. Init => TypeInv /\ BatchInv
  BY InitTypeInv, NoRowsSnapshot DEF Init, BatchInv, BatchOK
<1> QED
  BY <1>1, NextTypeInv, NextBatchInv, PTL DEF Spec

\* Whatever engines, claims, cancellations and deletions interleave, and whoever
\* is interrupted, a committed row never mixes the counters of two versions.
THEOREM MilestoneAlwaysHonoured == Spec => []MilestoneHonoured
<1>1. BatchInv => MilestoneHonoured
  BY DEF BatchInv, RowOK, Sound, MilestoneHonoured
<1> QED
  BY <1>1, BatchInvariant, PTL

\* A challenge counts only dates on which its habit was completed at some time,
\* although the engine adds a date to a date set it read before.
THEOREM DatesAlwaysLogged == Spec => []DatesWereLogged
<1>1. BatchInv => DatesWereLogged
  BY DEF BatchInv, RowOK, Sound, DatesLogged, DatesWereLogged
<1> QED
  BY <1>1, BatchInvariant, PTL

\* Completion and its notification are one commit: nobody sees a completed or
\* claimed challenge whose recipient, account still there, was not told.
THEOREM CompletionIsAnnounced == Spec => []CompletedIsAnnounced
<1>1. BatchInv => CompletedIsAnnounced
  BY DEF BatchInv, RowOK, Note, CompletedIsAnnounced
<1> QED
  BY <1>1, BatchInvariant, PTL

-----------------------------------------------------------------------------
(* The reward.  What an open transaction is about to announce is reached in  *)
(* the version of the row it will commit with it.                            *)

\* The announcements r holds back are of rows it has done with, and each of
\* these rows, when it is still there, is completed by what r has written.
HeldOK(r) ==
  \A n \in announced[r] :
    /\ n.id \in 1 .. minted /\ n.id \notin DOMAIN todo[r]
    /\ n.id \in DOMAIN rows => n.id \in DOMAIN writes[r] /\ Reached(writes[r][n.id])

RewardInv ==
  /\ \A c \in DOMAIN rows \ reverted :
       Note(c, rows[c].recipient) \in notifications => Reached(rows[c])
  /\ \A n \in notifications : n.id \in 1 .. minted
  /\ \A r \in Requests : HeldOK(r)

\* A request that was not moved, or that holds nothing back any more.
LEMMA HeldStays ==
  ASSUME TypeInv, NEW r \in Requests, HeldOK(r), minted' \in Nat, minted <= minted',
         DOMAIN rows' \cap 1 .. minted \subseteq DOMAIN rows,
         \/ announced'[r] = {}
         \/ /\ announced'[r] = announced[r] /\ writes'[r] = writes[r]
            /\ DOMAIN todo'[r] \subseteq DOMAIN todo[r]
  PROVE  HeldOK(r)'
<1>1. minted \in Nat
  BY ConstantsAssumption DEF TypeInv, Typed
<1>2. 1 .. minted \subseteq 1 .. minted'
  BY <1>1
<1>3. CASE announced'[r] = {}
  BY <1>3 DEF HeldOK
<1>4. CASE /\ announced'[r] = announced[r] /\ writes'[r] = writes[r]
           /\ DOMAIN todo'[r] \subseteq DOMAIN todo[r]
  BY <1>2, <1>4 DEF HeldOK
<1> QED
  BY <1>3, <1>4

\* What every request but r keeps, and what r gives up when it ends.
LEMMA HeldEnds ==
  ASSUME TypeInv, RewardInv, minted' \in Nat, minted <= minted',
         DOMAIN rows' \cap 1 .. minted \subseteq DOMAIN rows,
         (\E r \in Requests : Return(r)) \/ UNCHANGED <<todo, writes, announced>>
  PROVE  \A q \in Requests : HeldOK(q)'
<1>1. ASSUME NEW q \in Requests
      PROVE  \/ announced'[q] = {}
             \/ /\ announced'[q] = announced[q] /\ writes'[q] = writes[q]
                /\ DOMAIN todo'[q] \subseteq DOMAIN todo[q]
  BY DEF Return, TypeInv, Typed
<1> QED
  BY <1>1, HeldStays DEF RewardInv

\* Rows only go, or move without leaving what was reached.
LEMMA QuietReward ==
  ASSUME TypeInv, RewardInv, notifications' \subseteq notifications,
         DOMAIN rows' \subseteq DOMAIN rows, UNCHANGED <<minted, reverted>>,
         (\E r \in Requests : Return(r)) \/ UNCHANGED <<todo, writes, announced>>,
         \A c \in DOMAIN rows' : /\ rows'[c].recipient = rows[c].recipient
                                 /\ Reached(rows[c]) => Reached(rows'[c])
  PROVE  RewardInv'
<1>1. minted \in Nat
  BY ConstantsAssumption DEF TypeInv, Typed
<1>2. \A q \in Requests : HeldOK(q)'
  BY <1>1, HeldEnds
<1>3. \A c \in DOMAIN rows' \ reverted' :
        Note(c, rows'[c].recipient) \in notifications' => Reached(rows'[c])
  BY DEF RewardInv
<1> QED
  BY <1>2, <1>3 DEF RewardInv, Note, Reached

LEMMA ListReward ==
  ASSUME TypeInv, RewardInv, NEW r \in Requests, ListActive(r)
  PROVE  RewardInv'
<1>1. UNCHANGED <<rows, minted, notifications, reverted>> /\ pc[r] = "list"
  BY DEF ListActive, dbVars, histVars
<1>2. CASE Return(r)
  BY <1>1, <1>2, QuietReward
<1>3. CASE UNCHANGED <<job, writes, announced>>
  <2>1. announced[r] = {} /\ minted \in Nat
    BY <1>1, ConstantsAssumption DEF TypeInv, Typed, PhaseOK
  <2>2. \A q \in Requests \ {r} : announced'[q] = announced[q] /\ todo'[q] = todo[q]
    BY <1>1, <1>3 DEF ListActive, Return, TypeInv, Typed
  <2>3. ASSUME NEW q \in Requests PROVE HeldOK(q)'
    BY <1>1, <1>3, <2>1, <2>2, HeldStays DEF RewardInv
  <2> QED
    BY <1>1, <2>3 DEF RewardInv, Note, Reached
<1> QED
  BY <1>2, <1>3 DEF ListActive

LEMMA SkipReward ==
  ASSUME TypeInv, RewardInv, NEW r \in Requests, SkipRow(r)
  PROVE  RewardInv'
<1>1. /\ UNCHANGED <<rows, minted, notifications, reverted, writes, announced>>
      /\ pc[r] = "apply" /\ NextRow(r) /\ minted \in Nat
  BY ConstantsAssumption DEF SkipRow, dbVars, histVars, TypeInv, Typed
<1>2. ASSUME NEW q \in Requests PROVE DOMAIN todo'[q] \subseteq DOMAIN todo[q]
  BY <1>1, NextRowIs
<1>3. ASSUME NEW q \in Requests PROVE HeldOK(q)'
  BY <1>1, <1>2, HeldStays DEF RewardInv
<1> QED
  BY <1>1, <1>3 DEF RewardInv, Note, Reached

LEMMA UpdateReward ==
  ASSUME TypeInv, RewardInv, NEW r \in Requests, NEW range \in Levels, UpdateProgress(r, range)
  PROVE  RewardInv'
<1> SUFFICES ASSUME NEW c, c = turn[r] PROVE RewardInv'
  OBVIOUS
<1> DEFINE new  == Progressed(todo[r][c], job[r], range)
           note == [kind |-> "challenge_completed", user |-> job[r].user, id |-> c]
<1>1. /\ UNCHANGED <<rows, minted, notifications, reverted>> /\ NextRow(r)
      /\ announced' = [announced EXCEPT ![r] =
           IF new.status # "Completed" THEN @ ELSE @ \cup {note}]
  BY DEF UpdateProgress, dbVars, histVars
<1>2. /\ pc[r] = "apply" /\ c \in DOMAIN todo[r] /\ c \in 1 .. minted /\ new \in Row
      /\ \A q \in Requests \ {r} : writes'[q] = writes[q]
      /\ c \notin DOMAIN rows => writes'[r] = writes[r]
      /\ c \in DOMAIN rows =>
           /\ DOMAIN writes'[r] = DOMAIN writes[r] \cup {c}
           /\ writes'[r][c] = Overwrite(rows[c], new)
           /\ \A d \in DOMAIN writes[r] \ {c} : writes'[r][d] = writes[r][d]
  BY UpdateIs
<1> HIDE DEF new
<1>3. /\ announced'[r] = IF new.status # "Completed" THEN announced[r]
                         ELSE announced[r] \cup {note}
      /\ \A q \in Requests \ {r} : announced'[q] = announced[q]
  BY <1>1 DEF TypeInv, Typed
<1>4. /\ DOMAIN todo'[r] = DOMAIN todo[r] \ {c}
      /\ \A q \in Requests \ {r} : todo'[q] = todo[q]
  BY <1>1, <1>2, NextRowIs
<1>5. HeldOK(r)'
  <2> SUFFICES ASSUME NEW n \in announced'[r]
               PROVE  /\ n.id \in 1 .. minted /\ n.id \notin DOMAIN todo'[r]
                      /\ n.id \in DOMAIN rows =>
                           n.id \in DOMAIN writes'[r] /\ Reached(writes'[r][n.id])
    BY <1>1 DEF HeldOK, Reached
  <2>1. CASE n \in announced[r]
    <3>1. /\ n.id \in 1 .. minted /\ n.id \notin DOMAIN todo[r]
          /\ n.id \in DOMAIN rows => n.id \in DOMAIN writes[r] /\ Reached(writes[r][n.id])
      BY <2>1 DEF RewardInv, HeldOK
    <3>2. n.id # c
      BY <1>2, <3>1
    <3> QED
      BY <1>2, <1>4, <3>1, <3>2
  <2>2. CASE n = note /\ new.status = "Completed"
    <3>1. c \in DOMAIN rows => rows[c] \in Row
      BY DataFromType, RowsTyped
    <3>2. c \in DOMAIN rows => Overwrite(rows[c], new).status = "Completed"
      BY <1>2, <2>2, <3>1, OverwriteIs
    <3> QED
      BY <1>2, <1>4, <2>2, <3>2 DEF Reached
  <2> QED
    BY <1>3, <2>1, <2>2
<1>6. ASSUME NEW q \in Requests \ {r} PROVE HeldOK(q)'
  <2>1. minted \in Nat
    BY ConstantsAssumption DEF TypeInv, Typed
  <2> QED
    BY <1>1, <1>2, <1>3, <1>4, <2>1, HeldStays DEF RewardInv
<1> QED
  BY <1>1, <1>5, <1>6 DEF RewardInv, Note, Reached

\* The commit: what is announced with it is reached by it, and what it takes back
\* is noted in reverted.
LEMMA CommitReward ==
  ASSUME TypeInv, BatchInv, RewardInv, NEW r \in Requests, CommitProgress(r)
  PROVE  RewardInv'
<1>1. /\ rows' = [c \in DOMAIN rows |-> IF c \in DOMAIN writes[r] THEN writes[r][c] ELSE rows[c]]
      /\ notifications' = notifications \cup announced[r] /\ minted' = minted
      /\ reverted' = RevertedBy(r) /\ Return(r) /\ minted \in Nat
  BY ConstantsAssumption DEF CommitProgress, TypeInv, Typed
<1>2. DOMAIN rows' = DOMAIN rows
      /\ \A c \in DOMAIN rows : rows'[c] = IF c \in DOMAIN writes[r] THEN writes[r][c] ELSE rows[c]
  BY <1>1
<1>3. \A q \in Requests : HeldOK(q)'
  BY <1>1, <1>2, HeldEnds
<1>4. \A n \in notifications' : n.id \in 1 .. minted
  BY <1>1 DEF RewardInv, HeldOK
<1>5. ASSUME NEW c \in DOMAIN rows, c \notin reverted',
             Note(c, rows'[c].recipient) \in notifications'
      PROVE  Reached(rows'[c])
  <2>1. CASE c \in DOMAIN writes[r]
    <3> SUFFICES ASSUME ~Reached(writes[r][c]) PROVE FALSE
      BY <1>2, <2>1
    <3>1. c \notin reverted /\ ~Reached(rows[c])
      BY <1>1, <1>5, <2>1 DEF RevertedBy
    <3>2. Note(c, rows'[c].recipient) \notin announced[r]
      <4>1. Note(c, rows'[c].recipient).id = c
        BY DEF Note
      <4> QED
        BY <4>1 DEF RewardInv, HeldOK
    <3>3. rows'[c].recipient = rows[c].recipient
      <4>1. rows'[c] = writes[r][c]
        BY <1>2, <2>1
      <4>2. WriteOK(r, c)
        BY <2>1 DEF BatchInv, BatchOK
      <4> QED
        BY <4>1, <4>2 DEF WriteOK, Fixed
    <3>4. Note(c, rows[c].recipient) \in notifications
      <4>1. notifications' = notifications \cup announced[r]
        BY <1>1
      <4> QED
        BY <1>5, <3>2, <3>3, <4>1
    <3> QED
      BY <3>1, <3>4 DEF RewardInv
  <2>2. CASE c \notin DOMAIN writes[r]
    <3>1. rows'[c] = rows[c] /\ c \notin reverted
      BY <1>1, <1>2, <1>5, <2>2 DEF RevertedBy
    <3>2. Note(c, rows[c].recipient) \notin announced[r]
      <4>1. Note(c, rows[c].recipient).id = c
        BY DEF Note
      <4> QED
        BY <2>2, <4>1 DEF RewardInv, HeldOK
    <3> QED
      BY <1>1, <1>5, <3>1, <3>2 DEF RewardInv
  <2> QED
    BY <2>1, <2>2
<1> QED
  BY <1>1, <1>2, <1>3, <1>4, <1>5 DEF RewardInv, Note, Reached

LEMMA ExpireReward ==
  ASSUME TypeInv, RewardInv, NEW r \in Requests, ExpireStaleActive(r)
  PROVE  RewardInv'
<1> DEFINE stale == {c \in DOMAIN rows : /\ Triple(rows[c]) = OfferTriple(job[r].offer)
                                         /\ rows[c].status = "Active"
                                         /\ rows[c].ends <= job[r].at}
<1>1. /\ rows' = [c \in DOMAIN rows |-> IF c \in stale THEN [rows[c] EXCEPT !.status = "Expired"]
                                         ELSE rows[c]]
      /\ UNCHANGED <<minted, notifications, reverted, todo, writes, announced>>
      /\ rows \in [DOMAIN rows -> Row]
  BY DataFromType, RowsTyped DEF ExpireStaleActive, histVars
<1>2. \A c \in stale : ~Reached(rows[c])
  BY DEF Reached
<1> HIDE DEF stale
<1>3. \A c \in DOMAIN rows' : /\ rows'[c].recipient = rows[c].recipient
                              /\ Reached(rows[c]) => Reached(rows'[c])
  BY <1>1, <1>2 DEF Row
<1> QED
  BY <1>1, <1>3, QuietReward

LEMMA InsertReward ==
  ASSUME TypeInv, RewardInv, NEW r \in Requests, InsertChallenge(r)
  PROVE  RewardInv'
<1>1. Return(r) /\ DOMAIN rows \subseteq 1 .. minted /\ minted \in Nat
  BY ConstantsAssumption DEF InsertChallenge, TypeInv, Typed
<1>2. CASE UNCHANGED <<dbVars, histVars>>
  BY <1>1, <1>2, QuietReward DEF dbVars, histVars
<1> SUFFICES ASSUME NEW new, new = minted + 1, NEW row, NEW n,
                    n.kind = "challenge_created", n.id = new, minted' = new,
                    rows' = [c \in DOMAIN rows \cup {new} |-> IF c = new THEN row ELSE rows[c]],
                    notifications' = notifications \cup {n}, UNCHANGED reverted
             PROVE  RewardInv'
  <2> DEFINE o == job[r].offer
             n == [kind |-> "challenge_created", user |-> o.recipient, id |-> minted + 1]
  <2>1. n.kind = "challenge_created" /\ n.id = minted + 1
    OBVIOUS
  <2>2. CASE /\ ~IndexTaken(minted + 1, OfferTriple(o)) /\ minted < MaxRows
             /\ minted' = minted + 1
             /\ rows' = [c \in DOMAIN rows \cup {minted + 1} |->
                           IF c = minted + 1 THEN NewRow(o, job[r].at) ELSE rows[c]]
             /\ notifications' = notifications \cup {n}
             /\ UNCHANGED histVars
    <3>1. UNCHANGED reverted
      BY <2>2 DEF histVars
    <3> HIDE DEF n
    <3> QED
      BY <2>1, <2>2, <3>1
  <2> QED
    BY <1>2, <2>2 DEF InsertChallenge
<1>3. new \notin 1 .. minted /\ 1 .. minted \subseteq 1 .. new /\ new \in 1 .. new
  BY <1>1
<1>4. /\ DOMAIN rows' = DOMAIN rows \cup {new}
      /\ \A c \in DOMAIN rows : rows'[c] = rows[c]
  BY <1>1, <1>3
<1>5. \A q \in Requests : HeldOK(q)'
  <2>1. minted' \in Nat /\ minted <= minted' /\ DOMAIN rows' \cap 1 .. minted \subseteq DOMAIN rows
    BY <1>1, <1>3, <1>4
  <2> QED
    BY <1>1, <2>1, HeldEnds
<1>6. ASSUME NEW c \in DOMAIN rows', c \notin reverted', Note(c, rows'[c].recipient) \in notifications'
      PROVE  Reached(rows'[c])
  <2>1. /\ Note(c, rows'[c].recipient).kind = "challenge_completed"
        /\ Note(c, rows'[c].recipient).id = c
    BY DEF Note
  <2>2. Note(c, rows'[c].recipient) \in notifications
    BY <1>6, <2>1
  <2>3. c \in DOMAIN rows
    BY <1>3, <1>4, <2>1, <2>2 DEF RewardInv
  <2> QED
    BY <1>4, <1>6, <2>2, <2>3 DEF RewardInv
<1>7. \A m \in notifications' : m.id \in 1 .. minted'
  BY <1>3 DEF RewardInv
<1> QED
  BY <1>5, <1>6, <1>7 DEF RewardInv, Note, Reached

LEMMA ByIdReward ==
  ASSUME TypeInv, RewardInv, NEW r \in Requests, UpdateClaimed(r) \/ UpdateCancelled(r)
  PROVE  RewardInv'
<1> DEFINE c == job[r].id
<1>1. /\ Return(r) /\ UNCHANGED <<minted, notifications, reverted>>
      /\ rows \in [DOMAIN rows -> Row]
  BY DataFromType, RowsTyped DEF UpdateClaimed, UpdateCancelled, histVars
<1>2. CASE UNCHANGED rows
  BY <1>1, <1>2, QuietReward
<1>3. CASE /\ c \in DOMAIN rows
           /\ rows' = [rows EXCEPT ![c].status = "Claimed", ![c].claimedAt = TRUE]
  <2>1. /\ DOMAIN rows' = DOMAIN rows /\ \A d \in DOMAIN rows \ {c} : rows'[d] = rows[d]
        /\ rows'[c].recipient = rows[c].recipient /\ rows'[c].status = "Claimed"
    BY <1>1, <1>3 DEF Row
  <2> HIDE DEF c
  <2> QED
    BY <1>1, <1>3, <2>1, QuietReward DEF Reached
<1>4. CASE /\ c \in DOMAIN rows /\ Cancellable(rows[c])
           /\ rows' = [rows EXCEPT ![c].status = "Cancelled"]
  <2>1. /\ DOMAIN rows' = DOMAIN rows /\ \A d \in DOMAIN rows \ {c} : rows'[d] = rows[d]
        /\ rows'[c].recipient = rows[c].recipient
    BY <1>1, <1>4 DEF Row
  <2>2. ~Reached(rows[c])
    BY <1>4 DEF Cancellable, Reached
  <2> HIDE DEF c
  <2> QED
    BY <1>1, <1>4, <2>1, <2>2, QuietReward
<1> QED
  BY <1>2, <1>3, <1>4 DEF UpdateClaimed, UpdateCancelled

LEMMA NextReward == TypeInv /\ BatchInv /\ RewardInv /\ [Next]_vars => RewardInv'
<1> SUFFICES ASSUME TypeInv, BatchInv, RewardInv, [Next]_vars PROVE RewardInv'
  OBVIOUS
<1>1. ASSUME UNCHANGED <<dbVars, reverted>>,
             (\E r \in Requests : Return(r)) \/ UNCHANGED <<todo, writes, announced>>
      PROVE  RewardInv'
  BY <1>1, QuietReward DEF dbVars
<1>2. ASSUME NEW r \in Requests, Step(r) PROVE RewardInv'
  <2>1. CASE \/ \E range \in Levels : UniqueViolation(r, range)
             \/ DeadlockAbort(r) \/ Show(r) \/ SelectRows(r)
    BY <1>1, <2>1 DEF UniqueViolation, DeadlockAbort, Show, SelectRows, histVars
  <2> QED
    BY <1>2, <2>1, ListReward, SkipReward, UpdateReward, CommitReward, ExpireReward,
       InsertReward, ByIdReward DEF Step
<1>3. ASSUME NEW r \in Requests, Arrive(r) \/ Interrupt(r) PROVE RewardInv'
  BY <1>1, <1>3 DEF Arrive, CompleteHabit, StartCreate, StartClaim, StartCancel, StartList,
                    Begin, Interrupt, histVars
<1>4. ASSUME NEW u \in Users, DeleteAccount(u) PROVE RewardInv'
  <2>1. /\ DOMAIN rows' \subseteq DOMAIN rows /\ \A c \in DOMAIN rows' : rows'[c] = rows[c]
        /\ notifications' \subseteq notifications
        /\ UNCHANGED <<minted, reverted, todo, writes, announced>>
    BY <1>4 DEF DeleteAccount, reqVars, histVars
  <2> QED
    BY <2>1, QuietReward
<1> QED
  BY <1>1, <1>2, <1>3, <1>4
     DEF Next, DeleteCompletion, Tick, vars, dbVars, reqVars, histVars

\* A reward that was announced is completed or claimed as long as its challenge
\* exists, for any number of engines, creations, claims, cancellations and
\* deletions, unless an engine that read the row before it was completed has
\* written it back to Active.
THEOREM RewardStaysSafe == Spec => []RewardIsSafe
<1>1. Init => RewardInv
  BY DEF Init, RewardInv, HeldOK, NoRows
<1>2. RewardInv => RewardIsSafe
  BY DEF RewardInv, RewardIsSafe, Note
<1> QED
  BY <1>1, <1>2, BatchInvariant, NextReward, PTL DEF Spec

-----------------------------------------------------------------------------
(* One Active row per triple.  The index only sees versions of rows, so the  *)
(* argument is about every row that is Active or would be, should some open  *)
(* transaction commit.  What one transaction writes needs its own argument:  *)
(* it never waits for itself, but the rows it read were Active at once.      *)

MayBeActive(c) ==
  \/ rows[c].status = "Active"
  \/ \E q \in Requests : c \in DOMAIN writes[q] /\ writes[q][c].status = "Active"

OnlyOne ==
  \A c, d \in DOMAIN rows :
    MayBeActive(c) /\ MayBeActive(d) /\ Triple(rows[c]) = Triple(rows[d]) => c = d

ApartOK(r) ==
  \A c \in DOMAIN todo[r] :
    /\ \A d \in DOMAIN todo[r] : Triple(todo[r][c]) = Triple(todo[r][d]) => c = d
    /\ \A d \in DOMAIN writes[r] : Triple(todo[r][c]) = Triple(writes[r][d]) => c = d

UniqueInv == OnlyOne /\ \A r \in Requests : ApartOK(r)

LEMMA SameTriple ==
  ASSUME NEW a, NEW b, Fixed(a, b)
  PROVE  Triple(a) = Triple(b)
BY DEF Fixed, Triple

\* Nothing new may be Active and no request reads or writes anything new.
LEMMA ShrinkUnique ==
  ASSUME UniqueInv, DOMAIN rows' \subseteq DOMAIN rows,
         \A c \in DOMAIN rows' : Fixed(rows'[c], rows[c]) /\ (MayBeActive(c)' => MayBeActive(c)),
         \A q \in Requests : \/ todo'[q] = todo[q] /\ writes'[q] = writes[q]
                             \/ DOMAIN todo'[q] = {}
  PROVE  UniqueInv'
<1>1. OnlyOne'
  BY SameTriple DEF UniqueInv, OnlyOne
<1>2. ASSUME NEW q \in Requests PROVE ApartOK(q)'
  BY DEF UniqueInv, ApartOK
<1> QED
  BY <1>1, <1>2 DEF UniqueInv

\* A request ends having made no row Active.
LEMMA EndUnique ==
  ASSUME TypeInv, UniqueInv, NEW r \in Requests, Return(r), DOMAIN rows' \subseteq DOMAIN rows,
         \A c \in DOMAIN rows' :
           /\ Fixed(rows'[c], rows[c])
           /\ rows'[c].status = "Active" => MayBeActive(c)
  PROVE  UniqueInv'
<1>1. todo'[r] = NoRows /\ writes'[r] = NoRows /\ DOMAIN NoRows = {}
  BY NoRowsSnapshot DEF Return, TypeInv, Typed
<1>2. \A q \in Requests \ {r} : todo'[q] = todo[q] /\ writes'[q] = writes[q]
  BY DEF Return, TypeInv, Typed
<1>3. \A c \in DOMAIN rows' : MayBeActive(c)' => MayBeActive(c)
  BY <1>1, <1>2 DEF MayBeActive
<1> QED
  BY <1>1, <1>2, <1>3, ShrinkUnique

LEMMA GiveUpUnique ==
  ASSUME TypeInv, UniqueInv, NEW r \in Requests, Return(r), UNCHANGED rows
  PROVE  UniqueInv'
BY EndUnique DEF Fixed, MayBeActive

\* No request reads or writes, and no row becomes Active.
LEMMA QuietUnique ==
  ASSUME UniqueInv, UNCHANGED <<todo, writes>>, DOMAIN rows' \subseteq DOMAIN rows,
         \A c \in DOMAIN rows' :
           /\ Fixed(rows'[c], rows[c])
           /\ rows'[c].status = "Active" => MayBeActive(c)
  PROVE  UniqueInv'
<1>1. \A c \in DOMAIN rows' : MayBeActive(c)' => MayBeActive(c)
  BY DEF MayBeActive
<1> QED
  BY <1>1, ShrinkUnique

LEMMA ListUnique ==
  ASSUME TypeInv, UniqueInv, NEW r \in Requests, ListActive(r)
  PROVE  UniqueInv'
<1> DEFINE hits == {c \in DOMAIN rows : /\ rows[c].habit = job[r].habit
                                        /\ rows[c].recipient = job[r].user
                                        /\ rows[c].status = "Active"
                                        /\ rows[c].ends > now}
<1>1. pc[r] = "list" /\ UNCHANGED rows
  BY DEF ListActive, dbVars
<1>2. CASE Return(r)
  BY <1>1, <1>2, GiveUpUnique
<1>3. CASE /\ todo' = [todo EXCEPT ![r] = [c \in hits |-> rows[c]]]
           /\ UNCHANGED <<job, writes, announced>>
  <2>1. DOMAIN todo'[r] = hits /\ \A c \in hits : todo'[r][c] = rows[c]
    BY <1>3 DEF TypeInv, Typed
  <2>2. writes'[r] = NoRows /\ DOMAIN NoRows = {}
    BY <1>1, <1>3, NoRowsSnapshot DEF TypeInv, PhaseOK
  <2>3. \A c \in hits : c \in DOMAIN rows /\ MayBeActive(c)
    BY DEF MayBeActive
  <2>4. ApartOK(r)'
    BY <2>1, <2>2, <2>3 DEF ApartOK, UniqueInv, OnlyOne
  <2>5. ASSUME NEW q \in Requests \ {r} PROVE ApartOK(q)'
    <3>1. todo'[q] = todo[q] /\ writes'[q] = writes[q]
      BY <1>3 DEF TypeInv, Typed
    <3> QED
      BY <3>1 DEF ApartOK, UniqueInv
  <2>6. OnlyOne'
    BY <1>1, <1>3 DEF UniqueInv, OnlyOne, MayBeActive
  <2> QED
    BY <2>4, <2>5, <2>6 DEF UniqueInv
<1> QED
  BY <1>2, <1>3 DEF ListActive

LEMMA SkipUnique ==
  ASSUME TypeInv, UniqueInv, NEW r \in Requests, SkipRow(r)
  PROVE  UniqueInv'
<1>1. pc[r] = "apply" /\ NextRow(r) /\ UNCHANGED <<rows, writes>>
  BY DEF SkipRow, dbVars
<1>2. OnlyOne'
  BY <1>1 DEF UniqueInv, OnlyOne, MayBeActive
<1>3. ASSUME NEW q \in Requests PROVE ApartOK(q)'
  <2>1. DOMAIN todo'[q] \subseteq DOMAIN todo[q] /\ writes'[q] = writes[q]
        /\ \A c \in DOMAIN todo'[q] : todo'[q][c] = todo[q][c]
    BY <1>1, NextRowIs
  <2> QED
    BY <2>1 DEF ApartOK, UniqueInv
<1> QED
  BY <1>2, <1>3 DEF UniqueInv

LEMMA UpdateUnique ==
  ASSUME TypeInv, BatchInv, UniqueInv, NEW r \in Requests, NEW range \in Levels,
         UpdateProgress(r, range)
  PROVE  UniqueInv'
<1> SUFFICES ASSUME NEW c, c = turn[r] PROVE UniqueInv'
  OBVIOUS
<1> DEFINE old == todo[r][c]
           new == Progressed(old, job[r], range)
<1>1. /\ pc[r] = "apply" /\ NextRow(r) /\ UNCHANGED rows /\ Eligible(old, job[r].date)
      /\ Reenters(c) /\ new.status = "Active" =>
           ~IndexBusy(r, Triple(new)) /\ ~IndexTaken(c, Triple(new))
  BY DEF UpdateProgress, dbVars
<1>2. /\ job[r] \in Event /\ c \in DOMAIN todo[r] /\ old \in Row /\ new \in Row
      /\ \A q \in Requests \ {r} : writes'[q] = writes[q]
      /\ c \notin DOMAIN rows => writes'[r] = writes[r]
      /\ c \in DOMAIN rows =>
           /\ DOMAIN writes'[r] = DOMAIN writes[r] \cup {c}
           /\ writes'[r][c] = Overwrite(rows[c], new)
           /\ \A d \in DOMAIN writes[r] \ {c} : writes'[r][d] = writes[r][d]
  BY UpdateIs
<1>3. ReadOK(r, c) /\ ApartOK(r)
  BY <1>2 DEF BatchInv, BatchOK, UniqueInv
<1>4. Fixed(new, old) /\ Triple(new) = Triple(old)
  BY <1>1, <1>2, <1>3, ProgressedSound, SameTriple DEF ReadOK, Sound
<1> HIDE DEF new
<1>5. c \in DOMAIN rows => /\ Triple(rows[c]) = Triple(old) /\ Triple(writes'[r][c]) = Triple(old)
                           /\ writes'[r][c].status = new.status
  <2> SUFFICES ASSUME c \in DOMAIN rows
               PROVE  /\ Triple(rows[c]) = Triple(old) /\ Triple(writes'[r][c]) = Triple(old)
                      /\ writes'[r][c].status = new.status
    OBVIOUS
  <2>1. rows[c] \in Row
    BY DataFromType, RowsTyped
  <2>2. Fixed(Overwrite(rows[c], new), rows[c]) /\ Overwrite(rows[c], new).status = new.status
    BY <1>2, <2>1, OverwriteIs
  <2> QED
    BY <1>2, <1>3, <2>2, SameTriple DEF ReadOK
<1>6. ASSUME NEW d \in DOMAIN rows, MayBeActive(d)', ~MayBeActive(d)
      PROVE  d = c /\ new.status = "Active" /\ rows[c].status # "Active" /\ c \in DOMAIN rows
  <2>1. rows'[d].status # "Active" /\ rows[d].status # "Active"
    BY <1>1, <1>6 DEF MayBeActive
  <2>2. PICK q \in Requests : d \in DOMAIN writes'[q] /\ writes'[q][d].status = "Active"
    BY <1>6, <2>1 DEF MayBeActive
  <2>3. ~(d \in DOMAIN writes[q] /\ writes[q][d].status = "Active")
    BY <1>6 DEF MayBeActive
  <2>4. q = r /\ c \in DOMAIN rows /\ d = c
    BY <1>2, <2>2, <2>3
  <2> QED
    BY <1>5, <2>1, <2>2, <2>4
<1>7. ASSUME new.status = "Active", rows[c].status # "Active", c \in DOMAIN rows,
             NEW d \in DOMAIN rows, d # c, Triple(rows[d]) = Triple(rows[c])
      PROVE  ~MayBeActive(d)
  <2>1. Reenters(c) /\ ~IndexBusy(r, Triple(rows[d])) /\ ~IndexTaken(c, Triple(rows[d]))
    BY <1>1, <1>4, <1>5, <1>7 DEF Reenters
  <2>2. rows[d].status # "Active"
    BY <1>7, <2>1 DEF IndexTaken
  <2>3. \A q \in Requests \ {r} : d \in DOMAIN writes[q] => writes[q][d].status # "Active"
    BY <2>1 DEF IndexBusy, IndexHeldBy
  <2>4. d \notin DOMAIN writes[r]
    <3> SUFFICES ASSUME d \in DOMAIN writes[r] PROVE FALSE
      OBVIOUS
    <3>1. Triple(writes[r][d]) = Triple(rows[d])
      BY SameTriple DEF BatchInv, BatchOK, WriteOK
    <3> QED
      BY <1>2, <1>3, <1>5, <1>7, <3>1 DEF ApartOK
  <2> QED
    BY <2>2, <2>3, <2>4 DEF MayBeActive
<1>8. OnlyOne'
  <2> SUFFICES ASSUME NEW d \in DOMAIN rows, NEW e \in DOMAIN rows, MayBeActive(d)',
                      MayBeActive(e)', Triple(rows[d]) = Triple(rows[e])
               PROVE  d = e
    BY <1>1 DEF OnlyOne
  <2>1. CASE MayBeActive(d) /\ MayBeActive(e)
    BY <2>1 DEF UniqueInv, OnlyOne
  <2>2. CASE ~MayBeActive(d)
    BY <1>6, <1>7, <2>2
  <2>3. CASE ~MayBeActive(e)
    BY <1>6, <1>7, <2>3
  <2> QED
    BY <2>1, <2>2, <2>3
<1>9. ASSUME NEW q \in Requests PROVE ApartOK(q)'
  <2>1. DOMAIN todo'[q] \subseteq DOMAIN todo[q]
        /\ \A d \in DOMAIN todo'[q] : todo'[q][d] = todo[q][d]
    BY <1>1, NextRowIs
  <2>2. CASE q # r \/ c \notin DOMAIN rows
    BY <1>2, <2>1, <2>2 DEF ApartOK, UniqueInv
  <2>3. CASE q = r /\ c \in DOMAIN rows
    <3>1. ASSUME NEW d \in DOMAIN todo'[r], NEW e \in DOMAIN writes'[r],
                 Triple(todo'[r][d]) = Triple(writes'[r][e])
          PROVE  d = e
      <4>1. CASE e = c
        BY <1>2, <1>3, <1>5, <2>1, <2>3, <3>1, <4>1 DEF ApartOK
      <4>2. CASE e # c
        BY <1>2, <1>3, <2>1, <2>3, <3>1, <4>2 DEF ApartOK
      <4> QED
        BY <4>1, <4>2
    <3> QED
      BY <1>3, <2>1, <2>3, <3>1 DEF ApartOK
  <2> QED
    BY <2>2, <2>3
<1> QED
  BY <1>8, <1>9 DEF UniqueInv

LEMMA CommitUnique ==
  ASSUME TypeInv, BatchInv, UniqueInv, NEW r \in Requests, CommitProgress(r)
  PROVE  UniqueInv'
<1>1. Return(r) /\ rows' = [c \in DOMAIN rows |->
                             IF c \in DOMAIN writes[r] THEN writes[r][c] ELSE rows[c]]
  BY DEF CommitProgress
<1>2. ASSUME NEW c \in DOMAIN rows
      PROVE  Fixed(rows'[c], rows[c]) /\ (rows'[c].status = "Active" => MayBeActive(c))
  <2>1. CASE c \in DOMAIN writes[r]
    BY <1>1, <2>1 DEF BatchInv, BatchOK, WriteOK, MayBeActive
  <2>2. CASE c \notin DOMAIN writes[r]
    BY <1>1, <2>2 DEF Fixed, MayBeActive
  <2> QED
    BY <2>1, <2>2
<1>3. DOMAIN rows' = DOMAIN rows
  BY <1>1
<1> QED
  BY <1>1, <1>2, <1>3, EndUnique

LEMMA ExpireUnique ==
  ASSUME TypeInv, UniqueInv, NEW r \in Requests, ExpireStaleActive(r)
  PROVE  UniqueInv'
<1> DEFINE stale == {c \in DOMAIN rows : /\ Triple(rows[c]) = OfferTriple(job[r].offer)
                                         /\ rows[c].status = "Active"
                                         /\ rows[c].ends <= job[r].at}
<1>1. /\ rows' = [c \in DOMAIN rows |-> IF c \in stale THEN [rows[c] EXCEPT !.status = "Expired"]
                                         ELSE rows[c]]
      /\ UNCHANGED <<todo, writes>>
  BY DEF ExpireStaleActive
<1>2. rows \in [DOMAIN rows -> Row]
  BY DataFromType, RowsTyped
<1>3. \A c \in DOMAIN rows : LET e == [rows[c] EXCEPT !.status = "Expired"]
                             IN  Fixed(e, rows[c]) /\ e.status = "Expired"
  BY <1>2 DEF Row, Fixed
<1> HIDE DEF stale
<1>4. \A c \in DOMAIN rows : Fixed(rows'[c], rows[c])
                             /\ (rows'[c].status = "Active" => MayBeActive(c))
  BY <1>1, <1>3 DEF Fixed, MayBeActive
<1>5. DOMAIN rows' = DOMAIN rows
  BY <1>1
<1> QED
  BY <1>1, <1>4, <1>5, QuietUnique

LEMMA InsertUnique ==
  ASSUME TypeInv, BatchInv, UniqueInv, NEW r \in Requests, InsertChallenge(r)
  PROVE  UniqueInv'
<1>1. Return(r) /\ pc[r] = "insert"
  BY DEF InsertChallenge
<1>2. CASE UNCHANGED rows
  BY <1>1, <1>2, GiveUpUnique
<1> SUFFICES ASSUME NEW new, new = minted + 1, NEW row, row = NewRow(job[r].offer, job[r].at),
                    rows' = [c \in DOMAIN rows \cup {new} |-> IF c = new THEN row ELSE rows[c]],
                    ~IndexBusy(r, Triple(row)), ~IndexTaken(new, Triple(row))
             PROVE  UniqueInv'
  BY <1>2 DEF InsertChallenge, NewRow, Triple, OfferTriple, dbVars
<1>3. new \notin DOMAIN rows
  BY DataFromType, ConstantsAssumption DEF DataOK
<1>4. /\ DOMAIN rows' = DOMAIN rows \cup {new} /\ rows'[new] = row
      /\ \A c \in DOMAIN rows : rows'[c] = rows[c]
  BY <1>3
<1>5. /\ todo'[r] = NoRows /\ writes'[r] = NoRows /\ writes[r] = NoRows /\ DOMAIN NoRows = {}
      /\ \A q \in Requests \ {r} : todo'[q] = todo[q] /\ writes'[q] = writes[q]
  BY <1>1, NoRowsSnapshot DEF Return, TypeInv, Typed, PhaseOK
<1>6. \A c \in DOMAIN rows : MayBeActive(c)' => MayBeActive(c)
  BY <1>4, <1>5 DEF MayBeActive
<1>7. \A c \in DOMAIN rows : Triple(rows[c]) = Triple(row) => ~MayBeActive(c)
  BY <1>3, <1>5 DEF MayBeActive, IndexBusy, IndexHeldBy, IndexTaken
<1>8. OnlyOne'
  BY <1>4, <1>6, <1>7 DEF UniqueInv, OnlyOne
<1>9. ASSUME NEW q \in Requests PROVE ApartOK(q)'
  BY <1>5 DEF UniqueInv, ApartOK
<1> QED
  BY <1>8, <1>9 DEF UniqueInv

LEMMA ByIdUnique ==
  ASSUME TypeInv, UniqueInv, NEW r \in Requests, UpdateClaimed(r) \/ UpdateCancelled(r)
  PROVE  UniqueInv'
<1> SUFFICES ASSUME NEW c, c = job[r].id PROVE UniqueInv'
  OBVIOUS
<1>1. Return(r) /\ rows \in [DOMAIN rows -> Row]
  BY DataFromType, RowsTyped DEF UpdateClaimed, UpdateCancelled
<1>2. CASE UNCHANGED rows
  BY <1>1, <1>2, GiveUpUnique
<1>3. ASSUME c \in DOMAIN rows, NEW row, rows' = [rows EXCEPT ![c] = row],
             Fixed(row, rows[c]), row.status # "Active"
      PROVE  UniqueInv'
  <2>1. DOMAIN rows' = DOMAIN rows /\ rows'[c] = row
        /\ \A d \in DOMAIN rows \ {c} : rows'[d] = rows[d]
    BY <1>1, <1>3
  <2> QED
    BY <1>1, <1>3, <2>1, EndUnique DEF Fixed, MayBeActive
<1>4. ASSUME c \in DOMAIN rows, NEW row, rows' = [rows EXCEPT ![c] = row],
             row \in {[rows[c] EXCEPT !.status = "Claimed", !.claimedAt = TRUE],
                      [rows[c] EXCEPT !.status = "Cancelled"]}
      PROVE  UniqueInv'
  <2>1. rows[c] \in Row
    BY <1>1, <1>4
  <2>2. Fixed(row, rows[c]) /\ row.status # "Active"
    BY <1>4, <2>1 DEF Row, Fixed
  <2> QED
    BY <1>3, <1>4, <2>2
<1>5. CASE UpdateClaimed(r)
  <2>1. \/ UNCHANGED rows
        \/ c \in DOMAIN rows /\ rows' = [rows EXCEPT ![c].status = "Claimed", ![c].claimedAt = TRUE]
    BY <1>5 DEF UpdateClaimed
  <2>2. c \in DOMAIN rows =>
          [rows EXCEPT ![c].status = "Claimed", ![c].claimedAt = TRUE] =
          [rows EXCEPT ![c] = [rows[c] EXCEPT !.status = "Claimed", !.claimedAt = TRUE]]
    BY <1>1
  <2> QED
    BY <1>2, <1>4, <2>1, <2>2
<1>6. CASE UpdateCancelled(r)
  <2>1. \/ UNCHANGED rows
        \/ c \in DOMAIN rows /\ rows' = [rows EXCEPT ![c].status = "Cancelled"]
    BY <1>6 DEF UpdateCancelled
  <2> QED
    BY <1>2, <1>4, <2>1
<1> QED
  BY <1>5, <1>6

LEMMA NextUnique == TypeInv /\ BatchInv /\ UniqueInv /\ [Next]_vars => UniqueInv'
<1> SUFFICES ASSUME TypeInv, BatchInv, UniqueInv, [Next]_vars PROVE UniqueInv'
  OBVIOUS
<1>1. ASSUME NEW r \in Requests, Step(r) PROVE UniqueInv'
  <2>1. ASSUME NEW range \in Levels, UniqueViolation(r, range) PROVE UniqueInv'
    BY <2>1, GiveUpUnique DEF UniqueViolation, dbVars
  <2>2. ASSUME DeadlockAbort(r) PROVE UniqueInv'
    BY <2>2, GiveUpUnique DEF DeadlockAbort, dbVars
  <2>3. ASSUME Show(r) PROVE UniqueInv'
    BY <2>3, GiveUpUnique DEF Show, dbVars
  <2>4. ASSUME SelectRows(r) PROVE UniqueInv'
    BY <2>4, QuietUnique DEF SelectRows, Fixed, MayBeActive, dbVars
  <2> QED
    BY <1>1, <2>1, <2>2, <2>3, <2>4, ListUnique, SkipUnique, UpdateUnique, CommitUnique,
       ExpireUnique, InsertUnique, ByIdUnique DEF Step
<1>2. ASSUME NEW r \in Requests, Interrupt(r) PROVE UniqueInv'
  BY <1>2, GiveUpUnique DEF Interrupt, dbVars
<1>3. ASSUME UNCHANGED <<rows, todo, writes>> PROVE UniqueInv'
  BY <1>3, QuietUnique DEF Fixed, MayBeActive
<1>4. ASSUME NEW r \in Requests, Arrive(r) PROVE UniqueInv'
  <2>1. UNCHANGED <<rows, todo, writes>>
    BY <1>4 DEF Arrive, CompleteHabit, StartCreate, StartClaim, StartCancel, StartList,
                Begin, dbVars
  <2> QED
    BY <1>3, <2>1
<1>5. ASSUME NEW u \in Users, DeleteAccount(u) PROVE UniqueInv'
  <2>1. UNCHANGED <<todo, writes>> /\ DOMAIN rows' \subseteq DOMAIN rows
        /\ \A c \in DOMAIN rows' : rows'[c] = rows[c]
    BY <1>5 DEF DeleteAccount, reqVars
  <2> QED
    BY <2>1, QuietUnique DEF Fixed, MayBeActive
<1>6. CASE \/ \E h \in Habits, d \in Days : DeleteCompletion(h, d)
           \/ Tick \/ UNCHANGED vars
  BY <1>3, <1>6 DEF DeleteCompletion, Tick, vars, dbVars, reqVars
<1> QED
  BY <1>1, <1>2, <1>4, <1>5, <1>6 DEF Next

\* Two people have one running challenge per habit, for any number of engines
\* that write Active back and any number of creations that race with them.
THEOREM OneActiveAlways == Spec => []OneActivePerTriple
<1>1. Init => UniqueInv
  BY NoRowsSnapshot DEF Init, UniqueInv, OnlyOne, ApartOK
<1>2. UniqueInv => OneActivePerTriple
  BY DEF UniqueInv, OnlyOne, MayBeActive, OneActivePerTriple
<1> QED
  BY <1>1, <1>2, BatchInvariant, NextUnique, PTL DEF Spec

-----------------------------------------------------------------------------
(* The life of a challenge, for requests that do not overlap.  The engine    *)
(* then writes over the row it read, so what it installs adds to the dates   *)
(* of a row that is still Active.  With two requests neither part of         *)
(* SerialOK holds, and neither does LifeSpec.                                *)

\* What a completion may make of a row.
Credits(new, old) ==
  /\ old.status = "Active" /\ new.status \in {"Active", "Completed"}
  /\ old.dates \subseteq new.dates
  /\ old.baseline # None => new.baseline = old.baseline

SerialOK(r) ==
  /\ \A c \in DOMAIN todo[r] \cap DOMAIN rows : todo[r][c] = rows[c]
  /\ \A c \in DOMAIN writes[r] : Credits(writes[r][c], rows[c])

SerialInv == \A r \in Requests : SerialOK(r)

Alone == \A q, r \in Requests : q = r

LEMMA DatedBaseline ==
  ASSUME NEW row \in Row, NEW ev \in Event
  PROVE  Dated(row, ev).baseline = row.baseline /\ row.dates \subseteq Dated(row, ev).dates
<1>1. CASE row.type \notin DedupTypes
  BY <1>1, DatedIs
<1>2. CASE row.type \in DedupTypes
  <2>1. Dated(row, ev).baseline = row.baseline
    BY <1>2 DEF Dated, WithDate, Row
  <2> QED
    BY <1>2, <2>1, DatedIs
<1> QED
  BY <1>1, <1>2

LEMMA BasedBaseline ==
  ASSUME NEW row \in Row, NEW ev \in Event
  PROVE  row.baseline # None => Based(row, ev).baseline = row.baseline
<1> HIDE DEF Dated
<1> QED
  BY DatedBaseline DEF Based

LEMMA ProgressedEither ==
  ASSUME NEW row \in Row, NEW ev \in Event, NEW range \in Levels
  PROVE  Progressed(row, ev, range) \in
           {[Based(row, ev) EXCEPT !.status = "Completed", !.progress = row.target,
                                   !.completedAt = TRUE],
            [Based(row, ev) EXCEPT !.progress =
               CalculateProgress(Based(row, ev), Scored(row, ev, range))]}
<1>1. CASE IsMilestoneReached(Based(row, ev), Scored(row, ev, range))
  BY <1>1, ProgressedIs, Zenon
<1>2. CASE ~IsMilestoneReached(Based(row, ev), Scored(row, ev, range))
  BY <1>2, ProgressedIs, Zenon
<1> QED
  BY <1>1, <1>2

LEMMA ProgressedCredits ==
  ASSUME NEW row \in Row, NEW ev \in Event, NEW range \in Levels, row.status = "Active"
  PROVE  Credits(Progressed(row, ev, range), row)
<1> DEFINE based == Based(row, ev)
           p == CalculateProgress(based, Scored(row, ev, range))
<1>1. /\ based \in Row /\ based.status = "Active" /\ row.dates \subseteq based.dates
      /\ row.baseline # None => based.baseline = row.baseline
  <2> HIDE DEF Dated, Based
  <2> QED
    BY BasedIs, DatedBaseline, BasedBaseline
<1>2. Progressed(row, ev, range) \in
        {[based EXCEPT !.status = "Completed", !.progress = row.target, !.completedAt = TRUE],
         [based EXCEPT !.progress = p]}
  BY ProgressedEither, Zenon
<1> HIDE DEF based, p
<1> QED
  BY <1>1, <1>2 DEF Credits, Row

\* The UPDATE writes what the engine computed from the row that is there.
LEMMA OverwriteCredits ==
  ASSUME NEW stored \in Row, NEW ev \in Event, NEW range \in Levels, stored.status = "Active"
  PROVE  Credits(Overwrite(stored, Progressed(stored, ev, range)), stored)
<1> DEFINE new == Progressed(stored, ev, range)
<1>1. new \in Row /\ Credits(new, stored)
  BY ProgressedType, ProgressedCredits
<1> HIDE DEF new
<1>2. LET o == Overwrite(stored, new)
      IN  o.status = new.status /\ o.dates = new.dates /\ o.baseline = new.baseline
  BY DEF Overwrite, Row
<1> QED
  BY <1>1, <1>2 DEF Credits, new

\* A request that holds no rows has nothing to keep.
LEMMA IdleSerial ==
  ASSUME TypeInv, NEW r \in Requests, pc[r] \notin {"apply", "commit"}
  PROVE  SerialOK(r)
BY NoRowsSnapshot DEF TypeInv, PhaseOK, SerialOK

LEMMA NextSerial ==
  ASSUME Alone, TypeInv, TypeInv', BatchInv, SerialInv, [Next]_vars
  PROVE  SerialInv'
<1> SUFFICES ASSUME NEW r \in Requests PROVE SerialOK(r)'
  BY DEF SerialInv
<1>1. SerialOK(r) /\ \A q \in Requests : q = r
  BY DEF SerialInv, Alone
<1>2. CASE UNCHANGED <<rows, todo, writes>>
  BY <1>1, <1>2 DEF SerialOK
<1>3. CASE Return(r)
  <2>1. todo'[r] = NoRows /\ writes'[r] = NoRows /\ DOMAIN NoRows = {}
    BY <1>3, NoRowsSnapshot DEF Return, TypeInv, Typed
  <2> QED
    BY <2>1 DEF SerialOK
<1>4. CASE ListActive(r)
  <2> DEFINE hits == {c \in DOMAIN rows : /\ rows[c].habit = job[r].habit
                                          /\ rows[c].recipient = job[r].user
                                          /\ rows[c].status = "Active"
                                          /\ rows[c].ends > now}
  <2>1. CASE /\ todo' = [todo EXCEPT ![r] = [c \in hits |-> rows[c]]]
             /\ UNCHANGED <<writes, rows>>
    <3>1. DOMAIN todo'[r] = hits /\ \A c \in hits : todo'[r][c] = rows[c]
      BY <2>1 DEF TypeInv, Typed
    <3>2. writes'[r] = NoRows /\ DOMAIN NoRows = {}
      BY <1>4, <2>1, NoRowsSnapshot DEF ListActive, TypeInv, PhaseOK
    <3> HIDE DEF hits
    <3> QED
      BY <2>1, <3>1, <3>2 DEF SerialOK
  <2> QED
    BY <1>3, <1>4, <2>1 DEF ListActive, dbVars
<1>5. CASE SkipRow(r)
  BY <1>1, <1>5, NextRowIs DEF SkipRow, SerialOK, dbVars
<1>6. ASSUME NEW range \in Levels, UpdateProgress(r, range) PROVE SerialOK(r)'
  <2> SUFFICES ASSUME NEW c, c = turn[r] PROVE SerialOK(r)'
    OBVIOUS
  <2> DEFINE new == Progressed(todo[r][c], job[r], range)
  <2>1. pc[r] = "apply" /\ NextRow(r) /\ rows' = rows
    BY <1>6 DEF UpdateProgress, dbVars
  <2>2. /\ job[r] \in Event /\ c \in DOMAIN todo[r] /\ todo[r][c] \in Row
        /\ c \notin DOMAIN rows => writes'[r] = writes[r]
        /\ c \in DOMAIN rows =>
             /\ DOMAIN writes'[r] = DOMAIN writes[r] \cup {c}
             /\ writes'[r][c] = Overwrite(rows[c], new)
             /\ \A d \in DOMAIN writes[r] \ {c} : writes'[r][d] = writes[r][d]
    BY <1>6, UpdateIs
  <2> HIDE DEF new
  <2>3. c \in DOMAIN rows => Credits(writes'[r][c], rows[c])
    <3> SUFFICES ASSUME c \in DOMAIN rows PROVE Credits(writes'[r][c], rows[c])
      OBVIOUS
    <3>1. ReadOK(r, c) /\ todo[r][c] = rows[c]
      BY <1>1, <2>2 DEF SerialOK, BatchInv, BatchOK
    <3>2. /\ new = Progressed(rows[c], job[r], range) /\ rows[c] \in Row
          /\ rows[c].status = "Active"
      BY <2>2, <3>1 DEF new, ReadOK
    <3>3. Credits(Overwrite(rows[c], new), rows[c])
      BY <2>2, <3>2, OverwriteCredits
    <3> QED
      BY <2>2, <3>3
  <2>4. \A d \in DOMAIN writes'[r] : Credits(writes'[r][d], rows[d])
    BY <1>1, <2>2, <2>3 DEF SerialOK
  <2>5. \A d \in DOMAIN todo'[r] : d \in DOMAIN todo[r] /\ todo'[r][d] = todo[r][d]
    BY <2>1, NextRowIs
  <2> QED
    BY <1>1, <2>1, <2>4, <2>5 DEF SerialOK
<1>7. CASE ExpireStaleActive(r)
  <2>1. pc'[r] = "insert"
    BY <1>7 DEF ExpireStaleActive, TypeInv, Typed
  <2>2. todo'[r] = NoRows /\ writes'[r] = NoRows /\ DOMAIN NoRows = {}
    BY <2>1, NoRowsSnapshot DEF TypeInv, PhaseOK
  <2> QED
    BY <2>2 DEF SerialOK
<1>8. ASSUME NEW u \in Users, DeleteAccount(u) PROVE SerialOK(r)'
  <2>1. /\ UNCHANGED <<todo, writes>> /\ DOMAIN rows' \subseteq DOMAIN rows
        /\ \A c \in DOMAIN rows' : rows'[c] = rows[c]
        /\ \A c \in DOMAIN rows \ DOMAIN rows' : c \notin DOMAIN writes[r]
    BY <1>8 DEF DeleteAccount, reqVars
  <2>2. \A c \in DOMAIN writes[r] : c \in DOMAIN rows
    BY DEF BatchInv, BatchOK, WriteOK
  <2> QED
    BY <1>1, <2>1, <2>2 DEF SerialOK
<1>9. ASSUME Step(r) PROVE SerialOK(r)'
  BY <1>2, <1>3, <1>4, <1>5, <1>6, <1>7, <1>9
     DEF Step, CommitProgress, DeadlockAbort, UniqueViolation, InsertChallenge,
         UpdateClaimed, UpdateCancelled, SelectRows, Show, dbVars
<1>10. ASSUME Arrive(r) PROVE SerialOK(r)'
  BY <1>2, <1>10 DEF Arrive, CompleteHabit, StartCreate, StartClaim, StartCancel, StartList,
                     Begin, dbVars
<1>11. CASE \/ \E h \in Habits, d \in Days : DeleteCompletion(h, d)
            \/ Tick \/ UNCHANGED vars
  BY <1>2, <1>11 DEF DeleteCompletion, Tick, vars, dbVars, reqVars
<1> QED
  BY <1>1, <1>3, <1>8, <1>9, <1>10, <1>11 DEF Next, Interrupt

\* What a step may make of the row with one id, and which step of its life that is.
RowStep(c) ==
  \/ /\ c \notin DOMAIN rows /\ c \notin DOMAIN rows'
     /\ c <= minted <=> c <= minted'
  \/ /\ c \notin DOMAIN rows /\ ~(c <= minted) /\ c \in DOMAIN rows'
     /\ rows'[c].status = "Active" /\ rows'[c].dates = {} /\ rows'[c].baseline = None
  \/ c \in DOMAIN rows /\ c \notin DOMAIN rows' /\ c <= minted'
  \/ /\ c \in DOMAIN rows /\ c \in DOMAIN rows'
     /\ \/ Credits(rows'[c], rows[c])
        \/ /\ rows'[c].dates = rows[c].dates /\ rows'[c].baseline = rows[c].baseline
           /\ \/ rows'[c].status = rows[c].status
              \/ rows[c].status = "Active" /\ rows'[c].status = "Expired"
              \/ Cancellable(rows[c]) /\ rows'[c].status = "Cancelled"
              \/ rows[c].status = "Completed" /\ rows'[c].status = "Claimed"

LifeActs(c) ==
  \/ Life!Start(c) \/ Life!Expire(c) \/ Life!Cancel(c) \/ Life!Claim(c)
  \/ Life!Delete(c) \/ Life!Credit(c) \/ Life!Rest(c)

LEMMA RowStepIsLife ==
  ASSUME TypeInv, NEW c \in Ids, RowStep(c)
  PROVE  LifeActs(c)
<1>1. c \in DOMAIN rows => rows[c].status \in Statuses
  BY DataFromType, RowsTyped DEF Row
<1>2. CASE c \notin DOMAIN rows /\ c \notin DOMAIN rows' /\ (c <= minted <=> c <= minted')
  <2>1. Life!Rest(c)
    BY <1>2 DEF Life!Rest, Life!Keeps
  <2> QED
    BY <2>1 DEF LifeActs
<1>3. CASE /\ c \notin DOMAIN rows /\ ~(c <= minted) /\ c \in DOMAIN rows'
           /\ rows'[c].status = "Active" /\ rows'[c].dates = {} /\ rows'[c].baseline = None
  <2>1. Life!Start(c)
    BY <1>3 DEF Life!Start, Life!Moves, Life!Keeps
  <2> QED
    BY <2>1 DEF LifeActs
<1>4. CASE c \in DOMAIN rows /\ c \notin DOMAIN rows' /\ c <= minted'
  <2>1. Life!Delete(c)
    BY <1>1, <1>4 DEF Life!Delete, Life!Moves, Life!Stages, Statuses
  <2> QED
    BY <2>1 DEF LifeActs
<1>5. CASE c \in DOMAIN rows /\ c \in DOMAIN rows' /\ Credits(rows'[c], rows[c])
  <2>1. Life!Credit(c)
    BY <1>5 DEF Life!Credit, Life!Moves, Credits
  <2> QED
    BY <2>1 DEF LifeActs
<1> SUFFICES ASSUME c \in DOMAIN rows, c \in DOMAIN rows',
                    rows'[c].dates = rows[c].dates, rows'[c].baseline = rows[c].baseline,
                    \/ rows'[c].status = rows[c].status
                    \/ rows[c].status = "Active" /\ rows'[c].status = "Expired"
                    \/ Cancellable(rows[c]) /\ rows'[c].status = "Cancelled"
                    \/ rows[c].status = "Completed" /\ rows'[c].status = "Claimed"
             PROVE  LifeActs(c)
  BY <1>2, <1>3, <1>4, <1>5 DEF RowStep
<1>6. Life!Keeps(c)
  BY DEF Life!Keeps
<1>7. CASE rows'[c].status = rows[c].status
  <2>1. Life!Rest(c)
    BY <1>6, <1>7 DEF Life!Rest
  <2> QED
    BY <2>1 DEF LifeActs
<1>8. CASE rows[c].status = "Active" /\ rows'[c].status = "Expired"
  <2>1. Life!Expire(c)
    BY <1>6, <1>8 DEF Life!Expire, Life!Moves
  <2> QED
    BY <2>1 DEF LifeActs
<1>9. CASE Cancellable(rows[c]) /\ rows'[c].status = "Cancelled"
  <2>1. rows[c].status \in Life!Open
    BY <1>1, <1>9 DEF Life!Open, Cancellable, Statuses
  <2>2. Life!Cancel(c)
    BY <1>6, <1>9, <2>1 DEF Life!Cancel, Life!Moves
  <2> QED
    BY <2>2 DEF LifeActs
<1>10. CASE rows[c].status = "Completed" /\ rows'[c].status = "Claimed"
  <2>1. Life!Claim(c)
    BY <1>6, <1>10 DEF Life!Claim, Life!Moves
  <2> QED
    BY <2>1 DEF LifeActs
<1> QED
  BY <1>7, <1>8, <1>9, <1>10

LEMMA EveryRowSteps ==
  ASSUME TypeInv, TypeInv', BatchInv, SerialInv, [Next]_vars, NEW c \in Ids
  PROVE  RowStep(c)
<1>1. /\ rows \in [DOMAIN rows -> Row] /\ DOMAIN rows \subseteq 1 .. minted
      /\ DOMAIN rows' \subseteq 1 .. minted' /\ minted \in Nat /\ c \in Nat
  <2>1. rows \in [DOMAIN rows -> Row]
    BY DataFromType, RowsTyped
  <2>2. DOMAIN rows \subseteq 1 .. minted /\ DOMAIN rows' \subseteq 1 .. minted'
    BY DEF TypeInv, Typed
  <2>3. minted \in Nat /\ c \in Nat
    BY ConstantsAssumption DEF TypeInv, Typed, Ids
  <2> QED
    BY <2>1, <2>2, <2>3
<1>2. c \in DOMAIN rows => c <= minted
  BY <1>1
<1>3. CASE UNCHANGED <<rows, minted>>
  BY <1>2, <1>3 DEF RowStep
<1>4. ASSUME NEW r \in Requests, CommitProgress(r) PROVE RowStep(c)
  <2>1. /\ rows' = [d \in DOMAIN rows |-> IF d \in DOMAIN writes[r] THEN writes[r][d] ELSE rows[d]]
        /\ minted' = minted
    BY <1>4 DEF CommitProgress
  <2>2. c \in DOMAIN writes[r] => Credits(writes[r][c], rows[c])
    BY DEF SerialInv, SerialOK
  <2> QED
    BY <1>2, <2>1, <2>2 DEF RowStep
<1>5. ASSUME NEW r \in Requests, ExpireStaleActive(r) PROVE RowStep(c)
  <2> DEFINE stale == {d \in DOMAIN rows : /\ Triple(rows[d]) = OfferTriple(job[r].offer)
                                           /\ rows[d].status = "Active"
                                           /\ rows[d].ends <= job[r].at}
  <2>1. /\ rows' = [d \in DOMAIN rows |-> IF d \in stale THEN [rows[d] EXCEPT !.status = "Expired"]
                                           ELSE rows[d]]
        /\ minted' = minted
    BY <1>5 DEF ExpireStaleActive
  <2>2. c \in stale => rows[c].status = "Active"
    OBVIOUS
  <2> HIDE DEF stale
  <2>3. CASE c \in DOMAIN rows /\ c \in stale
    <3>1. rows'[c] = [rows[c] EXCEPT !.status = "Expired"] /\ rows[c] \in Row
      BY <1>1, <2>1, <2>3
    <3>2. /\ rows'[c].status = "Expired" /\ rows'[c].dates = rows[c].dates
          /\ rows'[c].baseline = rows[c].baseline
      BY <3>1 DEF Row
    <3> QED
      BY <2>1, <2>2, <2>3, <3>2 DEF RowStep
  <2>4. CASE ~(c \in DOMAIN rows /\ c \in stale)
    BY <2>1, <2>4 DEF RowStep
  <2> QED
    BY <2>3, <2>4
<1>6. ASSUME NEW r \in Requests, InsertChallenge(r), ~UNCHANGED <<rows, minted>> PROVE RowStep(c)
  <2> SUFFICES ASSUME NEW new, new = minted + 1, NEW row, row = NewRow(job[r].offer, job[r].at),
                      rows' = [d \in DOMAIN rows \cup {new} |-> IF d = new THEN row ELSE rows[d]],
                      minted' = new
               PROVE  RowStep(c)
    BY <1>6 DEF InsertChallenge, dbVars
  <2>1. row.status = "Active" /\ row.dates = {} /\ row.baseline = None
    BY DEF NewRow
  <2>2. CASE c = new
    <3>1. c \notin DOMAIN rows /\ ~(c <= minted) /\ c \in DOMAIN rows' /\ rows'[c] = row
      BY <1>1, <2>2
    <3> QED
      BY <2>1, <3>1 DEF RowStep
  <2>3. CASE c # new
    <3>1. c <= minted <=> c <= minted'
      BY <1>1, <2>3
    <3>2. (c \in DOMAIN rows <=> c \in DOMAIN rows') /\ (c \in DOMAIN rows => rows'[c] = rows[c])
      BY <2>3
    <3> QED
      BY <3>1, <3>2 DEF RowStep
  <2> QED
    BY <2>2, <2>3
<1>7. ASSUME NEW d \in DOMAIN rows, NEW row, rows' = [rows EXCEPT ![d] = row], minted' = minted,
             row.dates = rows[d].dates, row.baseline = rows[d].baseline,
             \/ Cancellable(rows[d]) /\ row.status = "Cancelled"
             \/ rows[d].status = "Completed" /\ row.status = "Claimed"
      PROVE  RowStep(c)
  <2>1. DOMAIN rows' = DOMAIN rows /\ rows'[d] = row
        /\ \A e \in DOMAIN rows \ {d} : rows'[e] = rows[e]
    BY <1>1, <1>7
  <2>2. CASE c = d
    BY <1>7, <2>1, <2>2 DEF RowStep
  <2>3. CASE c # d
    BY <1>7, <2>1, <2>3 DEF RowStep
  <2> QED
    BY <2>2, <2>3
<1>8. ASSUME NEW r \in Requests, UpdateClaimed(r), ~UNCHANGED <<rows, minted>> PROVE RowStep(c)
  <2> DEFINE d == job[r].id
             row == [rows[d] EXCEPT !.status = "Claimed", !.claimedAt = TRUE]
  <2>1. /\ d \in DOMAIN rows /\ rows[d].status = "Completed" /\ minted' = minted
        /\ rows' = [rows EXCEPT ![d].status = "Claimed", ![d].claimedAt = TRUE]
    BY <1>8 DEF UpdateClaimed
  <2>2. rows[d] \in Row /\ rows' = [rows EXCEPT ![d] = row]
    BY <1>1, <2>1
  <2>3. row.dates = rows[d].dates /\ row.baseline = rows[d].baseline /\ row.status = "Claimed"
    BY <2>2 DEF Row
  <2> HIDE DEF row
  <2> QED
    BY <1>7, <2>1, <2>2, <2>3
<1>9. ASSUME NEW r \in Requests, UpdateCancelled(r), ~UNCHANGED <<rows, minted>> PROVE RowStep(c)
  <2> DEFINE d == job[r].id
             row == [rows[d] EXCEPT !.status = "Cancelled"]
  <2>1. /\ d \in DOMAIN rows /\ Cancellable(rows[d]) /\ minted' = minted
        /\ rows' = [rows EXCEPT ![d] = row]
    BY <1>9 DEF UpdateCancelled
  <2>2. row.dates = rows[d].dates /\ row.baseline = rows[d].baseline /\ row.status = "Cancelled"
    BY <1>1, <2>1 DEF Row
  <2> HIDE DEF row
  <2> QED
    BY <1>7, <2>1, <2>2
<1>10. ASSUME NEW u \in Users, DeleteAccount(u) PROVE RowStep(c)
  <2>1. /\ minted' = minted /\ DOMAIN rows' \subseteq DOMAIN rows
        /\ \A d \in DOMAIN rows' : rows'[d] = rows[d]
    BY <1>10 DEF DeleteAccount
  <2> QED
    BY <1>2, <2>1 DEF RowStep
<1>11. ASSUME NEW r \in Requests, Step(r) PROVE RowStep(c)
  <2>1. \/ UNCHANGED <<rows, minted>> \/ CommitProgress(r) \/ ExpireStaleActive(r)
        \/ InsertChallenge(r) \/ UpdateClaimed(r) \/ UpdateCancelled(r)
    BY <1>11 DEF Step, ListActive, SkipRow, DeadlockAbort, UpdateProgress, UniqueViolation,
                 SelectRows, Show, dbVars
  <2> QED
    BY <1>3, <1>4, <1>5, <1>6, <1>8, <1>9, <2>1
<1>12. ASSUME NEW r \in Requests, Arrive(r) \/ Interrupt(r) PROVE RowStep(c)
  BY <1>3, <1>12 DEF Arrive, CompleteHabit, StartCreate, StartClaim, StartCancel, StartList,
                     Interrupt, dbVars
<1> QED
  BY <1>3, <1>10, <1>11, <1>12 DEF Next, DeleteCompletion, Tick, vars, dbVars

\* The life's variables keep their types.
LEMMA LifeTypes ==
  ASSUME TypeInv'
  PROVE  LET stage == [c \in Ids |-> IF c \in DOMAIN rows THEN rows[c].status
                                    ELSE IF c <= minted THEN "deleted" ELSE "unborn"]
             credited == [c \in Ids |-> IF c \in DOMAIN rows THEN rows[c].dates ELSE {}]
             baseline == [c \in Ids |-> IF c \in DOMAIN rows THEN rows[c].baseline ELSE None]
         IN  /\ (stage \in [Ids -> Life!Stages])'
             /\ (credited \in [Ids -> SUBSET Days])'
             /\ (baseline \in [Ids -> Levels \cup {None}])'
<1>1. rows' \in [DOMAIN rows' -> Row]
  BY SnapshotElim DEF TypeInv, Typed
<1>2. Statuses \subseteq Life!Stages
  BY DEF Statuses, Life!Stages
<1>3. ASSUME NEW c \in DOMAIN rows'
      PROVE  /\ rows'[c].status \in Life!Stages /\ rows'[c].dates \in SUBSET Days
             /\ rows'[c].baseline \in Levels \cup {None}
  BY <1>1, <1>2 DEF Row
<1> QED
  BY <1>3 DEF Life!Stages

LEMMA StepIsLife ==
  ASSUME TypeInv, TypeInv', BatchInv, SerialInv, [Next]_vars
  PROVE  Life!Next
<1>1. ASSUME NEW c \in Ids PROVE LifeActs(c)
  BY <1>1, EveryRowSteps, RowStepIsLife
<1> QED
  BY <1>1, LifeTypes DEF Life!Next, LifeActs

\* For requests that do not overlap, a challenge lives as its participants are
\* promised: it never leaves Cancelled or Claimed, and no counted date and no
\* captured baseline is lost.
THEOREM LifeIsKept == ASSUME \A q, r \in Requests : q = r PROVE Spec => LifeSpec
<1> USE DEF Alone
<1>1. Init => Life!Init
  BY ConstantsAssumption DEF Init, Life!Init, NoRows, Ids
<1>2. Init => SerialInv
  BY NoRowsSnapshot DEF Init, SerialInv, SerialOK
<1>3. TypeInv /\ TypeInv' /\ BatchInv /\ SerialInv /\ [Next]_vars => SerialInv'
  BY NextSerial
<1>4. TypeInv /\ TypeInv' /\ BatchInv /\ SerialInv /\ [Next]_vars => Life!Next
  BY StepIsLife
<1> QED
  BY <1>1, <1>2, <1>3, <1>4, BatchInvariant, PTL DEF Spec, LifeSpec, Life!Spec
=============================================================================
