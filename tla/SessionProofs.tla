----------------------------- MODULE SessionProofs -----------------------------
(***************************************************************************)
(* Theorems of Session, for any users, any number of calls in flight, any  *)
(* number of retries and both platforms: the types, that a call that       *)
(* changes something is carried out at most once, that no call waits for a *)
(* refresh that nobody makes, and that the client keeps its session.       *)
(***************************************************************************)
EXTENDS Session, TLAPS

-----------------------------------------------------------------------------
(* The types.                                                              *)

ServerOK ==
  /\ minted \in 0 .. MaxTokens
  /\ owner \in [Pairs -> Users \cup {NoUser}]
  /\ live \subseteq Pairs /\ fresh \subseteq Pairs

ClientOK ==
  /\ status \in {"loading", "authenticated", "unauthenticated"}
  /\ user \in Users \cup {NoUser}
  /\ access \in Tokens /\ jar \in Tokens

\* What a refresh brings is a pair that was issued: bootstrapSession asks who owns it.
RefreshOK ==
  /\ refresh \in Refresh /\ arriving \in Tokens
  /\ refresh.phase = "answered" /\ refresh.answer = "ok" => refresh.issued \in Pairs

CallsOK == /\ req \in [Requests -> Call] /\ effects \in [Requests -> Nat]
           /\ clearing \in BOOLEAN /\ spoiled \in BOOLEAN

TypeInv == ServerOK /\ ClientOK /\ RefreshOK /\ CallsOK

LEMMA BlankTyped ==
  /\ NoCall \in Call /\ NoCall.phase = "idle" /\ NoCall.op = "read"
  /\ NoRefresh \in Refresh /\ NoRefresh.phase = "idle" /\ NoRefresh.answer = "failed"
  /\ \A token \in Tokens : /\ SendRefresh(token) \in Refresh /\ SendRefresh(token).phase = "sent"
                           /\ BootWith(token) \in Refresh /\ BootWith(token).phase # "idle"
                           /\ BootWith(token).answer = "failed"
<1>1. NoCall \in Call /\ NoCall.phase = "idle" /\ NoCall.op = "read"
  BY SessionAssumption DEF NoCall, Call, Tokens, Ops, Answers
<1>2. NoRefresh \in Refresh /\ NoRefresh.phase = "idle" /\ NoRefresh.answer = "failed"
  BY DEF NoRefresh, Refresh, Tokens
<1>3. ASSUME NEW token \in Tokens
      PROVE  /\ SendRefresh(token) \in Refresh /\ SendRefresh(token).phase = "sent"
             /\ SendRefresh(token).answer = "failed"
  BY DEF SendRefresh, NoRefresh, Refresh, Tokens
<1>4. LET r == [NoRefresh EXCEPT !.phase = "answered"]
      IN  r \in Refresh /\ r.phase = "answered" /\ r.answer = "failed"
  BY DEF NoRefresh, Refresh, Tokens
<1> QED
  BY <1>1, <1>2, <1>3, <1>4 DEF BootWith

LEMMA InitTypeInv == Init => TypeInv
<1> SUFFICES ASSUME NEW signedIn \in BOOLEAN, NEW u \in Users,
                    minted = IF signedIn THEN 1 ELSE 0,
                    owner = [t \in Pairs |-> IF t = 1 /\ signedIn THEN u ELSE NoUser],
                    live = 1 .. minted, fresh = {}, status = "loading", user = NoUser,
                    access = None, jar = minted, refresh = BootWith(minted), arriving = None,
                    req = [q \in Requests |-> NoCall], effects = [q \in Requests |-> 0],
                    clearing = FALSE, spoiled = FALSE
             PROVE  TypeInv
  BY DEF Init
<1>1. minted \in 0 .. MaxTokens /\ minted \in Tokens /\ live \subseteq Pairs
  BY SessionAssumption DEF Pairs, Tokens, None
<1>2. ServerOK
  BY <1>1 DEF ServerOK
<1>3. ClientOK
  BY <1>1 DEF ClientOK, Tokens, None
<1>4. RefreshOK
  BY <1>1, BlankTyped DEF RefreshOK, Tokens
<1>5. CallsOK
  BY BlankTyped DEF CallsOK
<1> QED
  BY <1>2, <1>3, <1>4, <1>5 DEF TypeInv

\* A pair that is issued leaves the server's tables as they should be.
LEMMA IssueTyped ==
  ASSUME ServerOK, NEW u \in Users \cup {NoUser}, NEW revoked, Issue(u, revoked)
  PROVE  ServerOK' /\ minted + 1 \in Pairs /\ minted + 1 \in Tokens
<1>1. minted + 1 \in Pairs /\ minted' \in 0 .. MaxTokens
  BY SessionAssumption DEF ServerOK, Issue, Pairs
<1>2. owner' \in [Pairs -> Users \cup {NoUser}]
  BY <1>1 DEF ServerOK, Issue
<1>3. live' \subseteq Pairs /\ fresh' \subseteq Pairs
  BY <1>1 DEF ServerOK, Issue
<1> QED
  BY <1>1, <1>2, <1>3 DEF ServerOK, Tokens

\* The answer of a call.
LEMMA AnsweredIs ==
  ASSUME NEW c \in Call, NEW a \in Answers, NEW n \in Tokens
  PROVE  /\ Answered(c, a, n) \in Call
         /\ Answered(c, a, n).phase = "answered" /\ Answered(c, a, n).answer = a
         /\ Answered(c, a, n).issued = n /\ Answered(c, a, n).op = c.op
         /\ Answered(c, a, n).as = c.as
BY DEF Answered, Call, Tokens

LEMMA HandleRefreshTypeInv == TypeInv /\ HandleRefresh => TypeInv'
<1> SUFFICES ASSUME TypeInv, HandleRefresh PROVE TypeInv'
  OBVIOUS
<1> DEFINE Reply(answer, n) == refresh' = [refresh EXCEPT !.phase = "answered", !.answer = answer,
                                                         !.issued = n]
<1>1. ClientOK' /\ CallsOK' /\ arriving' = arriving
  BY DEF HandleRefresh, TypeInv, ClientOK, CallsOK, clientVars
<1>2. CASE refresh.token \in live /\ Issue(owner[refresh.token], {refresh.token}) /\ Reply("ok", minted + 1)
  <2>1. owner[refresh.token] \in Users \cup {NoUser}
    BY <1>2 DEF TypeInv, ServerOK
  <2>2. ServerOK' /\ minted + 1 \in Pairs /\ minted + 1 \in Tokens
    BY <1>2, <2>1, IssueTyped DEF TypeInv
  <2> QED
    BY <1>1, <1>2, <2>2 DEF TypeInv, RefreshOK, Refresh
<1>3. CASE UNCHANGED serverVars /\ (Reply("rejected", None) \/ Reply("failed", None))
  BY <1>1, <1>3 DEF TypeInv, ServerOK, RefreshOK, Refresh, serverVars, Tokens
<1> QED
  BY <1>2, <1>3 DEF HandleRefresh

LEMMA ServeTyped ==
  ASSUME TypeInv, NEW q \in Requests, Serve(q)
  PROVE  ServerOK' /\ (req[q].op = "signIn" => minted + 1 \in Tokens)
<1>1. req[q].as \in Users \cup {NoUser}
  BY DEF TypeInv, CallsOK, Call
<1>2. CASE req[q].op = "signIn"
  <2>1. Issue(req[q].as, {})
    BY <1>2 DEF Serve
  <2> QED
    BY <2>1, <1>1, IssueTyped DEF TypeInv
<1>3. CASE req[q].op # "signIn"
  BY <1>3 DEF Serve, Revoke, TypeInv, ServerOK, serverVars
<1> QED
  BY <1>2, <1>3

\* What a call that reaches the server becomes: answered, and by a 401 only if it had no effect.
LEMMA HandleIs ==
  ASSUME TypeInv, NEW q \in Requests, Handle(q)
  PROVE  /\ req[q].phase = "sent"
         /\ \E a \in Answers, n \in {None, minted + 1} :
              /\ req' = [req EXCEPT ![q] = Answered(req[q], a, n)]
              /\ \/ n = None /\ UNCHANGED serverVars /\ UNCHANGED <<effects, spoiled>>
                 \/ /\ Serve(q) /\ a # "unauthorized"
                    /\ effects' = [effects EXCEPT ![q] = IF req[q].op = "read" THEN 0 ELSE @ + 1]
                    /\ n = IF a = "ok" /\ req[q].op = "signIn" THEN minted + 1 ELSE None
                    /\ \/ UNCHANGED spoiled
                       \/ spoiled' = (spoiled \/ req[q].op \in {"signOut", "delete"})
<1>1. req[q].phase = "sent"
  BY DEF Handle
<1> QED
  BY <1>1 DEF Handle, Answers

LEMMA HandleTypeInv == ASSUME TypeInv, NEW q \in Requests, Handle(q) PROVE TypeInv'
<1>1. ClientOK' /\ RefreshOK'
  BY DEF Handle, TypeInv, ClientOK, RefreshOK, clientVars
<1>2. PICK a \in Answers, n \in {None, minted + 1} :
        /\ req' = [req EXCEPT ![q] = Answered(req[q], a, n)]
        /\ \/ n = None /\ UNCHANGED serverVars /\ UNCHANGED <<effects, spoiled>>
           \/ /\ Serve(q) /\ a # "unauthorized"
              /\ effects' = [effects EXCEPT ![q] = IF req[q].op = "read" THEN 0 ELSE @ + 1]
              /\ n = IF a = "ok" /\ req[q].op = "signIn" THEN minted + 1 ELSE None
              /\ \/ UNCHANGED spoiled
                 \/ spoiled' = (spoiled \/ req[q].op \in {"signOut", "delete"})
  BY HandleIs
<1>3. ServerOK' /\ n \in Tokens
  BY <1>2, ServeTyped DEF TypeInv, ServerOK, serverVars, Tokens
<1>4. req' \in [Requests -> Call]
  <2>1. Answered(req[q], a, n) \in Call
    BY <1>3, AnsweredIs DEF TypeInv, CallsOK
  <2> QED
    BY <1>2, <2>1 DEF TypeInv, CallsOK
<1>5. effects' \in [Requests -> Nat] /\ spoiled' \in BOOLEAN
  <2>1. effects' \in [Requests -> Nat]
    BY <1>2 DEF TypeInv, CallsOK
  <2>2. spoiled' \in BOOLEAN
    BY <1>2 DEF TypeInv, CallsOK
  <2> QED
    BY <2>1, <2>2
<1>6. clearing' \in BOOLEAN
  BY DEF Handle, TypeInv, CallsOK
<1> QED
  BY <1>1, <1>3, <1>4, <1>5, <1>6 DEF TypeInv, CallsOK

LEMMA StartTypeInv ==
  ASSUME TypeInv, NEW q \in Requests, NEW op \in Ops, NEW u \in Users \cup {NoUser}, Start(q, op, u)
  PROVE  TypeInv'
<1> DEFINE c == [NoCall EXCEPT !.op = op, !.as = u, !.phase = "sent", !.token = access,
                               !.carries = Cookie(op, jar), !.tries = MAX_RETRIES]
<1>1. Cookie(op, jar) \in Tokens /\ access \in Tokens
  BY DEF Cookie, TypeInv, ClientOK, Tokens
<1>2. c \in Call
  <2> DEFINE b == [NoCall EXCEPT !.op = op, !.as = u, !.phase = "sent"]
  <2>1. b \in Call
    BY BlankTyped DEF Call
  <2>2. c = [b EXCEPT !.token = access, !.carries = Cookie(op, jar), !.tries = MAX_RETRIES]
    OBVIOUS
  <2> HIDE DEF b, c
  <2>3. MAX_RETRIES \in 0 .. MAX_RETRIES
    BY SessionAssumption
  <2>4. [b EXCEPT !.token = access, !.carries = Cookie(op, jar), !.tries = MAX_RETRIES] \in Call
    BY <1>1, <2>1, <2>3 DEF Call
  <2> QED
    BY <2>2, <2>4
<1>3. req' = [req EXCEPT ![q] = c]
  BY Zenon DEF Start
<1>6. UNCHANGED <<serverVars, clientVars, refresh, arriving, clearing, effects, spoiled>>
  BY DEF Start
<1> HIDE DEF c
<1>4. req' \in [Requests -> Call]
  BY <1>2, <1>3 DEF TypeInv, CallsOK
<1>5. CallsOK'
  BY <1>6, <1>4 DEF TypeInv, CallsOK
<1> QED
  BY <1>6, <1>5 DEF TypeInv, ServerOK, ClientOK, RefreshOK, serverVars, clientVars

LEMMA ResumeTypeInv ==
  ASSUME TypeInv, NEW q \in Requests, Unauthorized(q) \/ Retry(q) \/ Lose(q)
  PROVE  TypeInv'
<1>1. ServerOK' /\ ClientOK'
  BY DEF TypeInv, ServerOK, ClientOK, Unauthorized, Retry, Lose, serverVars, clientVars
<1>2. refresh' = refresh \/ refresh' = StartRefresh
  BY DEF Unauthorized, Retry, Lose
<1>3. RefreshOK'
  <2>1. arriving' = arriving
    BY DEF Unauthorized, Retry, Lose
  <2>2. SendRefresh(jar) \in Refresh /\ SendRefresh(jar).phase = "sent"
    BY BlankTyped DEF TypeInv, ClientOK
  <2> QED
    BY <1>2, <2>1, <2>2 DEF TypeInv, RefreshOK, StartRefresh
<1>4. req' \in [Requests -> Call]
  <2>1. [req[q] EXCEPT !.phase = "waiting", !.carries = None] \in Call
    BY DEF TypeInv, CallsOK, Call, Tokens
  <2>2. Answered(req[q], "error", None) \in Call
    BY AnsweredIs DEF TypeInv, CallsOK, Answers, Tokens
  <2>3. CASE Retry(q)
    <3>1. req[q].tries \in 0 .. MAX_RETRIES /\ req[q].tries > 0
      BY <2>3 DEF Retry, MayRetry, TypeInv, CallsOK, Call
    <3>2. req[q].tries - 1 \in 0 .. MAX_RETRIES
      BY <3>1, SessionAssumption
    <3>3. [req[q] EXCEPT !.phase = "sent", !.tries = @ - 1] \in Call
      BY <3>2 DEF TypeInv, CallsOK, Call
    <3> QED
      BY <2>3, <3>3 DEF Retry, TypeInv, CallsOK
  <2> QED
    BY <2>1, <2>2, <2>3 DEF Unauthorized, Lose, TypeInv, CallsOK
<1>5. effects' = effects /\ spoiled' \in BOOLEAN /\ clearing' \in BOOLEAN
  BY DEF Unauthorized, Retry, Lose, TypeInv, CallsOK
<1> QED
  BY <1>1, <1>3, <1>4, <1>5 DEF TypeInv, CallsOK

LEMMA ReceiveTypeInv == ASSUME TypeInv, NEW q \in Requests, Receive(q) PROVE TypeInv'
<1>1. req[q] \in Call /\ Outcome(q)
  BY DEF Receive, TypeInv, CallsOK
<1>2. ClientOK'
  BY <1>1 DEF Outcome, ClearTokens, TypeInv, ClientOK, clientVars, Call, Tokens
<1>3. CallsOK'
  <2>1. req' \in [Requests -> Call]
    BY BlankTyped DEF Receive, TypeInv, CallsOK
  <2>2. effects' \in [Requests -> Nat]
    BY DEF Receive, TypeInv, CallsOK
  <2>3. spoiled' \in BOOLEAN /\ clearing' \in BOOLEAN
    BY DEF Receive, TypeInv, CallsOK
  <2> QED
    BY <2>1, <2>2, <2>3 DEF CallsOK
<1> QED
  BY <1>2, <1>3 DEF Receive, TypeInv, ServerOK, RefreshOK, serverVars

\* What fetchRefreshAndStore leaves in the token store.
LEMMA StoreTyped ==
  ASSUME TypeInv, StoreRefresh(refresh)
  PROVE  access' \in Tokens /\ jar' \in Tokens
BY DEF StoreRefresh, ClearTokens, TypeInv, ClientOK, RefreshOK, Refresh, Tokens

LEMMA DrainTyped ==
  ASSUME TypeInv, access' \in Tokens, jar' \in Tokens, NEW success \in BOOLEAN
  PROVE  Drain(success) \in [Requests -> Call]
<1> SUFFICES ASSUME NEW q \in Requests PROVE Drain(success)[q] \in Call
  BY DEF Drain
<1>1. req[q] \in Call
  BY DEF TypeInv, CallsOK
<1>2. Cookie(req[q].op, jar') \in Tokens /\ access' \in Tokens
  BY <1>1 DEF Cookie, Call, Tokens
<1>3. Again(req[q]) \in Call
  BY <1>1, <1>2 DEF Again, Call
<1>4. [req[q] EXCEPT !.phase = "answered", !.replay = TRUE] \in Call
  BY <1>1 DEF Call
<1> QED
  BY <1>1, <1>3, <1>4 DEF Drain

LEMMA RefreshTypeInv == TypeInv /\ (LoseRefresh \/ FinishRefresh \/ FinishBoot) => TypeInv'
<1> SUFFICES ASSUME TypeInv, LoseRefresh \/ FinishRefresh \/ FinishBoot PROVE TypeInv'
  OBVIOUS
<1>1. ServerOK'
  BY DEF TypeInv, ServerOK, LoseRefresh, FinishRefresh, FinishBoot, serverVars
<1>2. CASE LoseRefresh
  <2>1. ClientOK' /\ CallsOK' /\ RefreshOK'
    BY <1>2 DEF LoseRefresh, TypeInv, ClientOK, CallsOK, RefreshOK, Refresh, clientVars, Tokens
  <2> QED
    BY <1>1, <2>1 DEF TypeInv
<1>3. CASE FinishRefresh
  <2>1. access' \in Tokens /\ jar' \in Tokens
    BY <1>3, StoreTyped DEF FinishRefresh
  <2>2. req' \in [Requests -> Call]
    BY <1>3, <2>1, DrainTyped DEF FinishRefresh
  <2>3. RefreshOK'
    BY <1>3, BlankTyped DEF FinishRefresh, RefreshOK, TypeInv
  <2> QED
    BY <1>1, <1>3, <2>1, <2>2, <2>3 DEF FinishRefresh, TypeInv, ClientOK, CallsOK
<1>4. CASE FinishBoot
  <2>1. access' \in Tokens /\ jar' \in Tokens
    BY <1>4, StoreTyped DEF FinishBoot
  <2>2. user' \in Users \cup {NoUser} /\ status' \in {"authenticated", "unauthenticated"}
    BY <1>4 DEF FinishBoot, TypeInv, ServerOK, RefreshOK
  <2>3. RefreshOK'
    BY <1>4, BlankTyped DEF FinishBoot, RefreshOK, TypeInv
  <2> QED
    BY <1>1, <1>4, <2>1, <2>2, <2>3 DEF FinishBoot, TypeInv, ClientOK, CallsOK
<1> QED
  BY <1>2, <1>3, <1>4

LEMMA PageTypeInv ==
  TypeInv /\ (OtherTab \/ Reload \/ \E t \in Pairs : Expire(t)) => TypeInv'
<1> SUFFICES ASSUME TypeInv, OtherTab \/ Reload \/ \E t \in Pairs : Expire(t)
             PROVE  TypeInv'
  OBVIOUS
<1>1. ASSUME NEW u \in Users \cup {NoUser}, NEW revoked, Issue(u, revoked),
             arriving' = minted + 1, spoiled' \in BOOLEAN,
             UNCHANGED <<clientVars, refresh, clearing, req, effects>>
      PROVE  TypeInv'
  <2>1. ServerOK' /\ minted + 1 \in Tokens
    BY <1>1, IssueTyped DEF TypeInv
  <2> QED
    BY <1>1, <2>1 DEF TypeInv, ClientOK, RefreshOK, CallsOK, clientVars
<1>2. CASE OtherTabRefreshes
  <2>1. owner[jar] \in Users \cup {NoUser} /\ Issue(owner[jar], {jar}) /\ spoiled' \in BOOLEAN
    BY <1>2 DEF OtherTabRefreshes, TypeInv, ServerOK, CallsOK
  <2> QED
    BY <1>1, <1>2, <2>1 DEF OtherTabRefreshes
<1>3. CASE \E u \in Users : OtherTabSignsIn(u)
  <2>1. PICK u \in Users : OtherTabSignsIn(u)
    BY <1>3
  <2>2. spoiled' \in BOOLEAN
    BY <2>1 DEF OtherTabSignsIn, TypeInv, CallsOK
  <2> QED
    BY <1>1, <2>1, <2>2 DEF OtherTabSignsIn
<1>4. CASE \E u \in Users : OtherTabLeaves(u)
  BY <1>4 DEF OtherTabLeaves, Revoke, TypeInv, ServerOK, ClientOK, RefreshOK, CallsOK, clientVars
<1>5. CASE CookieArrives
  BY <1>5 DEF CookieArrives, TypeInv, ServerOK, ClientOK, RefreshOK, CallsOK, serverVars, Tokens
<1>6. CASE CookieCleared
  BY <1>6 DEF CookieCleared, TypeInv, ServerOK, ClientOK, RefreshOK, CallsOK, serverVars, Tokens
<1>7. CASE Reload
  <2>1. BootWith(jar) \in Refresh /\ BootWith(jar).answer = "failed"
    BY BlankTyped DEF TypeInv, ClientOK
  <2>2. RefreshOK'
    BY <1>7, <2>1 DEF Reload, TypeInv, RefreshOK
  <2>3. ClientOK'
    BY <1>7 DEF Reload, TypeInv, ClientOK, Tokens
  <2>4. CallsOK'
    BY <1>7, BlankTyped DEF Reload, TypeInv, CallsOK
  <2> QED
    BY <1>7, <2>2, <2>3, <2>4 DEF Reload, TypeInv, ServerOK, serverVars
<1>8. CASE \E t \in Pairs : Expire(t)
  BY <1>8 DEF Expire, TypeInv, ServerOK, ClientOK, RefreshOK, CallsOK, clientVars
<1> QED
  BY <1>2, <1>3, <1>4, <1>5, <1>6, <1>7, <1>8 DEF OtherTab

LEMMA NextTypeInv == TypeInv /\ [Next]_vars => TypeInv'
<1> SUFFICES ASSUME TypeInv, [Next]_vars PROVE TypeInv'
  OBVIOUS
<1>1. CASE UNCHANGED vars
  BY <1>1 DEF vars, serverVars, clientVars, TypeInv, ServerOK, ClientOK, RefreshOK, CallsOK
<1>2. ASSUME NEW q \in Requests, RequestStep(q) PROVE TypeInv'
  <2>1. CASE Ask(q) \/ SignOut(q) \/ DeleteAccount(q) \/ \E u \in Users : SignIn(q, u)
    <3>1. \E op \in Ops, u \in Users \cup {NoUser} : Start(q, op, u)
      BY <2>1 DEF Ask, SignOut, DeleteAccount, SignIn, Ops
    <3> QED
      BY <3>1, StartTypeInv
  <2> QED
    BY <1>2, <2>1, HandleTypeInv, ResumeTypeInv, ReceiveTypeInv DEF RequestStep
<1> QED
  BY <1>1, <1>2, HandleRefreshTypeInv, RefreshTypeInv, PageTypeInv DEF Next, RefreshStep

\* Every variable of Session keeps its shape, for any number of calls and pairs.
THEOREM TypeCorrect == Spec => []TypeOK
<1>1. TypeInv => TypeOK
  BY DEF TypeInv, ServerOK, ClientOK, RefreshOK, CallsOK, TypeOK
<1> QED
  BY <1>1, InitTypeInv, NextTypeInv, PTL DEF Spec

-----------------------------------------------------------------------------
(* One effect.  A call that has had its effect is answered, and by         *)
(* anything but a 401; only a 401 is waited for and sent again, and only a *)
(* read is retried.                                                        *)

EffectOK ==
  \A q \in Requests :
    /\ effects[q] \in {0, 1}
    /\ effects[q] = 1 => /\ req[q].op # "read" /\ req[q].phase = "answered"
                         /\ req[q].answer # "unauthorized"

LEMMA InitEffect == Init => EffectOK
BY DEF Init, EffectOK

LEMMA NextEffect == TypeInv /\ EffectOK /\ [Next]_vars => EffectOK'
<1> SUFFICES ASSUME TypeInv, EffectOK, [Next]_vars, NEW p \in Requests
             PROVE  /\ effects'[p] \in {0, 1}
                    /\ effects'[p] = 1 => /\ req'[p].op # "read" /\ req'[p].phase = "answered"
                                          /\ req'[p].answer # "unauthorized"
  BY DEF EffectOK
<1> USE DEF TypeInv, CallsOK, EffectOK
<1> DEFINE Kept == /\ effects'[p] \in {0, 1}
                   /\ effects'[p] = 1 => /\ req'[p].op # "read" /\ req'[p].phase = "answered"
                                         /\ req'[p].answer # "unauthorized"
<1>1. CASE UNCHANGED <<req, effects>>
  BY <1>1
<1>2. ASSUME NEW q \in Requests, RequestStep(q) PROVE Kept
  <2>1. CASE Ask(q) \/ SignOut(q) \/ DeleteAccount(q) \/ \E u \in Users : SignIn(q, u)
    <3>1. PICK op, u : Start(q, op, u)
      BY <2>1 DEF Ask, SignOut, DeleteAccount, SignIn
    <3>2. req[q].phase = "idle" /\ effects' = effects
      BY <3>1 DEF Start
    <3>3. p # q => req'[p] = req[p]
      BY <3>1 DEF Start
    <3> QED
      BY <3>2, <3>3
  <2>2. CASE Handle(q)
    <3> HIDE DEF TypeInv
    <3>0. PICK a \in Answers, n \in {None, minted + 1} :
            /\ req' = [req EXCEPT ![q] = Answered(req[q], a, n)]
            /\ \/ n = None /\ UNCHANGED serverVars /\ UNCHANGED <<effects, spoiled>>
               \/ /\ Serve(q) /\ a # "unauthorized"
                  /\ effects' = [effects EXCEPT ![q] = IF req[q].op = "read" THEN 0 ELSE @ + 1]
                  /\ n = IF a = "ok" /\ req[q].op = "signIn" THEN minted + 1 ELSE None
                  /\ \/ UNCHANGED spoiled
                     \/ spoiled' = (spoiled \/ req[q].op \in {"signOut", "delete"})
      BY <2>2, HandleIs
    <3> USE DEF TypeInv
    <3>1. /\ req' = [req EXCEPT ![q] = Answered(req[q], a, n)]
          /\ \/ effects' = effects
             \/ /\ a # "unauthorized"
                /\ effects' = [effects EXCEPT ![q] = IF req[q].op = "read" THEN 0 ELSE @ + 1]
      BY <3>0
    <3>2. effects[q] = 0
      <4>1. req[q].phase = "sent"
        BY <2>2, HandleIs
      <4> QED
        BY <4>1
    <3>3. CASE p # q
      BY <3>1, <3>3
    <3>4. CASE p = q
      <4>1. req'[q].phase = "answered" /\ req'[q].answer = a /\ req'[q].op = req[q].op
        <5>1. req[q] \in Call /\ a \in Answers /\ n \in Tokens
          <6>1. n \in Tokens
            BY <3>0, ServeTyped DEF Tokens
          <6> QED
            BY <6>1
        <5> QED
          BY <3>1, <5>1, AnsweredIs
      <4>2. CASE effects' = effects
        BY <4>2, <3>2, <3>4 DEF Kept
      <4>3. CASE a # "unauthorized" /\ effects'[q] = IF req[q].op = "read" THEN 0 ELSE effects[q] + 1
        BY <4>1, <4>3, <3>2, <3>4
      <4> QED
        BY <3>1, <4>2, <4>3
    <3> QED
      BY <3>3, <3>4
  <2>3. CASE Unauthorized(q)
    BY <2>3 DEF Unauthorized
  <2>4. CASE Retry(q)
    BY <2>4 DEF Retry, MayRetry
  <2>5. CASE Receive(q)
    BY <2>5 DEF Receive
  <2>6. CASE Lose(q)
    <3>1. /\ Answered(req[q], "error", None).phase = "answered"
          /\ Answered(req[q], "error", None).answer = "error"
          /\ Answered(req[q], "error", None).op = req[q].op
      BY AnsweredIs DEF Answers, Tokens
    <3> QED
      BY <2>6, <3>1 DEF Lose
  <2> QED
    BY <1>2, <2>1, <2>2, <2>3, <2>4, <2>5, <2>6 DEF RequestStep
<1>3. CASE FinishRefresh
  <2>1. effects' = effects /\ req'[p] = Drain(refresh.answer = "ok")[p]
    BY <1>3 DEF FinishRefresh
  <2>2. CASE req[p].phase = "waiting"
    BY <2>1, <2>2
  <2>3. CASE req[p].phase # "waiting"
    BY <2>1, <2>3 DEF Drain
  <2> QED
    BY <2>2, <2>3
<1>4. CASE Reload
  BY <1>4 DEF Reload
<1> QED
  BY <1>1, <1>2, <1>3, <1>4
     DEF Next, RefreshStep, HandleRefresh, LoseRefresh, FinishBoot, OtherTab, OtherTabRefreshes,
         OtherTabSignsIn, OtherTabLeaves, CookieArrives, CookieCleared, Expire, vars

\* A call that changes something is carried out at most once, however often it is
\* sent (client.ts:241): for any number of calls, retries and refreshes.
THEOREM WriteIsOnce == Spec => []WriteOnce
<1>1. EffectOK => WriteOnce
  BY DEF EffectOK, WriteOnce
<1> QED
  BY <1>1, InitTypeInv, NextTypeInv, InitEffect, NextEffect, PTL DEF Spec

-----------------------------------------------------------------------------
(* No lost wake-up.  Nobody waits while the page loads, because nothing    *)
(* was asked yet; afterwards a refresh ends only in FinishRefresh, which   *)
(* tells everybody who waits.                                              *)

Quiet == \A q \in Requests : req[q].phase = "idle"

WakeInv == WaitersHaveRefresh /\ (status = "loading" => Quiet)

LEMMA InitWake == Init => WakeInv
BY BlankTyped DEF Init, WakeInv, WaitersHaveRefresh, Waiting, Quiet

LEMMA NextWake == TypeInv /\ WakeInv /\ [Next]_vars => WakeInv'
<1> SUFFICES ASSUME TypeInv, WakeInv, [Next]_vars PROVE WakeInv'
  OBVIOUS
<1> USE DEF WakeInv, WaitersHaveRefresh, Waiting, Quiet
<1>1. CASE UNCHANGED <<req, status>> /\ (refresh'.phase = "idle" => refresh.phase = "idle")
  BY <1>1
<1>2. ASSUME NEW q \in Requests, RequestStep(q) PROVE WakeInv'
  <2>1. CASE Ask(q) \/ SignOut(q) \/ DeleteAccount(q) \/ \E u \in Users : SignIn(q, u)
    <3>1. status # "loading" /\ UNCHANGED <<status, refresh>>
      BY <2>1 DEF Ask, SignOut, DeleteAccount, SignIn, Start, clientVars
    <3>2. ASSUME NEW r \in Requests, req'[r].phase = "waiting" PROVE req[r].phase = "waiting"
      <4>1. PICK op, u : Start(q, op, u)
        BY <2>1 DEF Ask, SignOut, DeleteAccount, SignIn
      <4>2. r # q => req'[r] = req[r]
        BY <4>1 DEF Start, TypeInv, CallsOK
      <4>3. r = q => req'[r].phase = "sent"
        BY <4>1 DEF Start, NoCall, TypeInv, CallsOK
      <4> QED
        BY <3>2, <4>2, <4>3
    <3> QED
      BY <3>1, <3>2
  <2>2. CASE Unauthorized(q)
    <3>1. refresh'.phase # "idle"
      BY <2>2, BlankTyped DEF Unauthorized, StartRefresh, TypeInv, ClientOK
    <3>2. status' = status /\ status # "loading"
      BY <2>2 DEF Unauthorized, clientVars
    <3> QED
      BY <3>1, <3>2
  <2>3. CASE Handle(q) \/ Retry(q) \/ Lose(q) \/ Receive(q)
    <3>1. refresh' = refresh /\ req[q].phase # "idle"
      BY <2>3 DEF Handle, Retry, Lose, Receive
    <3>2. \A r \in Requests : req'[r].phase = "waiting" => req[r].phase = "waiting"
      <4> SUFFICES ASSUME NEW r \in Requests PROVE r = q => req'[r].phase # "waiting"
        <5>1. ASSUME NEW r \in Requests, r # q PROVE req'[r] = req[r]
          BY <2>3, <5>1 DEF Handle, Retry, Lose, Receive, TypeInv, CallsOK
        <5> QED
          BY <5>1
      <4>1. CASE Handle(q)
        <5>1. PICK a \in Answers, n \in {None, minted + 1} :
                req' = [req EXCEPT ![q] = Answered(req[q], a, n)]
          BY <4>1, Zenon DEF Handle, Answers
        <5> QED
          BY <5>1 DEF Answered, TypeInv, CallsOK, Call
      <4>2. CASE Retry(q) \/ Lose(q)
        <5>1. req[q] \in Call
          BY DEF TypeInv, CallsOK
        <5>2. CASE Retry(q)
          BY <5>1, <5>2 DEF Retry, TypeInv, CallsOK, Call
        <5>3. CASE Lose(q)
          BY <5>1, <5>3 DEF Lose, Answered, TypeInv, CallsOK, Call
        <5> QED
          BY <4>2, <5>2, <5>3
      <4>3. CASE Receive(q)
        BY <4>3, BlankTyped DEF Receive, TypeInv, CallsOK
      <4> QED
        BY <2>3, <4>1, <4>2, <4>3
    <3>3. status' # "loading"
      <4>1. status # "loading"
        BY <3>1
      <4> QED
        BY <2>3, <4>1 DEF Handle, Retry, Lose, Receive, Outcome, clientVars
    <3> QED
      BY <3>1, <3>2, <3>3
  <2> QED
    BY <1>2, <2>1, <2>2, <2>3 DEF RequestStep
<1>3. CASE FinishRefresh
  <2>1. \A q \in Requests : req'[q].phase # "waiting"
    <3> SUFFICES ASSUME NEW success \in BOOLEAN, NEW q \in Requests
                 PROVE  Drain(success)[q].phase # "waiting"
      BY <1>3 DEF FinishRefresh
    <3>1. req[q] \in Call
      BY DEF TypeInv, CallsOK
    <3>2. Again(req[q]).phase = "sent"
      BY <3>1 DEF Again, Call
    <3>3. [req[q] EXCEPT !.phase = "answered", !.replay = TRUE].phase = "answered"
      BY <3>1 DEF Call
    <3> QED
      BY <3>2, <3>3 DEF Drain
  <2>2. status' # "loading"
    BY <1>3 DEF FinishRefresh
  <2> QED
    BY <2>1, <2>2
<1>4. CASE FinishBoot
  BY <1>4 DEF FinishBoot
<1>5. CASE Reload
  BY <1>5, BlankTyped DEF Reload
<1>6. CASE HandleRefresh \/ LoseRefresh
  BY <1>1, <1>6 DEF HandleRefresh, LoseRefresh, clientVars, TypeInv, RefreshOK, Refresh
<1>7. CASE OtherTab \/ \E t \in Pairs : Expire(t)
  BY <1>1, <1>7 DEF OtherTab, OtherTabRefreshes, OtherTabSignsIn, OtherTabLeaves, CookieArrives,
                    CookieCleared, Expire, clientVars
<1> QED
  BY <1>1, <1>2, <1>3, <1>4, <1>5, <1>6, <1>7 DEF Next, RefreshStep, vars, clientVars

\* Whoever waits for a refresh has one under way, whatever calls, reloads and lost
\* answers come together: the queue of client.ts:36-49 forgets nobody.
THEOREM NobodyWaitsForNothing == Spec => []WaitersHaveRefresh
<1>1. WakeInv => WaitersHaveRefresh
  BY DEF WakeInv
<1> QED
  BY <1>1, InitTypeInv, NextTypeInv, InitWake, NextWake, PTL DEF Spec

-----------------------------------------------------------------------------
(* The session is kept.  A token is in one place at a time: with the       *)
(* client, on its way to it, or on its way to the browser by another tab.  *)
(* Of the client's token and those on their way at least one is live, and  *)
(* all are of one user, until the end of the session has been decided at   *)
(* the server or something was lost.                                       *)

\* A sign-in that brings a new pair, and a sign-out or deletion that was carried out.
Signed(c) == c.op = "signIn" /\ c.phase = "answered" /\ c.answer = "ok"
Ending(c) == c.op \in {"signOut", "delete"} /\ c.phase = "answered" /\ c.answer = "ok"

Ended == \E q \in Requests : Ending(req[q])

\* Only a 401 waits for a refresh, and only a sign-in brings a pair.
CallForm(c) ==
  /\ c.phase = "waiting" => c.answer = "unauthorized"
  /\ c.issued # None => c.op = "signIn"
  /\ Signed(c) => c.issued # None

CallForms ==
  \A q \in Requests : /\ CallForm(req[q])
                      /\ req[q].issued # None => owner[req[q].issued] = req[q].as

\* A rotation brings a pair of the user whose token was presented; only a browser has tabs.
RefreshForm ==
  /\ refresh.phase = "idle" => refresh = NoRefresh
  /\ refresh.answer = "ok" <=> refresh.issued # None
  /\ refresh.answer # "failed" => refresh.phase = "answered"
  /\ refresh.issued # None =>
       refresh.token # None /\ owner[refresh.issued] = owner[refresh.token]
  /\ ~Web => arriving = None

\* Every token in use was issued.
Known ==
  /\ live \subseteq 1 .. minted
  /\ access \in 0 .. minted /\ jar \in 0 .. minted /\ arriving \in 0 .. minted
  /\ refresh.token \in 0 .. minted /\ refresh.issued \in 0 .. minted
  /\ \A q \in Requests : req[q].issued \in 0 .. minted

\* A pair on its way is not in use yet, and not on its way twice.
Apart ==
  /\ arriving # None => arriving \notin {jar, refresh.token, refresh.issued}
  /\ refresh.issued # None => refresh.issued # jar
  /\ \A q \in Requests : req[q].issued # None =>
       /\ req[q].issued \notin {jar, arriving, refresh.token, refresh.issued}
       /\ \A p \in Requests \ {q} : req[p].issued # req[q].issued

\* The tokens this browser or device can present, now or when the answers are in.
Held == {jar, arriving, refresh.token, refresh.issued} \ {None}

OneOwner ==
  /\ \A s, t \in Held : owner[s] = owner[t]
  /\ status = "authenticated" => \A t \in Held \cup ({access} \ {None}) : owner[t] = user

\* A live token is there or on its way, and what is on its way is live.  On native, where no
\* other tab interferes, that holds before the sign-in too, and a refresh that was not
\* answered presents a live token.
Alive ==
  /\ status = "authenticated" => jar # None
  /\ jar # None /\ (~Web \/ status = "authenticated") => jar \in live \/ arriving # None \/ refresh.issued # None
  /\ arriving # None => arriving \in live
  /\ refresh.issued # None => refresh.issued \in live
  /\ \A q \in Requests : Signed(req[q]) => req[q].issued \in live
  /\ ~Web /\ refresh.token # None =>
       refresh.issued # None \/ (refresh.token \in live /\ refresh.answer # "rejected")
  /\ ~Web /\ status = "authenticated" /\ refresh.phase # "idle" => refresh.token # None

Form == CallForms /\ RefreshForm /\ Known /\ Apart

KeptInv == Form /\ (~spoiled => OneOwner /\ (Ended \/ Alive))

\* Whoever leaves in another tab has ended the session of this page.
Cleared == clearing => spoiled

\* Everything the steps below rely on.
Base == TypeInv /\ WakeInv /\ Cleared /\ KeptInv

LEMMA RefreshParts ==
  /\ NoRefresh.phase = "idle" /\ NoRefresh.token = None /\ NoRefresh.answer = "failed"
  /\ NoRefresh.issued = None
  /\ \A t : /\ SendRefresh(t).phase = "sent" /\ SendRefresh(t).token = t
            /\ SendRefresh(t).answer = "failed" /\ SendRefresh(t).issued = None
BY DEF NoRefresh, SendRefresh

LEMMA NoCallForm ==
  /\ CallForm(NoCall) /\ ~Signed(NoCall) /\ ~Ending(NoCall) /\ NoCall.issued = None
  /\ NoCall.phase = "idle" /\ NoCall.op = "read"
BY DEF NoCall, CallForm, Signed, Ending, None

LEMMA InitKept == Init => KeptInv
<1> SUFFICES ASSUME NEW signedIn \in BOOLEAN, NEW u \in Users,
                    minted = IF signedIn THEN 1 ELSE 0,
                    owner = [t \in Pairs |-> IF t = 1 /\ signedIn THEN u ELSE NoUser],
                    live = 1 .. minted, status = "loading", access = None, jar = minted,
                    refresh = BootWith(minted), arriving = None,
                    req = [q \in Requests |-> NoCall]
             PROVE  KeptInv
  BY DEF Init
<1>1. \A q \in Requests : req[q] = NoCall
  OBVIOUS
<1>2. /\ refresh.phase # "idle" /\ refresh.answer = "failed" /\ refresh.issued = None
      /\ refresh.token = jar \/ refresh.token = None
      /\ ~Web /\ jar # None => refresh.token = jar
  BY RefreshParts DEF BootWith, NoRefresh
<1>3. jar \in 0 .. minted /\ (jar # None => jar \in live)
  BY DEF None
<1>4. Form
  BY <1>1, <1>2, <1>3, NoCallForm DEF Form, CallForms, RefreshForm, Known, Apart, None
<1>5. OneOwner
  BY <1>2 DEF OneOwner, Held
<1>6. Alive
  BY <1>1, <1>2, <1>3, NoCallForm DEF Alive
<1> QED
  BY <1>4, <1>5, <1>6 DEF KeptInv

\* A step of one call that brings nothing and ends nothing; it may start a refresh.
LEMMA MovedKept ==
  ASSUME Base, NEW q \in Requests, NEW d \in Call, req' = [req EXCEPT ![q] = d],
         CallForm(d), ~Signed(d), ~Ending(d),
         d.issued # None => d.issued = req[q].issued /\ d.as = req[q].as,
         Signed(req[q]) \/ Ending(req[q]) => spoiled', spoiled => spoiled',
         UNCHANGED <<minted, owner, live, status, user, access, jar, arriving>>,
         refresh' = refresh \/ refresh' = StartRefresh
  PROVE  KeptInv'
<1>1. /\ req'[q] = d /\ \A p \in Requests : p # q => req'[p] = req[p]
      /\ \A p \in Requests : req'[p].issued # None =>
           req'[p].issued = req[p].issued /\ req'[p].as = req[p].as
      /\ \A p \in Requests : Signed(req'[p]) => req'[p] = req[p]
      /\ ~spoiled' => (Ended => Ended')
  <2>1. req'[q] = d /\ \A p \in Requests : p # q => req'[p] = req[p]
    BY DEF Base, TypeInv, CallsOK
  <2>2. \A p \in Requests : req'[p].issued # None =>
           req'[p].issued = req[p].issued /\ req'[p].as = req[p].as
    BY <2>1
  <2>3. \A p \in Requests : Signed(req'[p]) => req'[p] = req[p]
    BY <2>1
  <2>4. ASSUME ~spoiled', Ended PROVE Ended'
    <3>1. PICK p \in Requests : Ending(req[p])
      BY <2>4 DEF Ended
    <3>2. p # q
      BY <2>4, <3>1
    <3> QED
      BY <2>1, <3>1, <3>2 DEF Ended
  <2> QED
    BY <2>1, <2>2, <2>3, <2>4
<1>2. \/ refresh' = refresh
      \/ /\ refresh.issued = None /\ refresh.token = None
         /\ refresh'.phase = "sent" /\ refresh'.token = jar /\ refresh'.answer = "failed"
         /\ refresh'.issued = None
  BY RefreshParts DEF StartRefresh, Base, KeptInv, Form, RefreshForm
<1>3. Form /\ jar \in 0 .. minted /\ 0 \in 0 .. minted
  BY DEF Base, KeptInv, Form, Known, TypeInv, ServerOK
<1>4. CallForms'
  BY <1>1, <1>3 DEF Form, CallForms
<1>5. RefreshForm'
  BY <1>2, <1>3 DEF Form, RefreshForm
<1>6. Known'
  <2>1. \A p \in Requests : req'[p].issued \in 0 .. minted
    BY <1>1, <1>3 DEF Form, Known, None
  <2> QED
    BY <1>2, <1>3, <2>1 DEF Form, Known, None
<1>7. Apart'
  BY <1>1, <1>2, <1>3 DEF Form, Apart
<1>8. ASSUME ~spoiled' PROVE OneOwner'
  <2>1. OneOwner /\ Held' \subseteq Held
    BY <1>2, <1>8 DEF Base, KeptInv, Held
  <2> QED
    BY <2>1 DEF OneOwner
<1>9. ASSUME ~spoiled', ~Ended' PROVE Alive'
  <2>1. Alive
    BY <1>1, <1>9 DEF Base, KeptInv
  <2> QED
    BY <1>1, <1>2, <1>3, <2>1 DEF Alive, Form, RefreshForm
<1> QED
  BY <1>4, <1>5, <1>6, <1>7, <1>8, <1>9 DEF KeptInv, Form
LEMMA StartKept ==
  ASSUME Base, NEW q \in Requests, NEW op \in Ops, NEW u \in Users \cup {NoUser}, Start(q, op, u)
  PROVE  KeptInv'
<1> DEFINE d == [NoCall EXCEPT !.op = op, !.as = u, !.phase = "sent", !.token = access,
                               !.carries = Cookie(op, jar), !.tries = MAX_RETRIES]
<1>1. /\ req' = [req EXCEPT ![q] = d]
      /\ UNCHANGED <<serverVars, clientVars, refresh, arriving, clearing, effects, spoiled>>
  BY Zenon DEF Start
<1>2. d.phase = "sent" /\ d.issued = None
  BY DEF NoCall
<1>3. d \in Call
  <2>1. req' \in [Requests -> Call]
    BY StartTypeInv DEF Base, TypeInv, CallsOK
  <2> HIDE DEF d
  <2>2. req'[q] = d
    BY <1>1 DEF Base, TypeInv, CallsOK
  <2> QED
    BY <2>1, <2>2
<1>4. req[q].phase = "idle"
  BY DEF Start
<1> HIDE DEF d
<1>5. CallForm(d) /\ ~Signed(d) /\ ~Ending(d) /\ ~Signed(req[q]) /\ ~Ending(req[q])
  BY <1>2, <1>4 DEF CallForm, Signed, Ending
<1>6. UNCHANGED <<minted, owner, live, status, user, access, jar, arriving, refresh, spoiled>>
  BY <1>1 DEF serverVars, clientVars
<1>7. req' = [req EXCEPT ![q] = d]
  BY <1>1
<1> QED
  BY <1>2, <1>3, <1>5, <1>6, <1>7, MovedKept

LEMMA ResumeKept ==
  ASSUME Base, NEW q \in Requests, Unauthorized(q) \/ Retry(q) \/ Lose(q)
  PROVE  KeptInv'
<1>1. /\ req[q] \in Call /\ CallForm(req[q])
      /\ req \in [Requests -> Call] /\ req' \in [Requests -> Call]
  <2>1. TypeInv'
    BY ResumeTypeInv DEF Base
  <2> QED
    BY <2>1 DEF Base, TypeInv, CallsOK, KeptInv, Form, CallForms
<1>2. UNCHANGED <<minted, owner, live, status, user, access, jar, arriving>>
  BY DEF Unauthorized, Retry, Lose, serverVars, clientVars
<1>3. CASE Unauthorized(q)
  <2> DEFINE d == [req[q] EXCEPT !.phase = "waiting", !.carries = None]
  <2>1. req' = [req EXCEPT ![q] = d] /\ refresh' = StartRefresh /\ spoiled' = spoiled
    BY <1>3 DEF Unauthorized
  <2>2. /\ d.phase = "waiting" /\ d.answer = req[q].answer /\ d.op = req[q].op
        /\ d.issued = req[q].issued /\ d.as = req[q].as
    BY <1>1 DEF Call
  <2>3. req[q].answer = "unauthorized"
    BY <1>3 DEF Unauthorized
  <2>4. d \in Call
    BY <1>1, <2>1
  <2> HIDE DEF d
  <2>5. CallForm(d) /\ ~Signed(d) /\ ~Ending(d) /\ ~Signed(req[q]) /\ ~Ending(req[q])
    BY <1>1, <2>2, <2>3 DEF CallForm, Signed, Ending
  <2> QED
    BY <1>2, <2>1, <2>2, <2>4, <2>5, MovedKept
<1>4. CASE Retry(q)
  <2> DEFINE d == [req[q] EXCEPT !.phase = "sent", !.tries = @ - 1]
  <2>1. req' = [req EXCEPT ![q] = d] /\ refresh' = refresh /\ spoiled' = spoiled
    BY <1>4 DEF Retry
  <2>2. /\ d.phase = "sent" /\ d.op = req[q].op
        /\ d.issued = req[q].issued /\ d.as = req[q].as
    BY <1>1 DEF Call
  <2>3. req[q].answer = "busy"
    BY <1>4 DEF Retry, MayRetry
  <2>4. d \in Call
    BY <1>1, <2>1
  <2> HIDE DEF d
  <2>5. CallForm(d) /\ ~Signed(d) /\ ~Ending(d) /\ ~Signed(req[q]) /\ ~Ending(req[q])
    BY <1>1, <2>2, <2>3 DEF CallForm, Signed, Ending
  <2> QED
    BY <1>2, <2>1, <2>2, <2>4, <2>5, MovedKept
<1>5. CASE Lose(q)
  <2> DEFINE d == Answered(req[q], "error", None)
  <2>1. /\ req' = [req EXCEPT ![q] = d] /\ refresh' = refresh
        /\ spoiled' = (spoiled \/ (req[q].phase = "answered" /\ req[q].op \notin {"read", "write"}))
    BY <1>5 DEF Lose
  <2>2. /\ d.phase = "answered" /\ d.answer = "error" /\ d.op = req[q].op
        /\ d.issued = None /\ d.as = req[q].as /\ d \in Call
    BY <1>1, AnsweredIs DEF Answers, Tokens
  <2>4. d \in Call
    BY <2>2
  <2> HIDE DEF d
  <2>5. CallForm(d) /\ ~Signed(d) /\ ~Ending(d)
    BY <1>1, <2>2 DEF CallForm, Signed, Ending
  <2>6. (Signed(req[q]) \/ Ending(req[q]) => spoiled') /\ (spoiled => spoiled')
    <3>1. Signed(req[q]) \/ Ending(req[q]) =>
            req[q].phase = "answered" /\ req[q].op \notin {"read", "write"}
      BY DEF Signed, Ending
    <3> QED
      BY <2>1, <3>1
  <2> QED
    BY <1>2, <2>1, <2>2, <2>4, <2>5, <2>6, MovedKept
<1> QED
  BY <1>3, <1>4, <1>5

\* What issuing a pair changes.
LEMMA IssueIs ==
  ASSUME ServerOK, NEW u \in Users \cup {NoUser}, NEW revoked, Issue(u, revoked)
  PROVE  /\ minted \in Nat /\ minted' = minted + 1 /\ minted + 1 # None
         /\ owner'[minted + 1] = u /\ \A t \in 1 .. minted : owner'[t] = owner[t]
         /\ live' = (live \ revoked) \cup {minted + 1}
<1>1. minted \in Nat /\ minted + 1 \in Pairs /\ minted + 1 # None
  BY SessionAssumption DEF ServerOK, Issue, Pairs, None
<1> QED
  BY <1>1 DEF ServerOK, Issue, Pairs

\* A call that the server carried out.
LEMMA ServeKept ==
  ASSUME Base, NEW q \in Requests, req[q].phase = "sent", NEW d \in Call,
         req' = [req EXCEPT ![q] = d], d.op = req[q].op, d.as = req[q].as, d.phase = "answered",
         Serve(q), d.issued = IF d.answer = "ok" /\ d.op = "signIn" THEN minted + 1 ELSE None,
         spoiled \/ (d.op \in {"signOut", "delete"} /\ d.answer # "ok") => spoiled',
         UNCHANGED <<status, user, access, jar, arriving, refresh>>
  PROVE  KeptInv'
<1>1. /\ req'[q] = d /\ \A p \in Requests : p # q => req'[p] = req[p]
      /\ ~Signed(req[q]) /\ ~Ending(req[q]) /\ Form /\ ServerOK
  BY DEF Base, TypeInv, CallsOK, Signed, Ending, KeptInv
<1>2. CASE d.op \in {"signOut", "delete"}
  <2>1. live' \subseteq live /\ UNCHANGED <<minted, owner>>
    BY <1>2 DEF Serve, Revoke
  <2>2. d.issued = None /\ ~Signed(d) /\ CallForm(d)
    BY <1>2 DEF Signed, CallForm
  <2>3. Form'
    <3>1. /\ \A p \in Requests : CallForm(req'[p])
          /\ \A p \in Requests : req'[p].issued # None => req'[p] = req[p]
      BY <1>1, <2>2 DEF Form, CallForms
    <3>2. CallForms'
      BY <1>1, <2>1, <3>1 DEF Form, CallForms
    <3>3. RefreshForm'
      BY <1>1, <2>1 DEF Form, RefreshForm
    <3>4. Known'
      <4>1. 0 \in 0 .. minted
        BY <1>1 DEF ServerOK
      <4>2. \A p \in Requests : req'[p].issued \in 0 .. minted
        BY <1>1, <2>2, <4>1 DEF Form, Known, None
      <4> QED
        BY <1>1, <2>1, <4>2 DEF Form, Known
    <3>5. Apart'
      BY <1>1, <3>1 DEF Form, Apart
    <3> QED
      BY <3>2, <3>3, <3>4, <3>5 DEF Form
  <2>4. ASSUME ~spoiled' PROVE OneOwner' /\ Ended'
    <3>1. Ending(d)
      BY <2>4, <1>2 DEF Ending
    <3>2. OneOwner /\ Held' = Held
      BY <2>4 DEF Base, KeptInv, Held
    <3>3. OneOwner'
      BY <2>1, <3>2 DEF OneOwner
    <3> QED
      BY <1>1, <3>1, <3>3 DEF Ended
  <2> QED
    BY <2>3, <2>4 DEF KeptInv
<1>3. CASE d.op \in {"read", "write"}
  <2>1. UNCHANGED <<minted, owner, live>>
    BY <1>3 DEF Serve, serverVars
  <2>2. d.issued = None /\ ~Signed(d) /\ ~Ending(d) /\ CallForm(d)
    BY <1>3 DEF Signed, Ending, CallForm
  <2> QED
    BY <1>1, <2>1, <2>2, MovedKept
<1>4. CASE d.op = "signIn"
  <2>0. d.as \in Users \cup {NoUser} /\ Issue(d.as, {})
    BY <1>4 DEF Serve, Call
  <2>1. /\ minted \in Nat /\ minted' = minted + 1 /\ minted + 1 # None
        /\ owner'[minted + 1] = d.as /\ \A t \in 1 .. minted : owner'[t] = owner[t]
        /\ live' = live \cup {minted + 1}
    <3>1. ServerOK
      BY <1>1
    <3>2. (live \ {}) \cup {minted + 1} = live \cup {minted + 1}
      OBVIOUS
    <3> QED
      BY <2>0, <3>1, <3>2, IssueIs
  <2>2. /\ CallForm(d) /\ ~Ending(d) /\ d.issued \in {None, minted + 1}
        /\ Signed(d) => d.issued = minted + 1
    BY <1>4, <2>1 DEF CallForm, Signed, Ending
  <2>3. CallForms'
    <3>1. \A p \in Requests : req[p].issued # None => req[p].issued \in 1 .. minted
      BY <1>1 DEF Form, Known, None
    <3> QED
      BY <1>1, <2>1, <2>2, <3>1 DEF Form, CallForms
  <2>4. RefreshForm'
    <3>1. refresh.issued # None /\ refresh.token # None =>
            refresh.issued \in 1 .. minted /\ refresh.token \in 1 .. minted
      BY <1>1 DEF Form, Known, None
    <3> QED
      BY <1>1, <2>1, <3>1 DEF Form, RefreshForm
  <2>5. Known'
    <3>1. \A p \in Requests : req'[p].issued \in 0 .. (minted + 1)
      BY <1>1, <2>1, <2>2 DEF Form, Known, None
    <3> QED
      BY <1>1, <2>1, <3>1 DEF Form, Known
  <2>6. Apart'
    <3>1. /\ minted + 1 \notin {jar, arriving, refresh.token, refresh.issued}
          /\ \A p \in Requests : req[p].issued # minted + 1
      BY <1>1, <2>1 DEF Form, Known
    <3> QED
      BY <1>1, <2>2, <3>1 DEF Form, Apart
  <2>7. ASSUME ~spoiled' PROVE OneOwner'
    <3>1. OneOwner /\ Held' = Held /\ Held \subseteq 1 .. minted
      BY <1>1, <2>7 DEF Base, KeptInv, Held, Form, Known, None
    <3>2. {access} \ {None} \subseteq 1 .. minted
      BY <1>1 DEF Form, Known, None
    <3> QED
      BY <2>1, <3>1, <3>2 DEF OneOwner
  <2>8. ASSUME ~spoiled', ~Ended' PROVE Alive'
    <3>1. ~Ended
      BY <1>1, <2>8 DEF Ended
    <3>2. Alive
      BY <2>8, <3>1 DEF Base, KeptInv
    <3> QED
      BY <1>1, <2>1, <2>2, <3>2 DEF Alive
  <2> QED
    BY <2>3, <2>4, <2>5, <2>6, <2>7, <2>8 DEF KeptInv, Form
<1> QED
  BY <1>2, <1>3, <1>4 DEF Call, Ops

LEMMA HandleKept == ASSUME Base, NEW q \in Requests, Handle(q) PROVE KeptInv'
<1> DEFINE Reply(a, n) == req' = [req EXCEPT ![q] = Answered(req[q], a, n)]
<1>1. /\ req[q].phase = "sent" /\ req[q] \in Call /\ req \in [Requests -> Call]
      /\ UNCHANGED <<status, user, access, jar, arriving, refresh>>
  BY DEF Handle, Base, TypeInv, CallsOK, clientVars
<1>2. \/ /\ \E a \in {"unauthorized", "busy", "error"} : Reply(a, None)
         /\ UNCHANGED <<serverVars, spoiled>>
      \/ /\ Serve(q) /\ UNCHANGED spoiled
         /\ Reply("ok", IF req[q].op = "signIn" THEN minted + 1 ELSE None)
      \/ /\ Serve(q) /\ Reply("busy", None)
         /\ spoiled' = (spoiled \/ req[q].op \in {"signOut", "delete"})
  BY DEF Handle
<1>3. TypeInv' /\ req' \in [Requests -> Call]
  BY HandleTypeInv DEF Base, TypeInv, CallsOK
<1>4. ASSUME NEW a, NEW n, Reply(a, n)
      PROVE  /\ req' = [req EXCEPT ![q] = Answered(req[q], a, n)] /\ Answered(req[q], a, n) \in Call
             /\ Answered(req[q], a, n).phase = "answered" /\ Answered(req[q], a, n).answer = a
             /\ Answered(req[q], a, n).issued = n /\ Answered(req[q], a, n).op = req[q].op
             /\ Answered(req[q], a, n).as = req[q].as
  <2>1. req'[q] = Answered(req[q], a, n)
    BY <1>1, <1>4
  <2>2. Answered(req[q], a, n) \in Call
    BY <1>3, <2>1
  <2> QED
    BY <1>1, <1>4, <2>2 DEF Answered, Call
<1>5. CASE /\ \E a \in {"unauthorized", "busy", "error"} : Reply(a, None)
           /\ UNCHANGED <<serverVars, spoiled>>
  <2>1. PICK a \in {"unauthorized", "busy", "error"} : Reply(a, None)
    BY <1>5
  <2> DEFINE d == Answered(req[q], a, None)
  <2>2. /\ req' = [req EXCEPT ![q] = d] /\ d \in Call /\ d.phase = "answered" /\ d.answer = a
        /\ d.issued = None
    BY <2>1, <1>4
  <2> HIDE DEF d
  <2>3. CallForm(d) /\ ~Signed(d) /\ ~Ending(d) /\ ~Signed(req[q]) /\ ~Ending(req[q])
    BY <2>2, <1>1 DEF CallForm, Signed, Ending
  <2>4. UNCHANGED <<minted, owner, live, spoiled>>
    BY <1>5 DEF serverVars
  <2> QED
    BY <1>1, <2>2, <2>3, <2>4, MovedKept
<1>6. CASE /\ Serve(q) /\ UNCHANGED spoiled
           /\ Reply("ok", IF req[q].op = "signIn" THEN minted + 1 ELSE None)
  <2> DEFINE n == IF req[q].op = "signIn" THEN minted + 1 ELSE None
             d == Answered(req[q], "ok", n)
  <2>0. Reply("ok", n)
    BY <1>6
  <2>1. /\ req' = [req EXCEPT ![q] = d] /\ d \in Call /\ d.phase = "answered" /\ d.answer = "ok"
        /\ d.issued = n /\ d.op = req[q].op /\ d.as = req[q].as
    <3> HIDE DEF Reply, n
    <3> QED
      BY <2>0, <1>4
  <2>2. d.issued = IF d.answer = "ok" /\ d.op = "signIn" THEN minted + 1 ELSE None
    BY <2>1
  <2> HIDE DEF d, n
  <2> QED
    BY <1>1, <1>6, <2>1, <2>2, ServeKept
<1>7. CASE /\ Serve(q) /\ Reply("busy", None)
           /\ spoiled' = (spoiled \/ req[q].op \in {"signOut", "delete"})
  <2> DEFINE d == Answered(req[q], "busy", None)
  <2>0. Reply("busy", None)
    BY <1>7
  <2>1. /\ req' = [req EXCEPT ![q] = d] /\ d \in Call /\ d.phase = "answered" /\ d.answer = "busy"
        /\ d.issued = None /\ d.op = req[q].op /\ d.as = req[q].as
    <3> HIDE DEF Reply
    <3> QED
      BY <2>0, <1>4
  <2>2. d.issued = IF d.answer = "ok" /\ d.op = "signIn" THEN minted + 1 ELSE None
    BY <2>1
  <2>3. spoiled \/ (d.op \in {"signOut", "delete"} /\ d.answer # "ok") => spoiled'
    BY <1>7, <2>1
  <2> HIDE DEF d
  <2> QED
    BY <1>1, <1>7, <2>1, <2>2, <2>3, ServeKept
<1> QED
  BY <1>2, <1>5, <1>6, <1>7

LEMMA ReceiveKept == ASSUME Base, NEW q \in Requests, Receive(q) PROVE KeptInv'
<1>1. /\ req' = [req EXCEPT ![q] = NoCall] /\ Outcome(q) /\ req[q].phase = "answered"
      /\ spoiled' = (spoiled \/ Outlived(q) \/ Overtaken(q))
      /\ UNCHANGED <<minted, owner, live, refresh, arriving>>
  BY DEF Receive, serverVars
<1>2. /\ req'[q] = NoCall /\ \A p \in Requests : p # q => req'[p] = req[p]
      /\ Form /\ minted \in Nat /\ req[q] \in Call
  BY <1>1 DEF Base, TypeInv, ServerOK, CallsOK, KeptInv
<1>3. /\ CallForms' /\ RefreshForm'
      /\ \A p \in Requests : req'[p].issued # None => p # q
      /\ \A p \in Requests : Signed(req'[p]) => p # q
  BY <1>1, <1>2, NoCallForm DEF Form, CallForms, RefreshForm
<1>4. \A p \in Requests : req'[p].issued \in 0 .. minted
  BY <1>2, NoCallForm DEF Form, Known, None
<1>5. CASE Signed(req[q])
  <2> DEFINE i == req[q].issued
  <2>1. /\ access' = i /\ jar' = i /\ status' = "authenticated" /\ user' = req[q].as
        /\ i # None /\ i \in 0 .. minted /\ owner[i] = req[q].as
    BY <1>1, <1>2, <1>5 DEF Outcome, Signed, Form, CallForms, CallForm, Known
  <2>2. Known'
    BY <1>1, <1>2, <1>4, <2>1 DEF Form, Known
  <2>3. Apart'
    BY <1>1, <1>2, <1>3, <2>1 DEF Form, Apart
  <2>4. ASSUME ~spoiled' PROVE OneOwner'
    <3>1. /\ \A t \in {arriving, refresh.token} \ {None} : owner[t] = req[q].as
          /\ refresh.issued # None =>
               refresh.token # None /\ owner[refresh.issued] = owner[refresh.token]
      BY <1>1, <1>2, <1>5, <2>4 DEF Overtaken, Signed, Form, RefreshForm
    <3>2. \A t \in Held' \cup ({access'} \ {None}) : owner[t] = req[q].as
      BY <1>1, <2>1, <3>1 DEF Held
    <3> QED
      BY <1>1, <2>1, <3>2 DEF OneOwner
  <2>5. ASSUME ~spoiled', ~Ended' PROVE Alive'
    <3>1. ~Ended
      BY <1>2, <1>5, <2>5 DEF Ended, Ending, Signed
    <3>2. Alive
      BY <1>1, <2>5, <3>1 DEF Base, KeptInv
    <3>3. ~Web /\ refresh.phase # "idle" => refresh.token # None
      BY <1>1, <1>5, <2>5 DEF Overtaken, Signed
    <3> QED
      BY <1>1, <1>2, <1>3, <1>5, <2>1, <3>2, <3>3 DEF Alive
  <2> QED
    BY <1>3, <2>2, <2>3, <2>4, <2>5 DEF KeptInv, Form
<1>6. CASE \/ req[q].op = "signOut" /\ (req[q].answer = "ok" \/ ~Web)
           \/ req[q].op = "delete" /\ req[q].answer = "ok"
  <2>1. access' = None /\ jar' = None /\ status' = "unauthenticated"
    BY <1>1, <1>6 DEF Outcome, ClearTokens
  <2>2. Known'
    BY <1>1, <1>2, <1>4, <2>1 DEF Form, Known, None
  <2>3. Apart'
    BY <1>1, <1>2, <1>3, <2>1 DEF Form, Apart
  <2>4. ASSUME ~spoiled' PROVE OneOwner' /\ Alive'
    <3>1. /\ refresh.phase = "idle" /\ arriving = None
          /\ \A p \in Requests \ {q} : req[p].op # "signIn"
      BY <1>1, <1>6, <2>4 DEF Outlived
    <3>2. refresh.token = None /\ refresh.issued = None
      BY <1>2, <3>1, RefreshParts DEF Form, RefreshForm
    <3>3. \A p \in Requests : ~Signed(req'[p])
      BY <1>2, <3>1, NoCallForm DEF Signed
    <3>4. Held' = {}
      BY <1>1, <2>1, <3>1, <3>2 DEF Held
    <3> QED
      BY <1>1, <2>1, <3>1, <3>2, <3>3, <3>4 DEF OneOwner, Alive
  <2> QED
    BY <1>3, <2>2, <2>3, <2>4 DEF KeptInv, Form
<1>7. CASE /\ ~Signed(req[q])
           /\ ~(req[q].op = "signOut" /\ (req[q].answer = "ok" \/ ~Web))
           /\ ~(req[q].op = "delete" /\ req[q].answer = "ok")
  <2>1. UNCHANGED <<status, user, access, jar>>
    BY <1>1, <1>7 DEF Outcome, Signed, clientVars
  <2>2. ~Ending(req[q])
    BY <1>7 DEF Ending
  <2>3. spoiled => spoiled'
    BY <1>1
  <2> QED
    BY <1>1, <1>7, <2>1, <2>2, <2>3, NoCallForm, BlankTyped, MovedKept
<1> QED
  BY <1>5, <1>6, <1>7

LEMMA HandleRefreshKept == ASSUME Base, HandleRefresh PROVE KeptInv'
<1> DEFINE t == refresh.token
           Reply(answer, n) ==
             refresh' = [refresh EXCEPT !.phase = "answered", !.answer = answer, !.issued = n]
<1>1. /\ refresh.phase = "sent" /\ Form /\ ServerOK /\ minted \in Nat /\ refresh \in Refresh
      /\ UNCHANGED <<status, user, access, jar, arriving, req, spoiled>>
  BY DEF HandleRefresh, clientVars, Base, TypeInv, RefreshOK, ServerOK, KeptInv
<1>2. refresh.answer = "failed" /\ refresh.issued = None
  BY <1>1 DEF Form, RefreshForm, Refresh
<1>3. Ended' = Ended
  BY <1>1 DEF Ended
<1>4. CASE t \in live /\ Issue(owner[t], {t}) /\ Reply("ok", minted + 1)
  <2>1. /\ refresh'.phase = "answered" /\ refresh'.token = t /\ refresh'.answer = "ok"
        /\ refresh'.issued = minted + 1
    BY <1>1, <1>4 DEF Refresh
  <2>2. t \in 1 .. minted /\ t # None /\ owner[t] \in Users \cup {NoUser}
    BY <1>1, <1>4 DEF Form, Known, None, ServerOK, Pairs
  <2>3. /\ minted' = minted + 1 /\ minted + 1 # None
        /\ owner'[minted + 1] = owner[t] /\ \A s \in 1 .. minted : owner'[s] = owner[s]
        /\ live' = (live \ {t}) \cup {minted + 1}
    BY <1>1, <1>4, <2>2, IssueIs
  <2>4. CallForms'
    <3>1. \A p \in Requests : req[p].issued # None => req[p].issued \in 1 .. minted
      BY <1>1 DEF Form, Known, None
    <3> QED
      BY <1>1, <2>3, <3>1 DEF Form, CallForms
  <2>5. RefreshForm'
    <3>1. owner'[t] = owner[t]
      BY <2>2, <2>3
    <3> QED
      BY <1>1, <2>1, <2>2, <2>3, <3>1 DEF Form, RefreshForm
  <2>6. Known'
    <3>1. 0 .. minted \subseteq 0 .. minted' /\ minted + 1 \in 0 .. minted' /\ t \in 0 .. minted'
      BY <1>1, <2>2, <2>3
    <3>2. live' \subseteq 1 .. minted'
      <4>1. live \subseteq 1 .. minted
        BY <1>1 DEF Form, Known
      <4>2. 1 .. minted \subseteq 1 .. minted' /\ minted + 1 \in 1 .. minted'
        BY <1>1, <2>3
      <4> QED
        BY <2>3, <4>1, <4>2
    <3> QED
      BY <1>1, <2>1, <3>1, <3>2 DEF Form, Known
  <2>7. Apart'
    <3>1. /\ minted + 1 \notin {jar, arriving, refresh.token}
          /\ \A p \in Requests : req[p].issued # minted + 1
      BY <1>1 DEF Form, Known
    <3> QED
      BY <1>1, <2>1, <3>1 DEF Form, Apart
  <2>8. ASSUME ~spoiled' PROVE OneOwner'
    <3>1. /\ OneOwner /\ Held' = Held \cup {minted + 1} /\ Held \subseteq 1 .. minted
          /\ {access} \ {None} \subseteq 1 .. minted /\ t \in Held
      BY <1>1, <1>2, <2>1, <2>2, <2>3, <2>8 DEF Base, KeptInv, Held, Form, Known, None
    <3> QED
      BY <1>1, <2>3, <3>1 DEF OneOwner
  <2>9. ASSUME ~spoiled', ~Ended' PROVE Alive'
    <3>1. Alive
      BY <1>1, <1>3, <2>9 DEF Base, KeptInv
    <3> QED
      BY <1>1, <2>1, <2>2, <2>3, <3>1 DEF Alive, Form, Apart, Signed, CallForms, CallForm
  <2> QED
    BY <2>4, <2>5, <2>6, <2>7, <2>8, <2>9 DEF KeptInv, Form
<1>5. CASE /\ UNCHANGED serverVars
           /\ \/ t \notin live /\ Reply("rejected", None)
              \/ Reply("failed", None)
  <2>1. /\ refresh'.phase = "answered" /\ refresh'.token = t /\ refresh'.issued = None
        /\ \/ refresh'.answer = "rejected" /\ t \notin live
           \/ refresh'.answer = "failed"
        /\ UNCHANGED <<minted, owner, live>>
    BY <1>1, <1>5 DEF Refresh, serverVars
  <2>2. Form'
    BY <1>1, <1>2, <2>1 DEF Form, CallForms, RefreshForm, Known, Apart
  <2>3. ASSUME ~spoiled' PROVE OneOwner'
    <3>1. OneOwner /\ Held' = Held
      BY <1>1, <1>2, <2>1, <2>3 DEF Base, KeptInv, Held
    <3> QED
      BY <1>1, <2>1, <3>1 DEF OneOwner
  <2>4. ASSUME ~spoiled', ~Ended' PROVE Alive'
    <3>1. Alive
      BY <1>1, <1>3, <2>4 DEF Base, KeptInv
    <3> QED
      BY <1>1, <1>2, <2>1, <3>1 DEF Alive
  <2> QED
    BY <2>2, <2>3, <2>4 DEF KeptInv
<1> QED
  BY <1>4, <1>5 DEF HandleRefresh

LEMMA LoseRefreshKept == ASSUME Base, LoseRefresh PROVE KeptInv'
<1>1. /\ refresh.phase # "idle" /\ Form /\ refresh \in Refresh
      /\ UNCHANGED <<minted, owner, live, status, user, access, jar, arriving, req>>
      /\ spoiled' = (spoiled \/ refresh.issued # None)
  BY DEF LoseRefresh, serverVars, clientVars, Base, TypeInv, RefreshOK, KeptInv
<1>2. /\ refresh'.phase = "answered" /\ refresh'.token = refresh.token
      /\ refresh'.answer = "failed" /\ refresh'.issued = None
  BY <1>1 DEF LoseRefresh, Refresh
<1>3. Form'
  <2>1. 0 \in 0 .. minted
    BY DEF Base, TypeInv, ServerOK
  <2> QED
    BY <1>1, <1>2, <2>1 DEF Form, CallForms, RefreshForm, Known, Apart, None
<1>4. ASSUME ~spoiled' PROVE OneOwner'
  <2>1. OneOwner /\ Held' \subseteq Held
    BY <1>1, <1>2, <1>4 DEF Base, KeptInv, Held
  <2> QED
    BY <1>1, <2>1 DEF OneOwner
<1>5. ASSUME ~spoiled', ~Ended' PROVE Alive'
  <2>1. Alive /\ refresh.issued = None
    BY <1>1, <1>5 DEF Base, KeptInv, Ended
  <2> QED
    BY <1>1, <1>2, <2>1 DEF Alive
<1> QED
  BY <1>3, <1>4, <1>5 DEF KeptInv

\* The refresh ends: fetchRefreshAndStore has stored what it brought.
LEMMA StoreKept ==
  ASSUME Base, refresh.phase = "answered", StoreRefresh(refresh), refresh' = NoRefresh,
         UNCHANGED <<minted, owner, live, arriving, spoiled>>,
         \A p \in Requests : /\ CallForm(req'[p]) /\ req'[p].issued = req[p].issued
                             /\ req'[p].as = req[p].as
                             /\ (Signed(req'[p]) <=> Signed(req[p]))
                             /\ (Ending(req'[p]) <=> Ending(req[p])),
         status' = "authenticated" =>
           \/ status = "authenticated" /\ user' = user
           \/ refresh.answer = "ok" /\ user' = owner[refresh.issued]
  PROVE  KeptInv'
<1>1. /\ Form /\ minted \in Nat /\ refresh \in Refresh
      /\ refresh'.phase = "idle" /\ refresh'.token = None /\ refresh'.answer = "failed"
      /\ refresh'.issued = None
  BY RefreshParts DEF Base, TypeInv, ServerOK, RefreshOK, KeptInv
<1>2. Ended' <=> Ended
  BY DEF Ended
<1>3. \/ /\ refresh.answer = "ok" /\ refresh.issued # None
         /\ access' = refresh.issued /\ jar' = refresh.issued
      \/ /\ refresh.answer = "rejected" /\ refresh.issued = None
         /\ access' = None /\ jar' = IF Web THEN jar ELSE None
      \/ refresh.answer = "failed" /\ refresh.issued = None /\ UNCHANGED <<access, jar>>
  BY <1>1 DEF StoreRefresh, ClearTokens, Form, RefreshForm, Refresh
<1>4. CallForms' /\ RefreshForm'
  BY <1>1 DEF Form, CallForms, RefreshForm
<1>5. Known'
  BY <1>1, <1>3 DEF Form, Known, None
<1>6. Apart'
  BY <1>1, <1>3 DEF Form, Apart
<1>7. ASSUME ~spoiled' PROVE OneOwner'
  <2>1. OneOwner /\ Held' \subseteq Held
    BY <1>1, <1>3, <1>7 DEF Base, KeptInv, Held
  <2>2. access' # None => access' = access \/ (access' = refresh.issued /\ access' \in Held)
    BY <1>3 DEF Held
  <2>3. refresh.answer = "ok" => refresh.issued \in Held
    BY <1>3 DEF Held
  <2>4. refresh.answer = "ok" => access' = refresh.issued
    BY <1>3
  <2> QED
    BY <2>1, <2>2, <2>3, <2>4 DEF OneOwner
<1>8. ASSUME ~spoiled', ~Ended' PROVE Alive'
  <2>1. Alive
    BY <1>2, <1>8 DEF Base, KeptInv
  <2> QED
    BY <1>1, <1>3, <2>1 DEF Alive, Form, RefreshForm
<1> QED
  BY <1>4, <1>5, <1>6, <1>7, <1>8 DEF KeptInv, Form

LEMMA FinishKept == ASSUME Base, FinishRefresh \/ FinishBoot PROVE KeptInv'
<1>1. CASE FinishRefresh
  <2>1. \A p \in Requests : /\ CallForm(req'[p]) /\ req'[p].issued = req[p].issued
                            /\ req'[p].as = req[p].as
                            /\ (Signed(req'[p]) <=> Signed(req[p]))
                            /\ (Ending(req'[p]) <=> Ending(req[p]))
    <3> SUFFICES ASSUME NEW success \in BOOLEAN, NEW p \in Requests, req'[p] = Drain(success)[p]
                 PROVE  /\ CallForm(req'[p]) /\ req'[p].issued = req[p].issued
                        /\ req'[p].as = req[p].as
                        /\ (Signed(req'[p]) <=> Signed(req[p]))
                        /\ (Ending(req'[p]) <=> Ending(req[p]))
      BY <1>1 DEF FinishRefresh
    <3>1. req[p] \in Call /\ CallForm(req[p])
      BY DEF Base, TypeInv, CallsOK, KeptInv, Form, CallForms
    <3>2. CASE req[p].phase # "waiting"
      BY <3>1, <3>2 DEF Drain
    <3>3. CASE req[p].phase = "waiting"
      <4>1. \/ req'[p] = Again(req[p])
            \/ req'[p] = [req[p] EXCEPT !.phase = "answered", !.replay = TRUE]
        BY <3>3 DEF Drain
      <4>2. /\ req'[p].phase \in {"sent", "answered"} /\ req'[p].answer = req[p].answer
            /\ req'[p].op = req[p].op /\ req'[p].as = req[p].as
            /\ req'[p].issued = req[p].issued
        BY <3>1, <4>1 DEF Again, Call
      <4>3. req[p].answer = "unauthorized"
        BY <3>1, <3>3 DEF CallForm
      <4> QED
        BY <3>1, <4>2, <4>3 DEF CallForm, Signed, Ending
    <3> QED
      BY <3>2, <3>3
  <2>2. /\ refresh.phase = "answered" /\ StoreRefresh(refresh) /\ refresh' = NoRefresh
        /\ UNCHANGED <<minted, owner, live, arriving, spoiled, status, user>>
    BY <1>1 DEF FinishRefresh, serverVars
  <2> QED
    BY <2>1, <2>2, StoreKept
<1>2. CASE FinishBoot
  <2>1. /\ refresh.phase = "answered" /\ StoreRefresh(refresh) /\ refresh' = NoRefresh
        /\ UNCHANGED <<minted, owner, live, arriving, spoiled, req>>
        /\ status' = "authenticated" => refresh.answer = "ok" /\ user' = owner[refresh.issued]
    BY <1>2 DEF FinishBoot, serverVars
  <2>2. \A p \in Requests : CallForm(req[p])
    BY DEF Base, KeptInv, Form, CallForms
  <2> QED
    BY <2>1, <2>2, StoreKept
<1> QED
  BY <1>1, <1>2

\* The page is loaded again: on the web only the cookie is left, whosever it is.
LEMMA ReloadKept == ASSUME Base, Reload PROVE KeptInv'
<1>1. Form /\ ServerOK /\ minted \in Nat
  BY DEF Base, TypeInv, ServerOK, KeptInv
<1>2. /\ UNCHANGED <<minted, owner, live, jar, arriving>> /\ status' = "loading"
      /\ access' \in {None, access}
      /\ \A q \in Requests : req'[q] = NoCall
      /\ refresh' = BootWith(jar)
      /\ ~spoiled' => arriving = None /\ \A q \in Requests : ~Ending(req[q])
      /\ ~spoiled' /\ ~Web => ~spoiled /\ refresh.issued = None
  BY DEF Reload, serverVars, Ending
<1>3. /\ refresh'.phase # "idle" /\ refresh'.answer = "failed" /\ refresh'.issued = None
      /\ refresh'.token = jar \/ refresh'.token = None
  BY <1>2, RefreshParts DEF BootWith, NoRefresh
<1>4. CallForms' /\ RefreshForm' /\ Apart'
  BY <1>1, <1>2, <1>3, NoCallForm DEF Form, CallForms, RefreshForm, Apart
<1>5. Known'
  BY <1>1, <1>2, <1>3, NoCallForm DEF Form, Known, None
<1>6. ASSUME ~spoiled' PROVE OneOwner'
  <2>1. Held' \subseteq {jar}
    BY <1>2, <1>3, <1>6 DEF Held
  <2> QED
    BY <1>2, <2>1 DEF OneOwner
<1>7. ASSUME ~spoiled' PROVE Alive'
  <2>1. \A q \in Requests : ~Signed(req'[q])
    BY <1>2, NoCallForm
  <2>2. CASE Web
    BY <1>2, <1>3, <1>7, <2>1, <2>2 DEF Alive
  <2>3. CASE ~Web
    <3>1. ~Ended
      BY <1>2, <1>7 DEF Ended
    <3>2. Alive
      BY <1>2, <1>7, <2>3, <3>1 DEF Base, KeptInv
    <3> QED
      BY <1>1, <1>2, <1>3, <1>7, <2>1, <2>3, <3>2 DEF Alive, Form, RefreshForm
  <2> QED
    BY <2>2, <2>3
<1> QED
  BY <1>4, <1>5, <1>6, <1>7 DEF KeptInv, Form

\* Another tab is issued a pair: by a rotation of the token that is held here, or for
\* whoever signs in there.
LEMMA OtherIssueKept ==
  ASSUME Base, NEW u \in Users \cup {NoUser}, NEW revoked, Issue(u, revoked), revoked \subseteq {jar},
         Web, arriving = None, arriving' = minted + 1,
         spoiled => spoiled',
         ~spoiled' => /\ \A t \in Held : owner[t] = u
                      /\ status = "authenticated" => user = u,
         UNCHANGED <<status, user, access, jar, refresh, req>>
  PROVE  KeptInv'
<1>1. Form /\ ServerOK /\ minted \in Nat
  BY DEF Base, TypeInv, ServerOK, KeptInv
<1>2. /\ minted' = minted + 1 /\ minted + 1 # None
      /\ owner'[minted + 1] = u /\ \A s \in 1 .. minted : owner'[s] = owner[s]
      /\ live' = (live \ revoked) \cup {minted + 1}
  BY <1>1, IssueIs
<1>3. CallForms'
  <2>1. \A p \in Requests : req[p].issued # None => req[p].issued \in 1 .. minted
    BY <1>1 DEF Form, Known, None
  <2> QED
    BY <1>1, <1>2, <2>1 DEF Form, CallForms
<1>4. RefreshForm'
  <2>1. refresh.issued # None /\ refresh.token # None =>
          refresh.issued \in 1 .. minted /\ refresh.token \in 1 .. minted
    BY <1>1 DEF Form, Known, None
  <2> QED
    BY <1>1, <1>2, <2>1 DEF Form, RefreshForm
<1>5. Known'
  <2>1. 0 .. minted \subseteq 0 .. minted' /\ minted + 1 \in 0 .. minted'
    BY <1>1, <1>2
  <2>2. live' \subseteq 1 .. minted'
    <3>1. live \subseteq 1 .. minted
      BY <1>1 DEF Form, Known
    <3>2. 1 .. minted \subseteq 1 .. minted' /\ minted + 1 \in 1 .. minted'
      BY <1>1, <1>2
    <3> QED
      BY <1>2, <3>1, <3>2
  <2> QED
    BY <1>1, <1>2, <2>1, <2>2 DEF Form, Known
<1>6. Apart'
  <2>1. /\ minted + 1 \notin {jar, refresh.issued, refresh.token}
        /\ \A p \in Requests : req[p].issued # minted + 1
    BY <1>1 DEF Form, Known
  <2> QED
    BY <1>1, <2>1 DEF Form, Apart
<1>7. ASSUME ~spoiled' PROVE OneOwner'
  <2>1. /\ OneOwner /\ Held' = Held \cup {minted + 1} /\ Held \subseteq 1 .. minted
        /\ {access} \ {None} \subseteq 1 .. minted
    BY <1>1, <1>2, <1>7 DEF Base, KeptInv, Held, Form, Known, None
  <2> QED
    BY <1>2, <1>7, <2>1 DEF OneOwner
<1>8. ASSUME ~spoiled', ~Ended' PROVE Alive'
  <2>1. Alive
    BY <1>8 DEF Base, KeptInv, Ended
  <2> QED
    BY <1>1, <1>2, <2>1 DEF Alive, Form, Apart, CallForms, CallForm
<1> QED
  BY <1>3, <1>4, <1>5, <1>6, <1>7, <1>8 DEF KeptInv, Form

LEMMA OtherTabKept == ASSUME Base, OtherTab PROVE KeptInv'
<1>1. Form /\ ServerOK /\ minted \in Nat
  BY DEF Base, TypeInv, ServerOK, KeptInv
<1>2. CASE OtherTabRefreshes
  <2>1. /\ Web /\ arriving = None /\ jar \in live /\ Issue(owner[jar], {jar})
        /\ arriving' = minted + 1 /\ spoiled' = spoiled
        /\ UNCHANGED <<status, user, access, jar, refresh, req>>
    BY <1>2 DEF OtherTabRefreshes, TabFree, clientVars
  <2>2. jar # None /\ jar \in Held /\ owner[jar] \in Users \cup {NoUser}
    BY <1>1, <2>1 DEF Form, Known, None, ServerOK, Pairs, Held
  <2>3. ~spoiled' => /\ \A t \in Held : owner[t] = owner[jar]
                     /\ status = "authenticated" => user = owner[jar]
    BY <2>1, <2>2 DEF Base, KeptInv, OneOwner
  <2> QED
    BY <2>1, <2>2, <2>3, OtherIssueKept
<1>3. CASE \E u \in Users : OtherTabSignsIn(u)
  <2>1. PICK u \in Users : OtherTabSignsIn(u)
    BY <1>3
  <2>2. /\ Web /\ arriving = None /\ Issue(u, {}) /\ arriving' = minted + 1
        /\ UNCHANGED <<status, user, access, jar, refresh, req>>
        /\ ~spoiled' => /\ ~spoiled /\ (status = "authenticated" => user = u)
                        /\ \A t \in {jar, refresh.token, refresh.issued} \ {None} : owner[t] = u
    BY <2>1 DEF OtherTabSignsIn, TabFree, clientVars
  <2>3. ~spoiled' => \A t \in Held : owner[t] = u
    BY <2>2 DEF Held
  <2>4. ~spoiled' /\ status = "authenticated" => user = u
    BY <2>2
  <2> QED
    BY <2>2, <2>3, <2>4, OtherIssueKept
<1>4. CASE \E u \in Users : OtherTabLeaves(u)
  <2>1. /\ live' \subseteq live /\ spoiled'
        /\ UNCHANGED <<minted, owner, status, user, access, jar, refresh, arriving, req>>
    BY <1>4 DEF OtherTabLeaves, Revoke, clientVars
  <2> QED
    BY <1>1, <2>1 DEF KeptInv, Form, CallForms, RefreshForm, Known, Apart
<1>5. CASE CookieArrives
  <2>1. /\ arriving # None /\ jar' = arriving /\ arriving' = None
        /\ UNCHANGED <<minted, owner, live, status, user, access, refresh, req, spoiled>>
    BY <1>5 DEF CookieArrives, serverVars
  <2>2. CallForms' /\ RefreshForm' /\ Apart'
    BY <1>1, <2>1 DEF Form, CallForms, RefreshForm, Apart
  <2>3. Known'
    BY <1>1, <2>1 DEF Form, Known, None
  <2>4. ASSUME ~spoiled' PROVE OneOwner'
    <3>1. OneOwner /\ Held' \subseteq Held
      BY <2>1, <2>4 DEF Base, KeptInv, Held
    <3> QED
      BY <2>1, <3>1 DEF OneOwner
  <2>5. ASSUME ~spoiled', ~Ended' PROVE Alive'
    <3>1. Alive
      BY <2>1, <2>5 DEF Base, KeptInv, Ended
    <3> QED
      BY <1>1, <2>1, <3>1 DEF Alive, Form, RefreshForm
  <2> QED
    BY <2>2, <2>3, <2>4, <2>5 DEF KeptInv, Form
<1>6. CASE CookieCleared
  <2>1. /\ jar' \in {jar, None} /\ spoiled'
        /\ UNCHANGED <<minted, owner, live, status, user, access, refresh, arriving, req>>
    BY <1>6 DEF CookieCleared, Base, Cleared, serverVars
  <2>2. CallForms' /\ RefreshForm'
    BY <1>1, <2>1 DEF Form, CallForms, RefreshForm
  <2>3. Known'
    BY <1>1, <2>1 DEF Form, Known, None
  <2>4. Apart'
    BY <1>1, <2>1 DEF Form, Apart
  <2> QED
    BY <2>1, <2>2, <2>3, <2>4 DEF KeptInv, Form
<1> QED
  BY <1>2, <1>3, <1>4, <1>5, <1>6 DEF OtherTab

LEMMA NextCleared == Base /\ [Next]_vars => Cleared'
<1> SUFFICES ASSUME Base, [Next]_vars PROVE Cleared'
  OBVIOUS
<1>1. ASSUME clearing' = clearing, spoiled => spoiled' PROVE Cleared'
  BY <1>1 DEF Base, Cleared
<1>2. ASSUME NEW q \in Requests, RequestStep(q) PROVE Cleared'
  <2>1. clearing' = clearing
    BY <1>2 DEF RequestStep, Ask, SignOut, DeleteAccount, SignIn, Start, Handle, Unauthorized,
                Retry, Receive, Lose
  <2>2. CASE Ask(q) \/ SignOut(q) \/ DeleteAccount(q) \/ \E u \in Users : SignIn(q, u)
    <3>1. spoiled' = spoiled
      BY <2>2 DEF Ask, SignOut, DeleteAccount, SignIn, Start
    <3> QED
      BY <1>1, <2>1, <3>1
  <2>3. CASE Handle(q)
    <3>1. spoiled => spoiled'
      BY <2>3 DEF Handle
    <3> QED
      BY <1>1, <2>1, <3>1
  <2>4. CASE Unauthorized(q) \/ Retry(q)
    <3>1. spoiled' = spoiled
      BY <2>4 DEF Unauthorized, Retry
    <3> QED
      BY <1>1, <2>1, <3>1
  <2>5. CASE Receive(q) \/ Lose(q)
    <3>1. spoiled => spoiled'
      BY <2>5 DEF Receive, Lose
    <3> QED
      BY <1>1, <2>1, <3>1
  <2> QED
    BY <1>2, <2>2, <2>3, <2>4, <2>5 DEF RequestStep
<1>3. CASE RefreshStep
  BY <1>1, <1>3 DEF RefreshStep, HandleRefresh, LoseRefresh, FinishRefresh, FinishBoot
<1>4. CASE OtherTab
  BY <1>1, <1>4 DEF OtherTab, OtherTabRefreshes, OtherTabSignsIn, OtherTabLeaves, CookieArrives,
                    CookieCleared, Cleared
<1>5. CASE Reload
  BY <1>5 DEF Reload, Cleared
<1>6. CASE UNCHANGED vars \/ \E t \in Pairs : Expire(t)
  BY <1>1, <1>6 DEF vars, Expire
<1> QED
  BY <1>1, <1>2, <1>3, <1>4, <1>5, <1>6 DEF Next

LEMMA NextKept == Base /\ [Next]_vars => KeptInv'
<1> SUFFICES ASSUME Base, [Next]_vars PROVE KeptInv'
  OBVIOUS
<1>1. ASSUME UNCHANGED <<minted, owner, live, status, user, access, jar, refresh, arriving, req,
                         spoiled>>
      PROVE  KeptInv'
  BY <1>1 DEF Base, KeptInv, Form, CallForms, RefreshForm, Known, Apart, OneOwner, Held, Alive,
              Ended
<1>2. CASE UNCHANGED vars \/ \E t \in Pairs : Expire(t)
  BY <1>1, <1>2 DEF vars, serverVars, clientVars, Expire
<1>3. ASSUME NEW q \in Requests, RequestStep(q) PROVE KeptInv'
  <2>1. CASE Ask(q) \/ SignOut(q) \/ DeleteAccount(q) \/ \E u \in Users : SignIn(q, u)
    <3>1. \E op \in Ops, u \in Users \cup {NoUser} : Start(q, op, u)
      BY <2>1 DEF Ask, SignOut, DeleteAccount, SignIn, Ops
    <3> QED
      BY <3>1, StartKept
  <2> QED
    BY <1>3, <2>1, HandleKept, ResumeKept, ReceiveKept DEF RequestStep
<1> QED
  BY <1>2, <1>3, HandleRefreshKept, LoseRefreshKept, FinishKept, ReloadKept, OtherTabKept
     DEF Next, RefreshStep

\* While nothing is under way a signed-in client can refresh, as its own user, unless an answer
\* that mattered was lost, sessions overlapped or another tab ended the session or began
\* another's since the page was loaded: for any users, calls, tokens and steps of other tabs, on
\* the web and native (client.ts:17-110, auth/service.go:151-223).
THEOREM SessionIsKept == Spec => []SessionRestorable
<1>1. Base => SessionRestorable
  <2> SUFFICES ASSUME Base, status = "authenticated", ~spoiled, refresh.phase = "idle",
                      arriving = None, \A q \in Requests : req[q].op \notin {"signOut", "delete"}
               PROVE  jar \in live /\ owner[jar] = user /\ (access # None => owner[access] = user)
    BY DEF SessionRestorable
  <2>1. OneOwner /\ Alive /\ refresh.issued = None
    BY RefreshParts DEF Base, KeptInv, Form, RefreshForm, Ended, Ending
  <2>2. jar # None /\ jar \in live
    BY <2>1 DEF Alive
  <2>3. jar \in Held
    BY <2>2 DEF Held
  <2> QED
    BY <2>1, <2>2, <2>3 DEF OneOwner
<1>2. Init => Base
  <2>1. Init => Cleared
    BY DEF Init, Cleared
  <2> QED
    BY <2>1, InitTypeInv, InitWake, InitKept DEF Base
<1>3. Base /\ [Next]_vars => Base'
  BY NextTypeInv, NextWake, NextCleared, NextKept DEF Base
<1> QED
  BY <1>1, <1>2, <1>3, PTL DEF Spec
=============================================================================
