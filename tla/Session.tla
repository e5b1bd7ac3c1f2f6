-------------------------------- MODULE Session --------------------------------
(***************************************************************************)
(* The signed-in session as one client sees it: frontend/src/api/client.ts *)
(* and token.ts (requests, the shared token refresh, replays, retries),    *)
(* hooks/useAuth.tsx (who is signed in) and the sign-in, sign-up and       *)
(* settings handlers that drive it, against the refresh tokens that        *)
(* backend/internal/auth rotates.                                          *)
(*                                                                         *)
(* The n-th pair the server issues is the access token n and the refresh   *)
(* token n.  A request is sent, handled by the server, and its answer      *)
(* comes back, in three steps; either message can be lost.  "jar" is the   *)
(* refresh token the client would present: the httpOnly cookie on the web, *)
(* the stored token on native.                                             *)
(***************************************************************************)
EXTENDS Naturals, FiniteSets

CONSTANTS
  Users, NoUser,
  Requests,     \* calls of apiRequest that may be in flight at once
  Web,          \* Platform.OS = "web"
  MAX_RETRIES,  \* of a safe method, after a transient failure
  MaxTokens     \* bound on the token pairs ever issued

ASSUME SessionAssumption ==
  /\ NoUser \notin Users
  /\ Web \in BOOLEAN
  /\ MAX_RETRIES \in Nat /\ MaxTokens \in Nat \ {0}

VARIABLES
  minted,   \* token pairs issued
  owner,    \* per pair: its user
  live,     \* refresh tokens that are not revoked
  fresh,    \* access tokens that have not expired
  status,   \* "loading", "authenticated" or "unauthenticated"
  user,     \* who the client says is signed in
  access,   \* tokenStore: the access token, or None
  jar,      \* the refresh token the client holds, or None
  refresh,  \* the refresh in flight: bootstrapSession's while loading, then refreshTokens'
  arriving, \* a new cookie on its way to another tab of the browser, or None
  clearing, \* an answer that clears the cookie is on its way to another tab
  req,      \* the requests
  effects,  \* per request that changes something: how often the server carried it out
  spoiled   \* an answer that matters was lost, one session met the calls of another, or
            \* another tab ended the session of this page or began somebody else's

serverVars == <<minted, owner, live, fresh>>
clientVars == <<status, user, access, jar>>
vars == <<serverVars, clientVars, refresh, arriving, clearing, req, effects, spoiled>>

None    == 0
Pairs   == 1 .. MaxTokens
Tokens  == Pairs \cup {None}
Ops     == {"read", "write", "signIn", "signOut", "delete"}
Answers == {"ok", "unauthorized", "busy", "error"}

Call    == [op: Ops, as: Users \cup {NoUser}, phase: {"idle", "sent", "answered", "waiting"},
            token: Tokens, carries: Tokens, tries: 0 .. MAX_RETRIES, replay: BOOLEAN,
            answer: Answers, issued: Tokens]
Refresh == [phase: {"idle", "sent", "answered"}, token: Tokens,
            answer: {"ok", "rejected", "failed"}, issued: Tokens]

NoRefresh == [phase |-> "idle", token |-> None, answer |-> "failed", issued |-> None]
NoCall == [op |-> "read", as |-> NoUser, phase |-> "idle", token |-> None, carries |-> None,
           tries |-> 0, replay |-> FALSE, answer |-> "error", issued |-> None]

Waiting == {q \in Requests : req[q].phase = "waiting"}

-----------------------------------------------------------------------------
(* The server.                                                             *)

\* issueAuthResult: a new access and refresh token for u, replacing the revoked ones.
Issue(u, revoked) ==
  /\ minted < MaxTokens
  /\ minted' = minted + 1
  /\ owner' = [owner EXCEPT ![minted + 1] = u]
  /\ live' = (live \ revoked) \cup {minted + 1}
  /\ fresh' = fresh \cup {minted + 1}

\* Logout revokes the refresh token presented if it is u's own; a deletion all u has.
Revoke(u, presented) ==
  /\ live' = live \ {t \in live : t \in presented /\ owner[t] = u}
  /\ UNCHANGED <<minted, owner, fresh>>

\* Service.Refresh: single-use rotation under a row lock; a failure changes nothing.
HandleRefresh ==
  LET t == refresh.token
      Reply(answer, n) ==
        refresh' = [refresh EXCEPT !.phase = "answered", !.answer = answer, !.issued = n]
  IN /\ refresh.phase = "sent"
     /\ \/ t \in live /\ Issue(owner[t], {t}) /\ Reply("ok", minted + 1)
        \/ t \notin live /\ Reply("rejected", None) /\ UNCHANGED serverVars
        \/ Reply("failed", None) /\ UNCHANGED serverVars
     /\ UNCHANGED <<clientVars, arriving, clearing, req, effects, spoiled>>

\* What a call's own handler does once the middleware let it in.
Serve(q) ==
  CASE req[q].op = "signIn"  -> Issue(req[q].as, {})
    [] req[q].op = "signOut" -> Revoke(owner[req[q].token], {req[q].carries})
    [] req[q].op = "delete"  -> Revoke(owner[req[q].token], live)
    [] OTHER                 -> UNCHANGED serverVars

\* Its access token is of no more use, unless the call is sent again as it is.
Answered(c, answer, n) == [c EXCEPT !.phase = "answered", !.answer = answer, !.issued = n,
                                    !.token = IF answer = "busy" THEN c.token ELSE None]

\* A call reaches the server: turned away for its access token, carried out, carried out
\* and answered by a transient failure all the same (502, 504), or failed.
Handle(q) ==
  LET Reply(answer, n) == req' = [req EXCEPT ![q] = Answered(req[q], answer, n)]
      Done == effects' = [effects EXCEPT ![q] = IF req[q].op = "read" THEN 0 ELSE @ + 1]
  IN /\ req[q].phase = "sent"
     /\ \/ /\ req[q].op # "signIn" /\ req[q].token \notin fresh
           /\ Reply("unauthorized", None)
           /\ UNCHANGED <<serverVars, effects, spoiled>>
        \/ /\ req[q].op = "signIn" \/ req[q].token \in fresh
           /\ \/ /\ Serve(q) /\ Done
                 /\ Reply("ok", IF req[q].op = "signIn" THEN minted + 1 ELSE None)
                 /\ UNCHANGED spoiled
              \/ /\ Serve(q) /\ Done /\ Reply("busy", None)
                 /\ spoiled' = (spoiled \/ req[q].op \in {"signOut", "delete"})
              \/ /\ \E a \in {"busy", "error"} : Reply(a, None)
                 /\ UNCHANGED <<serverVars, effects, spoiled>>
     /\ UNCHANGED <<clientVars, refresh, arriving, clearing>>

\* Access tokens live equally long.
Expire(t) ==
  /\ t \in fresh /\ \A older \in fresh : t <= older
  /\ fresh' = fresh \ {t}
  /\ UNCHANGED <<minted, owner, live, clientVars, refresh, arriving, clearing, req, effects, spoiled>>

-----------------------------------------------------------------------------
(* apiRequest and the shared refresh.                                      *)

\* Faulty variant: any method is retried after a transient failure.
MayRetry_AnyMethod(c) == c.answer = "busy" /\ c.tries > 0

\* Faulty variant: nobody counts the attempts.
MayRetry_Unbounded(c) == c.answer = "busy" /\ c.op = "read"

MayRetry(c) == c.answer = "busy" /\ c.tries > 0 /\ c.op = "read"

\* The refresh token that travels with a call: only the web has a cookie for it, and only
\* a sign-out reads it.
Cookie(op, token) == IF Web /\ op = "signOut" THEN token ELSE None

\* A new call, with the access token of the store.
Start(q, op, u) ==
  /\ req[q].phase = "idle"
  /\ req' = [req EXCEPT ![q] =
       [NoCall EXCEPT !.op = op, !.as = u, !.phase = "sent", !.token = access,
                      !.carries = Cookie(op, jar), !.tries = MAX_RETRIES]]
  /\ UNCHANGED <<serverVars, clientVars, refresh, arriving, clearing, effects, spoiled>>

\* Screens read and write only under an authenticated state.
Ask(q) == status = "authenticated" /\ \E op \in {"read", "write"} : Start(q, op, NoUser)

Pending(op) == \E p \in Requests : req[p].phase # "idle" /\ req[p].op = op

\* The sign-in and sign-up forms.  Their button is disabled while they wait, the Enter key
\* of the last field is not: a form can be submitted twice.
SignIn(q, u) == status = "unauthenticated" /\ Start(q, "signIn", u)

\* The settings screen; the dialog of a deletion covers it.
SignOut(q)       == status = "authenticated" /\ ~Pending("delete") /\ Start(q, "signOut", NoUser)
DeleteAccount(q) == status = "authenticated" /\ ~Pending("delete") /\ Start(q, "delete", NoUser)

\* Sent again with what the store holds now.
Again(c) == [c EXCEPT !.phase = "sent", !.replay = TRUE, !.carries = Cookie(c.op, jar'),
                      !.token = access']

SendRefresh(token) == [NoRefresh EXCEPT !.phase = "sent", !.token = token]

\* refreshTokens of the first call a 401 reaches; later ones queue behind it.
StartRefresh == IF refresh.phase = "idle" THEN SendRefresh(jar) ELSE refresh

\* 401: wait for a refresh, once.
Unauthorized(q) ==
  /\ req[q].phase = "answered" /\ req[q].answer = "unauthorized"
  /\ req[q].op # "signIn" /\ ~req[q].replay
  /\ req' = [req EXCEPT ![q].phase = "waiting", ![q].carries = None]
  /\ refresh' = StartRefresh
  /\ UNCHANGED <<serverVars, clientVars, arriving, clearing, effects, spoiled>>

\* 429, 502, 503, 504 of a safe method: again after a pause, with the same headers.
Retry(q) ==
  /\ req[q].phase = "answered" /\ MayRetry(req[q])
  /\ req' = [req EXCEPT ![q].phase = "sent", ![q].tries = @ - 1]
  /\ UNCHANGED <<serverVars, clientVars, refresh, arriving, clearing, effects, spoiled>>

\* tokenStore.clear; on the web the cookie is the server's to clear.
ClearTokens(cookie) == access' = None /\ jar' = (IF Web THEN cookie ELSE None)

\* useAuth: what the end of each kind of call does to the session.
Outcome(q) ==
  LET c == req[q]
      ok == c.answer = "ok"
      SetSignedOut == status' = "unauthenticated" /\ user' = NoUser
  IN CASE c.op = "signIn" /\ ok ->
            /\ access' = c.issued /\ jar' = c.issued
            /\ status' = "authenticated" /\ user' = c.as
       [] c.op = "signOut" /\ (ok \/ ~Web) -> ClearTokens(IF ok THEN None ELSE jar) /\ SetSignedOut
       [] c.op = "delete" /\ ok -> ClearTokens(None) /\ SetSignedOut
       [] OTHER -> UNCHANGED clientVars

\* A session ends while a refresh, a second sign-in or a deletion is still on its way.
Outlived(q) == \/ /\ req[q].op \in {"signOut", "delete"}
                  /\ \/ refresh.phase # "idle" \/ arriving # None
                     \/ \E p \in Requests \ {q} : req[p].op \in {"delete", "signIn"}
               \/ req[q].op = "signOut" /\ req[q].carries # Cookie("signOut", jar)

\* A sign-in is answered while a refresh, or a rotated cookie, of another session is on its way.
Overtaken(q) == /\ req[q].op = "signIn" /\ req[q].answer = "ok"
                /\ \/ \E t \in {arriving, refresh.token} \ {None} : owner[t] # req[q].as
                   \/ ~Web /\ refresh.phase # "idle" /\ refresh.token = None

Receive(q) ==
  /\ req[q].phase = "answered" /\ ~MayRetry(req[q])
  /\ req[q].answer = "unauthorized" => req[q].op = "signIn" \/ req[q].replay
  /\ Outcome(q)
  /\ req' = [req EXCEPT ![q] = NoCall]
  /\ effects' = [effects EXCEPT ![q] = 0]
  /\ spoiled' = (spoiled \/ Outlived(q) \/ Overtaken(q))
  /\ UNCHANGED <<serverVars, refresh, arriving, clearing>>

\* A timeout or a network failure, before the server handled the call or after it did.
Lose(q) ==
  /\ req[q].phase = "sent" \/ (req[q].phase = "answered" /\ req[q].answer = "ok")
  /\ req' = [req EXCEPT ![q] = Answered(req[q], "error", None)]
  /\ spoiled' = (spoiled \/ (req[q].phase = "answered" /\ req[q].op \notin {"read", "write"}))
  /\ UNCHANGED <<serverVars, clientVars, refresh, arriving, clearing, effects>>

\* Faulty variant: only one of the waiting calls is told.
Drain_First(success) ==
  LET w == CHOOSE q \in Waiting : TRUE
  IN IF Waiting = {} THEN req ELSE [req EXCEPT ![w] = IF success THEN Again(@) ELSE NoCall]

\* drainRefreshQueue: every waiting call goes on with the result.
Drain(success) == [q \in Requests |->
  IF req[q].phase # "waiting" THEN req[q]
  ELSE IF success THEN Again(req[q])
       ELSE [req[q] EXCEPT !.phase = "answered", !.replay = TRUE]]

\* Faulty variant: any failure of a refresh forgets the session.
StoreRefresh_ClearsOnFailure(r) ==
  IF r.answer = "ok" THEN access' = r.issued /\ jar' = r.issued
  ELSE access' = None /\ jar' = None

\* fetchRefreshAndStore: the tokens change on an answer, and go only on a rejection.
StoreRefresh(r) ==
  CASE r.answer = "ok"       -> access' = r.issued /\ jar' = r.issued
    [] r.answer = "rejected" -> ClearTokens(jar)
    [] OTHER                 -> UNCHANGED <<access, jar>>

FinishRefresh ==
  /\ status # "loading" /\ refresh.phase = "answered"
  /\ StoreRefresh(refresh)
  /\ req' = Drain(refresh.answer = "ok")
  /\ refresh' = NoRefresh
  /\ UNCHANGED <<serverVars, status, user, arriving, clearing, effects, spoiled>>

\* No answer comes (a refresh has no timeout of its own, but its connection may break).
LoseRefresh ==
  /\ refresh.phase = "sent" \/ (refresh.phase = "answered" /\ refresh.answer # "failed")
  /\ refresh' = [refresh EXCEPT !.phase = "answered", !.answer = "failed", !.issued = None]
  /\ spoiled' = (spoiled \/ refresh.issued # None)
  /\ UNCHANGED <<serverVars, clientVars, arriving, clearing, req, effects>>

-----------------------------------------------------------------------------
(* Loading the page.                                                       *)

\* bootstrapSession: on native, only with a stored token.
BootWith(token) ==
  IF Web \/ token # None THEN SendRefresh(token)
  ELSE [NoRefresh EXCEPT !.phase = "answered"]

FinishBoot ==
  /\ status = "loading" /\ refresh.phase = "answered"
  /\ StoreRefresh(refresh)
  /\ IF refresh.answer = "ok" THEN status' = "authenticated" /\ user' = owner[refresh.issued]
     ELSE status' = "unauthenticated" /\ user' = NoUser
  /\ refresh' = NoRefresh
  /\ UNCHANGED <<serverVars, arriving, clearing, req, effects, spoiled>>

\* The page is loaded again: memory is lost, the cookie or the stored token is not.
Reload ==
  /\ status # "loading"
  /\ status' = "loading" /\ user' = NoUser
  /\ access' = (IF Web THEN None ELSE access) /\ jar' = jar
  /\ req' = [q \in Requests |-> NoCall]
  /\ refresh' = BootWith(jar)
  /\ effects' = [q \in Requests |-> 0]
  /\ spoiled' = \/ arriving # None \/ clearing
                \/ \E q \in Requests : req[q].op \in {"signOut", "delete"}
                \/ ~Web /\ (spoiled \/ refresh.issued # None)
                \/ ~Web /\ \E q \in Requests : req[q].phase = "answered" /\ req[q].op = "signIn"
  /\ UNCHANGED <<serverVars, arriving, clearing>>

-----------------------------------------------------------------------------
(* Another tab of the browser.  It shares the cookie and nothing else: this *)
(* page is not told what the other one does.                               *)

TabFree == Web /\ arriving = None /\ ~clearing

\* It refreshes with the shared cookie (only a rotation concerns this page).
OtherTabRefreshes ==
  /\ TabFree /\ jar \in live
  /\ Issue(owner[jar], {jar})
  /\ arriving' = minted + 1
  /\ UNCHANGED <<clientVars, refresh, clearing, req, effects, spoiled>>

\* Somebody signs in there, perhaps not the user of this page.
OtherTabSignsIn(u) ==
  /\ TabFree
  /\ Issue(u, {})
  /\ arriving' = minted + 1
  /\ spoiled' = \/ spoiled \/ (status = "authenticated" /\ user # u)
                \/ \E t \in {jar, refresh.token, refresh.issued} \ {None} : owner[t] # u
  /\ UNCHANGED <<clientVars, refresh, clearing, req, effects>>

\* Its user u signs out there, or deletes the account: the answer clears the cookie.
OtherTabLeaves(u) ==
  /\ TabFree /\ \E t \in fresh : owner[t] = u
  /\ \E presented \in {{jar}, live} : Revoke(u, presented)
  /\ clearing' = TRUE /\ spoiled' = TRUE
  /\ UNCHANGED <<clientVars, refresh, arriving, req, effects>>

\* The answer arrives, and with it the cookie of the whole browser.
CookieArrives ==
  /\ arriving # None
  /\ jar' = arriving /\ arriving' = None
  /\ UNCHANGED <<serverVars, status, user, access, refresh, clearing, req, effects, spoiled>>

\* Or it is lost, and the browser keeps the revoked cookie.
CookieCleared ==
  /\ clearing
  /\ jar' \in {jar, None} /\ clearing' = FALSE
  /\ UNCHANGED <<serverVars, status, user, access, refresh, arriving, req, effects, spoiled>>

OtherTab == \/ OtherTabRefreshes \/ (\E u \in Users : OtherTabSignsIn(u) \/ OtherTabLeaves(u))
            \/ CookieArrives \/ CookieCleared

-----------------------------------------------------------------------------

Init ==
  \E signedIn \in BOOLEAN, u \in Users :
    /\ minted = IF signedIn THEN 1 ELSE 0
    /\ owner = [t \in Pairs |-> IF t = 1 /\ signedIn THEN u ELSE NoUser]
    /\ live = 1 .. minted
    /\ fresh = {}
    /\ status = "loading" /\ user = NoUser /\ access = None /\ jar = minted
    /\ refresh = BootWith(minted) /\ arriving = None
    /\ req = [q \in Requests |-> NoCall]
    /\ effects = [q \in Requests |-> 0]
    /\ clearing = FALSE /\ spoiled = FALSE

RequestStep(q) ==
  \/ Ask(q) \/ SignOut(q) \/ DeleteAccount(q) \/ (\E u \in Users : SignIn(q, u))
  \/ Handle(q) \/ Unauthorized(q) \/ Retry(q) \/ Receive(q) \/ Lose(q)

RefreshStep == HandleRefresh \/ LoseRefresh \/ FinishRefresh \/ FinishBoot

Next ==
  \/ \E q \in Requests : RequestStep(q)
  \/ RefreshStep
  \/ OtherTab \/ Reload
  \/ \E t \in Pairs : Expire(t)

Spec == Init /\ [][Next]_vars

\* The event loop delivers what arrived, and every connection answers or breaks.
Fairness ==
  /\ WF_vars(FinishRefresh) /\ WF_vars(HandleRefresh \/ LoseRefresh)
  /\ \A q \in Requests : WF_vars(Handle(q) \/ Unauthorized(q) \/ Retry(q) \/ Receive(q))

FairSpec == Spec /\ Fairness

-----------------------------------------------------------------------------
(* Properties.                                                             *)

TypeOK ==
  /\ minted \in 0 .. MaxTokens
  /\ owner \in [Pairs -> Users \cup {NoUser}]
  /\ live \subseteq Pairs /\ fresh \subseteq Pairs
  /\ status \in {"loading", "authenticated", "unauthenticated"}
  /\ user \in Users \cup {NoUser}
  /\ access \in Tokens /\ jar \in Tokens
  /\ refresh \in Refresh /\ arriving \in Tokens
  /\ req \in [Requests -> Call]
  /\ effects \in [Requests -> Nat]
  /\ clearing \in BOOLEAN /\ spoiled \in BOOLEAN

\* A call that changes something is carried out at most once, whatever was retried,
\* refreshed, replayed or lost ("replaying mutations is dangerous", client.ts:241).
WriteOnce == \A q \in Requests : effects[q] <= 1

\* No lost wake-up: whoever waits for a refresh has one that will answer it.
WaitersHaveRefresh == Waiting # {} => refresh.phase # "idle"

\* While nothing is under way, a signed-in client holds a refresh token that the server
\* would rotate for that very user, and no access token of another user: concurrent 401s,
\* rotations by other tabs, reloads and failed refreshes cost nobody the session.  Excepted
\* (spoiled), on the web until the page is loaded again: what the server did was never told
\* to the client, one session ended or began amid another's calls, or another tab signed
\* out, deleted the account or signed in somebody else, which this page does not learn.
SessionRestorable ==
  /\ status = "authenticated" /\ ~spoiled
  /\ refresh.phase = "idle" /\ arriving = None
  /\ \A q \in Requests : req[q].op \notin {"signOut", "delete"}
  => /\ jar \in live /\ owner[jar] = user
     /\ access # None => owner[access] = user

\* Every call is settled, also those that wait for another call's refresh: again and
\* again nothing is under way in a slot.
CallsSettle == \A q \in Requests : []<>(req[q].phase = "idle")
=============================================================================
