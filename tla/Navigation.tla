------------------------------ MODULE Navigation ------------------------------
(***************************************************************************)
(* The web shell: navigation/RootNavigator.tsx with the history it keeps   *)
(* in step (useHistorySync.ts), its overlay stack (useOverlayRouter.ts),   *)
(* its tabs, the landing pages and gates before it (invite, profile        *)
(* completion, welcome), the claim of a stored challenge invite, and the   *)
(* notification clicks of pwa/notificationClicks.ts and public/sw.js.      *)
(*                                                                         *)
(* Everything the history and the overlays do to each other is a function  *)
(* of the record nav.  history.back() and history.go(-n) are answered by a *)
(* popstate event later: nav.going is the queue of traversals under way.   *)
(***************************************************************************)
EXTENDS Naturals, FiniteSets, Sequences, SequencesExt

CONSTANTS
  Legacy,      \* the device may hold the flags of the time before accounts had their own
  MaxDepth,    \* bound on the overlays open at once
  MaxEntries,  \* bound on the entries of the browser's history
  MaxGoing,    \* bound on the traversals under way
  MaxClicks    \* bound on the notification clicks waiting for a sign-in

ASSUME NavigationAssumption ==
  /\ Legacy \in BOOLEAN
  /\ MaxDepth \in Nat /\ MaxEntries \in Nat \ {0} /\ MaxGoing \in Nat /\ MaxClicks \in Nat \ {0}

VARIABLES
  auth,      \* useAuth: "loading", "in" or "out"
  landing,   \* the landing page of the URL that was not left yet, or "none"
  page,      \* what it shows: see Pages
  named,     \* the account has a display name
  skipped,   \* profileCompleted
  onboarding, \* useOnboarding: loading, hasSeenWelcome, hasSeenFlameIntro
  reading,   \* its read of the storage is under way
  stored,    \* the flags stored for the account
  legacy,    \* the flags stored without an account
  token,     \* a challenge invite waits to be claimed
  started,   \* pendingClaimStartedRef holds it
  claim,     \* the claim under way: "none", "sent", or "orphan" (its effect was cancelled)
  claiming,  \* claimingPendingInvite
  nav,       \* history, overlays and tab
  late,      \* the answer a screen waits for, or "none"
  intro,     \* showFlameIntro
  clicks,    \* notificationClicks: destinations without a handler
  handler,   \* someone is subscribed to them
  ran,       \* what the effects last ran for
  strayed    \* the app was used in one of the ways below that history cannot follow

gates == <<auth, landing, page, named, skipped, onboarding, reading, stored, legacy>>
invite == <<token, started, claim, claiming>>
shell == <<nav, late, intro>>
vars == <<gates, invite, shell, clicks, handler, ran, strayed>>

Tabs == {"today", "friends", "feed", "profile"}
Overlays == {"editProfile", "habitDetail", "editHabit", "createHabit", "notifications",
             "addFriend", "friendProfile", "createChallenge", "challenges", "settings",
             "stats", "witnessLinks", "createChallengeInvite", "todos", "meditation"}
Landings == {"invite", "witness", "flame"}
Pages == {"loading", "missing", "failed", "gone", "degraded", "shown"}
Destinations == Tabs \cup {"challenges"}
Late == {"edit", "archive", "habitSaved", "habitEdited"}

Top(v) == IF v.stack = <<>> THEN v.tab ELSE Last(v.stack)

-----------------------------------------------------------------------------
(* createHistorySync and useOverlayRouter.                                 *)

PushState(v) == [v EXCEPT !.pos = @ + 1, !.top = v.pos + 1]

Going(v, n, why) == [v EXCEPT !.going = Append(@, [by |-> n, why |-> why])]

\* Faulty variant: the entry of the first tab replaces the base instead of covering it.
ApplyTab_Replaces(v, from, to) ==
  CASE from = to \/ to = "today" -> [v EXCEPT !.sentinel = @ /\ from = to]
    [] OTHER -> [v EXCEPT !.sentinel = TRUE]

\* One entry covers the base while another tab than Today is open.
ApplyTab(v, from, to) ==
  IF from # to /\ to = "today" THEN [v EXCEPT !.sentinel = FALSE]
  ELSE IF from # to /\ from = "today" THEN PushState([v EXCEPT !.sentinel = TRUE])
  ELSE v

\* A tab change while a closing traversal is under way waits for its popstate.
SyncTab(v, from, to) ==
  LET first == IF v.pending = <<>> THEN from ELSE v.pending[1]
  IN IF ~v.on \/ from = to THEN v
     ELSE IF v.suppress > 0 THEN [v EXCEPT !.pending = IF first = to THEN <<>> ELSE <<first, to>>]
     ELSE ApplyTab(v, from, to)

SelectTab(v, from, to) == [SyncTab(v, from, to) EXCEPT !.tab = to]

Push(v, o) ==
  LET w == [v EXCEPT !.stack = Append(@, o)]
  IN IF v.on THEN PushState([w EXCEPT !.depth = @ + 1]) ELSE w

Popped(v) == [v EXCEPT !.stack = IF @ = <<>> THEN @ ELSE Front(@)]

\* With history, the overlay goes when its popstate comes.
Pop(v) == IF v.on /\ v.depth > 0 THEN Going(v, 1, "back") ELSE Popped(v)

\* Faulty variant: the popstate of the traversal is taken for the user's.
CloseAll_NotSuppressed(v) ==
  LET w == [v EXCEPT !.stack = <<>>]
  IN IF v.on /\ v.depth > 0 THEN Going([w EXCEPT !.depth = 0], v.depth, "close") ELSE w

CloseAll(v) ==
  LET w == [v EXCEPT !.stack = <<>>]
  IN IF v.on /\ v.depth > 0
     THEN Going([w EXCEPT !.depth = 0, !.suppress = @ + 1], v.depth, "close")
     ELSE w

\* Faulty variant: the depth is not looked at.
PopState_AnyDepth(v) ==
  IF v.on THEN Popped([v EXCEPT !.depth = @ - 1]) ELSE v

\* Faulty variant: an overlay is closed but still counted.
PopState_StillCounted(v) == IF v.depth > 0 THEN Popped(v) ELSE v

PopState(v) ==
  IF ~v.on THEN v
  ELSE IF v.suppress = 1 /\ v.pending # <<>>
       THEN ApplyTab([v EXCEPT !.suppress = 0, !.pending = <<>>], v.pending[1], v.pending[2])
  ELSE IF v.suppress > 0 THEN [v EXCEPT !.suppress = @ - 1]
  ELSE IF v.depth > 0 THEN Popped([v EXCEPT !.depth = @ - 1])
  ELSE IF v.sentinel THEN [v EXCEPT !.sentinel = FALSE, !.tab = "today"]
  ELSE v

Reset(v, on) == [v EXCEPT !.on = on, !.depth = 0, !.sentinel = FALSE, !.suppress = 0,
                          !.pending = <<>>]

\* The handler of a notification click; from is the tab of the last render.
Navigate(v, from, d) ==
  IF d \in Tabs THEN SelectTab(CloseAll(v), from, d) ELSE Push(CloseAll(v), d)

Fits(v) == Len(v.stack) <= MaxDepth /\ v.top <= MaxEntries /\ Len(v.going) <= MaxGoing

\* The first entry of the browser's history is the page itself.
NewNav(pos, top) ==
  [on |-> FALSE, depth |-> 0, sentinel |-> FALSE, suppress |-> 0, pending |-> <<>>,
   pos |-> pos, top |-> top, going |-> <<>>, stack |-> <<>>, tab |-> "today"]

\* history is no longer in step: a back is asked for, or everything closed, while
\* another back is under way.
Overtakes(w) ==
  \E i \in 2 .. Len(w.going) : w.going[i - 1].why = "back" /\ Len(w.going) > Len(nav.going)

\* Where an event leaves the shell.
Go(w) ==
  /\ Fits(w) /\ nav' = w
  /\ strayed' = (strayed \/ Overtakes(w))

-----------------------------------------------------------------------------
(* What is on the screen.                                                  *)

Gate ==
  IF landing # "none" THEN landing
  ELSE IF auth = "loading" THEN "restoring"
  ELSE IF auth = "out" THEN "signIn"
  ELSE IF ~named /\ ~skipped THEN "profileCompletion"
  ELSE IF onboarding.loading THEN "restoring"
  ELSE IF ~onboarding.welcome THEN "welcome"
  ELSE IF claiming THEN "claimingInvite"
  ELSE "open"

Screen == IF Gate = "open" THEN Top(nav) ELSE Gate

HistoryEnabled == auth = "in" /\ landing = "none"

\* Faulty variant: the claim effect does not look at the completion of the profile.
Deps_NoProfile ==
  [history |-> HistoryEnabled, user |-> auth = "in",
   claim |-> <<auth = "in", landing # "invite", onboarding.loading, onboarding.welcome, named>>]

\* The dependencies of the effects, as of the last render.
Deps ==
  [history |-> HistoryEnabled, user |-> auth = "in",
   claim |-> <<auth = "in", landing # "invite", skipped, onboarding.loading,
               onboarding.welcome, named>>]

Rendered == ran = Deps

MayClaim == /\ auth = "in" /\ landing # "invite" /\ (named \/ skipped)
            /\ ~onboarding.loading /\ onboarding.welcome
            /\ token /\ ~started

\* Replays every destination that waited, each with the tab of the same render.
Replay(v) ==
  LET after[i \in 0 .. Len(clicks)] == IF i = 0 THEN v ELSE Navigate(after[i - 1], v.tab, clicks[i])
  IN after[Len(clicks)]

\* A tab is replayed after another one: it is selected from a tab that is no longer open.
ReplaysStaleTab(v) ==
  \E i, j \in DOMAIN clicks : i < j /\ clicks[i] \in Tabs \ {v.tab} /\ clicks[j] \in Tabs

\* The effects run in the order of their hooks, before the next event.
RunEffects ==
  LET moved == ran.user # Deps.user
      synced == IF ran.history # Deps.history THEN Reset(nav, Deps.history) ELSE nav
      w == IF moved /\ auth = "in" THEN Replay(synced) ELSE synced
      again == ran.claim # Deps.claim
  IN /\ ~Rendered
     /\ Fits(w) /\ nav' = w
     /\ strayed' = \/ strayed \/ Overtakes(w)
                   \/ moved /\ auth = "in" /\ synced.on /\ ReplaysStaleTab(synced)
                   \/ /\ synced.on /\ ~nav.on
                      /\ nav.stack # <<>> \/ nav.tab # "today" \/ nav.going # <<>>
     /\ IF moved
        THEN /\ onboarding' = [loading |-> TRUE, welcome |-> FALSE, intro |-> FALSE]
             /\ reading' = TRUE
             /\ handler' = (auth = "in")
             /\ clicks' = (IF auth = "in" THEN <<>> ELSE clicks)
        ELSE UNCHANGED <<onboarding, reading, handler, clicks>>
     /\ IF again /\ MayClaim
        THEN started' = TRUE /\ claim' = "sent" /\ claiming' = TRUE
        ELSE /\ claim' = (IF again /\ claim = "sent" THEN "orphan" ELSE claim)
             /\ UNCHANGED <<started, claiming>>
     /\ ran' = Deps
     /\ UNCHANGED <<auth, landing, page, named, skipped, stored, legacy, token, late, intro>>

\* useOnboarding reads its flags; those of a signed-in account are migrated.
OnboardingRead ==
  LET seen(f) == f \in legacy \/ (ran.user /\ f \in stored)
  IN /\ reading
     /\ onboarding' = [loading |-> FALSE, welcome |-> seen("welcome"), intro |-> seen("intro")]
     /\ reading' = FALSE
     /\ stored' = IF ran.user THEN stored \cup legacy ELSE stored
     /\ UNCHANGED <<auth, landing, page, named, skipped, legacy, invite, shell, clicks, handler, ran,
                    strayed>>

-----------------------------------------------------------------------------
(* The gates.                                                              *)

SetAuth(state) ==
  /\ Rendered
  /\ auth' = state
  /\ UNCHANGED <<landing, page, named, skipped, onboarding, reading, stored, legacy, invite, shell,
                 clicks, handler, ran, strayed>>

Bootstrap == auth = "loading" /\ \E s \in {"in", "out"} : SetAuth(s)
SignIn    == Screen = "signIn" /\ SetAuth("in")
\* Signing out and deleting the account, both on the settings screen.
SignOut   == Screen = "settings" /\ SetAuth("out")

\* What the request of a landing page may come back with.
PageAnswers == {"missing", "failed", "shown", IF landing = "invite" THEN "gone" ELSE "degraded"}

ShowPage(p) ==
  /\ landing # "none" /\ page' = p
  /\ UNCHANGED <<auth, landing, named, skipped, onboarding, reading, stored, legacy, invite,
                 shell, clicks, handler, ran, strayed>>

PageAnswered == page = "loading" /\ \E p \in PageAnswers : ShowPage(p)

\* "Try again": the flame page starts over, the others keep what they show meanwhile.
RetryPage == /\ page \in {"failed", "degraded"}
             /\ \E p \in IF landing = "flame" THEN {"loading"} ELSE PageAnswers : ShowPage(p)

\* The window gets the focus and a query refetches: its new answer or failure is shown.
RefocusPage == /\ landing \in {"invite", "witness"} /\ page # "loading"
               /\ \E p \in PageAnswers : ShowPage(p)

\* What a landing page offers to press.
InviteOffers(p) ==
  CASE p \in {"missing", "gone"} -> {"leave"}
    [] p = "shown" -> {IF auth = "in" THEN "accept" ELSE "join"}
    [] OTHER -> {}

WitnessOffers(p) == IF p \in {"missing", "degraded", "shown"} THEN {"leave"} ELSE {}

FlameOffers(p) == IF p \in {"missing", "degraded", "shown"} THEN {"leave"} ELSE {}

Offers == CASE landing = "invite"  -> InviteOffers(page)
            [] landing = "witness" -> WitnessOffers(page)
            [] landing = "flame"   -> FlameOffers(page)
            [] OTHER               -> {}

Leave == landing' = "none" /\ page' = "loading"

LeaveLanding ==
  /\ Rendered /\ "leave" \in Offers
  /\ Leave
  /\ UNCHANGED <<auth, named, skipped, onboarding, reading, stored, legacy, invite, shell,
                 clicks, handler, ran, strayed>>

\* Joining by an invite keeps its token for after the sign-up.
JoinByInvite ==
  /\ Rendered /\ "join" \in Offers
  /\ Leave /\ token' = TRUE
  /\ UNCHANGED <<auth, named, skipped, onboarding, reading, stored, legacy, started, claim,
                 claiming, shell, clicks, handler, ran, strayed>>

\* The invite is accepted on its landing page by somebody who is signed in (a refusal is
\* shown there).
AcceptInvite ==
  /\ Rendered /\ "accept" \in Offers
  /\ Leave /\ token' = FALSE
  /\ nav' = [nav EXCEPT !.tab = "today"]
  /\ UNCHANGED <<auth, named, skipped, onboarding, reading, stored, legacy, started, claim,
                 claiming, late, intro, clicks, handler, ran, strayed>>

\* A name is saved (the user is updated before the screen completes), or skipped.
CompleteProfile ==
  /\ Rendered /\ Screen = "profileCompletion"
  /\ named' \in BOOLEAN
  /\ skipped' = TRUE
  /\ UNCHANGED <<auth, landing, page, onboarding, reading, stored, legacy, invite, shell, clicks,
                 handler, ran, strayed>>

\* markWelcomeSeen and markFlameIntroSeen.
Mark(flag) ==
  /\ onboarding' = [onboarding EXCEPT ![flag] = TRUE]
  /\ stored' = stored \cup {flag}

Continue ==
  /\ Rendered /\ Screen = "welcome"
  /\ Mark("welcome")
  /\ UNCHANGED <<auth, landing, page, named, skipped, reading, legacy, invite, shell, clicks, handler,
                 ran, strayed>>

\* Faulty variant: only a success takes the screen away.
StillClaiming_OnError(ok) == ~ok

StillClaiming(ok) == FALSE

\* The answer of the claim; on success Today is opened without a word to the history.
ClaimAnswered(ok) ==
  /\ claim = "sent"
  /\ claim' = "none" /\ claiming' = StillClaiming(ok) /\ token' = FALSE
  /\ nav' = [nav EXCEPT !.tab = IF ok THEN "today" ELSE @]
  /\ strayed' = (strayed \/ (ok /\ nav.tab # "today"))
  /\ UNCHANGED <<gates, started, late, intro, clicks, handler, ran>>

\* The answer of a claim whose effect was cancelled is dropped.
OrphanAnswered ==
  /\ claim = "orphan"
  /\ claim' = "none"
  /\ UNCHANGED <<gates, token, started, claiming, shell, clicks, handler, ran, strayed>>

-----------------------------------------------------------------------------
(* The shell.                                                              *)

\* Which overlays a tab or an overlay opens.
Opens(s) ==
  CASE s = "today"         -> {"createHabit", "habitDetail", "notifications", "meditation", "todos"}
    [] s = "friends"       -> {"addFriend", "friendProfile"}
    [] s = "feed"          -> {"friendProfile", "challenges"}
    [] s = "profile"       -> {"editProfile", "settings", "challenges", "witnessLinks"}
    [] s = "habitDetail"   -> {"stats"}
    [] s = "notifications" -> {"friendProfile", "challenges"}
    [] s = "addFriend"     -> {"createChallengeInvite"}
    [] s = "friendProfile" -> {"createChallenge"}
    [] s = "settings"      -> {"editProfile"}
    [] OTHER               -> {}

\* How an overlay is left: by one step, by closing everything, or to a tab.
Leaving(v, s) ==
  LET To(t) == SelectTab(CloseAll(v), v.tab, t)
  IN CASE s \in {"editHabit", "createHabit", "createChallenge", "createChallengeInvite",
                 "stats"}                                    -> {Pop(v)}
       [] s \in {"habitDetail", "notifications", "challenges", "todos", "meditation"}
                                                             -> {CloseAll(v)}
       [] s \in {"editProfile", "settings", "witnessLinks"}  -> {To("profile")}
       [] s \in {"addFriend", "friendProfile"}               -> {To("friends")}
       [] OTHER                                              -> {}

\* The two wizards also end with a way back to the friends.
Completing(v, s) == IF s \in {"createChallenge", "createChallengeInvite"}
                    THEN {SelectTab(CloseAll(v), v.tab, "friends")} ELSE {}

\* The dialog of the first flame covers the tabs.
Usable == Rendered /\ Gate = "open" /\ ~(intro /\ nav.stack = <<>>)

OpenOverlay ==
  /\ Usable
  /\ \E o \in Opens(Screen) : Go(Push(nav, o))
  /\ UNCHANGED <<gates, invite, late, intro, clicks, handler, ran>>

LeaveOverlay ==
  /\ Usable
  /\ \E w \in Leaving(nav, Screen) \cup Completing(nav, Screen) : Go(w)
  /\ UNCHANGED <<gates, invite, late, intro, clicks, handler, ran>>

TabPress(t) ==
  /\ Usable /\ nav.stack = <<>>
  /\ Go(SelectTab(CloseAll(nav), nav.tab, t))
  /\ UNCHANGED <<gates, invite, late, intro, clicks, handler, ran>>

\* A screen asks the server for something before it goes on.
Asks(s) == CASE s = "habitDetail" -> {"edit", "archive"} [] s = "createHabit" -> {"habitSaved"}
             [] s = "editHabit" -> {"habitEdited"} [] OTHER -> {}

Ask ==
  /\ Usable /\ late = "none"
  /\ late' \in Asks(Screen)
  /\ UNCHANGED <<gates, invite, nav, intro, clicks, handler, ran, strayed>>

\* The answer acts on whatever is open by then.  A saved form calls onSaved and onClose:
\* the edit form pops twice.
Answered(ok) ==
  LET first == late = "habitSaved" /\ ~onboarding.intro
      Saved == Pop(IF first THEN SelectTab(CloseAll(nav), nav.tab, "today") ELSE CloseAll(nav))
      Edited == Pop(Pop(nav))
  IN /\ Rendered /\ late # "none"
     /\ late' = "none"
     /\ IF ~ok THEN UNCHANGED <<nav, intro, strayed>>
        ELSE CASE late = "edit"       -> Go(Push(nav, "editHabit")) /\ intro' = intro
               [] late = "archive"    -> Go(CloseAll(nav)) /\ intro' = intro
               [] late = "habitSaved" -> Go(Saved) /\ intro' = (intro \/ first)
               [] OTHER ->
                    /\ Fits(Edited) /\ nav' = Edited /\ intro' = intro
                    /\ strayed' = \/ strayed \/ Screen # "editHabit" \/ Len(nav.stack) < 2
                                  \/ \E i \in DOMAIN nav.going : nav.going[i].why = "back"
     /\ UNCHANGED <<gates, invite, clicks, handler, ran>>

DismissIntro ==
  /\ Rendered /\ Gate = "open" /\ intro /\ nav.stack = <<>>
  /\ intro' = FALSE
  /\ Mark("intro")
  /\ UNCHANGED <<auth, landing, page, named, skipped, reading, legacy, invite, nav, late, clicks,
                 handler, ran, strayed>>

\* A click on a system notification, told to the page by the service worker.
Click(d) ==
  /\ Rendered
  /\ IF handler THEN Go(Navigate(nav, nav.tab, d)) /\ clicks' = clicks
     ELSE Len(clicks) < MaxClicks /\ clicks' = Append(clicks, d) /\ UNCHANGED <<nav, strayed>>
  /\ UNCHANGED <<gates, invite, late, intro, handler, ran>>

\* The browser's buttons.  Leaving the page altogether is not modelled.
Back ==
  /\ Rendered /\ nav.pos > 1
  /\ Go(Going(nav, 1, "back"))
  /\ UNCHANGED <<gates, invite, late, intro, clicks, handler, ran>>

Forward ==
  /\ Rendered /\ nav.pos < nav.top /\ nav.going = <<>>
  /\ LET w == PopState([nav EXCEPT !.pos = @ + 1]) IN Fits(w) /\ nav' = w
  /\ strayed' = (strayed \/ nav.on)
  /\ UNCHANGED <<gates, invite, late, intro, clicks, handler, ran>>

\* The next traversal; one beyond the first entry does nothing.
Traverse ==
  /\ Rendered /\ nav.going # <<>>
  /\ LET n == Head(nav.going).by
         rest == [nav EXCEPT !.going = Tail(@)]
     IN IF n < nav.pos THEN Fits(PopState([rest EXCEPT !.pos = @ - n]))
                            /\ nav' = PopState([rest EXCEPT !.pos = @ - n])
        ELSE nav' = rest
  /\ UNCHANGED <<gates, invite, late, intro, clicks, handler, ran, strayed>>

-----------------------------------------------------------------------------

\* What a page that is being loaded starts from.
Load(pos, top) ==
  /\ auth' = "loading" /\ page' = "loading" /\ skipped' = FALSE
  /\ onboarding' = [loading |-> TRUE, welcome |-> FALSE, intro |-> FALSE] /\ reading' = TRUE
  /\ started' = FALSE /\ claim' = "none" /\ claiming' = FALSE
  /\ nav' = NewNav(pos, top) /\ late' = "none" /\ intro' = FALSE
  /\ clicks' = <<>> /\ handler' = FALSE
  /\ ran' = [history |-> FALSE, user |-> FALSE,
             claim |-> <<FALSE, landing # "invite", FALSE, TRUE, FALSE, named>>]
  /\ strayed' = FALSE

Reload ==
  /\ auth # "loading"
  /\ Load(nav.pos, nav.top)
  /\ UNCHANGED <<landing, named, stored, legacy, token>>

Init ==
  /\ auth = "loading" /\ page = "loading" /\ landing \in Landings \cup {"none"} /\ named \in BOOLEAN
  /\ skipped = FALSE
  /\ onboarding = [loading |-> TRUE, welcome |-> FALSE, intro |-> FALSE] /\ reading = TRUE
  /\ stored \in {{}, {"welcome", "intro"}}
  /\ legacy \in IF Legacy THEN {{}, {"welcome", "intro"}} ELSE {{}}
  /\ token = FALSE /\ started = FALSE /\ claim = "none" /\ claiming = FALSE
  /\ nav = NewNav(1, 1) /\ late = "none" /\ intro = FALSE
  /\ clicks \in {<<>>} \cup (IF landing = "none" THEN {<<d>> : d \in Destinations} ELSE {})
  /\ handler = FALSE
  /\ ran = Deps
  /\ strayed = FALSE

Next ==
  \/ RunEffects \/ OnboardingRead
  \/ Bootstrap \/ SignIn \/ SignOut
  \/ PageAnswered \/ RetryPage \/ RefocusPage
  \/ LeaveLanding \/ JoinByInvite \/ AcceptInvite
  \/ CompleteProfile \/ Continue
  \/ (\E ok \in BOOLEAN : ClaimAnswered(ok) \/ Answered(ok)) \/ OrphanAnswered
  \/ OpenOverlay \/ LeaveOverlay \/ Ask \/ DismissIntro
  \/ (\E t \in Tabs : TabPress(t)) \/ (\E d \in Destinations : Click(d))
  \/ Back \/ Forward \/ Traverse \/ Reload

Spec == Init /\ [][Next]_vars

\* React runs its effects, the storage and the claim are answered, traversals end.
FairSpec == /\ Spec
            /\ WF_vars(RunEffects) /\ WF_vars(OnboardingRead) /\ WF_vars(Traverse)
            /\ WF_vars(\E ok \in BOOLEAN : ClaimAnswered(ok))

-----------------------------------------------------------------------------
(* Properties.                                                             *)

Answers == BOOLEAN \X BOOLEAN \X BOOLEAN \X BOOLEAN \X BOOLEAN \X BOOLEAN

TypeOK ==
  /\ auth \in {"loading", "in", "out"} /\ landing \in Landings \cup {"none"} /\ page \in Pages
  /\ onboarding \in [loading: BOOLEAN, welcome: BOOLEAN, intro: BOOLEAN]
  /\ stored \subseteq {"welcome", "intro"} /\ legacy \subseteq {"welcome", "intro"}
  /\ {named, skipped, reading, token, started, claiming, intro, handler, strayed} \subseteq BOOLEAN
  /\ claim \in {"none", "sent", "orphan"} /\ late \in Late \cup {"none"}
  /\ nav \in [on: BOOLEAN, depth: 0 .. MaxDepth, sentinel: BOOLEAN, suppress: Nat,
              pending: {<<>>} \cup (Tabs \X Tabs), pos: 1 .. MaxEntries, top: 1 .. MaxEntries,
              going: Seq([by: Nat, why: {"back", "close"}]), stack: Seq(Overlays), tab: Tabs]
  /\ nav.pos <= nav.top /\ Fits(nav)
  /\ clicks \in Seq(Destinations) /\ Len(clicks) <= MaxClicks
  /\ ran \in [history: BOOLEAN, user: BOOLEAN, claim: Answers]

Settled == nav.on /\ nav.going = <<>> /\ ~strayed

\* Once no traversal is under way, useHistorySync's own count of the overlays and its tab
\* sentinel agree with what React shows, however closing, tab changes and notification
\* clicks were interleaved with the popstate events.
HistoryInStep == Settled => /\ nav.depth = Len(nav.stack)
                            /\ nav.sentinel <=> nav.tab # "today"

\* The Back button closes what is open and never leaves the app over it: below the
\* current entry there is one for every open overlay and for the tab.
BackStaysInside == Settled => nav.pos > nav.depth + (IF nav.sentinel THEN 1 ELSE 0)

\* Exactly the popstate events of the traversals that closeAll started are swallowed.
SuppressMatches ==
  nav.on /\ ~strayed =>
    nav.suppress = Cardinality({i \in DOMAIN nav.going : nav.going[i].why = "close"})

\* Whoever signs up for a challenge invite reaches the shell only with it claimed or
\* refused, whichever gates (profile, welcome, storage) came in between.
InviteNotForgotten == Rendered /\ Gate = "open" => ~token

\* The "Accepting your challenge..." screen goes away ("claim once then land on Today",
\* RootNavigator.tsx:284), on every device without the flags of the time before accounts:
\* with them the claim is sent before the flags are read, and its answer is then dropped.
ClaimSettles == claiming ~> (~claiming \/ legacy # {})
=============================================================================
