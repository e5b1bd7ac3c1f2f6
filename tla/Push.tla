---------------------------------- MODULE Push ----------------------------------
(***************************************************************************)
(* The notification section of the settings screen: the push switch        *)
(* (hooks/usePushNotifications.ts, utils/push.ts) with the subscription    *)
(* that the browser keeps and the device tokens of the backend, and the    *)
(* reminder settings (screens/SettingsScreen.tsx) that the app also stores *)
(* anew when the time zone has changed (hooks/useReminderTimezoneSync.ts). *)
(* A browser may be shared by the accounts of several users.               *)
(***************************************************************************)
EXTENDS Naturals, FiniteSets

CONSTANTS
  Users,
  Ops,           \* switchings of the push switch that may be in flight at once
  Puts,          \* updates of the settings that may be in flight at once
  MaxEndpoints,  \* bound on the subscriptions the browser makes
  MaxEvents,     \* bound on failures and on what the browser does by itself
  MaxMoves       \* bound on the steps of the user and on those together

VARIABLES
  user,        \* who is signed in, or Nobody
  permission,  \* Notification.permission
  sub,         \* the endpoint of the browser's subscription, or 0
  made,        \* the number of endpoints made
  tokens,      \* device_tokens: [user, endpoint]
  status, subscribing,  \* the hook's state; status "away" when the screen is not mounted
  op,          \* the switchings
  stored,      \* per user the reminder settings: [on, time, zone]
  shown,       \* the cached settings of the user, or NoSettings
  put,         \* the updates
  wanted,      \* per user the [on, time] chosen last on the screen
  zone,        \* the zone of the device
  events, moves,
  alone,       \* no switching overlapped another, or the opening of the screen; none failed;
               \* nobody signed out of a subscribed browser, which kept its subscription
  serial       \* no two updates overlapped and none failed

push     == <<permission, sub, made, tokens, status, subscribing, op, alone>>
reminder == <<stored, shown, put, wanted, zone, serial>>
vars == <<user, push, reminder, events, moves>>

Nobody == "nobody"
NoSettings == [on |-> FALSE, time |-> 0, zone |-> 0]
NoOp  == [kind |-> "none", step |-> "idle", endpoint |-> 0, mounted |-> FALSE]
NoPut == [phase |-> "idle", user |-> Nobody, on |-> FALSE, time |-> 0, zone |-> 0, patch |-> {},
          row |-> NoSettings]

MayMove  == moves + events < MaxMoves /\ moves' = moves + 1 /\ events' = events
MayOccur == events < MaxEvents /\ moves + events < MaxMoves /\ events' = events + 1 /\ moves' = moves
Quietly  == UNCHANGED <<events, moves>>

Idle == \A o \in Ops : op[o] = NoOp

-----------------------------------------------------------------------------
(* The push switch.                                                        *)

\* checkStatus.
Checked == IF permission = "denied" THEN "denied"
           ELSE IF sub # 0 THEN "subscribed"
           ELSE "unsubscribed"

\* The settings screen is opened, and asks the browser.
Open ==
  /\ user # Nobody /\ status = "away" /\ MayMove
  /\ status' = Checked /\ subscribing' = FALSE
  /\ alone' = (alone /\ Idle)
  /\ UNCHANGED <<user, permission, sub, made, tokens, op, reminder>>

\* Left; what is under way goes on, and its end finds no screen.
Unmount(s) ==
  /\ status' = "away" /\ subscribing' = FALSE
  /\ op' = [o \in Ops |-> [op[o] EXCEPT !.mounted = FALSE]]

Leave ==
  /\ status # "away" /\ MayMove
  /\ Unmount(status)
  /\ UNCHANGED <<user, permission, sub, made, tokens, alone, reminder>>

Begin(o, kind) ==
  /\ op[o] = NoOp /\ MayMove
  /\ op' = [op EXCEPT ![o] = [NoOp EXCEPT !.kind = kind, !.step = "ask", !.mounted = TRUE]]
  /\ alone' = (alone /\ Idle)

\* The switch shows where it stands and is locked while a subscribe is under way.
Switchable(from) == status = from /\ ~subscribing

\* The switch, or the link below the reminders, turns push on; once at a time.
Subscribe(o) ==
  /\ Switchable("unsubscribed")
  /\ Begin(o, "subscribe")
  /\ subscribing' = TRUE
  /\ UNCHANGED <<user, permission, sub, made, tokens, status, reminder>>

\* Turning it off has no such guard.
Unsubscribe(o) ==
  /\ Switchable("subscribed")
  /\ Begin(o, "unsubscribe")
  /\ UNCHANGED <<user, permission, sub, made, tokens, status, subscribing, reminder>>

\* The end of a switching, for the screen that began it.
End(o, new) ==
  /\ op' = [op EXCEPT ![o] = NoOp]
  /\ status' = IF op[o].mounted THEN new ELSE status
  /\ subscribing' = IF op[o].mounted /\ op[o].kind = "subscribe" THEN FALSE ELSE subscribing

\* A failure leaves "unsubscribed" behind a subscribe, and the status behind an unsubscribe.
Failed(o) == End(o, IF op[o].kind = "subscribe" THEN "unsubscribed" ELSE status)

\* The browser's question, which it asks only once.
Ask(o) ==
  /\ op[o].kind = "subscribe" /\ op[o].step = "ask"
  /\ \E answer \in IF permission = "default" THEN {"default", "granted", "denied"} ELSE {permission} :
       /\ permission' = answer
       /\ CASE answer = "granted" -> /\ op' = [op EXCEPT ![o].step = "obtain"]
                                     /\ UNCHANGED <<status, subscribing>>
            [] answer = "denied"  -> End(o, "denied")
            [] OTHER              -> Failed(o)
  /\ Quietly
  /\ UNCHANGED <<user, sub, made, tokens, alone, reminder>>

\* The browser's subscription, the one it has or a new one.
Obtain(o) ==
  /\ op[o].step = "obtain"
  /\ sub # 0 \/ made < MaxEndpoints
  /\ sub' = IF sub # 0 THEN sub ELSE made + 1
  /\ made' = IF sub # 0 THEN made ELSE made + 1
  /\ op' = [op EXCEPT ![o].step = "register", ![o].endpoint = sub']
  /\ Quietly
  /\ UNCHANGED <<user, permission, tokens, status, subscribing, alone, reminder>>

\* RegisterDevice, for whoever is signed in by now.
Register(o) ==
  /\ op[o].step = "register" /\ user # Nobody
  /\ tokens' = tokens \cup {[user |-> user, endpoint |-> op[o].endpoint]}
  /\ op' = [op EXCEPT ![o].step = "answered"]
  /\ Quietly
  /\ UNCHANGED <<user, permission, sub, made, status, subscribing, alone, reminder>>

Subscribed(o) ==
  /\ op[o].kind = "subscribe" /\ op[o].step = "answered"
  /\ End(o, "subscribed")
  /\ Quietly
  /\ UNCHANGED <<user, permission, sub, made, tokens, alone, reminder>>

\* Faulty variant: the browser's subscription is left as it is.
Dropped_Kept == sub

\* subscription.unsubscribe().
Dropped == 0

\* The browser's subscription ends before the backend is told; without one there is nothing
\* to tell.
Drop(o) ==
  /\ op[o].kind = "unsubscribe" /\ op[o].step = "ask"
  /\ IF sub = 0 THEN End(o, "unsubscribed") /\ sub' = sub
     ELSE /\ sub' = Dropped
          /\ op' = [op EXCEPT ![o].step = "delete", ![o].endpoint = sub]
          /\ UNCHANGED <<status, subscribing>>
  /\ Quietly
  /\ UNCHANGED <<user, permission, made, tokens, alone, reminder>>

\* UnregisterDevice: a token the user does not have is an error.
Unregister(o) ==
  /\ op[o].step = "delete" /\ user # Nobody
  /\ LET token == [user |-> user, endpoint |-> op[o].endpoint]
     IN /\ tokens' = tokens \ {token}
        /\ op' = [op EXCEPT ![o].step = IF token \in tokens THEN "deleted" ELSE "missing"]
  /\ Quietly
  /\ UNCHANGED <<user, permission, sub, made, status, subscribing, alone, reminder>>

Unsubscribed(o) ==
  /\ op[o].step \in {"deleted", "missing"}
  /\ IF op[o].step = "deleted" THEN End(o, "unsubscribed") ELSE Failed(o)
  /\ Quietly
  /\ UNCHANGED <<user, permission, sub, made, tokens, alone, reminder>>

\* Any call on the way fails, before or after it had its effect.
Lose(o) ==
  /\ op[o].step \in {"obtain", "register", "answered", "ask", "delete", "deleted"} /\ MayOccur
  /\ op[o].step = "ask" => op[o].kind = "unsubscribe"
  /\ Failed(o)
  /\ alone' = FALSE
  /\ UNCHANGED <<user, permission, sub, made, tokens, reminder>>

\* The browser gives a subscription up; deliverOne deletes the token of an endpoint that is
\* gone (404 or 410).
BrowserDrops ==
  /\ sub # 0 /\ MayOccur
  /\ sub' = 0 /\ alone' = FALSE
  /\ UNCHANGED <<user, permission, made, tokens, status, subscribing, op, reminder>>

Prune ==
  /\ \E token \in tokens : token.endpoint # sub /\ tokens' = tokens \ {token}
  /\ MayOccur
  /\ alone' = (alone /\ Idle)
  /\ UNCHANGED <<user, permission, sub, made, status, subscribing, op, reminder>>

-----------------------------------------------------------------------------
(* The account.                                                            *)

\* Signing out leaves the subscription, and its token, where they are.
SignOut ==
  /\ user # Nobody /\ MayMove
  /\ user' = Nobody
  /\ Unmount("away")
  /\ alone' = (alone /\ sub = 0 /\ Idle)
  /\ shown' = NoSettings
  /\ serial' = (serial /\ \A p \in Puts : put[p] = NoPut)
  /\ UNCHANGED <<permission, sub, made, tokens, stored, put, wanted, zone>>

\* useReminderTimezoneSync: the settings are read, and stored anew if the zone is another.
SignIn(u) ==
  /\ user = Nobody /\ MayMove
  /\ user' = u
  /\ shown' = stored[u]
  /\ \/ (~stored[u].on \/ stored[u].zone = zone) /\ put' = put
     \/ /\ stored[u].on /\ stored[u].zone # zone
        /\ \E p \in Puts :
             /\ put[p] = NoPut
             /\ put' = [put EXCEPT ![p] = [NoPut EXCEPT !.phase = "sent", !.user = u,
                          !.time = stored[u].time, !.zone = zone, !.patch = {"time", "zone"}]]
  /\ serial' = (serial /\ \A p \in Puts : put[p] = NoPut)
  /\ UNCHANGED <<push, stored, wanted, zone>>

-----------------------------------------------------------------------------
(* The reminder settings.                                                  *)

\* What the screen offers: the other state of the switch, or another time while reminders
\* are on and pushes arrive.
Offered(on, time) ==
  IF time = shown.time THEN on # shown.on ELSE on /\ shown.on /\ status = "subscribed"

\* saveReminderSettings: the switch, or another time; not while one is being saved.
SaveReminder(p) ==
  /\ status # "away" /\ put[p] = NoPut
  /\ \A q \in Puts : put[q].phase = "idle" \/ "on" \notin put[q].patch \/ put[q].user # user
  /\ \E on \in BOOLEAN, time \in {shown.time, 1 - shown.time} :
       /\ Offered(on, time)
       /\ put' = [put EXCEPT ![p] = [NoPut EXCEPT !.phase = "sent", !.user = user, !.on = on,
                    !.time = time, !.zone = zone, !.patch = {"on", "time", "zone"}]]
       /\ wanted' = [wanted EXCEPT ![user] = [on |-> on, time |-> time]]
  /\ serial' = (serial /\ \A q \in Puts : put[q] = NoPut)
  /\ MayMove
  /\ UNCHANGED <<user, push, stored, shown, zone>>

\* upsertSettings reads the row ...
ReadRow(p) ==
  /\ put[p].phase = "sent"
  /\ put' = [put EXCEPT ![p].phase = "read", ![p].row = stored[put[p].user]]
  /\ Quietly
  /\ UNCHANGED <<user, push, stored, shown, wanted, zone, serial>>

\* Faulty variant: what the request leaves out is reset.
Merged_Reset(q) == [on |-> q.on, time |-> q.time, zone |-> q.zone]

\* ... lays what the request names over it ...
Merged(q) == [q.row EXCEPT !.on = IF "on" \in q.patch THEN q.on ELSE @, !.time = q.time,
                           !.zone = q.zone]

\* ... and writes all of it back.
WriteRow(p) ==
  /\ put[p].phase = "read"
  /\ stored' = [stored EXCEPT ![put[p].user] = Merged(put[p])]
  /\ put' = [put EXCEPT ![p].phase = "written", ![p].row = Merged(put[p])]
  /\ Quietly
  /\ UNCHANGED <<user, push, shown, wanted, zone, serial>>

\* setQueryData with the answer, for the account that is signed in.
Saved(p) ==
  /\ put[p].phase = "written"
  /\ shown' = IF user = put[p].user THEN put[p].row ELSE shown
  /\ put' = [put EXCEPT ![p] = NoPut]
  /\ Quietly
  /\ UNCHANGED <<user, push, stored, wanted, zone, serial>>

LosePut(p) ==
  /\ put[p].phase # "idle" /\ MayOccur
  /\ put' = [put EXCEPT ![p] = NoPut]
  /\ serial' = FALSE
  /\ UNCHANGED <<user, push, stored, shown, wanted, zone>>

\* The device is taken to another zone.
Travel ==
  /\ zone = 0 /\ MayMove
  /\ zone' = 1
  /\ UNCHANGED <<user, push, stored, shown, put, wanted, serial>>

-----------------------------------------------------------------------------

Init ==
  /\ user = Nobody /\ permission \in {"default", "granted"} /\ sub = 0 /\ made = 0 /\ tokens = {}
  /\ status = "away" /\ subscribing = FALSE /\ op = [o \in Ops |-> NoOp]
  /\ \E on \in BOOLEAN : /\ stored = [u \in Users |-> [on |-> on, time |-> 0, zone |-> 0]]
                        /\ wanted = [u \in Users |-> [on |-> on, time |-> 0]]
  /\ shown = NoSettings /\ put = [p \in Puts |-> NoPut] /\ zone = 0
  /\ events = 0 /\ moves = 0 /\ alone = TRUE /\ serial = TRUE

Next ==
  \/ Open \/ Leave \/ SignOut \/ (\E u \in Users : SignIn(u)) \/ BrowserDrops \/ Prune \/ Travel
  \/ \E o \in Ops : \/ Subscribe(o) \/ Unsubscribe(o) \/ Ask(o) \/ Obtain(o) \/ Register(o)
                    \/ Subscribed(o) \/ Drop(o) \/ Unregister(o) \/ Unsubscribed(o) \/ Lose(o)
  \/ \E p \in Puts : SaveReminder(p) \/ ReadRow(p) \/ WriteRow(p) \/ Saved(p) \/ LosePut(p)

Spec == Init /\ [][Next]_vars

-----------------------------------------------------------------------------
(* Properties.                                                             *)

TypeOK ==
  /\ user \in Users \cup {Nobody} /\ permission \in {"default", "granted", "denied"}
  /\ status \in {"away", "subscribed", "unsubscribed", "denied"}
  /\ sub \in 0 .. made /\ made \in 0 .. MaxEndpoints
  /\ tokens \subseteq [user: Users, endpoint: 1 .. MaxEndpoints]
  /\ stored \in [Users -> [on: BOOLEAN, time: {0, 1}, zone: {0, 1}]]
  /\ \A p \in Puts : put[p].phase \in {"idle", "sent", "read", "written"}

Receives == [user |-> user, endpoint |-> sub] \in tokens

\* The switch tells whether pushes arrive, when it is not being moved: "on" means that the
\* backend has the browser's subscription for this account, "off" that it has not.  The code
\* keeps this only as long as no switching overlaps another one, a reopening of the screen or a pruning
\* and none fails, nobody signs out of a browser that is subscribed, and the browser keeps
\* its subscription.
SwitchIsTrue ==
  alone /\ Idle => /\ status = "subscribed" => Receives
                   /\ status = "unsubscribed" => ~Receives

\* Once no update is under way, the settings shown are the stored ones, and those are what
\* was chosen last: an update changes what it names and nothing else, although every one
\* writes the whole row.  The code keeps this only as long as no two updates overlap (the
\* zone's, sent when the app starts, and the screen's may) and none fails.
SettingsAreTrue ==
  serial /\ user # Nobody /\ (\A p \in Puts : put[p] = NoPut) =>
    /\ shown = stored[user]
    /\ [on |-> shown.on, time |-> shown.time] = wanted[user]
=============================================================================
