--------------------------------- MODULE Limiter ---------------------------------
(***************************************************************************)
(* The rate limiters before the handlers (ratelimit/limiter.go): a fixed   *)
(* window of counters per client address, one limiter for the paths of     *)
(* /auth/ and one for all others (cmd/api/main.go).  A request reads the   *)
(* clock before it waits for the lock, so a limiter meets the times out of *)
(* order.                                                                  *)
(***************************************************************************)
EXTENDS Integers

CONSTANTS
  Limit,        \* [limiter -> requests that pass in a window]
  Addresses,    \* what ClientIP tells apart
  Requests,
  Window, ScavengeInterval,
  MaxClock,     \* bound on the clock
  MaxCome       \* bound on the requests that come

VARIABLES
  clock,        \* Go's monotonic clock
  buckets,      \* per limiter and address NoBucket or [start, count]
  lastScavenge, \* per limiter
  req,          \* the requests that wait for a lock: [limiter, address, now]
  came,
  passed,       \* per limiter, address and time the requests of an earlier time that passed
  refused,      \* the request refused in the last step, or NoReq
  newest,       \* per limiter the latest time it has met
  late          \* a limiter met an earlier time after a later one

vars == <<clock, buckets, lastScavenge, req, came, passed, refused, newest, late>>

Limiters == DOMAIN Limit
Times == 0 .. MaxClock
Until == 0 .. (MaxClock + 1)
NoBucket == [start |-> 0, count |-> 0]
NoReq == [limiter |-> "none", address |-> "none", now |-> 0]

Tick ==
  /\ clock < MaxClock /\ clock' = clock + 1
  /\ refused' = NoReq
  /\ UNCHANGED <<buckets, lastScavenge, req, came, passed, newest, late>>

\* PrefixMiddleware picks the limiter, and Allow reads the clock before it locks.
Come(r) ==
  /\ req[r] = NoReq /\ came < MaxCome /\ came' = came + 1
  /\ \E l \in Limiters, a \in Addresses :
       req' = [req EXCEPT ![r] = [limiter |-> l, address |-> a, now |-> clock]]
  /\ refused' = NoReq
  /\ UNCHANGED <<clock, buckets, lastScavenge, passed, newest, late>>

\* Faulty variant: a window is one unit longer.
Over_Late(bucket, now) == bucket = NoBucket \/ now - bucket.start > Window

Over(bucket, now) == bucket = NoBucket \/ now - bucket.start >= Window

\* Faulty variant: every bucket is dropped.
Scavenged_All(l, now) ==
  IF now - lastScavenge[l] < ScavengeInterval THEN buckets[l]
  ELSE [a \in Addresses |-> NoBucket]

\* scavengeLocked.
Scavenged(l, now) ==
  IF now - lastScavenge[l] < ScavengeInterval THEN buckets[l]
  ELSE [a \in Addresses |-> IF Over(buckets[l][a], now) THEN NoBucket ELSE buckets[l][a]]

\* Faulty variant: a full bucket takes one more.
Full_After(bucket, l) == bucket.count > Limit[l]

Full(bucket, l) == bucket.count >= Limit[l]

Counted(bucket, now) ==
  IF Over(bucket, now) THEN [start |-> now, count |-> 1] ELSE [bucket EXCEPT !.count = @ + 1]

\* Allow under the lock.
Allow(r) ==
  LET l == req[r].limiter  a == req[r].address  now == req[r].now
      kept == Scavenged(l, now)
      pass == Over(kept[a], now) \/ ~Full(kept[a], l)
  IN /\ req[r] # NoReq
     /\ buckets' = [buckets EXCEPT ![l] =
          IF pass THEN [kept EXCEPT ![a] = Counted(@, now)] ELSE kept]
     /\ lastScavenge' = IF now - lastScavenge[l] < ScavengeInterval THEN lastScavenge
                        ELSE [lastScavenge EXCEPT ![l] = now]
     /\ passed' = IF pass THEN [passed EXCEPT ![l][a] =
                                 [t \in Until |-> IF t > now THEN @[t] + 1 ELSE @[t]]]
                  ELSE passed
     /\ refused' = IF pass THEN NoReq ELSE req[r]
     /\ newest' = [newest EXCEPT ![l] = IF now > @ THEN now ELSE @]
     /\ late' = (late \/ now < newest[l])
     /\ req' = [req EXCEPT ![r] = NoReq]
     /\ UNCHANGED <<clock, came>>

Init ==
  /\ clock = 0 /\ came = 0 /\ refused = NoReq /\ late = FALSE
  /\ buckets = [l \in Limiters |-> [a \in Addresses |-> NoBucket]]
  /\ lastScavenge = [l \in Limiters |-> 0] /\ newest = [l \in Limiters |-> 0]
  /\ req = [r \in Requests |-> NoReq]
  /\ passed = [l \in Limiters |-> [a \in Addresses |-> [t \in Until |-> 0]]]

Next == Tick \/ \E r \in Requests : Come(r) \/ Allow(r)

Spec == Init /\ [][Next]_vars

-----------------------------------------------------------------------------
(* Properties.                                                             *)

TypeOK ==
  /\ clock \in Times /\ came \in 0 .. MaxCome
  /\ \A l \in Limiters, a \in Addresses :
       buckets[l][a].start \in Times /\ buckets[l][a].count \in 0 .. Limit[l]

Within(l, a, from, to) == passed[l][a][to + 1] - passed[l][a][from]

\* Of one address at most Limit requests pass in a window, twice that in any interval as long
\* as one (the comment of the package), unless a limiter meets the times out of order.
BurstIsBounded ==
  ~late => \A l \in Limiters, a \in Addresses, t \in 0 .. (MaxClock + 1 - Window) :
             Within(l, a, t, t + Window - 1) <= 2 * Limit[l]

\* A request is refused only if Limit requests of its own address, to the same limiter, passed
\* in the window before it: scavenging takes no count away and adds none, and no address pays
\* for another.
RefusedForCause ==
  refused # NoReq /\ ~late =>
    LET from == refused.now + 1 - Window
    IN Within(refused.limiter, refused.address, IF from < 0 THEN 0 ELSE from, refused.now)
         >= Limit[refused.limiter]
=============================================================================
