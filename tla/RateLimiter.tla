----------------------------- MODULE RateLimiter -----------------------------
(***************************************************************************)
(* The rate limiter of lead submissions (check_rate_limits in              *)
(* src/app/dependencies/leads.py) in its two forms: counters in Redis that *)
(* expire Window after their last hit, and, where Redis is missing or      *)
(* fails, lists of time stamps in the API process.  Each call is charged   *)
(* to three tiers.                                                         *)
(*                                                                         *)
(* Time is a bounded clock; a tick is a fraction of the window.            *)
(***************************************************************************)
EXTENDS Integers, Sequences, FiniteSets

CONSTANTS
  Ips, Widgets,
  Limits,    \* limits of the tiers global_ip, widget_ip, widget_global
  Window,    \* RATE_LIMIT_WINDOW
  MaxTime    \* bound of the clock

ASSUME LimiterAssumption ==
  /\ Limits \in [1..3 -> Nat \ {0}]
  /\ Window \in Nat \ {0}
  /\ MaxTime \in Nat

VARIABLES
  now,
  redis,     \* redis[k]: counter and time of expiry of ratelimit:{k}
  local,     \* local[k]: the time stamps in _in_process_limits that still count
  admitted,  \* history: admitted[form][k], the recent admissions of each form
  lastHit    \* history: lastHit[k], the latest call charged or refused under k

limiterVars == <<redis, local, admitted, lastHit>>

\* RATE_LIMIT_TIERS, in the order in which they are checked.
TierKeys(ip, w) ==
  << <<"global_ip", ip>>, <<"widget_ip", w, ip>>, <<"widget_global", w>> >>

KeysOf(ip, w) == {TierKeys(ip, w)[i] : i \in 1..3}

Keys == UNION {KeysOf(ip, w) : ip \in Ips, w \in Widgets}

LimitOf(k) ==
  Limits[CASE k[1] = "global_ip" -> 1
           [] k[1] = "widget_ip" -> 2
           [] k[1] = "widget_global" -> 3]

Never == -Window

LimiterTypeOK ==
  /\ now \in 0..MaxTime
  /\ redis \in [Keys -> [n: Nat, until: 0..(MaxTime + Window)]]
  /\ local \in [Keys -> Seq(0..MaxTime)]
  /\ \A k \in Keys : Len(local[k]) <= LimitOf(k)
  /\ admitted \in [{"redis", "local"} -> [Keys -> Seq(0..MaxTime)]]
  /\ lastHit \in [Keys -> Never..MaxTime]

LimiterInit ==
  /\ now = 0
  /\ redis = [k \in Keys |-> [n |-> 0, until |-> 0]]
  /\ local = [k \in Keys |-> <<>>]
  /\ admitted = [form \in {"redis", "local"} |-> [k \in Keys |-> <<>>]]
  /\ lastHit = [k \in Keys |-> Never]

\* [t for t in timestamps if now - t < window]: the stamps of a list are in the
\* order in which they were taken, so that what stays is a tail of it.
Stale(times, at) == {i \in DOMAIN times : at - times[i] >= Window}
Since(times, at) == SubSeq(times, Cardinality(Stale(times, at)) + 1, Len(times))

Recent(times) == Since(times, now)

\* What the passage of a tick leaves of a list: entries that no later call counts
\* are dropped at once (the code drops them when it next looks at the key).
StillRecent(times) == Since(times, now + 1)

Tick ==
  /\ now < MaxTime
  /\ now' = now + 1
  /\ redis' = [k \in Keys |-> IF redis[k].until <= now + 1
                              THEN [n |-> 0, until |-> 0] ELSE redis[k]]
  /\ local' = [k \in Keys |-> StillRecent(local[k])]
  /\ admitted' = [form \in DOMAIN admitted |->
                    [k \in Keys |-> StillRecent(admitted[form][k])]]
  /\ UNCHANGED lastHit

-----------------------------------------------------------------------------

\* The history of a call: all its keys are hit; an admission is remembered.
Record(form, ip, w, ok) ==
  /\ lastHit' = [k \in Keys |-> IF k \in KeysOf(ip, w) THEN now ELSE lastHit[k]]
  /\ admitted' = [admitted EXCEPT ![form] =
                    [k \in Keys |-> IF ok /\ k \in KeysOf(ip, w)
                                    THEN Append(@[k], now) ELSE @[k]]]

\* Slip: EXPIRE is forgotten.
SlipNoExpiry(ip, w) ==
  [k \in Keys |-> IF k \in KeysOf(ip, w)
                  THEN [n |-> redis[k].n + 1, until |-> MaxTime + Window]
                  ELSE redis[k]]

\* The pipeline: INCR and EXPIRE of every tier, whatever the counts.
Charged(ip, w) ==
  [k \in Keys |-> IF k \in KeysOf(ip, w)
                  THEN [n |-> redis[k].n + 1, until |-> now + Window]
                  ELSE redis[k]]

\* Slip: only the first tier is compared with its limit.
SlipFirstTierOnly(ip, w) ==
  Charged(ip, w)[TierKeys(ip, w)[1]].n <= Limits[1]

WithinLimits(ip, w) ==
  \A k \in KeysOf(ip, w) : Charged(ip, w)[k].n <= LimitOf(k)

HitRedis(ip, w, ok) ==
  /\ ok = WithinLimits(ip, w)
  /\ redis' = Charged(ip, w)
  /\ Record("redis", ip, w, ok)
  /\ UNCHANGED <<now, local>>

\* Slip: the list is compared with > as the counter is.
SlipLocalOffByOne(ip, w) ==
  {i \in 1..3 : Len(Recent(local[TierKeys(ip, w)[i]])) > Limits[i]}

\* The tiers of a call whose list is full, by position.
FullTiers(ip, w) ==
  {i \in 1..3 : Len(Recent(local[TierKeys(ip, w)[i]])) >= Limits[i]}

\* _check_in_process: the tiers in order, each charged until one is full.
LocalCharge(ip, w) ==
  LET passed == {i \in 1..3 : \A f \in FullTiers(ip, w) : i < f}
  IN  [k \in Keys |-> IF \E i \in passed : k = TierKeys(ip, w)[i]
                      THEN Append(Recent(local[k]), now) ELSE local[k]]

HitLocal(ip, w, ok) ==
  /\ ok = (FullTiers(ip, w) = {})
  /\ local' = LocalCharge(ip, w)
  /\ Record("local", ip, w, ok)

\* A Redis error, before or after the pipeline was executed: the in-process form
\* decides.
HitFallback(ip, w, ok) ==
  /\ HitLocal(ip, w, ok)
  /\ \/ UNCHANGED redis
     \/ redis' = Charged(ip, w)
  /\ UNCHANGED now

-----------------------------------------------------------------------------

\* README, "Rate limiting": in any window each form of the limiter admits no more
\* than a tier's limit, whatever the other form and the failures in between did;
\* together they admit twice the limit at most.
AdmittedWithinLimit ==
  \A form \in {"redis", "local"}, k \in Keys : Len(admitted[form][k]) <= LimitOf(k)

\* No call was made under any key of this one for a whole window.
Quiet(ip, w) == \A k \in KeysOf(ip, w) : now - lastHit[k] >= Window

-----------------------------------------------------------------------------
(* The strengthening that makes the two properties of the limiter          *)
(* inductive.                                                              *)

InOrder(times) == \A i, j \in DOMAIN times : i <= j => times[i] <= times[j]

\* A counter that is alive was hit within the window, counts every admission that is
\* remembered and outlives them all.
CounterInv(k) ==
  /\ redis[k].n > 0 => now < redis[k].until /\ redis[k].until <= lastHit[k] + Window
  /\ Len(admitted["redis"][k]) <= redis[k].n
  /\ \A i \in DOMAIN admitted["redis"][k] :
       admitted["redis"][k][i] + Window <= redis[k].until

\* The admissions that are remembered lie behind the stamps, the last behind the last,
\* the one before it behind the one before it, and so on.
Behind(few, many) ==
  /\ Len(few) <= Len(many)
  /\ \A j \in 0..(Len(few) - 1) : few[Len(few) - j] <= many[Len(many) - j]

\* The stamps of a list are in order, and each still counts.
ListInv(k) ==
  /\ InOrder(local[k])
  /\ \A i \in DOMAIN local[k] : now - local[k][i] < Window /\ local[k][i] <= lastHit[k]
  /\ InOrder(admitted["local"][k])
  /\ Behind(admitted["local"][k], local[k])

LimiterInv ==
  /\ LimiterTypeOK
  /\ \A k \in Keys : /\ lastHit[k] <= now
                     /\ CounterInv(k)
                     /\ ListInv(k)
                     /\ Len(admitted["redis"][k]) <= LimitOf(k)

=============================================================================
