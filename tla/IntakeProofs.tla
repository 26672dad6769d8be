---------------------------- MODULE IntakeProofs ----------------------------
(***************************************************************************)
(* Theorems about Intake and the RateLimiter it is built on, for every set *)
(* of addresses, widgets, forms, leads and overlapping submissions, every  *)
(* limit, window and time to live, and every pattern of failures.          *)
(***************************************************************************)
EXTENDS Intake, FiniteSetTheorems, TLAPS

USE LimiterAssumption

-----------------------------------------------------------------------------
(* The lists of time stamps.                                               *)

Times == Seq(0..MaxTime)

LEMMA Shape ==
  ASSUME NEW times \in Times
  PROVE  /\ DOMAIN times = 1..Len(times) /\ Len(times) \in Nat
         /\ \A i \in 1..Len(times) : times[i] \in 0..MaxTime /\ times[i] \in Int
  BY DEF Times

LEMMA AtMost == \A x, y, z \in Int : x <= y /\ y <= z => x <= z
  OBVIOUS

LEMMA UpTo ==
  ASSUME NEW n \in Nat
  PROVE  IsFiniteSet(1..n) /\ Cardinality(1..n) = n
<1>1. \A a, b \in Int :
        IsFiniteSet(a..b) /\ Cardinality(a..b) = IF a > b THEN 0 ELSE b - a + 1
  BY FS_Interval
<1>2. n \in Int /\ 1 \in Int /\ n - 1 + 1 = n /\ (1 > n => n = 0)
  OBVIOUS
<1>3. QED
  BY <1>1, <1>2

\* The last elements of a list.
LEMMA TailOf ==
  ASSUME NEW times \in Times, NEW c \in 0..Len(times)
  PROVE  /\ SubSeq(times, c + 1, Len(times)) \in Times
         /\ Len(SubSeq(times, c + 1, Len(times))) = Len(times) - c
         /\ \A i \in 1..(Len(times) - c) :
              SubSeq(times, c + 1, Len(times))[i] = times[i + c]
  BY SMTT(30) DEF Times

\* What Since keeps of a list are its last elements.
LEMMA SinceIsATail ==
  ASSUME NEW times \in Times, NEW at \in Nat
  PROVE  LET c == Cardinality(Stale(times, at))
             r == Since(times, at)
         IN  /\ c \in 0..Len(times)
             /\ r \in Times
             /\ Len(r) = Len(times) - c
             /\ \A i \in 1..Len(r) : r[i] = times[i + c]
<1> DEFINE n == Len(times)
           c == Cardinality(Stale(times, at))
<1>1. n \in Nat /\ DOMAIN times = 1..n /\ \A i \in 1..n : times[i] \in 0..MaxTime
  BY DEF Times
<1>2. c \in Nat /\ c <= n
  <2>1. IsFiniteSet(1..n) /\ Cardinality(1..n) = n
    BY <1>1, UpTo
  <2>2. Stale(times, at) \in SUBSET (1..n)
    BY <1>1 DEF Stale
  <2>3. QED
    BY <2>1, <2>2, FS_Subset, FS_CardinalityType
<1>3. Since(times, at) = SubSeq(times, c + 1, n)
  BY DEF Since
<1>4. c \in 0..n
  BY <1>1, <1>2
<1> HIDE DEF c
<1>5. /\ SubSeq(times, c + 1, n) \in Times
      /\ Len(SubSeq(times, c + 1, n)) = n - c
      /\ \A i \in 1..(n - c) : SubSeq(times, c + 1, n)[i] = times[i + c]
  BY <1>4, TailOf
<1>6. QED
  BY <1>3, <1>4, <1>5 DEF c

\* Of a list in order it keeps just the stamps that still count.
LEMMA TheTailCounts ==
  ASSUME NEW times \in Times, NEW at \in Nat, InOrder(times)
  PROVE  \A i \in 1..Len(times) :
           i > Cardinality(Stale(times, at)) <=> at - times[i] < Window
<1> DEFINE n == Len(times)
           old == Stale(times, at)
           c == Cardinality(old)
<1>1. n \in Nat /\ DOMAIN times = 1..n /\ \A i \in 1..n : times[i] \in 0..MaxTime
  BY DEF Times
<1>2. IsFiniteSet(old) /\ c \in Nat
  <2>1. IsFiniteSet(1..n)
    BY <1>1, UpTo
  <2>2. old \in SUBSET (1..n)
    BY <1>1 DEF Stale
  <2>3. QED
    BY <2>1, <2>2, FS_Subset, FS_CardinalityType
<1> SUFFICES ASSUME NEW i \in 1..n PROVE i > c <=> at - times[i] < Window
  OBVIOUS
<1>3. CASE at - times[i] < Window
  <2>1. old \in SUBSET (1..(i - 1))
    <3>1. ASSUME NEW j \in 1..n, j >= i PROVE at - times[j] < Window
      <4>1. times[i] <= times[j]
        BY <1>1, <3>1 DEF InOrder
      <4>2. QED
        BY <1>1, <1>3, <4>1
    <3>2. QED
      BY <1>1, <3>1, SMTT(30) DEF Stale
  <2>2. IsFiniteSet(1..(i - 1)) /\ Cardinality(1..(i - 1)) = i - 1
    BY <1>1, UpTo
  <2>3. c <= i - 1
    BY <2>1, <2>2, FS_Subset
  <2>4. QED
    BY <1>2, <1>3, <2>3
<1>4. CASE at - times[i] >= Window
  <2>1. 1..i \in SUBSET old
    <3>1. ASSUME NEW j \in 1..i PROVE at - times[j] >= Window
      <4>1. times[j] <= times[i]
        <5>1. i \in DOMAIN times /\ j \in DOMAIN times /\ j <= i
          BY <1>1
        <5>2. QED
          BY <5>1 DEF InOrder
      <4>2. QED
        BY <1>1, <1>4, <3>1, <4>1, SMTT(30)
    <3>2. QED
      BY <1>1, <3>1 DEF Stale
  <2>2. Cardinality(1..i) = i
    BY <1>1, UpTo
  <2>3. i <= c
    BY <1>2, <2>1, <2>2, FS_Subset
  <2>4. QED
    BY <1>1, <1>2, <1>4, <2>3
<1>5. QED
  BY <1>1, <1>3, <1>4

\* The tail of a list in order is in order, and its stamps still count.
LEMMA SinceInOrder ==
  ASSUME NEW times \in Times, NEW at \in Nat, InOrder(times)
  PROVE  /\ InOrder(Since(times, at))
         /\ \A i \in DOMAIN Since(times, at) :
              /\ at - Since(times, at)[i] < Window
              /\ \E j \in DOMAIN times : Since(times, at)[i] = times[j]
<1> DEFINE n == Len(times)
           c == Cardinality(Stale(times, at))
           r == Since(times, at)
<1>1. n \in Nat /\ DOMAIN times = 1..n /\ \A i \in 1..n : times[i] \in 0..MaxTime
  BY DEF Times
<1>2. /\ c \in 0..n /\ r \in Times /\ Len(r) = n - c
      /\ \A i \in 1..Len(r) : r[i] = times[i + c]
  BY SinceIsATail
<1>3. \A i \in 1..n : i > c <=> at - times[i] < Window
  BY TheTailCounts
<1>4. DOMAIN r = 1..(n - c)
  BY <1>2 DEF Times
<1> HIDE DEF n, c, r
<1>5. \A i \in DOMAIN r : /\ i \in 1..(n - c) /\ i + c \in DOMAIN times
                          /\ i + c > c /\ r[i] = times[i + c]
  <2>1. \A i \in 1..(n - c) : i + c \in 1..n /\ i + c > c
    BY <1>1, <1>2
  <2>2. QED
    BY <1>1, <1>2, <1>4, <2>1
<1>6. InOrder(r)
  <2> SUFFICES ASSUME NEW i \in DOMAIN r, NEW j \in DOMAIN r, i <= j
               PROVE  r[i] <= r[j]
    BY DEF InOrder
  <2>1. i + c <= j + c
    BY <1>2, <1>5
  <2>2. times[i + c] <= times[j + c]
    BY <1>5, <2>1 DEF InOrder
  <2>3. QED
    BY <1>5, <2>2
<1>7. \A i \in DOMAIN r : at - r[i] < Window /\ \E j \in DOMAIN times : r[i] = times[j]
  BY <1>1, <1>3, <1>5
<1>8. QED
  BY <1>6, <1>7 DEF r

\* A list in which every stamp counts stays as it is.
LEMMA NothingStale ==
  ASSUME NEW times \in Times, NEW at \in Nat,
         \A i \in DOMAIN times : at - times[i] < Window
  PROVE  Since(times, at) = times
<1>1. DOMAIN times = 1..Len(times) /\ Len(times) \in Nat
      /\ \A i \in 1..Len(times) : times[i] \in 0..MaxTime
  BY SMTT(30) DEF Times
<1>2. Stale(times, at) = {}
  BY <1>1 DEF Stale
<1>3. Cardinality({}) = 0
  BY FS_EmptySet
<1>4. Since(times, at) = SubSeq(times, 1, Len(times))
  BY <1>2, <1>3 DEF Since
<1>5. QED
  BY <1>1, <1>4 DEF Times

\* A list in which no stamp counts is emptied.
LEMMA AllStale ==
  ASSUME NEW times \in Times, NEW at \in Nat,
         \A i \in DOMAIN times : at - times[i] >= Window
  PROVE  Len(Since(times, at)) = 0
<1>1. DOMAIN times = 1..Len(times) /\ Len(times) \in Nat
  BY DEF Times
<1>2. Stale(times, at) = 1..Len(times)
  BY <1>1 DEF Stale
<1>3. Cardinality(1..Len(times)) = Len(times)
  BY <1>1, UpTo
<1>4. QED
  BY <1>1, <1>2, <1>3, SinceIsATail

\* Dropping what is stale from both keeps one list behind the other.
LEMMA SinceBehind ==
  ASSUME NEW few \in Times, NEW many \in Times, NEW at \in Nat,
         InOrder(few), InOrder(many), Behind(few, many)
  PROVE  Behind(Since(few, at), Since(many, at))
<1> DEFINE f == Since(few, at)
           m == Since(many, at)
           cf == Cardinality(Stale(few, at))
           cm == Cardinality(Stale(many, at))
<1>1. /\ cf \in 0..Len(few) /\ Len(f) = Len(few) - cf
      /\ \A i \in 1..Len(f) : f[i] = few[i + cf]
  BY SinceIsATail
<1>2. /\ cm \in 0..Len(many) /\ Len(m) = Len(many) - cm
      /\ \A i \in 1..Len(m) : m[i] = many[i + cm]
  BY SinceIsATail
<1>3. /\ \A i \in 1..Len(few) : i > cf <=> at - few[i] < Window
      /\ \A i \in 1..Len(many) : i > cm <=> at - many[i] < Window
  BY TheTailCounts
<1>4. /\ Len(few) \in Nat /\ \A i \in 1..Len(few) : few[i] \in 0..MaxTime
      /\ Len(many) \in Nat /\ \A i \in 1..Len(many) : many[i] \in 0..MaxTime
  BY SMTT(30) DEF Times
<1> HIDE DEF f, m, cf, cm
<1>5. Len(f) <= Len(m)
  <2>1. CASE Len(f) = 0
    BY <1>2, <1>4, <2>1
  <2>2. CASE Len(f) > 0
    <3>1. Len(few) - cf - 1 \in 0..(Len(few) - 1) /\ cf + 1 \in 1..Len(few)
      BY <1>1, <1>4, <2>2
    <3>2. few[cf + 1] <= many[Len(many) - (Len(few) - cf - 1)]
      <4>1. Len(few) - (Len(few) - cf - 1) = cf + 1
        BY <1>1, <1>4
      <4>2. QED
        BY <3>1, <4>1 DEF Behind
    <3>3. Len(many) - (Len(few) - cf - 1) \in 1..Len(many)
      BY <1>1, <1>4, <3>1 DEF Behind
    <3>4. at - few[cf + 1] < Window
      BY <1>1, <1>3, <3>1
    <3>5. at - many[Len(many) - (Len(few) - cf - 1)] < Window
      <4>1. /\ few[cf + 1] \in Int
            /\ many[Len(many) - (Len(few) - cf - 1)] \in Int
        BY <1>4, <3>1, <3>3
      <4>2. QED
        BY <3>2, <3>4, <4>1, SMTT(30)
    <3>6. Len(many) - (Len(few) - cf - 1) > cm
      BY <1>3, <3>3, <3>5
    <3>7. QED
      BY <1>1, <1>2, <1>4, <3>6
  <2>3. QED
    BY <1>1, <1>4, <2>1, <2>2
<1>6. ASSUME NEW j \in 0..(Len(f) - 1) PROVE f[Len(f) - j] <= m[Len(m) - j]
  <2>1. /\ Len(f) - j \in 1..Len(f) /\ Len(m) - j \in 1..Len(m)
        /\ j \in 0..(Len(few) - 1)
    BY <1>1, <1>2, <1>4, <1>5, SMTT(30)
  <2>2. Len(f) - j + cf = Len(few) - j /\ Len(m) - j + cm = Len(many) - j
    BY <1>1, <1>2, <1>4, <2>1
  <2>3. few[Len(few) - j] <= many[Len(many) - j]
    BY <2>1 DEF Behind
  <2>4. QED
    BY <1>1, <1>2, <2>1, <2>2, <2>3
<1>7. Behind(f, m)
  BY <1>5, <1>6 DEF Behind
<1>8. QED
  BY <1>7 DEF f, m

\* A stamp that is no earlier than the others goes to the end of a list.
LEMMA StampAdded ==
  ASSUME NEW times \in Times, NEW t \in 0..MaxTime, InOrder(times),
         \A i \in DOMAIN times : times[i] <= t
  PROVE  /\ Append(times, t) \in Times /\ Len(Append(times, t)) = Len(times) + 1
         /\ InOrder(Append(times, t))
         /\ \A i \in DOMAIN Append(times, t) :
              Append(times, t)[i] = t \/ (i \in DOMAIN times
                                          /\ Append(times, t)[i] = times[i])
<1> DEFINE r == Append(times, t)
           n == Len(times)
<1>1. n \in Nat /\ DOMAIN times = 1..n /\ \A i \in 1..n : times[i] \in 0..MaxTime
  BY SMTT(30) DEF Times
<1>2. /\ r \in Times /\ Len(r) = n + 1 /\ DOMAIN r = 1..(n + 1)
      /\ r[n + 1] = t /\ \A i \in 1..n : r[i] = times[i]
  BY DEF Times
<1> HIDE DEF r, n
<1>3. InOrder(r)
  BY <1>1, <1>2, SMTT(30) DEF InOrder
<1>4. \A i \in DOMAIN r : r[i] = t \/ (i \in DOMAIN times /\ r[i] = times[i])
  BY <1>1, <1>2
<1>5. QED
  BY <1>2, <1>3, <1>4 DEF r, n

\* A stamp that both lists get, or only the longer one, keeps one behind the other.
LEMMA BehindAdded ==
  ASSUME NEW few \in Times, NEW many \in Times, NEW t \in 0..MaxTime,
         InOrder(many), Behind(few, many), \A i \in DOMAIN many : many[i] <= t
  PROVE  /\ Behind(Append(few, t), Append(many, t))
         /\ Behind(few, Append(many, t))
<1> DEFINE f == Append(few, t)
           m == Append(many, t)
           a == Len(few)
           b == Len(many)
<1>1. /\ a \in Nat /\ DOMAIN few = 1..a /\ \A i \in 1..a : few[i] \in 0..MaxTime
      /\ b \in Nat /\ DOMAIN many = 1..b /\ \A i \in 1..b : many[i] \in 0..MaxTime
  BY SMTT(30) DEF Times
<1>2. /\ Len(f) = a + 1 /\ f[a + 1] = t /\ \A i \in 1..a : f[i] = few[i]
      /\ Len(m) = b + 1 /\ m[b + 1] = t /\ \A i \in 1..b : m[i] = many[i]
  BY DEF Times
<1>3. a <= b /\ \A j \in 0..(a - 1) : few[a - j] <= many[b - j]
  BY DEF Behind
<1>4. \A i, j \in 1..b : i <= j => many[i] <= many[j]
  BY <1>1 DEF InOrder
<1>5. \A i \in 1..b : many[i] <= t
  BY <1>1
<1> HIDE DEF f, m
<1>6. Behind(f, m)
  <2>1. ASSUME NEW j \in 0..a PROVE f[a + 1 - j] <= m[b + 1 - j]
    <3>1. CASE j = 0
      BY <1>1, <1>2, <3>1
    <3>2. CASE j > 0
      <4>1. /\ j - 1 \in 0..(a - 1) /\ a - (j - 1) \in 1..a /\ b - (j - 1) \in 1..b
            /\ a + 1 - j = a - (j - 1) /\ b + 1 - j = b - (j - 1)
        BY <1>1, <1>3, <3>2
      <4>2. QED
        BY <1>2, <1>3, <4>1
    <3>3. QED
      BY <3>1, <3>2
  <2>2. QED
    BY <1>1, <1>2, <1>3, <2>1 DEF Behind
<1>7. Behind(few, m)
  <2>1. ASSUME NEW j \in 0..(a - 1) PROVE few[a - j] <= m[b + 1 - j]
    <3>1. a - j \in 1..a /\ b - j \in 1..b /\ few[a - j] <= many[b - j]
      BY <1>1, <1>3, SMTT(30)
    <3>2. CASE j = 0
      <4>1. m[b + 1 - j] = t
        BY <1>1, <1>2, <3>2
      <4>2. b - j \in 1..b /\ many[b - j] <= t
        BY <1>5, <3>1
      <4>3. few[a - j] \in Int /\ many[b - j] \in Int
        BY <1>1, <3>1
      <4>4. QED
        BY <3>1, <4>1, <4>2, <4>3, SMTT(30)
    <3>3. CASE j > 0
      <4>1. b + 1 - j \in 1..b /\ b - j <= b + 1 - j
        BY <1>1, <1>3, <3>3
      <4>2. m[b + 1 - j] = many[b + 1 - j] /\ many[b - j] <= many[b + 1 - j]
        BY <1>2, <1>4, <3>1, <4>1
      <4>3. few[a - j] \in Int /\ many[b - j] \in Int /\ many[b + 1 - j] \in Int
        BY <1>1, <3>1, <4>1, SMTT(30)
      <4>4. QED
        BY <3>1, <4>2, <4>3, AtMost
    <3>4. QED
      BY <3>2, <3>3
  <2>2. QED
    BY <1>1, <1>2, <1>3, <2>1 DEF Behind
<1>8. QED
  BY <1>6, <1>7 DEF f, m

-----------------------------------------------------------------------------
(* The limiter.                                                            *)

LEMMA Tiers ==
  ASSUME NEW ip \in Ips, NEW w \in Widgets
  PROVE  /\ KeysOf(ip, w) \subseteq Keys
         /\ \A i \in 1..3 : /\ TierKeys(ip, w)[i] \in KeysOf(ip, w)
                            /\ LimitOf(TierKeys(ip, w)[i]) = Limits[i]
         /\ \A k \in KeysOf(ip, w) : \E i \in 1..3 : k = TierKeys(ip, w)[i]
<1>1. /\ TierKeys(ip, w)[1] = <<"global_ip", ip>>
      /\ TierKeys(ip, w)[2] = <<"widget_ip", w, ip>>
      /\ TierKeys(ip, w)[3] = <<"widget_global", w>>
  BY DEF TierKeys
<1>2. /\ LimitOf(<<"global_ip", ip>>) = Limits[1]
      /\ LimitOf(<<"widget_ip", w, ip>>) = Limits[2]
      /\ LimitOf(<<"widget_global", w>>) = Limits[3]
  BY DEF LimitOf
<1>3. \A i \in 1..3 : i = 1 \/ i = 2 \/ i = 3
  OBVIOUS
<1>4. KeysOf(ip, w) \subseteq Keys
  BY DEF Keys
<1>5. \A i \in 1..3 : LimitOf(TierKeys(ip, w)[i]) = Limits[i]
  BY <1>1, <1>2, <1>3
<1>6. QED
  BY <1>4, <1>5 DEF KeysOf

LEMMA LimitsArePositive ==
  ASSUME NEW k \in Keys
  PROVE  LimitOf(k) \in Nat \ {0}
<1>1. PICK ip \in Ips, w \in Widgets : k \in KeysOf(ip, w)
  BY DEF Keys
<1>2. PICK i \in 1..3 : k = TierKeys(ip, w)[i]
  BY <1>1, Tiers
<1>3. QED
  BY <1>2, Tiers

\* What a state of the limiter looks like under one key.
LEMMA UnderKey ==
  ASSUME LimiterInv, NEW k \in Keys
  PROVE  /\ now \in 0..MaxTime
         /\ redis[k] \in [n: Nat, until: 0..(MaxTime + Window)]
         /\ redis[k].n \in Nat /\ redis[k].until \in Nat
         /\ local[k] \in Times /\ Len(local[k]) <= LimitOf(k)
         /\ admitted["redis"][k] \in Times /\ admitted["local"][k] \in Times
         /\ Len(admitted["redis"][k]) \in Nat /\ Len(admitted["local"][k]) \in Nat
         /\ Len(local[k]) \in Nat
         /\ lastHit[k] \in Int /\ lastHit[k] <= now
         /\ CounterInv(k) /\ ListInv(k)
         /\ Len(admitted["redis"][k]) <= LimitOf(k)
<1>1. /\ redis[k] \in [n: Nat, until: 0..(MaxTime + Window)]
      /\ lastHit[k] \in Never..MaxTime
      /\ local[k] \in Times
      /\ admitted["redis"][k] \in Times /\ admitted["local"][k] \in Times
      /\ now \in 0..MaxTime /\ Len(local[k]) <= LimitOf(k)
  BY DEF LimiterInv, LimiterTypeOK, Times
<1>2. redis[k].n \in Nat /\ redis[k].until \in Nat
  BY <1>1
<1>3. lastHit[k] \in Int
  BY <1>1 DEF Never
<1>4. lastHit[k] <= now /\ CounterInv(k) /\ ListInv(k)
      /\ Len(admitted["redis"][k]) <= LimitOf(k)
  BY DEF LimiterInv
<1>5. /\ Len(admitted["redis"][k]) \in Nat /\ Len(admitted["local"][k]) \in Nat
      /\ Len(local[k]) \in Nat
  BY <1>1, SMTT(30) DEF Times
<1>6. QED
  BY <1>1, <1>2, <1>3, <1>4, <1>5

\* A call that charges the counter of a key, and is admitted or not, or does neither.
LEMMA CounterMoves ==
  ASSUME LimiterInv, NEW k \in Keys, now' = now,
         \/ /\ redis'[k] = redis[k]
            /\ admitted'["redis"][k] = admitted["redis"][k]
            /\ lastHit'[k] \in {lastHit[k], now}
         \/ /\ redis'[k] = [n |-> redis[k].n + 1, until |-> now + Window]
            /\ admitted'["redis"][k] \in
                 {admitted["redis"][k], Append(admitted["redis"][k], now)}
            /\ lastHit'[k] = now
  PROVE  CounterInv(k)'
<1> DEFINE a == admitted["redis"][k]
           b == admitted'["redis"][k]
           n == redis[k].n
           u == redis[k].until
<1>1. /\ now \in 0..MaxTime /\ n \in Nat /\ u \in Nat /\ lastHit[k] \in Int
      /\ lastHit[k] <= now /\ a \in Times /\ Len(a) \in Nat
  BY UnderKey
<1>2. /\ n > 0 => now < u /\ u <= lastHit[k] + Window
      /\ Len(a) <= n
      /\ \A i \in DOMAIN a : a[i] + Window <= u
  BY UnderKey DEF CounterInv
<1>3. DOMAIN a = 1..Len(a) /\ \A i \in DOMAIN a : a[i] \in 0..MaxTime
  BY <1>1, Shape
<1> HIDE DEF a, n, u
<1>4. CASE redis'[k] = redis[k] /\ b = a /\ lastHit'[k] \in {lastHit[k], now}
  <2>1. n > 0 => now < u /\ u <= lastHit'[k] + Window
    BY <1>1, <1>2, <1>4, SMTT(30)
  <2>2. QED
    BY <1>2, <1>4, <2>1 DEF CounterInv, a, n, u
<1>5. CASE /\ redis'[k] = [n |-> n + 1, until |-> now + Window]
           /\ b \in {a, Append(a, now)} /\ lastHit'[k] = now
  <2>1. redis'[k].n = n + 1 /\ redis'[k].until = now + Window
    BY <1>5
  <2>2. \A i \in DOMAIN a : a[i] + Window <= now + Window
    <3>1. ASSUME NEW i \in DOMAIN a PROVE a[i] + Window <= now + Window
      <4>1. n > 0
        <5>1. n \in Nat /\ Len(a) \in Nat /\ Len(a) <= n
          BY <1>1, <1>2
        <5>2. i \in 1..Len(a)
          BY <1>3
        <5>3. QED
          BY <5>1, <5>2
      <4>2. u <= now + Window
        BY <1>1, <1>2, <4>1, SMTT(30)
      <4>3. a[i] + Window <= u /\ a[i] \in Int
        BY <1>2, <1>3
      <4>4. QED
        BY <1>1, <4>2, <4>3
    <3>2. QED
      BY <3>1
  <2>3. Len(b) <= n + 1 /\ \A i \in DOMAIN b : b[i] + Window <= now + Window
    <3>1. CASE b = a
      BY <1>1, <1>2, <2>2, <3>1
    <3>2. CASE b = Append(a, now)
      <4>1. /\ Len(b) = Len(a) + 1 /\ DOMAIN b = 1..(Len(a) + 1)
            /\ b[Len(a) + 1] = now /\ \A i \in 1..Len(a) : b[i] = a[i]
        BY <1>1, <3>2 DEF Times
      <4>2. ASSUME NEW i \in DOMAIN b PROVE b[i] + Window <= now + Window
        <5>1. CASE i \in 1..Len(a)
          BY <1>3, <2>2, <4>1, <5>1
        <5>2. CASE i = Len(a) + 1
          <6>1. b[i] = now /\ now + Window <= now + Window
            BY <1>1, <4>1, <5>2
          <6>2. QED
            BY <6>1
        <5>3. i \in 1..Len(a) \/ i = Len(a) + 1
          BY <1>1, <4>1
        <5>4. QED
          BY <5>1, <5>2, <5>3
      <4>3. QED
        BY <1>1, <1>2, <4>1, <4>2
    <3>3. QED
      BY <1>5, <3>1, <3>2
  <2>4. now < now + Window /\ now + Window <= now + Window
    BY <1>1
  <2> HIDE DEF b
  <2>5. /\ now' < redis'[k].until /\ redis'[k].until <= lastHit'[k] + Window
        /\ Len(b) <= redis'[k].n
        /\ \A i \in DOMAIN b : b[i] + Window <= redis'[k].until
    BY <1>5, <2>1, <2>3, <2>4
  <2>6. QED
    BY <2>5 DEF CounterInv, b
<1>6. QED
  BY <1>4, <1>5 DEF a, n

\* A call that leaves a stamp under a key, and is admitted or not, or does neither.
LEMMA ListMoves ==
  ASSUME LimiterInv, NEW k \in Keys, now' = now,
         \/ /\ local'[k] = local[k]
            /\ admitted'["local"][k] = admitted["local"][k]
            /\ lastHit'[k] \in {lastHit[k], now}
         \/ /\ local'[k] = Append(local[k], now)
            /\ admitted'["local"][k] \in
                 {admitted["local"][k], Append(admitted["local"][k], now)}
            /\ lastHit'[k] = now
  PROVE  ListInv(k)'
<1> DEFINE a == admitted["local"][k]
           b == admitted'["local"][k]
           s == local[k]
           t == local'[k]
<1>1. /\ now \in 0..MaxTime /\ lastHit[k] \in Int /\ lastHit[k] <= now
      /\ a \in Times /\ s \in Times
  BY UnderKey
<1>2. /\ InOrder(s) /\ InOrder(a) /\ Behind(a, s)
      /\ \A i \in DOMAIN s : now - s[i] < Window /\ s[i] <= lastHit[k]
  BY UnderKey DEF ListInv
<1>3. /\ DOMAIN s = 1..Len(s) /\ Len(s) \in Nat /\ \A i \in DOMAIN s : s[i] \in 0..MaxTime
      /\ DOMAIN a = 1..Len(a) /\ Len(a) \in Nat /\ \A i \in DOMAIN a : a[i] \in 0..MaxTime
  BY <1>1, Shape
<1>4. \A i \in DOMAIN s : s[i] <= now
  BY <1>1, <1>2, <1>3, SMTT(30)
<1>5. CASE t = s /\ b = a /\ lastHit'[k] \in {lastHit[k], now}
  <2>1. \A i \in DOMAIN s : s[i] <= lastHit'[k]
    BY <1>2, <1>4, <1>5
  <2>2. QED
    BY <1>2, <1>5, <2>1 DEF ListInv
<1>6. CASE t = Append(s, now) /\ b \in {a, Append(a, now)} /\ lastHit'[k] = now
  <2>1. InOrder(t)
    BY <1>1, <1>2, <1>4, <1>6, StampAdded
  <2>2. \A i \in DOMAIN t : now - t[i] < Window /\ t[i] <= now
    <3>1. \A i \in DOMAIN t : t[i] = now \/ (i \in DOMAIN s /\ t[i] = s[i])
      BY <1>1, <1>2, <1>4, <1>6, StampAdded
    <3>2. now - now < Window /\ now <= now
      BY <1>1
    <3>3. QED
      BY <1>2, <1>4, <3>1, <3>2
  <2>3. \A i \in DOMAIN a : a[i] <= now
    <3>1. ASSUME NEW i \in 1..Len(a) PROVE a[i] <= now
      <4> DEFINE d == Len(a) - i
      <4>0. \A x, y \in Nat : \A z \in 1..x :
              x <= y => x - z \in 0..(x - 1) /\ x - (x - z) = z /\ y - (x - z) \in 1..y
        BY SMTT(30)
      <4>1. d \in 0..(Len(a) - 1) /\ Len(a) - d = i
        BY <1>3, <1>2, <4>0 DEF Behind
      <4>2. Len(s) - d \in 1..Len(s)
        BY <1>2, <1>3, <4>0 DEF Behind
      <4> HIDE DEF d
      <4>3. a[i] <= s[Len(s) - d]
        BY <1>2, <4>1 DEF Behind
      <4>4. s[Len(s) - d] <= now /\ s[Len(s) - d] \in Int /\ a[i] \in Int
        BY <1>3, <1>4, <4>2, SMTT(30)
      <4>5. now \in Int
        BY <1>1
      <4>6. QED
        BY <4>3, <4>4, <4>5, AtMost
    <3>2. QED
      BY <1>3, <3>1
  <2>4. InOrder(b)
    BY <1>1, <1>2, <1>6, <2>3, StampAdded
  <2>5. Behind(b, t)
    BY <1>1, <1>2, <1>4, <1>6, BehindAdded
  <2>6. QED
    BY <1>6, <2>1, <2>2, <2>4, <2>5 DEF ListInv
<1>7. QED
  BY <1>5, <1>6

\* The history of a call.
LEMMA Recorded ==
  ASSUME LimiterInv, NEW form \in {"redis", "local"}, NEW ip \in Ips, NEW w \in Widgets,
         NEW ok \in BOOLEAN, Record(form, ip, w, ok)
  PROVE  /\ lastHit' \in [Keys -> Never..MaxTime]
         /\ admitted' \in [{"redis", "local"} -> [Keys -> Times]]
         /\ \A k \in Keys :
              /\ lastHit'[k] = IF k \in KeysOf(ip, w) THEN now ELSE lastHit[k]
              /\ \A f \in {"redis", "local"} :
                   admitted'[f][k] = IF f = form /\ ok /\ k \in KeysOf(ip, w)
                                     THEN Append(admitted[f][k], now)
                                     ELSE admitted[f][k]
<1>1. /\ lastHit \in [Keys -> Never..MaxTime] /\ now \in 0..MaxTime
      /\ admitted \in [{"redis", "local"} -> [Keys -> Times]]
  BY DEF LimiterInv, LimiterTypeOK, Times
<1> DEFINE new == [k \in Keys |-> IF ok /\ k \in KeysOf(ip, w)
                                  THEN Append(admitted[form][k], now)
                                  ELSE admitted[form][k]]
<1>2. lastHit' = [k \in Keys |-> IF k \in KeysOf(ip, w) THEN now ELSE lastHit[k]]
      /\ admitted' = [admitted EXCEPT ![form] = new]
  BY DEF Record
<1>3. new \in [Keys -> Times]
  <2>1. ASSUME NEW x \in Times PROVE Append(x, now) \in Times
    BY <1>1 DEF Times
  <2>2. QED
    BY <1>1, <2>1
<1>4. now \in Never..MaxTime
  BY <1>1 DEF Never
<1>5. lastHit' \in [Keys -> Never..MaxTime]
  BY <1>1, <1>2, <1>4
<1>6. \A k \in Keys :
        /\ lastHit'[k] = IF k \in KeysOf(ip, w) THEN now ELSE lastHit[k]
        /\ admitted'[form][k] = new[k]
        /\ \A other \in {"redis", "local"} \ {form} :
             admitted'[other][k] = admitted[other][k]
  <2> HIDE DEF new
  <2>1. QED
    BY <1>1, <1>2
<1>7. admitted' \in [{"redis", "local"} -> [Keys -> Times]]
  <2> HIDE DEF new
  <2>1. QED
    BY <1>1, <1>2, <1>3
<1>8. \A k \in Keys : \A f \in {"redis", "local"} :
        admitted'[f][k] = IF f = form /\ ok /\ k \in KeysOf(ip, w)
                          THEN Append(admitted[f][k], now)
                          ELSE admitted[f][k]
  BY <1>6
<1>9. QED
  BY <1>5, <1>6, <1>7, <1>8

\* The counters after the pipeline.
LEMMA ChargedType ==
  ASSUME LimiterInv, NEW ip \in Ips, NEW w \in Widgets
  PROVE  /\ Charged(ip, w) \in [Keys -> [n: Nat, until: 0..(MaxTime + Window)]]
         /\ \A k \in Keys : Charged(ip, w)[k] =
              IF k \in KeysOf(ip, w) THEN [n |-> redis[k].n + 1, until |-> now + Window]
              ELSE redis[k]
<1>1. ASSUME NEW k \in Keys
      PROVE  [n |-> redis[k].n + 1, until |-> now + Window]
               \in [n: Nat, until: 0..(MaxTime + Window)]
  <2>1. redis[k].n + 1 \in Nat /\ now + Window \in 0..(MaxTime + Window)
    BY UnderKey, SMTT(30)
  <2>2. QED
    BY <2>1
<1>2. QED
  BY <1>1, UnderKey DEF Charged

LEMMA HitRedisKeeps ==
  ASSUME LimiterInv, NEW ip \in Ips, NEW w \in Widgets, NEW ok \in BOOLEAN,
         HitRedis(ip, w, ok)
  PROVE  LimiterInv'
<1>1. /\ redis' = Charged(ip, w) /\ UNCHANGED <<now, local>>
      /\ Record("redis", ip, w, ok) /\ ok = WithinLimits(ip, w)
  BY DEF HitRedis
<1>2. LimiterTypeOK'
  <2>1. /\ lastHit' \in [Keys -> Never..MaxTime]
        /\ admitted' \in [{"redis", "local"} -> [Keys -> Times]]
    BY <1>1, Recorded
  <2>2. redis' \in [Keys -> [n: Nat, until: 0..(MaxTime + Window)]]
    BY <1>1, ChargedType
  <2>3. QED
    BY <1>1, <2>1, <2>2 DEF LimiterInv, LimiterTypeOK, Times
<1>3. ASSUME NEW k \in Keys
      PROVE  /\ lastHit'[k] <= now'
             /\ CounterInv(k)'
             /\ ListInv(k)'
             /\ Len(admitted'["redis"][k]) <= LimitOf(k)
  <2>1. /\ lastHit'[k] = IF k \in KeysOf(ip, w) THEN now ELSE lastHit[k]
        /\ admitted'["redis"][k] = IF ok /\ k \in KeysOf(ip, w)
                                   THEN Append(admitted["redis"][k], now)
                                   ELSE admitted["redis"][k]
        /\ admitted'["local"][k] = admitted["local"][k]
        /\ redis'[k] = IF k \in KeysOf(ip, w)
                       THEN [n |-> redis[k].n + 1, until |-> now + Window] ELSE redis[k]
    <3>1. /\ lastHit'[k] = IF k \in KeysOf(ip, w) THEN now ELSE lastHit[k]
          /\ \A f \in {"redis", "local"} :
               admitted'[f][k] = IF f = "redis" /\ ok /\ k \in KeysOf(ip, w)
                                 THEN Append(admitted[f][k], now)
                                 ELSE admitted[f][k]
      BY <1>1, Recorded
    <3>2. redis'[k] = IF k \in KeysOf(ip, w)
                      THEN [n |-> redis[k].n + 1, until |-> now + Window] ELSE redis[k]
      BY <1>1, ChargedType
    <3>3. QED
      BY <3>1, <3>2
  <2>2. CounterInv(k)'
    BY <1>1, <2>1, CounterMoves
  <2>3. ListInv(k)'
    BY <1>1, <2>1, ListMoves
  <2>4. lastHit'[k] <= now'
    BY <1>1, <2>1, UnderKey
  <2>5. Len(admitted'["redis"][k]) <= LimitOf(k)
    <3>1. CASE ok /\ k \in KeysOf(ip, w)
      <4>1. redis[k].n + 1 <= LimitOf(k)
        <5>1. Charged(ip, w)[k].n <= LimitOf(k)
          BY <1>1, <3>1 DEF WithinLimits
        <5>2. Charged(ip, w)[k] = [n |-> redis[k].n + 1, until |-> now + Window]
          BY <3>1, ChargedType
        <5>3. QED
          BY <5>1, <5>2
      <4>2. Len(admitted'["redis"][k]) = Len(admitted["redis"][k]) + 1
        BY <2>1, <3>1, UnderKey DEF Times
      <4>3. Len(admitted["redis"][k]) <= redis[k].n
        BY UnderKey DEF CounterInv
      <4>4. Len(admitted["redis"][k]) \in Nat /\ redis[k].n \in Nat /\ LimitOf(k) \in Nat
        BY UnderKey, LimitsArePositive
      <4>5. QED
        BY <4>1, <4>2, <4>3, <4>4, SMTT(30)
    <3>2. CASE ~(ok /\ k \in KeysOf(ip, w))
      BY <2>1, <3>2, UnderKey
    <3>3. QED
      BY <3>1, <3>2
  <2>6. QED
    BY <2>2, <2>3, <2>4, <2>5
<1>4. QED
  BY <1>2, <1>3 DEF LimiterInv

\* The in-process form, whatever became of the counters before.
LEMMA HitLocalKeeps ==
  ASSUME LimiterInv, NEW ip \in Ips, NEW w \in Widgets, NEW ok \in BOOLEAN,
         HitLocal(ip, w, ok), UNCHANGED now,
         UNCHANGED redis \/ redis' = Charged(ip, w)
  PROVE  LimiterInv'
<1> DEFINE passed == {i \in 1..3 : \A f \in FullTiers(ip, w) : i < f}
<1>1. /\ ok = (FullTiers(ip, w) = {})
      /\ local' = [k \in Keys |-> IF \E i \in passed : k = TierKeys(ip, w)[i]
                                  THEN Append(Recent(local[k]), now) ELSE local[k]]
      /\ Record("local", ip, w, ok)
  BY DEF HitLocal, LocalCharge
<1>2. ASSUME NEW k \in Keys PROVE Recent(local[k]) = local[k]
  <2>1. local[k] \in Times /\ now \in Nat
    BY UnderKey
  <2>2. \A i \in DOMAIN local[k] : now - local[k][i] < Window
    BY UnderKey DEF ListInv
  <2>3. QED
    BY <2>1, <2>2, NothingStale DEF Recent
<1>3. ASSUME NEW k \in Keys
      PROVE  \/ local'[k] = local[k] /\ ~(ok /\ k \in KeysOf(ip, w))
             \/ /\ local'[k] = Append(local[k], now) /\ k \in KeysOf(ip, w)
                /\ Len(local[k]) < LimitOf(k)
  <2>1. CASE \E i \in passed : k = TierKeys(ip, w)[i]
    <3>1. PICK i \in passed : k = TierKeys(ip, w)[i]
      BY <2>1
    <3>2. local'[k] = Append(local[k], now)
      BY <1>1, <1>2, <2>1
    <3>3. i \notin FullTiers(ip, w)
      OBVIOUS
    <3>4. ~(Len(local[k]) >= Limits[i])
      BY <1>2, <3>1, <3>3 DEF FullTiers
    <3>5. LimitOf(k) = Limits[i] /\ k \in KeysOf(ip, w)
      BY <3>1, Tiers
    <3>6. QED
      BY <3>2, <3>4, <3>5, UnderKey, LimitsArePositive
  <2>2. CASE ~\E i \in passed : k = TierKeys(ip, w)[i]
    <3>1. local'[k] = local[k]
      BY <1>1, <2>2
    <3>2. ASSUME ok, k \in KeysOf(ip, w) PROVE FALSE
      <4>1. FullTiers(ip, w) = {}
        BY <1>1, <3>2
      <4>2. passed = 1..3
        BY <4>1
      <4>3. QED
        BY <2>2, <3>2, <4>2, Tiers
    <3>3. QED
      BY <3>1, <3>2
  <2>3. QED
    BY <2>1, <2>2
<1> HIDE DEF passed
<1>4. ASSUME NEW k \in Keys
      PROVE  /\ lastHit'[k] = IF k \in KeysOf(ip, w) THEN now ELSE lastHit[k]
             /\ admitted'["local"][k] = IF ok /\ k \in KeysOf(ip, w)
                                        THEN Append(admitted["local"][k], now)
                                        ELSE admitted["local"][k]
             /\ admitted'["redis"][k] = admitted["redis"][k]
  <2>0. Record("local", ip, w, ok)
    BY <1>1
  <2>1. /\ lastHit'[k] = IF k \in KeysOf(ip, w) THEN now ELSE lastHit[k]
        /\ \A f \in {"redis", "local"} :
             admitted'[f][k] = IF f = "local" /\ ok /\ k \in KeysOf(ip, w)
                               THEN Append(admitted[f][k], now)
                               ELSE admitted[f][k]
    BY <2>0, Recorded
  <2>2. QED
    BY <2>1
<1>5. LimiterTypeOK'
  <2>1. local' \in [Keys -> Times] /\ \A k \in Keys : Len(local'[k]) <= LimitOf(k)
    <3>1. DOMAIN local' = Keys /\ local' = [k \in Keys |-> local'[k]]
      BY <1>1
    <3>2. ASSUME NEW k \in Keys PROVE local'[k] \in Times /\ Len(local'[k]) <= LimitOf(k)
      <4>1. CASE local'[k] = local[k]
        BY <4>1, UnderKey
      <4>2. CASE local'[k] = Append(local[k], now) /\ Len(local[k]) < LimitOf(k)
        <5>1. Append(local[k], now) \in Times
              /\ Len(Append(local[k], now)) = Len(local[k]) + 1
          BY UnderKey DEF Times
        <5>2. QED
          BY <4>2, <5>1, UnderKey, LimitsArePositive
      <4>3. QED
        BY <1>3, <4>1, <4>2
    <3>3. QED
      BY <3>1, <3>2
  <2>2. redis' \in [Keys -> [n: Nat, until: 0..(MaxTime + Window)]]
    BY ChargedType DEF LimiterInv, LimiterTypeOK
  <2>3. QED
    BY <1>1, <2>1, <2>2, Recorded DEF LimiterInv, LimiterTypeOK, Times
<1>6. ASSUME NEW k \in Keys
      PROVE  /\ lastHit'[k] <= now'
             /\ CounterInv(k)'
             /\ ListInv(k)'
             /\ Len(admitted'["redis"][k]) <= LimitOf(k)
  <2>1. CounterInv(k)'
    <3>1. \/ redis'[k] = redis[k]
          \/ /\ redis'[k] = [n |-> redis[k].n + 1, until |-> now + Window]
             /\ k \in KeysOf(ip, w)
      <4>1. CASE UNCHANGED redis
        BY <4>1
      <4>2. CASE redis' = Charged(ip, w)
        <5>1. redis'[k] = IF k \in KeysOf(ip, w)
                          THEN [n |-> redis[k].n + 1, until |-> now + Window] ELSE redis[k]
          BY <4>2 DEF Charged
        <5>2. QED
          BY <5>1
      <4>3. QED
        BY <4>1, <4>2
    <3>2. QED
      BY <1>4, <3>1, CounterMoves
  <2>2. ListInv(k)'
    BY <1>3, <1>4, ListMoves
  <2>3. lastHit'[k] <= now'
    BY <1>4, UnderKey
  <2>4. Len(admitted'["redis"][k]) <= LimitOf(k)
    BY <1>4, UnderKey
  <2>5. QED
    BY <2>1, <2>2, <2>3, <2>4
<1>7. QED
  BY <1>5, <1>6 DEF LimiterInv

\* A tick forgets, in both forms, what lies outside the window.
LEMMA TickKeeps ==
  ASSUME LimiterInv, Tick
  PROVE  LimiterInv'
<1>1. /\ now < MaxTime /\ now' = now + 1
      /\ redis' = [k \in Keys |-> IF redis[k].until <= now + 1
                                  THEN [n |-> 0, until |-> 0] ELSE redis[k]]
      /\ local' = [k \in Keys |-> StillRecent(local[k])]
      /\ admitted' = [form \in DOMAIN admitted |->
                        [k \in Keys |-> StillRecent(admitted[form][k])]]
      /\ lastHit' = lastHit
  BY DEF Tick
<1>2. now \in 0..MaxTime /\ DOMAIN admitted = {"redis", "local"} /\ now + 1 \in Nat
  BY DEF LimiterInv, LimiterTypeOK
<1>t. PICK t \in Nat : t = now + 1
  BY <1>2
<1>3. ASSUME NEW k \in Keys
      PROVE  /\ local'[k] = Since(local[k], t)
             /\ admitted'["redis"][k] = Since(admitted["redis"][k], t)
             /\ admitted'["local"][k] = Since(admitted["local"][k], t)
             /\ redis'[k] = IF redis[k].until <= t
                            THEN [n |-> 0, until |-> 0] ELSE redis[k]
  BY <1>1, <1>t, <1>2, <1>t DEF StillRecent
<1>4. ASSUME NEW times \in Times
      PROVE  /\ Since(times, t) \in Times
             /\ Len(Since(times, t)) <= Len(times)
             /\ Len(Since(times, t)) \in Nat /\ Len(times) \in Nat
  <2>1. /\ Since(times, t) \in Times
        /\ Cardinality(Stale(times, t)) \in 0..Len(times)
        /\ Len(Since(times, t)) = Len(times) - Cardinality(Stale(times, t))
    BY <1>2, <1>t, SinceIsATail
  <2>2. Len(times) \in Nat
    BY DEF Times
  <2>3. QED
    BY <2>1, <2>2
<1>5. LimiterTypeOK'
  <2>1. now' \in 0..MaxTime
    BY <1>1, <1>2
  <2>2. redis' \in [Keys -> [n: Nat, until: 0..(MaxTime + Window)]]
    <3>1. [n |-> 0, until |-> 0] \in [n: Nat, until: 0..(MaxTime + Window)]
      OBVIOUS
    <3>2. QED
      BY <1>1, <1>t, <3>1 DEF LimiterInv, LimiterTypeOK
  <2>3. local' \in [Keys -> Times] /\ \A k \in Keys : Len(local'[k]) <= LimitOf(k)
    <3>1. ASSUME NEW k \in Keys PROVE local'[k] \in Times /\ Len(local'[k]) <= LimitOf(k)
      BY <1>3, <1>t, <1>4, UnderKey, LimitsArePositive, SMTT(30)
    <3>2. QED
      BY <1>1, <1>t, <3>1
  <2>4. admitted' \in [{"redis", "local"} -> [Keys -> Times]]
    <3>1. ASSUME NEW form \in {"redis", "local"}, NEW k \in Keys
          PROVE  StillRecent(admitted[form][k]) \in Times
      BY <1>t, <1>4, UnderKey DEF StillRecent
    <3>2. QED
      BY <1>1, <1>t, <1>2, <3>1
  <2>5. lastHit' \in [Keys -> Never..MaxTime]
    BY <1>1 DEF LimiterInv, LimiterTypeOK
  <2>6. QED
    BY <2>1, <2>2, <2>3, <2>4, <2>5 DEF LimiterTypeOK, Times
<1>6. ASSUME NEW k \in Keys
      PROVE  /\ lastHit'[k] <= now'
             /\ CounterInv(k)'
             /\ ListInv(k)'
             /\ Len(admitted'["redis"][k]) <= LimitOf(k)
  <2>1. lastHit'[k] <= now'
    BY <1>1, <1>t, <1>2, UnderKey
  <2>2. Len(admitted'["redis"][k]) <= LimitOf(k)
    BY <1>3, <1>t, <1>4, UnderKey, LimitsArePositive, SMTT(30)
  <2>3. CounterInv(k)'
    <3> DEFINE a == admitted["redis"][k]
               b == Since(a, t)
               n == redis[k].n
               u == redis[k].until
    <3>1. /\ a \in Times /\ b \in Times /\ Len(b) <= Len(a) /\ Len(b) \in Nat
          /\ Len(a) \in Nat /\ n \in Nat /\ u \in Nat /\ lastHit[k] \in Int
      BY <1>4, UnderKey
    <3>2. /\ n > 0 => now < u /\ u <= lastHit[k] + Window
          /\ Len(a) <= n
          /\ \A i \in DOMAIN a : a[i] + Window <= u
      BY UnderKey DEF CounterInv
    <3>3. \A i \in DOMAIN a : a[i] \in 0..MaxTime /\ a[i] \in Int
      BY <3>1, Shape
    <3> HIDE DEF a, n, u
    <3>4. CASE u <= t
      <4>1. \A i \in DOMAIN a : t - a[i] >= Window
        <5>1. \A x, y, z \in Int : x + Window <= y /\ y <= z => z - x >= Window
          OBVIOUS
        <5>2. t \in Int /\ u \in Int
          BY <1>2, <1>t, <3>1
        <5>3. QED
          BY <3>2, <3>3, <3>4, <5>1, <5>2
      <4>2. Len(b) = 0
        BY <1>2, <1>t, <3>1, <4>1, AllStale
      <4>3. DOMAIN b = {}
        BY <3>1, <4>2, Shape
      <4>4. redis'[k].n = 0 /\ redis'[k].until = 0
        BY <1>3, <1>t, <3>4 DEF u
      <4>5. admitted'["redis"][k] = b
        BY <1>3 DEF a
      <4> HIDE DEF b
      <4>6. QED
        BY <4>2, <4>3, <4>4, <4>5 DEF CounterInv
    <3>5. CASE u > t
      <4>1. redis'[k] = redis[k]
        <5>1. ~(u <= t)
          BY <1>2, <1>t, <3>1, <3>5
        <5>2. QED
          BY <1>3, <1>t, <5>1 DEF u
      <4>2. \A i \in DOMAIN b : \E j \in DOMAIN a : b[i] = a[j]
        <5>1. /\ Cardinality(Stale(a, t)) \in 0..Len(a)
              /\ Len(b) = Len(a) - Cardinality(Stale(a, t))
              /\ \A i \in 1..Len(b) : b[i] = a[i + Cardinality(Stale(a, t))]
          BY <1>2, <1>t, <3>1, SinceIsATail
        <5>2. DOMAIN b = 1..Len(b) /\ DOMAIN a = 1..Len(a)
          BY <3>1, Shape
        <5>3. \A i \in 1..Len(b) : i + Cardinality(Stale(a, t)) \in 1..Len(a)
          BY <3>1, <5>1
        <5>4. QED
          BY <5>1, <5>2, <5>3
      <4>3. Len(b) <= n /\ \A i \in DOMAIN b : b[i] + Window <= u
        BY <3>1, <3>2, <4>2
      <4>4. n > 0 => t < u /\ u <= lastHit[k] + Window
        BY <1>t, <3>2, <3>5
      <4>5. QED
        <5>1. admitted'["redis"][k] = b /\ lastHit'[k] = lastHit[k] /\ now' = t
              /\ redis'[k].n = n /\ redis'[k].until = u
          BY <1>1, <1>t, <1>3, <4>1 DEF a, n, u
        <5> HIDE DEF b
        <5>2. QED
          BY <4>3, <4>4, <5>1 DEF CounterInv
    <3>6. QED
      BY <1>2, <1>t, <3>1, <3>4, <3>5
  <2>4. ListInv(k)'
    <3> DEFINE s == local[k]
               a == admitted["local"][k]
    <3>1. s \in Times /\ a \in Times /\ lastHit[k] \in Int
      BY UnderKey
    <3>2. /\ InOrder(s) /\ InOrder(a) /\ Behind(a, s)
          /\ \A i \in DOMAIN s : s[i] <= lastHit[k]
      BY UnderKey DEF ListInv
    <3> HIDE DEF s, a
    <3>3. InOrder(Since(s, t)) /\ InOrder(Since(a, t))
      BY <1>2, <1>t, <3>1, <3>2, SinceInOrder
    <3>4. \A i \in DOMAIN Since(s, t) :
            /\ t - Since(s, t)[i] < Window
            /\ Since(s, t)[i] <= lastHit[k]
      <4>1. \A i \in DOMAIN Since(s, t) :
              /\ t - Since(s, t)[i] < Window
              /\ \E j \in DOMAIN s : Since(s, t)[i] = s[j]
        BY <1>2, <1>t, <3>1, <3>2, SinceInOrder
      <4>2. QED
        BY <3>2, <4>1
    <3>5. Behind(Since(a, t), Since(s, t))
      BY <1>2, <1>t, <3>1, <3>2, SinceBehind
    <3>6. /\ local'[k] = Since(s, t) /\ admitted'["local"][k] = Since(a, t)
          /\ now' = t /\ lastHit'[k] = lastHit[k]
      BY <1>1, <1>t, <1>3 DEF s, a
    <3>7. \A i \in DOMAIN local'[k] : now' - local'[k][i] < Window
                                     /\ local'[k][i] <= lastHit'[k]
      BY <3>4, <3>6
    <3>8. QED
      BY <3>3, <3>5, <3>6, <3>7 DEF ListInv
  <2>5. QED
    BY <2>1, <2>2, <2>3, <2>4
<1>7. QED
  BY <1>5, <1>6 DEF LimiterInv

\* A restart of the process empties its lists and forgets whom it admitted by them.
LEMMA ForgottenKeeps ==
  ASSUME LimiterInv, UNCHANGED <<now, redis, lastHit>>,
         local' = [k \in Keys |-> <<>>],
         admitted' = [admitted EXCEPT !["local"] = [k \in Keys |-> <<>>]]
  PROVE  LimiterInv'
<1>1. <<>> \in Times /\ Len(<<>>) = 0 /\ DOMAIN <<>> = {}
  BY DEF Times
<1>2. /\ admitted \in [{"redis", "local"} -> [Keys -> Times]]
      /\ [k \in Keys |-> <<>>] \in [Keys -> Times]
  BY <1>1 DEF LimiterInv, LimiterTypeOK, Times
<1>3. ASSUME NEW k \in Keys
      PROVE  /\ local'[k] = <<>> /\ admitted'["local"][k] = <<>>
             /\ admitted'["redis"][k] = admitted["redis"][k]
  BY <1>2
<1>4. LimiterTypeOK'
  <2>1. admitted' \in [{"redis", "local"} -> [Keys -> Times]]
    BY <1>2
  <2>2. local' \in [Keys -> Times] /\ \A k \in Keys : Len(local'[k]) <= LimitOf(k)
    BY <1>1, <1>2, <1>3, LimitsArePositive
  <2>3. QED
    BY <2>1, <2>2 DEF LimiterInv, LimiterTypeOK, Times
<1>5. ASSUME NEW k \in Keys PROVE CounterInv(k)' /\ ListInv(k)'
  <2>1. CounterInv(k)'
    BY <1>3, UnderKey DEF CounterInv
  <2>2. ListInv(k)'
    BY <1>1, <1>3 DEF ListInv, InOrder, Behind
  <2>3. QED
    BY <2>1, <2>2
<1>6. QED
  BY <1>3, <1>4, <1>5, UnderKey DEF LimiterInv

-----------------------------------------------------------------------------
(* Types, and the limiter inside the pipeline.                             *)

USE IntakeAssumption

\* A submission in progress, by the step it is at.
LEMMA CallShape ==
  ASSUME IntakeTypeOK, NEW r \in Requests
  PROVE  /\ call[r] = IdleCall \/ call[r] \in Call
         /\ call[r].pc \in CallPc => call[r] \in Call
         /\ call[r] \in Call => /\ call[r] # IdleCall /\ call[r].pc \in CallPc
                                /\ call[r].fp \in Fps
                                /\ Widget(r) \in Widgets /\ Ip(r) \in Ips
                                /\ call[r].lead \in Leads \cup {NoLead}
                                /\ call[r].overlap \in BOOLEAN
         /\ call[r] = IdleCall => call[r].pc = "idle"
<1>1. call[r] = IdleCall \/ call[r] \in Call
  BY DEF IntakeTypeOK
<1>2. IdleCall.pc = "idle" /\ "idle" \notin CallPc
  BY DEF IdleCall, CallPc
<1>3. \A q \in Call : /\ q.pc \in CallPc /\ q.fp \in Fps
                      /\ q.lead \in Leads \cup {NoLead} /\ q.overlap \in BOOLEAN
  BY DEF Call
<1>4. \A fp \in Fps : fp[1] \in Widgets /\ fp[2] \in Ips
  BY DEF Fps
<1>5. QED
  BY <1>1, <1>2, <1>3, <1>4 DEF Widget, Ip

\* Changes of a submission in progress.
LEMMA MovedOn ==
  ASSUME NEW q \in Call, NEW label \in CallPc
  PROVE  LET x == [q EXCEPT !.pc = label]
         IN  x \in Call /\ x.pc = label /\ x.fp = q.fp /\ x.lead = q.lead
             /\ x.overlap = q.overlap
  BY DEF Call

LEMMA Inserted ==
  ASSUME NEW q \in Call, NEW l \in Leads
  PROVE  LET x == [q EXCEPT !.pc = "mark", !.lead = l, !.overlap = FALSE]
         IN  x \in Call /\ x.pc = "mark" /\ x.fp = q.fp /\ x.lead = l
  BY DEF Call, CallPc

LEMMA Looked ==
  ASSUME NEW q \in Call, NEW l \in Leads \cup {NoLead}, NEW b \in BOOLEAN
  PROVE  LET x == [q EXCEPT !.pc = "checked", !.lead = l, !.overlap = b]
         IN  x \in Call /\ x.pc = "checked" /\ x.fp = q.fp /\ x.lead = l
             /\ x.overlap = b
  BY DEF Call, CallPc

LEMMA Late ==
  ASSUME NEW q \in Call
  PROVE  LET x == [q EXCEPT !.overlap = TRUE]
         IN  x \in Call /\ x.pc = q.pc /\ x.fp = q.fp /\ x.lead = q.lead
             /\ x.overlap = TRUE
  BY DEF Call

LEMMA IdleIsNoCall == IdleCall \notin Call /\ IdleCall.pc = "idle"
  BY DEF IdleCall, Call, CallPc

\* The leads table.
LEMMA RowIsNotNoRow == \A x \in Row : x # NoRow /\ x.at \in 0..MaxTime
<1>1. \A x \in Row : x.at \in 0..MaxTime
  BY DEF Row
<1>2. NoRow.at = -FpTtl
  BY DEF NoRow
<1>3. ~(-FpTtl \in 0..MaxTime)
  OBVIOUS
<1>4. QED
  BY <1>1, <1>2, <1>3

\* What follows the insert and the mark.
FollowStep(r) == AnswerTrapped(r) \/ ScheduleWebhook(r) \/ Enqueue(r) \/ EnqueueLost(r)

\* The limiter moves in three ways, and stays put in every other step.
LEMMA LimiterStep ==
  ASSUME IntakeTypeOK, LimiterInv, [Next]_vars
  PROVE  LimiterInv'
<1>1. ASSUME UNCHANGED <<now, limiterVars>> PROVE LimiterInv'
  BY <1>1 DEF LimiterInv, limiterVars, LimiterTypeOK, CounterInv, ListInv
<1>2. ASSUME NEW r \in Requests, NEW ok \in BOOLEAN, Limit(r, ok) PROVE LimiterInv'
  <2>1. Ip(r) \in Ips /\ Widget(r) \in Widgets
    BY <1>2, CallShape DEF Limit, At, CallPc
  <2>2. CASE HitRedis(Ip(r), Widget(r), ok)
    BY <2>1, <2>2, HitRedisKeeps
  <2>3. CASE HitFallback(Ip(r), Widget(r), ok)
    BY <2>1, <2>3, HitLocalKeeps DEF HitFallback
  <2>4. CASE HitLocal(Ip(r), Widget(r), ok) /\ UNCHANGED <<now, redis, bounds>>
    BY <2>1, <2>4, HitLocalKeeps
  <2>5. QED
    BY <1>2, <2>2, <2>3, <2>4 DEF Limit
<1>3. ASSUME NEW r \in Requests,
             \/ \E fp \in Fps : Begin(r, fp)
             \/ Dedup(r) \/ DedupBlind(r) \/ AnswerExisting(r) \/ Create(r)
             \/ MarkSeen(r) \/ MarkLost(r) \/ FollowStep(r)
      PROVE  UNCHANGED <<now, limiterVars>>
  BY <1>3 DEF Begin, Dedup, DedupBlind, AnswerExisting, Create, MarkSeen, MarkLost,
     FollowStep, AnswerTrapped, ScheduleWebhook, Enqueue, EnqueueLost, tableFrame
<1>4. ASSUME NEW l \in Leads, DeleteLead(l) PROVE UNCHANGED <<now, limiterVars>>
  BY <1>4 DEF DeleteLead
<1>5. CASE TimePasses
  BY <1>5, TickKeeps DEF TimePasses
<1>6. CASE Restart
  BY <1>6, ForgottenKeeps DEF Restart
<1>7. CASE UNCHANGED vars
  BY <1>1, <1>7 DEF vars
<1>8. QED
  BY <1>1, <1>2, <1>3, <1>4, <1>5, <1>6, <1>7 DEF Next, FollowStep

\* The table of fingerprints.
Seen == [lead: Leads \cup {NoLead}, until: 0..(MaxTime + FpTtl)]

LEMMA TypeStep ==
  ASSUME IntakeTypeOK, LimiterInv, LeadsInv, [Next]_vars
  PROVE  IntakeTypeOK'
<1> USE DEF IntakeTypeOK, Fails, followVars
<1>1. LimiterTypeOK'
  BY LimiterStep DEF LimiterInv
<1>2. now \in 0..MaxTime
  BY DEF LimiterTypeOK
<1>3. ASSUME NEW r \in Requests, NEW fp \in Fps, Begin(r, fp) PROVE IntakeTypeOK'
  <2>1. [pc |-> "limit", fp |-> fp, lead |-> NoLead, overlap |-> FALSE] \in Call
    BY DEF Call, CallPc
  <2>2. QED
    BY <1>1, <1>3, <2>1 DEF Begin, tableFrame
<1>4. ASSUME NEW r \in Requests, NEW ok \in BOOLEAN, Limit(r, ok) PROVE IntakeTypeOK'
  <2>1. call[r] \in Call
    BY <1>4, CallShape DEF Limit, At, CallPc
  <2>2. call' \in [Requests -> Call \cup {IdleCall}]
    <3>1. [call[r] EXCEPT !.pc = "dedup"] \in Call
      <4>1. "dedup" \in CallPc
        BY DEF CallPc
      <4>2. QED
        BY <2>1, <4>1, MovedOn
    <3>2. QED
      BY <1>4, <3>1 DEF Limit, GoOn, Answer
  <2>3. calls' \in 0..MaxCalls /\ faults' \in 0..MaxFaults
    BY <1>4 DEF Limit, bounds
  <2>4. UNCHANGED <<hasRedis, db, stored, lead, seen, followVars, why>>
    BY <1>4 DEF Limit
  <2>5. QED
    BY <1>1, <2>2, <2>3, <2>4
<1>5. ASSUME NEW r \in Requests, NEW found \in Leads \cup {NoLead}, Checked(r, found),
             call[r] \in Call
      PROVE  call' \in [Requests -> Call \cup {IdleCall}]
  <2>1. [call[r] EXCEPT !.pc = "checked", !.lead = found,
                        !.overlap = Twins(r, {"mark"}) # {}] \in Call
    BY <1>5, Looked
  <2>2. QED
    BY <1>5, <2>1 DEF Checked
<1>6. ASSUME NEW r \in Requests, Dedup(r) PROVE IntakeTypeOK'
  <2>1. call[r] \in Call /\ call[r].fp \in Fps
    BY <1>6, CallShape DEF Dedup, At, CallPc
  <2>2. seen[call[r].fp].lead \in Leads \cup {NoLead}
    BY <2>1
  <2>3. QED
    BY <1>1, <1>5, <1>6, <2>1, <2>2 DEF Dedup, tableFrame, bounds
<1>7. ASSUME RedisLost PROVE calls' \in 0..MaxCalls /\ faults' \in 0..MaxFaults
  BY <1>7 DEF RedisLost, bounds
<1>8. ASSUME NEW r \in Requests, DedupBlind(r) PROVE IntakeTypeOK'
  <2>1. call[r] \in Call /\ call[r].fp \in Fps
    BY <1>8, CallShape DEF DedupBlind, At, CallPc
  <2>2. call' \in [Requests -> Call \cup {IdleCall}]
    BY <1>5, <1>8, <2>1 DEF DedupBlind
  <2>3. why' \in [Fps -> SUBSET {"raced", "deleted", "blind"}]
    BY <1>8, <2>1 DEF DedupBlind
  <2>4. calls' \in 0..MaxCalls /\ faults' \in 0..MaxFaults
    BY <1>7, <1>8 DEF DedupBlind
  <2>5. QED
    BY <1>1, <1>8, <2>2, <2>3, <2>4 DEF DedupBlind, tableFrame
<1>9. ASSUME NEW r \in Requests, AnswerExisting(r) PROVE IntakeTypeOK'
  BY <1>1, <1>9 DEF AnswerExisting, Answer, tableFrame, bounds
<1>10. ASSUME NEW r \in Requests, Create(r) PROVE IntakeTypeOK'
  <2>1. call[r] \in Call /\ call[r].fp \in Fps
    BY <1>10, CallShape DEF Create, MustCreate, At, CallPc
  <2>2. PICK l \in Leads :
          /\ lead' = [lead EXCEPT ![l] =
                        [fp |-> call[r].fp, trap |-> r \in Bots, at |-> now]]
          /\ stored' = stored \cup {l}
          /\ call' = [o \in Requests |->
               IF o = r THEN IF db = "postgres" THEN IdleCall
                             ELSE [call[r] EXCEPT !.pc = "mark", !.lead = l, !.overlap = FALSE]
               ELSE IF o \in Twins(r, {"checked"})
                    THEN [call[o] EXCEPT !.overlap = TRUE] ELSE call[o]]
    BY <1>10 DEF Create
  <2>3. [fp |-> call[r].fp, trap |-> r \in Bots, at |-> now] \in Row
    BY <1>2, <2>1 DEF Row
  <2>4. lead' \in [Leads -> Row \cup {NoRow}] /\ stored' \subseteq Leads
    BY <2>2, <2>3
  <2>5. call' \in [Requests -> Call \cup {IdleCall}]
    <3>1. [call[r] EXCEPT !.pc = "mark", !.lead = l, !.overlap = FALSE] \in Call
      BY <2>1, Inserted
    <3>2. ASSUME NEW o \in Twins(r, {"checked"})
          PROVE  [call[o] EXCEPT !.overlap = TRUE] \in Call
      <4>1. o \in Requests /\ call[o] \in Call
        BY CallShape DEF Twins, CallPc
      <4>2. QED
        BY <4>1, Late
    <3>3. QED
      BY <2>2, <3>1, <3>2
  <2>6. why' \in [Fps -> SUBSET {"raced", "deleted", "blind"}]
    BY <1>10, <2>1 DEF Create
  <2>7. UNCHANGED <<hasRedis, db, seen, followVars, bounds>>
    BY <1>10 DEF Create
  <2>8. QED
    BY <1>1, <2>4, <2>5, <2>6, <2>7 DEF bounds
<1>11. ASSUME NEW r \in Requests, call[r] \in Call,
              NEW label \in {"follow", "enqueue"}, GoOn(r, label)
       PROVE  call' \in [Requests -> Call \cup {IdleCall}]
  <2>1. [call[r] EXCEPT !.pc = label] \in Call
    <3>1. label \in CallPc
      BY DEF CallPc
    <3>2. QED
      BY <1>11, <3>1, MovedOn
  <2>2. QED
    BY <1>11, <2>1 DEF GoOn
<1>12. ASSUME NEW r \in Requests, MarkSeen(r) PROVE IntakeTypeOK'
  <2>1. call[r] \in Call /\ call[r].fp \in Fps /\ call[r].lead \in Leads \cup {NoLead}
    BY <1>12, CallShape DEF MarkSeen, At, CallPc
  <2>2. [lead |-> call[r].lead, until |-> now + FpTtl] \in Seen
    BY <1>2, <2>1 DEF Seen
  <2>3. seen' \in [Fps -> Seen]
    BY <1>12, <2>2 DEF MarkSeen, Seen
  <2>4. QED
    BY <1>1, <1>11, <1>12, <2>1, <2>3 DEF MarkSeen, tableFrame, bounds, Seen
<1>13. ASSUME NEW r \in Requests, MarkLost(r) PROVE IntakeTypeOK'
  <2>1. call[r] \in Call /\ call[r].fp \in Fps
    BY <1>13, CallShape DEF MarkLost, At, CallPc
  <2>2. why' \in [Fps -> SUBSET {"raced", "deleted", "blind"}]
    BY <1>13, <2>1 DEF MarkLost
  <2>3. calls' \in 0..MaxCalls /\ faults' \in 0..MaxFaults
    BY <1>7, <1>13 DEF MarkLost
  <2>4. QED
    BY <1>1, <1>11, <1>13, <2>1, <2>2, <2>3 DEF MarkLost, tableFrame
<1>14. ASSUME NEW r \in Requests, FollowStep(r) PROVE IntakeTypeOK'
  <2>1. call[r].pc \in {"follow", "enqueue"}
    BY <1>14 DEF FollowStep, AnswerTrapped, ScheduleWebhook, Enqueue, EnqueueLost, At
  <2>2. call[r] \in Call /\ call[r].lead \in Leads
    BY <2>1, CallShape DEF CallPc, LeadsInv, Knows
  <2>3. CASE AnswerTrapped(r)
    BY <1>1, <2>3 DEF AnswerTrapped, Answer, tableFrame, bounds
  <2>4. CASE ScheduleWebhook(r)
    BY <1>1, <1>11, <2>2, <2>4 DEF ScheduleWebhook, bounds
  <2>5. CASE Enqueue(r)
    BY <1>1, <2>2, <2>5 DEF Enqueue, Answer, bounds
  <2>6. CASE EnqueueLost(r)
    BY <1>1, <1>7, <2>2, <2>6 DEF EnqueueLost, Answer
  <2>7. QED
    BY <1>14, <2>3, <2>4, <2>5, <2>6 DEF FollowStep
<1>15. ASSUME NEW l \in Leads, DeleteLead(l) PROVE IntakeTypeOK'
  <2>1. lead[l] \in Row
    BY <1>15 DEF DeleteLead, LeadsInv
  <2>2. lead[l].fp \in Fps
    BY <2>1 DEF Row
  <2>3. why' \in [Fps -> SUBSET {"raced", "deleted", "blind"}]
    BY <1>15, <2>2 DEF DeleteLead
  <2>4. QED
    BY <1>1, <1>15, <2>3 DEF DeleteLead, Forget, bounds
<1>16. CASE TimePasses
  <2>1. Unseen \in Seen
    BY DEF Unseen, Seen
  <2>2. seen' \in [Fps -> Seen]
    BY <1>16, <2>1 DEF TimePasses, Seen
  <2>3. QED
    BY <1>1, <1>16, <2>2 DEF TimePasses, bounds, Seen
<1>17. CASE Restart
  <2>1. why' \in [Fps -> SUBSET {"raced", "deleted", "blind"}]
    BY <1>17 DEF Restart
  <2>2. calls' = calls /\ faults' \in 0..MaxFaults
    BY <1>1, <1>17 DEF Restart, Fails
  <2>3. QED
    BY <1>1, <1>17, <2>1, <2>2 DEF Restart, Forget
<1>18. CASE UNCHANGED vars
  BY <1>1, <1>18 DEF vars, intakeVars, bounds
<1>19. QED
  BY <1>3, <1>4, <1>6, <1>8, <1>9, <1>10, <1>12, <1>13, <1>14, <1>15, <1>16, <1>17,
     <1>18 DEF Next, FollowStep

-----------------------------------------------------------------------------
(* The leads that fingerprints and calls remember.                         *)

\* The call of r, before and after a step that changes no other call.
LEMMA OnlyOneCall ==
  ASSUME IntakeTypeOK, NEW r \in Requests, NEW q, call' = [call EXCEPT ![r] = q]
  PROVE  call'[r] = q /\ \A o \in Requests : o # r => call'[o] = call[o]
  BY DEF IntakeTypeOK

\* A step that inserts no lead.
LEMMA LeadsKept ==
  ASSUME IntakeTypeOK, LeadsInv, UNCHANGED lead, now \in Nat, now' \in {now, now + 1},
         stored' \subseteq stored,
         \A l \in FollowedUp' : l \in FollowedUp \/ lead[l] # NoRow,
         \A fp \in Fps : seen'[fp].lead # NoLead =>
           lead[seen'[fp].lead] # NoRow /\ lead[seen'[fp].lead].fp = fp,
         \A r \in Requests : Knows(r, call'[r])
  PROVE  LeadsInv'
<1>1. IsFiniteSet(stored')
  BY FS_Subset DEF LeadsInv
<1>2. \A l \in Leads : lead[l].at <= now'
  <2>1. \A l \in Leads : lead[l].at \in Int
    <3>1. NoRow.at \in Int
      BY DEF NoRow
    <3>2. QED
      BY <3>1, RowIsNotNoRow DEF IntakeTypeOK
  <2>2. QED
    BY <2>1 DEF LeadsInv
<1>3. \A r \in Requests : Knows(r, call[r])'
  BY DEF Knows
<1>4. QED
  BY <1>1, <1>2, <1>3 DEF LeadsInv

LEMMA LeadsStep ==
  ASSUME IntakeTypeOK, LeadsInv, [Next]_vars
  PROVE  LeadsInv'
<1>1. now \in Nat /\ \A r \in Requests : Knows(r, call[r])
  BY DEF IntakeTypeOK, LimiterTypeOK, LeadsInv
<1>2. \A fp \in Fps : seen[fp].lead # NoLead => lead[seen[fp].lead] # NoRow
                                               /\ lead[seen[fp].lead].fp = fp
  BY DEF LeadsInv
<1>3. ASSUME now' = now, UNCHANGED <<stored, lead, seen, followVars>>,
             \A r \in Requests : Knows(r, call'[r])
      PROVE  LeadsInv'
  BY <1>1, <1>2, <1>3, LeadsKept DEF FollowedUp, followVars
<1>4. \A r \in Requests : Knows(r, IdleCall)
  BY DEF Knows
<1>5. ASSUME NEW r \in Requests, NEW fp \in Fps, Begin(r, fp) PROVE LeadsInv'
  <2> DEFINE q == [pc |-> "limit", fp |-> fp, lead |-> NoLead, overlap |-> FALSE]
  <2>1. Knows(r, q)
    BY DEF Knows
  <2>2. call' = [call EXCEPT ![r] = q] /\ now' = now
        /\ UNCHANGED <<stored, lead, seen, followVars>>
    BY <1>5 DEF Begin, tableFrame
  <2> HIDE DEF q
  <2>3. QED
    BY <1>1, <1>3, <2>1, <2>2, OnlyOneCall
<1>6. ASSUME NEW r \in Requests, call[r] \in Call, NEW label \in CallPc,
             label \in {"mark", "follow", "enqueue"} => call[r].pc \in {"mark", "follow"},
             label = "enqueue" => r \notin Bots,
             GoOn(r, label) \/ Answer(r)
      PROVE  \A o \in Requests : Knows(o, call'[o])
  <2> DEFINE q == [call[r] EXCEPT !.pc = label]
  <2>1. q.pc = label /\ q.fp = call[r].fp /\ q.lead = call[r].lead
    BY <1>6, MovedOn
  <2>2. call' = [call EXCEPT ![r] = q] \/ call' = [call EXCEPT ![r] = IdleCall]
    BY <1>6 DEF GoOn, Answer
  <2>3. call[r] # IdleCall
    BY <1>6, CallShape
  <2> HIDE DEF q
  <2>4. Knows(r, q)
    BY <1>1, <1>6, <2>1, <2>3 DEF Knows
  <2>5. QED
    BY <1>1, <1>4, <2>2, <2>4, OnlyOneCall
<1>7. ASSUME NEW r \in Requests, NEW ok \in BOOLEAN, Limit(r, ok) PROVE LeadsInv'
  <2>1. call[r] \in Call /\ "dedup" \in CallPc
    BY <1>7, CallShape DEF Limit, At, CallPc
  <2>2. now' = now /\ UNCHANGED <<stored, lead, seen, followVars>>
    BY <1>7 DEF Limit, HitRedis, HitFallback
  <2>3. GoOn(r, "dedup") \/ Answer(r)
    BY <1>7 DEF Limit
  <2>4. QED
    BY <1>3, <1>6, <2>1, <2>2, <2>3
<1>8. ASSUME NEW r \in Requests, call[r] \in Call, NEW l \in Leads \cup {NoLead},
             l # NoLead => lead[l] # NoRow /\ lead[l].fp = call[r].fp, Checked(r, l)
      PROVE  \A o \in Requests : Knows(o, call'[o])
  <2>0. PICK b \in BOOLEAN : b = (Twins(r, {"mark"}) # {})
    OBVIOUS
  <2> DEFINE q == [call[r] EXCEPT !.pc = "checked", !.lead = l, !.overlap = b]
  <2>1. q.pc = "checked" /\ q.fp = call[r].fp /\ q.lead = l
    <3>1. ASSUME NEW c \in Call
          PROVE  LET x == [c EXCEPT !.pc = "checked", !.lead = l, !.overlap = b]
                 IN  x.pc = "checked" /\ x.fp = c.fp /\ x.lead = l
      BY DEF Call
    <3>2. QED
      BY <1>8, <3>1
  <2>2. call' = [call EXCEPT ![r] = q]
    BY <1>8, <2>0 DEF Checked
  <2> HIDE DEF q
  <2>3. Knows(r, q)
    BY <1>8, <2>1 DEF Knows
  <2>4. QED
    BY <1>1, <2>2, <2>3, OnlyOneCall
<1>9. ASSUME NEW r \in Requests, Dedup(r) PROVE LeadsInv'
  <2>1. call[r] \in Call /\ call[r].fp \in Fps
    BY <1>9, CallShape DEF Dedup, At, CallPc
  <2>2. seen[call[r].fp].lead \in Leads \cup {NoLead}
    BY <2>1 DEF IntakeTypeOK
  <2>3. Checked(r, seen[call[r].fp].lead) /\ now' = now
        /\ UNCHANGED <<stored, lead, seen, followVars>>
    BY <1>9 DEF Dedup, tableFrame
  <2>4. QED
    BY <1>2, <1>3, <1>8, <2>1, <2>2, <2>3
<1>10. ASSUME NEW r \in Requests, DedupBlind(r) PROVE LeadsInv'
  <2>1. call[r] \in Call
    BY <1>10, CallShape DEF DedupBlind, At, CallPc
  <2>2. Checked(r, NoLead) /\ now' = now /\ UNCHANGED <<stored, lead, seen, followVars>>
    BY <1>10 DEF DedupBlind, tableFrame
  <2>3. QED
    BY <1>3, <1>8, <2>1, <2>2
<1>11. ASSUME NEW r \in Requests, AnswerExisting(r) PROVE LeadsInv'
  <2>1. call[r] \in Call /\ "dedup" \in CallPc
    BY <1>11, CallShape DEF AnswerExisting, At, CallPc
  <2>2. Answer(r) /\ now' = now /\ UNCHANGED <<stored, lead, seen, followVars>>
    BY <1>11 DEF AnswerExisting, tableFrame
  <2>3. QED
    BY <1>3, <1>6, <2>1, <2>2
<1>12. ASSUME NEW r \in Requests, Create(r) PROVE LeadsInv'
  <2>1. call[r] \in Call /\ call[r].fp \in Fps
    BY <1>12, CallShape DEF Create, MustCreate, At, CallPc
  <2>2. PICK l \in Leads :
          /\ lead[l] = NoRow
          /\ lead' = [lead EXCEPT ![l] =
                        [fp |-> call[r].fp, trap |-> r \in Bots, at |-> now]]
          /\ stored' = stored \cup {l}
          /\ call' = [o \in Requests |->
               IF o = r THEN IF db = "postgres" THEN IdleCall
                             ELSE [call[r] EXCEPT !.pc = "mark", !.lead = l, !.overlap = FALSE]
               ELSE IF o \in Twins(r, {"checked"})
                    THEN [call[o] EXCEPT !.overlap = TRUE] ELSE call[o]]
    BY <1>12 DEF Create
  <2> DEFINE x == [fp |-> call[r].fp, trap |-> r \in Bots, at |-> now]
  <2>3. x \in Row /\ x.fp = call[r].fp /\ x.trap = (r \in Bots) /\ x.at = now
    BY <2>1 DEF Row, IntakeTypeOK, LimiterTypeOK
  <2>4. x # NoRow
    BY <2>3, RowIsNotNoRow
  <2>5. lead' = [lead EXCEPT ![l] = x]
    BY <2>2
  <2>6. UNCHANGED <<now, seen, followVars>> /\ FollowedUp' = FollowedUp
    BY <1>12 DEF Create, followVars, FollowedUp
  <2> HIDE DEF x
  <2>7. lead'[l] = x /\ \A m \in Leads : lead[m] # NoRow => m # l /\ lead'[m] = lead[m]
    BY <2>2, <2>5 DEF IntakeTypeOK
  <2>8. IsFiniteSet(stored')
    BY <2>2, FS_AddElement DEF LeadsInv
  <2>9. \A m \in stored' \cup FollowedUp' : lead'[m] # NoRow
    BY <2>2, <2>4, <2>6, <2>7 DEF LeadsInv, IntakeTypeOK, FollowedUp
  <2>10. \A m \in Leads : lead'[m].at <= now'
    <3>1. \A m \in Leads : m # l => lead'[m] = lead[m]
      BY <2>5 DEF IntakeTypeOK
    <3>2. now <= now
      BY <1>1
    <3>3. QED
      BY <2>3, <2>6, <2>7, <3>1, <3>2 DEF LeadsInv
  <2>11. \A fp \in Fps : seen'[fp].lead # NoLead => lead'[seen'[fp].lead] # NoRow
                                                   /\ lead'[seen'[fp].lead].fp = fp
    <3>1. \A fp \in Fps : seen[fp].lead \in Leads \cup {NoLead}
      BY DEF IntakeTypeOK
    <3>2. QED
      BY <1>2, <2>6, <2>7, <3>1
  <2>12. ASSUME NEW o \in Requests PROVE Knows(o, call[o])'
    <3>1. ASSUME NEW q \in Call, q.pc = call[o].pc, q.fp = call[o].fp,
                 q.lead = call[o].lead, call[o] \in Call, call'[o] = q
          PROVE  Knows(o, call[o])'
      <4>1. call[o] # IdleCall /\ call[o].lead \in Leads \cup {NoLead}
        BY <3>1, CallShape
      <4>2. QED
        BY <1>1, <2>7, <3>1, <4>1 DEF Knows
    <3>2. CASE call'[o] = IdleCall
      BY <3>2 DEF Knows
    <3>3. CASE o = r /\ call'[o] = [call[r] EXCEPT !.pc = "mark", !.lead = l, !.overlap = FALSE]
      <4> DEFINE q == [call[r] EXCEPT !.pc = "mark", !.lead = l, !.overlap = FALSE]
      <4>0. q.lead = l /\ q.fp = call[r].fp
        <5>1. ASSUME NEW c \in Call
              PROVE  LET y == [c EXCEPT !.pc = "mark", !.lead = l, !.overlap = FALSE]
                     IN  y.lead = l /\ y.fp = c.fp
          BY DEF Call
        <5>2. QED
          BY <2>1, <5>1
      <4>1. call'[o].lead = l /\ call'[o].fp = call[r].fp
        <5>1. call'[o] = q
          BY <3>3
        <5> HIDE DEF q
        <5>2. QED
          BY <4>0, <5>1
      <4>2. l # NoLead
        OBVIOUS
      <4>3. QED
        BY <2>3, <2>4, <2>7, <3>3, <4>1, <4>2 DEF Knows
    <3>4. CASE o \in Twins(r, {"checked"}) /\ call'[o] = [call[o] EXCEPT !.overlap = TRUE]
      <4>1. call[o] \in Call
        BY <3>4, CallShape DEF Twins, CallPc
      <4>2. QED
        BY <3>1, <3>4, <4>1, Late
    <3>5. CASE call'[o] = call[o]
      BY <3>1, <3>2, <3>5, CallShape
    <3>6. QED
      BY <2>2, <3>2, <3>3, <3>4, <3>5
  <2>13. QED
    BY <2>8, <2>9, <2>10, <2>11, <2>12 DEF LeadsInv
<1>13. ASSUME NEW r \in Requests, MarkSeen(r) PROVE LeadsInv'
  <2>1. call[r] \in Call /\ call[r].fp \in Fps /\ "follow" \in CallPc
    BY <1>13, CallShape DEF MarkSeen, At, CallPc
  <2>2. /\ call[r].pc = "mark" /\ GoOn(r, "follow")
        /\ now' = now /\ UNCHANGED <<stored, lead>> /\ FollowedUp' = FollowedUp
        /\ seen' = [seen EXCEPT ![call[r].fp] =
                      [lead |-> call[r].lead, until |-> now + FpTtl]]
    BY <1>13 DEF MarkSeen, tableFrame, At, followVars, FollowedUp
  <2>3. lead[call[r].lead] # NoRow /\ lead[call[r].lead].fp = call[r].fp
    BY <1>1, <2>1, <2>2, CallShape DEF Knows
  <2>4. \A fp \in Fps : seen'[fp].lead # NoLead =>
          lead[seen'[fp].lead] # NoRow /\ lead[seen'[fp].lead].fp = fp
    BY <1>2, <2>1, <2>2, <2>3 DEF IntakeTypeOK
  <2>5. \A o \in Requests : Knows(o, call'[o])
    BY <1>6, <2>1, <2>2
  <2>6. QED
    BY <1>1, <2>2, <2>4, <2>5, LeadsKept
<1>14. ASSUME NEW r \in Requests, MarkLost(r) PROVE LeadsInv'
  <2>1. call[r] \in Call /\ "follow" \in CallPc
    BY <1>14, CallShape DEF MarkLost, At, CallPc
  <2>2. /\ call[r].pc = "mark" /\ GoOn(r, "follow")
        /\ now' = now /\ UNCHANGED <<stored, lead, seen, followVars>>
    BY <1>14 DEF MarkLost, tableFrame, At
  <2>3. QED
    BY <1>3, <1>6, <2>1, <2>2
<1>15. ASSUME NEW r \in Requests, FollowStep(r) PROVE LeadsInv'
  <2>1. /\ call[r].pc \in {"follow", "enqueue"}
        /\ \/ Answer(r)
           \/ call[r].pc = "follow" /\ r \notin Bots /\ GoOn(r, "enqueue")
        /\ now' = now /\ UNCHANGED <<stored, lead, seen>>
        /\ FollowedUp' \subseteq FollowedUp \cup {call[r].lead}
    BY <1>15 DEF FollowStep, AnswerTrapped, ScheduleWebhook, Enqueue, EnqueueLost, At,
       FollowedUp, tableFrame, followVars
  <2>2. call[r] \in Call /\ {"dedup", "enqueue"} \subseteq CallPc
    BY <2>1, CallShape DEF CallPc
  <2>3. lead[call[r].lead] # NoRow
    BY <1>1, <2>1, <2>2, CallShape DEF Knows
  <2>4. \A o \in Requests : Knows(o, call'[o])
    BY <1>6, <2>1, <2>2
  <2>5. QED
    BY <1>1, <1>2, <2>1, <2>3, <2>4, LeadsKept
<1>16. ASSUME NEW l \in Leads, DeleteLead(l) PROVE LeadsInv'
  BY <1>1, <1>2, <1>16, LeadsKept DEF DeleteLead, Forget, FollowedUp
<1>17. CASE TimePasses
  <2>1. /\ now' = now + 1 /\ UNCHANGED <<stored, lead, call>> /\ FollowedUp' = FollowedUp
        /\ seen' = [fp \in Fps |-> IF seen[fp].until <= now + 1 THEN Unseen ELSE seen[fp]]
    BY <1>17 DEF TimePasses, Tick, FollowedUp, followVars
  <2>2. Unseen.lead = NoLead
    BY DEF Unseen
  <2>3. \A fp \in Fps : seen'[fp].lead # NoLead =>
          lead[seen'[fp].lead] # NoRow /\ lead[seen'[fp].lead].fp = fp
    BY <1>2, <2>1, <2>2
  <2>4. QED
    BY <1>1, <2>1, <2>3, LeadsKept
<1>18. CASE Restart
  <2>1. /\ now' = now /\ UNCHANGED <<lead, seen>> /\ stored' \subseteq stored
        /\ FollowedUp' \subseteq FollowedUp
        /\ \A r \in Requests : call'[r] = IdleCall
    BY <1>18 DEF Restart, Forget, FollowedUp
  <2>2. QED
    BY <1>1, <1>2, <1>4, <2>1, LeadsKept
<1>19. CASE UNCHANGED vars
  BY <1>1, <1>3, <1>19 DEF vars, intakeVars
<1>20. QED
  BY <1>5, <1>7, <1>9, <1>10, <1>11, <1>12, <1>13, <1>14, <1>15, <1>16, <1>17, <1>18,
     <1>19 DEF Next, FollowStep

-----------------------------------------------------------------------------
(* One fingerprint at a time.                                              *)

FpInv(fp) == OverlapIsSeen(fp) /\ OneCopy(fp) /\ FewCopies(fp)

LEMMA InCall ==
  ASSUME IntakeTypeOK, NEW r \in Requests
  PROVE  \A fp \in Fps, label \in CallPc :
           r \in Here(fp, label) <=> call[r].pc = label /\ call[r].fp = fp
  BY DEF Here, At

LEMMA Counted ==
  ASSUME LeadsInv, NEW fp
  PROVE  /\ IsFiniteSet(Copies(fp)) /\ Cardinality(Copies(fp)) \in Nat
         /\ IsFiniteSet(Pending(fp)) /\ Cardinality(Pending(fp)) \in Nat
         /\ Cardinality(Requests) \in Nat
<1>1. IsFiniteSet(stored) /\ Copies(fp) \subseteq stored
  BY DEF LeadsInv, Copies
<1>2. IsFiniteSet(Requests) /\ Pending(fp) \subseteq Requests
  BY DEF Pending, Here
<1>3. IsFiniteSet(Copies(fp)) /\ IsFiniteSet(Pending(fp))
  BY <1>1, <1>2, FS_Subset
<1>4. QED
  BY <1>2, <1>3, FS_CardinalityType

LEMMA CopyFacts ==
  ASSUME IntakeTypeOK, LeadsInv, NEW fp \in Fps
  PROVE  /\ now \in Int
         /\ \A l \in Copies(fp) : /\ l \in stored /\ l \in Leads /\ lead[l] \in Row
                                  /\ lead[l].fp = fp
                                  /\ lead[l].at \in Int /\ lead[l].at <= now
                                  /\ now < lead[l].at + FpTtl
         /\ seen[fp].until \in Int
         /\ seen[fp].lead \in Leads \cup {NoLead}
         /\ seen[fp].lead \in stored => lead[seen[fp].lead].fp = fp
<1>1. now \in Int
  BY DEF IntakeTypeOK, LimiterTypeOK
<1>2. ASSUME NEW l \in Copies(fp)
      PROVE  /\ l \in stored /\ l \in Leads /\ lead[l] \in Row
             /\ lead[l].fp = fp
             /\ lead[l].at \in Int /\ lead[l].at <= now
             /\ now < lead[l].at + FpTtl
  <2>1. l \in stored /\ lead[l].fp = fp /\ now - lead[l].at < FpTtl
    BY DEF Copies
  <2>2. l \in Leads /\ lead[l] \in Row /\ lead[l].at <= now
    BY <2>1 DEF IntakeTypeOK, LeadsInv
  <2>3. lead[l].at \in Int
    BY <2>2, RowIsNotNoRow
  <2>4. QED
    BY <1>1, <2>1, <2>2, <2>3
<1>3. seen[fp].until \in Int /\ seen[fp].lead \in Leads \cup {NoLead}
  BY DEF IntakeTypeOK
<1>4. seen[fp].lead \in stored => lead[seen[fp].lead].fp = fp
  BY DEF IntakeTypeOK, LeadsInv
<1>5. QED
  BY <1>1, <1>2, <1>3, <1>4

\* Submissions that leave, or stay where they are.
LEMMA OverlapKept ==
  ASSUME NEW fp, OverlapIsSeen(fp), Here(fp, "mark")' \subseteq Here(fp, "mark"),
         \A r \in Here(fp, "checked")' :
           r \in Here(fp, "checked") /\ call'[r].overlap = call[r].overlap
  PROVE  OverlapIsSeen(fp)'
  BY DEF OverlapIsSeen

\* A step that adds no lead and no submission of the fingerprint that is checked.
LEMMA OneKept ==
  ASSUME IntakeTypeOK, LeadsInv, NEW fp \in Fps, OneCopy(fp),
         Copies(fp)' \subseteq Copies(fp),
         \A l \in Copies(fp)' : lead'[l] = lead[l],
         why[fp] \subseteq why'[fp],
         \/ seen'[fp] = seen[fp]
         \/ \A l \in Copies(fp)' : seen[fp].until < lead[l].at + FpTtl,
         Here(fp, "mark")' = Here(fp, "mark"),
         \A r \in Here(fp, "mark") : call'[r].lead = call[r].lead,
         \A r \in Here(fp, "checked")' : /\ r \in Here(fp, "checked")
                                         /\ call'[r].lead = call[r].lead
                                         /\ call'[r].overlap = call[r].overlap
  PROVE  OneCopy(fp)'
<1> SUFFICES ASSUME why'[fp] \cap {"raced", "blind"} = {}, NEW l \in Copies(fp)'
             PROVE  /\ \A m \in Copies(fp)' : m = l
                    /\ Covered(fp, l, {l})'
                    /\ \A r \in Here(fp, "mark")' : call'[r].lead = l
                    /\ \A r \in Here(fp, "checked")' :
                         ~call'[r].overlap => call'[r].lead = l
  BY DEF OneCopy
<1>1. why[fp] \cap {"raced", "blind"} = {} /\ l \in Copies(fp)
  OBVIOUS
<1>2. /\ \A m \in Copies(fp) : m = l
      /\ Covered(fp, l, {l})
      /\ \A r \in Here(fp, "mark") : call[r].lead = l
      /\ \A r \in Here(fp, "checked") : ~call[r].overlap => call[r].lead = l
  BY <1>1 DEF OneCopy
<1>3. Covered(fp, l, {l})'
  <2>1. CASE \E r \in Here(fp, "mark") : call[r].lead = l
    BY <2>1 DEF Covered
  <2>2. CASE seen[fp].lead = l /\ seen[fp].until >= lead[l].at + FpTtl
    <3>1. ~(seen[fp].until < lead[l].at + FpTtl)
      BY <1>1, <2>2, CopyFacts
    <3>2. seen'[fp] = seen[fp] /\ lead'[l] = lead[l]
      BY <3>1
    <3>3. QED
      BY <2>2, <3>2 DEF Covered
  <2>3. QED
    BY <1>2, <2>1, <2>2 DEF Covered
<1>4. QED
  BY <1>2, <1>3

\* The same when no stored lead of the fingerprint is deleted.
LEMMA FewKept ==
  ASSUME IntakeTypeOK, LeadsInv, NEW fp \in Fps, FewCopies(fp),
         Copies(fp)' \subseteq Copies(fp),
         \A l \in Copies(fp)' : lead'[l] = lead[l],
         why[fp] \subseteq why'[fp],
         \/ seen'[fp] = seen[fp]
         \/ \A l \in Copies(fp)' : seen[fp].until < lead[l].at + FpTtl,
         Here(fp, "mark")' = Here(fp, "mark"),
         \A r \in Here(fp, "mark") : call'[r].lead = call[r].lead,
         \A r \in Here(fp, "checked")' : /\ r \in Here(fp, "checked")
                                         /\ call'[r].lead = call[r].lead
                                         /\ call'[r].overlap = call[r].overlap,
         \A l \in stored : lead[l].fp = fp => l \in stored'
  PROVE  FewCopies(fp)'
<1> SUFFICES ASSUME why'[fp] \subseteq {"raced"}
             PROVE  /\ \A l \in Copies(fp)' : Covered(fp, l, stored)'
                    /\ \A r \in Here(fp, "mark")' : call'[r].lead \in stored'
                    /\ Cardinality(Copies(fp)') + Cardinality(Pending(fp)')
                         <= Cardinality(Requests)
  BY DEF FewCopies
<1>1. /\ \A l \in Copies(fp) : Covered(fp, l, stored)
      /\ \A r \in Here(fp, "mark") : call[r].lead \in stored
      /\ Cardinality(Copies(fp)) + Cardinality(Pending(fp)) <= Cardinality(Requests)
  BY DEF FewCopies
<1>2. ASSUME NEW r \in Requests, call[r].pc \in {"mark", "checked"}, call[r].fp = fp,
             call[r].lead \in stored
      PROVE  call[r].lead \in stored'
  <2>1. call[r] \in Call
    BY <1>2, CallShape DEF CallPc
  <2>2. call[r] # IdleCall /\ call[r].lead # NoLead
    BY <1>2, <2>1, CallShape DEF IntakeTypeOK
  <2>3. lead[call[r].lead].fp = fp
    BY <1>2, <2>2 DEF LeadsInv, Knows
  <2>4. QED
    BY <1>2, <2>3
<1>3. ASSUME NEW l \in Copies(fp)' PROVE Covered(fp, l, stored)'
  <2>1. CASE \E r \in Here(fp, "mark") : call[r].lead = l
    BY <2>1 DEF Covered
  <2>2. CASE seen[fp].lead \in stored /\ seen[fp].until >= lead[l].at + FpTtl
    <3>1. ~(seen[fp].until < lead[l].at + FpTtl)
      BY <2>2, CopyFacts
    <3>2. seen'[fp] = seen[fp] /\ lead'[l] = lead[l]
      BY <3>1
    <3>3. seen[fp].lead \in stored'
      BY <2>2, CopyFacts
    <3>4. QED
      BY <2>2, <3>2, <3>3 DEF Covered
  <2>3. QED
    BY <1>1, <2>1, <2>2 DEF Covered
<1>4. \A r \in Here(fp, "mark")' : call'[r].lead \in stored'
  BY <1>1, <1>2 DEF Here, At
<1>5. Pending(fp)' \subseteq Pending(fp)
  <2> SUFFICES ASSUME NEW r \in Here(fp, "checked")', call'[r].lead \notin stored'
               PROVE  r \in Pending(fp)
    BY DEF Pending
  <2>1. r \in Here(fp, "checked") /\ call'[r].lead = call[r].lead
    OBVIOUS
  <2>2. call[r].lead \notin stored
    BY <1>2, <2>1 DEF Here, At
  <2>3. QED
    BY <2>1, <2>2 DEF Pending
<1>6. Cardinality(Copies(fp)') + Cardinality(Pending(fp)') <= Cardinality(Requests)
  <2> DEFINE c == Copies(fp)'
             p == Pending(fp)'
  <2>1. /\ IsFiniteSet(c) /\ Cardinality(c) <= Cardinality(Copies(fp))
        /\ IsFiniteSet(p) /\ Cardinality(p) <= Cardinality(Pending(fp))
    BY <1>5, Counted, FS_Subset
  <2>2. Cardinality(c) \in Nat /\ Cardinality(p) \in Nat
    BY <2>1, FS_CardinalityType
  <2> HIDE DEF c, p
  <2>3. Cardinality(c) + Cardinality(p) <= Cardinality(Requests)
    BY <1>1, <2>1, <2>2, Counted
  <2>4. QED
    BY <2>3 DEF c, p
<1>7. QED
  BY <1>3, <1>4, <1>6

\* Where a Redis call may have been lost nothing is promised.
LEMMA BlindKept ==
  ASSUME NEW fp, "blind" \in why'[fp]
  PROVE  OneCopy(fp)' /\ FewCopies(fp)'
  BY DEF OneCopy, FewCopies

\* A step of one call that neither marks a lead of fp nor will have to.
LEMMA CallElsewhere ==
  ASSUME IntakeTypeOK, LeadsInv, NEW fp \in Fps, FpInv(fp), NEW r \in Requests, NEW q,
         call' = [call EXCEPT ![r] = q],
         call[r].pc # "mark" \/ call[r].fp # fp,
         q.pc \notin {"mark", "checked"} \/ q.fp # fp,
         UNCHANGED <<now, stored, lead>>, seen'[fp] = seen[fp], why'[fp] = why[fp]
  PROVE  FpInv(fp)'
<1>1. call'[r] = q /\ \A o \in Requests : o # r => call'[o] = call[o]
  BY OnlyOneCall
<1>2. /\ Here(fp, "mark")' = Here(fp, "mark")
      /\ \A o \in Here(fp, "mark") : call'[o].lead = call[o].lead
      /\ \A o \in Here(fp, "checked")' : /\ o \in Here(fp, "checked")
                                         /\ call'[o].lead = call[o].lead
                                         /\ call'[o].overlap = call[o].overlap
  BY <1>1 DEF Here, At
<1>3. Copies(fp)' = Copies(fp)
  BY DEF Copies
<1>4. QED
  BY <1>2, <1>3, OverlapKept, OneKept, FewKept DEF FpInv

\* check_dedup of r: what it found, and whether another call inserts meanwhile.
LEMMA LookIsACall ==
  ASSUME IntakeTypeOK, NEW r \in Requests, call[r] \in Call,
         NEW found \in Leads \cup {NoLead}, Checked(r, found)
  PROVE  \E q : /\ q.pc = "checked" /\ q.fp = call[r].fp /\ q.lead = found
               /\ q.overlap = (Twins(r, {"mark"}) # {})
               /\ call' = [call EXCEPT ![r] = q]
<1>1. PICK b \in BOOLEAN : b = (Twins(r, {"mark"}) # {})
  OBVIOUS
<1> DEFINE q == [call[r] EXCEPT !.pc = "checked", !.lead = found, !.overlap = b]
<1>2. q.pc = "checked" /\ q.fp = call[r].fp /\ q.lead = found /\ q.overlap = b
  <2>1. ASSUME NEW c \in Call
        PROVE  LET x == [c EXCEPT !.pc = "checked", !.lead = found, !.overlap = b]
               IN  x.pc = "checked" /\ x.fp = c.fp /\ x.lead = found /\ x.overlap = b
    BY DEF Call
  <2>2. QED
    BY <2>1
<1>3. call' = [call EXCEPT ![r] = q]
  BY <1>1 DEF Checked
<1> HIDE DEF q
<1>4. QED
  BY <1>1, <1>2, <1>3

LEMMA LookedUp ==
  ASSUME IntakeTypeOK, NEW r \in Requests, At(r, "dedup"), NEW fp, call[r].fp = fp,
         NEW found \in Leads \cup {NoLead}, Checked(r, found)
  PROVE  /\ r \notin Here(fp, "checked") /\ r \notin Here(fp, "mark")
         /\ Here(fp, "mark")' = Here(fp, "mark")
         /\ Here(fp, "checked")' = Here(fp, "checked") \cup {r}
         /\ call'[r].lead = found
         /\ call'[r].overlap = (Here(fp, "mark") # {})
         /\ \A o \in Requests : o # r => call'[o] = call[o]
<1>1. call[r] \in Call /\ call[r].pc = "dedup"
  BY CallShape DEF At, CallPc
<1>2. PICK q : /\ q.pc = "checked" /\ q.fp = call[r].fp /\ q.lead = found
               /\ q.overlap = (Twins(r, {"mark"}) # {})
               /\ call' = [call EXCEPT ![r] = q]
  BY <1>1, LookIsACall
<1>3. call'[r] = q /\ \A o \in Requests : o # r => call'[o] = call[o]
  BY <1>2, OnlyOneCall
<1>4. Twins(r, {"mark"}) = Here(fp, "mark")
  BY <1>1 DEF Twins, Here, At
<1>5. QED
  BY <1>1, <1>2, <1>3, <1>4 DEF Here, At

\* Leads that are each about to be marked by a submission of their own, and other
\* submissions.
LEMMA OneCallEach ==
  ASSUME NEW copies, NEW marking \in SUBSET Requests, NEW others \in SUBSET Requests,
         \A l \in copies : \E o \in marking : call[o].lead = l,
         marking \cap others = {}
  PROVE  Cardinality(copies) + Cardinality(others) <= Cardinality(Requests)
<1> DEFINE f == [l \in copies |-> CHOOSE o \in marking : call[o].lead = l]
<1>1. \A l \in copies : f[l] \in marking /\ call[f[l]].lead = l
  OBVIOUS
<1>2. f \in [copies -> marking] /\ \A l, m \in copies : f[l] = f[m] => l = m
  <2>1. f \in [copies -> marking]
    BY <1>1
  <2> HIDE DEF f
  <2>2. QED
    BY <1>1, <2>1
<1> HIDE DEF f
<1>3. f \in Injection(copies, marking)
  BY <1>2 DEF Injection, IsInjective
<1>4. IsFiniteSet(marking) /\ IsFiniteSet(others)
  BY FS_Subset
<1>5. IsFiniteSet(copies) /\ Cardinality(copies) <= Cardinality(marking)
  BY <1>3, <1>4, FS_Injection
<1>6. Cardinality(marking \cup others)
        = Cardinality(marking) + Cardinality(others) - Cardinality(marking \cap others)
  BY <1>4, FS_Union
<1>7. Cardinality(marking \cap others) = 0
  BY FS_EmptySet
<1>8. Cardinality(marking \cup others) <= Cardinality(Requests)
  BY FS_Subset
<1>9. /\ Cardinality(copies) \in Nat /\ Cardinality(marking) \in Nat
      /\ Cardinality(others) \in Nat /\ Cardinality(Requests) \in Nat
  BY <1>4, <1>5, FS_CardinalityType
<1>10. QED
  BY <1>5, <1>6, <1>7, <1>8, <1>9

LEMMA DedupKeeps ==
  ASSUME IntakeTypeOK, LeadsInv, NEW fp \in Fps, FpInv(fp), NEW r \in Requests, Dedup(r)
  PROVE  FpInv(fp)'
<1>1. /\ At(r, "dedup") /\ Checked(r, seen[call[r].fp].lead)
      /\ UNCHANGED <<now, stored, lead, seen, why>>
  BY DEF Dedup, tableFrame
<1>2. call[r] \in Call /\ call[r].fp \in Fps /\ call[r].pc = "dedup"
  BY <1>1, CallShape DEF At, CallPc
<1>3. seen[call[r].fp].lead \in Leads \cup {NoLead}
  BY <1>2 DEF IntakeTypeOK
<1>4. CASE call[r].fp # fp
  <2>1. PICK q : q.fp = call[r].fp /\ call' = [call EXCEPT ![r] = q]
    BY <1>1, <1>2, <1>3, LookIsACall
  <2>2. QED
    BY <1>1, <1>2, <1>4, <2>1, CallElsewhere
<1>5. CASE call[r].fp = fp
  <2>1. /\ r \notin Here(fp, "checked") /\ r \notin Here(fp, "mark")
        /\ Here(fp, "mark")' = Here(fp, "mark")
        /\ Here(fp, "checked")' = Here(fp, "checked") \cup {r}
        /\ call'[r].lead = seen[fp].lead
        /\ call'[r].overlap = (Here(fp, "mark") # {})
        /\ \A o \in Requests : o # r => call'[o] = call[o]
    <3>1. PICK found \in Leads \cup {NoLead} :
            found = seen[fp].lead /\ Checked(r, found)
      BY <1>1, <1>3, <1>5
    <3>2. QED
      BY <1>1, <1>5, <3>1, LookedUp
  <2>2. /\ Here(fp, "mark") \subseteq Requests /\ Here(fp, "checked") \subseteq Requests
        /\ \A o \in Here(fp, "mark") \cup Here(fp, "checked") : call'[o] = call[o]
    BY <2>1 DEF Here
  <2>3. Copies(fp)' = Copies(fp)
    BY <1>1 DEF Copies
  <2>4. OverlapIsSeen(fp)'
    BY <2>1, <2>2 DEF OverlapIsSeen, FpInv
  <2>5. \A l : Covered(fp, l, {l})' <=> Covered(fp, l, {l})
    BY <1>1, <2>1, <2>2 DEF Covered
  <2>6. \A l : Covered(fp, l, stored)' <=> Covered(fp, l, stored)
    BY <1>1, <2>1, <2>2 DEF Covered
  <2>7. OneCopy(fp)'
    <3> SUFFICES ASSUME why'[fp] \cap {"raced", "blind"} = {}, NEW l \in Copies(fp)'
                 PROVE  /\ \A m \in Copies(fp)' : m = l
                        /\ Covered(fp, l, {l})'
                        /\ \A o \in Here(fp, "mark")' : call'[o].lead = l
                        /\ \A o \in Here(fp, "checked")' :
                             ~call'[o].overlap => call'[o].lead = l
      BY DEF OneCopy
    <3>1. /\ \A m \in Copies(fp) : m = l
          /\ Covered(fp, l, {l})
          /\ \A o \in Here(fp, "mark") : call[o].lead = l
          /\ \A o \in Here(fp, "checked") : ~call[o].overlap => call[o].lead = l
      BY <1>1, <2>3 DEF OneCopy, FpInv
    <3>2. ~call'[r].overlap => call'[r].lead = l
      BY <2>1, <3>1 DEF Covered
    <3>3. QED
      BY <2>1, <2>2, <2>3, <2>5, <3>1, <3>2
  <2>8. FewCopies(fp)'
    <3> SUFFICES ASSUME why'[fp] \subseteq {"raced"}
                 PROVE  /\ \A l \in Copies(fp)' : Covered(fp, l, stored)'
                        /\ \A o \in Here(fp, "mark")' : call'[o].lead \in stored'
                        /\ Cardinality(Copies(fp)') + Cardinality(Pending(fp)')
                             <= Cardinality(Requests)
      BY DEF FewCopies
    <3>1. /\ \A l \in Copies(fp) : Covered(fp, l, stored)
          /\ \A o \in Here(fp, "mark") : call[o].lead \in stored
          /\ Cardinality(Copies(fp)) + Cardinality(Pending(fp)) <= Cardinality(Requests)
      BY <1>1 DEF FewCopies, FpInv
    <3>2. CASE seen[fp].lead \in stored
      <4>1. Pending(fp)' = Pending(fp)
        BY <1>1, <2>1, <2>2, <3>2 DEF Pending
      <4>2. QED
        BY <1>1, <2>1, <2>2, <2>3, <2>6, <3>1, <4>1
    <3>3. CASE seen[fp].lead \notin stored
      <4>1. \A l \in Copies(fp) : \E o \in Here(fp, "mark") : call[o].lead = l
        BY <3>1, <3>3 DEF Covered
      <4>2. Pending(fp)' \subseteq Requests
        BY DEF Pending, Here
      <4>3. Here(fp, "mark") \cap Pending(fp)' = {}
        <5>1. Here(fp, "mark") \cap Here(fp, "checked") = {}
          BY DEF Here, At
        <5>2. Pending(fp)' \subseteq Here(fp, "checked")'
          BY DEF Pending
        <5>3. QED
          BY <2>1, <5>1, <5>2
      <4> DEFINE c == Copies(fp)
                 m == Here(fp, "mark")
                 p == Pending(fp)'
      <4>4. Cardinality(c) + Cardinality(p) <= Cardinality(Requests)
        <5>1. m \in SUBSET Requests /\ p \in SUBSET Requests /\ m \cap p = {}
              /\ \A l \in c : \E o \in m : call[o].lead = l
          BY <2>2, <4>1, <4>2, <4>3
        <5> HIDE DEF c, m, p
        <5>2. QED
          BY <5>1, OneCallEach
      <4>5. QED
        BY <1>1, <2>1, <2>2, <2>3, <2>6, <3>1, <4>4
    <3>4. QED
      BY <3>2, <3>3
  <2>9. QED
    BY <2>4, <2>7, <2>8 DEF FpInv
<1>6. QED
  BY <1>4, <1>5

\* A lost call: of the fingerprint only the overlaps are kept.
LEMMA DedupBlindKeeps ==
  ASSUME IntakeTypeOK, LeadsInv, NEW fp \in Fps, FpInv(fp), NEW r \in Requests,
         DedupBlind(r)
  PROVE  FpInv(fp)'
<1>1. /\ At(r, "dedup") /\ Checked(r, NoLead)
      /\ UNCHANGED <<now, stored, lead, seen>>
      /\ why' = [why EXCEPT ![call[r].fp] = @ \cup {"blind"}]
  BY DEF DedupBlind, tableFrame
<1>2. call[r] \in Call /\ call[r].fp \in Fps /\ call[r].pc = "dedup"
  BY <1>1, CallShape DEF At, CallPc
<1>3. NoLead \in Leads \cup {NoLead}
  OBVIOUS
<1>4. CASE call[r].fp # fp
  <2>1. PICK q : q.fp = call[r].fp /\ call' = [call EXCEPT ![r] = q]
    BY <1>1, <1>2, <1>3, LookIsACall
  <2>2. why'[fp] = why[fp]
    BY <1>1, <1>4 DEF IntakeTypeOK
  <2>3. QED
    BY <1>1, <1>2, <1>4, <2>1, <2>2, CallElsewhere
<1>5. CASE call[r].fp = fp
  <2>1. /\ Here(fp, "mark")' = Here(fp, "mark")
        /\ Here(fp, "checked")' = Here(fp, "checked") \cup {r}
        /\ call'[r].overlap = (Here(fp, "mark") # {})
        /\ \A o \in Requests : o # r => call'[o] = call[o]
    BY <1>1, <1>3, <1>5, LookedUp
  <2>2. Here(fp, "checked") \subseteq Requests
    BY DEF Here
  <2>3. OverlapIsSeen(fp)'
    BY <2>1, <2>2 DEF OverlapIsSeen, FpInv
  <2>4. "blind" \in why'[fp]
    BY <1>1, <1>5 DEF IntakeTypeOK
  <2>5. QED
    BY <2>3, <2>4, BlindKept DEF FpInv
<1>6. QED
  BY <1>4, <1>5

\* The one that has been marked, or should have been, follows up.
LEMMA Marked ==
  ASSUME IntakeTypeOK, NEW r \in Requests, At(r, "mark"), NEW fp, call[r].fp = fp,
         GoOn(r, "follow")
  PROVE  /\ r \in Here(fp, "mark")
         /\ Here(fp, "mark")' = Here(fp, "mark") \ {r}
         /\ Here(fp, "checked")' = Here(fp, "checked")
         /\ \A o \in Here(fp, "mark")' \cup Here(fp, "checked") : call'[o] = call[o]
<1>1. call[r] \in Call /\ call[r].pc = "mark" /\ "follow" \in CallPc
  BY CallShape DEF At, CallPc
<1> DEFINE q == [call[r] EXCEPT !.pc = "follow"]
<1>2. q.pc = "follow"
  BY <1>1, MovedOn
<1>3. call' = [call EXCEPT ![r] = q]
  BY DEF GoOn
<1> HIDE DEF q
<1>4. call'[r] = q /\ \A o \in Requests : o # r => call'[o] = call[o]
  BY <1>3, OnlyOneCall
<1>5. QED
  BY <1>1, <1>2, <1>4 DEF Here, At

\* The mark of another fingerprint.
LEMMA MarkedElsewhere ==
  ASSUME IntakeTypeOK, LeadsInv, NEW fp \in Fps, FpInv(fp), NEW r \in Requests,
         At(r, "mark"), call[r].fp # fp, GoOn(r, "follow"),
         UNCHANGED <<now, stored, lead>>, seen'[fp] = seen[fp], why'[fp] = why[fp]
  PROVE  FpInv(fp)'
<1>1. call[r] \in Call /\ "follow" \in CallPc
  BY CallShape DEF At, CallPc
<1> DEFINE q == [call[r] EXCEPT !.pc = "follow"]
<1>2. q.pc = "follow"
  BY <1>1, MovedOn
<1>3. call' = [call EXCEPT ![r] = q]
  BY DEF GoOn
<1> HIDE DEF q
<1>4. QED
  BY <1>2, <1>3, CallElsewhere

LEMMA MarkLostKeeps ==
  ASSUME IntakeTypeOK, LeadsInv, NEW fp \in Fps, FpInv(fp), NEW r \in Requests,
         MarkLost(r)
  PROVE  FpInv(fp)'
<1>1. /\ At(r, "mark") /\ GoOn(r, "follow")
      /\ UNCHANGED <<now, stored, lead, seen>>
      /\ why' = [why EXCEPT ![call[r].fp] = @ \cup {"blind"}]
  BY DEF MarkLost, tableFrame
<1>2. CASE call[r].fp # fp
  <2>1. why'[fp] = why[fp]
    BY <1>1, <1>2 DEF IntakeTypeOK
  <2>2. QED
    BY <1>1, <1>2, <2>1, MarkedElsewhere
<1>3. CASE call[r].fp = fp
  <2>1. /\ Here(fp, "mark")' = Here(fp, "mark") \ {r}
        /\ Here(fp, "checked")' = Here(fp, "checked")
        /\ \A o \in Here(fp, "mark")' \cup Here(fp, "checked") : call'[o] = call[o]
    BY <1>1, <1>3, Marked
  <2>2. OverlapIsSeen(fp)'
    BY <2>1, OverlapKept DEF FpInv
  <2>3. "blind" \in why'[fp]
    BY <1>1, <1>3 DEF IntakeTypeOK
  <2>4. QED
    BY <2>2, <2>3, BlindKept DEF FpInv
<1>4. QED
  BY <1>2, <1>3

\* The fingerprint is stored, for as long as any lead of now will count.
LEMMA MarkSeenKeeps ==
  ASSUME IntakeTypeOK, LeadsInv, NEW fp \in Fps, FpInv(fp), NEW r \in Requests,
         MarkSeen(r)
  PROVE  FpInv(fp)'
<1>1. /\ At(r, "mark") /\ GoOn(r, "follow")
      /\ UNCHANGED <<now, stored, lead, why>>
      /\ seen' = [seen EXCEPT ![call[r].fp] =
                    [lead |-> call[r].lead, until |-> now + FpTtl]]
  BY DEF MarkSeen, tableFrame
<1>2. CASE call[r].fp # fp
  <2>1. seen'[fp] = seen[fp]
    BY <1>1, <1>2 DEF IntakeTypeOK
  <2>2. QED
    BY <1>1, <1>2, <2>1, MarkedElsewhere
<1>3. CASE call[r].fp = fp
  <2>1. /\ r \in Here(fp, "mark")
        /\ Here(fp, "mark")' = Here(fp, "mark") \ {r}
        /\ Here(fp, "checked")' = Here(fp, "checked")
        /\ \A o \in Here(fp, "mark")' \cup Here(fp, "checked") : call'[o] = call[o]
    BY <1>1, <1>3, Marked
  <2>2. OverlapIsSeen(fp)'
    BY <2>1, OverlapKept DEF FpInv
  <2>3. Copies(fp)' = Copies(fp)
    BY <1>1 DEF Copies
  <2>4. Pending(fp)' = Pending(fp)
    BY <1>1, <2>1 DEF Pending
  <2>5. ASSUME NEW l \in Copies(fp), NEW ls, call[r].lead \in ls
        PROVE  Covered(fp, l, ls)'
    <3>1. seen'[fp].lead = call[r].lead /\ seen'[fp].until = now + FpTtl
      BY <1>1, <1>3 DEF IntakeTypeOK
    <3>2. now + FpTtl >= lead[l].at + FpTtl
      BY CopyFacts
    <3>3. QED
      BY <1>1, <2>5, <3>1, <3>2 DEF Covered
  <2>6. OneCopy(fp)'
    <3> SUFFICES ASSUME why'[fp] \cap {"raced", "blind"} = {}, NEW l \in Copies(fp)'
                 PROVE  /\ \A m \in Copies(fp)' : m = l
                        /\ Covered(fp, l, {l})'
                        /\ \A o \in Here(fp, "mark")' : call'[o].lead = l
                        /\ \A o \in Here(fp, "checked")' :
                             ~call'[o].overlap => call'[o].lead = l
      BY DEF OneCopy
    <3>1. /\ \A m \in Copies(fp) : m = l
          /\ \A o \in Here(fp, "mark") : call[o].lead = l
          /\ \A o \in Here(fp, "checked") : ~call[o].overlap => call[o].lead = l
      BY <1>1, <2>3 DEF OneCopy, FpInv
    <3>2. QED
      BY <2>1, <2>3, <2>5, <3>1
  <2>7. FewCopies(fp)'
    <3> SUFFICES ASSUME why'[fp] \subseteq {"raced"}
                 PROVE  /\ \A l \in Copies(fp)' : Covered(fp, l, stored)'
                        /\ \A o \in Here(fp, "mark")' : call'[o].lead \in stored'
                        /\ Cardinality(Copies(fp)') + Cardinality(Pending(fp)')
                             <= Cardinality(Requests)
      BY DEF FewCopies
    <3>1. /\ \A o \in Here(fp, "mark") : call[o].lead \in stored
          /\ Cardinality(Copies(fp)) + Cardinality(Pending(fp)) <= Cardinality(Requests)
      BY <1>1 DEF FewCopies, FpInv
    <3>2. \A l \in Copies(fp)' : Covered(fp, l, stored)'
      <4>1. call[r].lead \in stored'
        BY <1>1, <2>1, <3>1
      <4>2. ASSUME NEW l \in Copies(fp), NEW ls, ls = stored' PROVE Covered(fp, l, ls)'
        BY <2>5, <4>1, <4>2
      <4>3. QED
        BY <2>3, <4>2 DEF Covered
    <3>3. QED
      BY <1>1, <2>1, <2>3, <2>4, <3>1, <3>2
  <2>8. QED
    BY <2>2, <2>6, <2>7 DEF FpInv
<1>4. QED
  BY <1>2, <1>3

\* repo.create inserts one lead.
LEMMA NewLead ==
  ASSUME IntakeTypeOK, LeadsInv, NEW r \in Requests, Create(r)
  PROVE  \E l \in Leads :
           /\ l \notin stored \cup FollowedUp /\ stored' = stored \cup {l}
           /\ lead'[l].fp = call[r].fp /\ lead'[l].at = now
           /\ \A m \in stored : lead'[m] = lead[m]
           /\ \A o \in Requests :
                /\ o = r => \/ call'[r] = IdleCall /\ db = "postgres"
                            \/ call'[r].pc = "mark" /\ call'[r].lead = l
                               /\ call'[r].fp = call[r].fp
                /\ o # r => IF o \in Here(call[r].fp, "checked")
                            THEN /\ call'[o].pc = call[o].pc /\ call'[o].fp = call[o].fp
                                 /\ call'[o].lead = call[o].lead /\ call'[o].overlap
                            ELSE call'[o] = call[o]
<1>1. call[r] \in Call /\ call[r].fp \in Fps /\ call[r].pc = "checked"
  BY CallShape DEF Create, MustCreate, At, CallPc
<1>2. PICK l \in Leads :
        /\ lead[l] = NoRow
        /\ lead' = [lead EXCEPT ![l] =
                      [fp |-> call[r].fp, trap |-> r \in Bots, at |-> now]]
        /\ stored' = stored \cup {l}
        /\ call' = [o \in Requests |->
             IF o = r THEN IF db = "postgres" THEN IdleCall
                           ELSE [call[r] EXCEPT !.pc = "mark", !.lead = l, !.overlap = FALSE]
             ELSE IF o \in Twins(r, {"checked"})
                  THEN [call[o] EXCEPT !.overlap = TRUE] ELSE call[o]]
  BY DEF Create
<1>3. l \notin stored \cup FollowedUp
  BY <1>2 DEF LeadsInv
<1>4. /\ lead'[l].fp = call[r].fp /\ lead'[l].at = now
      /\ \A m \in stored : lead'[m] = lead[m]
  BY <1>2, <1>3 DEF IntakeTypeOK
<1>5. \/ call'[r] = IdleCall /\ db = "postgres"
      \/ call'[r].pc = "mark" /\ call'[r].lead = l /\ call'[r].fp = call[r].fp
  <2>1. CASE db = "postgres"
    BY <1>2, <2>1
  <2>2. CASE db # "postgres"
    <3> DEFINE q == [call[r] EXCEPT !.pc = "mark", !.lead = l, !.overlap = FALSE]
    <3>1. q.pc = "mark" /\ q.lead = l /\ q.fp = call[r].fp
      BY <1>1 DEF Call
    <3>2. call'[r] = q
      BY <1>2, <2>2
    <3> HIDE DEF q
    <3>3. QED
      BY <3>1, <3>2
  <2>3. QED
    BY <2>1, <2>2
<1>6. ASSUME NEW o \in Requests, o # r
      PROVE  IF o \in Here(call[r].fp, "checked")
             THEN /\ call'[o].pc = call[o].pc /\ call'[o].fp = call[o].fp
                  /\ call'[o].lead = call[o].lead /\ call'[o].overlap
             ELSE call'[o] = call[o]
  <2>1. o \in Twins(r, {"checked"}) <=> o \in Here(call[r].fp, "checked")
    BY <1>6 DEF Twins, Here, At
  <2>2. CASE o \in Here(call[r].fp, "checked")
    <3> DEFINE q == [call[o] EXCEPT !.overlap = TRUE]
    <3>1. call[o] \in Call
      BY <2>2, CallShape DEF Here, At, CallPc
    <3>2. q.pc = call[o].pc /\ q.fp = call[o].fp /\ q.lead = call[o].lead
          /\ q.overlap = TRUE
      BY <3>1, Late
    <3>3. call'[o] = q
      BY <1>2, <1>6, <2>1, <2>2
    <3> HIDE DEF q
    <3>4. QED
      BY <2>2, <3>2, <3>3
  <2>3. CASE o \notin Here(call[r].fp, "checked")
    BY <1>2, <1>6, <2>1, <2>3
  <2>4. QED
    BY <2>2, <2>3
<1>7. QED
  BY <1>2, <1>3, <1>4, <1>5, <1>6

LEMMA CreateKeeps ==
  ASSUME IntakeTypeOK, LeadsInv, NEW fp \in Fps, FpInv(fp), NEW r \in Requests, Create(r)
  PROVE  FpInv(fp)'
<1>1. /\ call[r].pc = "checked" /\ call[r].lead \notin stored /\ UNCHANGED <<now, seen>>
      /\ why' = [why EXCEPT ![call[r].fp] = @
                   \cup (IF call[r].overlap THEN {"raced"} ELSE {})
                   \cup (IF db = "postgres" THEN {"blind"} ELSE {})]
  BY DEF Create, MustCreate, At
<1>2. call[r] \in Call /\ call[r].fp \in Fps
  BY <1>1, CallShape DEF CallPc
<1>3. PICK l \in Leads :
        /\ l \notin stored \cup FollowedUp /\ stored' = stored \cup {l}
        /\ lead'[l].fp = call[r].fp /\ lead'[l].at = now
        /\ \A m \in stored : lead'[m] = lead[m]
        /\ \A o \in Requests :
             /\ o = r => \/ call'[r] = IdleCall /\ db = "postgres"
                         \/ call'[r].pc = "mark" /\ call'[r].lead = l
                            /\ call'[r].fp = call[r].fp
             /\ o # r => IF o \in Here(call[r].fp, "checked")
                         THEN /\ call'[o].pc = call[o].pc /\ call'[o].fp = call[o].fp
                              /\ call'[o].lead = call[o].lead /\ call'[o].overlap
                         ELSE call'[o] = call[o]
  BY NewLead
<1>4. CASE call[r].fp # fp
  <2>1. \A o \in Here(fp, "mark") \cup Here(fp, "checked") : call'[o] = call[o]
    BY <1>1, <1>3, <1>4 DEF Here, At
  <2>2. Here(fp, "mark")' = Here(fp, "mark") /\ Here(fp, "checked")' = Here(fp, "checked")
    BY <1>1, <1>3, <1>4, IdleIsNoCall DEF Here, At
  <2>3. Copies(fp)' = Copies(fp)
    BY <1>1, <1>3, <1>4 DEF Copies
  <2>4. \A m \in Copies(fp) : lead'[m] = lead[m]
    BY <1>3 DEF Copies
  <2>5. why'[fp] = why[fp]
    BY <1>1, <1>4 DEF IntakeTypeOK
  <2>6. OneCopy(fp)'
    BY <1>1, <2>1, <2>2, <2>3, <2>4, <2>5, OneKept DEF FpInv
  <2>7. FewCopies(fp)'
    BY <1>1, <1>3, <2>1, <2>2, <2>3, <2>4, <2>5, FewKept DEF FpInv
  <2>8. OverlapIsSeen(fp)'
    BY <2>1, <2>2, OverlapKept DEF FpInv
  <2>9. QED
    BY <2>6, <2>7, <2>8 DEF FpInv
<1>5. CASE call[r].fp = fp
  <2>1. /\ why[fp] \subseteq why'[fp]
        /\ call[r].overlap => "raced" \in why'[fp]
        /\ db = "postgres" => "blind" \in why'[fp]
    BY <1>1, <1>5 DEF IntakeTypeOK
  <2>2. /\ r \in Here(fp, "checked") /\ r \notin Here(fp, "mark")
        /\ \A o \in Here(fp, "mark") : call'[o] = call[o]
        /\ \A o \in Here(fp, "checked") \ {r} :
             call'[o].lead = call[o].lead /\ call'[o].overlap
    BY <1>1, <1>3, <1>5 DEF Here, At
  <2>3. Here(fp, "checked")' = Here(fp, "checked") \ {r}
    BY <1>1, <1>3, <1>5, IdleIsNoCall DEF Here, At
  <2>4. OverlapIsSeen(fp)'
    BY <2>2, <2>3 DEF OverlapIsSeen
  <2>5. CASE db = "postgres"
    BY <2>1, <2>4, <2>5, BlindKept DEF FpInv
  <2>6. CASE call'[r].pc = "mark" /\ call'[r].lead = l
             /\ call'[r].fp = call[r].fp
    <3>1. Here(fp, "mark")' = Here(fp, "mark") \cup {r}
      BY <1>1, <1>3, <1>5, <2>6 DEF Here, At
    <3>2. Copies(fp)' = Copies(fp) \cup {l}
      <4>1. now \in Int /\ 0 < FpTtl
        BY CopyFacts
      <4>2. now - now < FpTtl
        BY <4>1
      <4>3. QED
        BY <1>1, <1>3, <1>5, <4>2 DEF Copies
    <3>3. OneCopy(fp)'
      <4> SUFFICES ASSUME why'[fp] \cap {"raced", "blind"} = {}, NEW k \in Copies(fp)'
                   PROVE  /\ \A m \in Copies(fp)' : m = k
                          /\ Covered(fp, k, {k})'
                          /\ \A o \in Here(fp, "mark")' : call'[o].lead = k
                          /\ \A o \in Here(fp, "checked")' :
                               ~call'[o].overlap => call'[o].lead = k
        BY DEF OneCopy
      <4>1. why[fp] \cap {"raced", "blind"} = {} /\ ~call[r].overlap
        BY <2>1
      <4>2. Copies(fp) = {}
        <5>1. \A m \in Copies(fp) : call[r].lead = m /\ m \in stored
          BY <2>2, <4>1 DEF OneCopy, FpInv, Copies
        <5>2. QED
          BY <1>1, <5>1
      <4>3. Here(fp, "mark") = {}
        BY <2>2, <4>1 DEF OverlapIsSeen, FpInv
      <4>4. k = l /\ Covered(fp, k, {k})'
        BY <2>6, <3>1, <3>2, <4>2 DEF Covered
      <4>5. QED
        BY <2>2, <2>3, <2>6, <3>1, <3>2, <4>2, <4>3, <4>4
    <3>4. FewCopies(fp)'
      <4> SUFFICES ASSUME why'[fp] \subseteq {"raced"}
                   PROVE  /\ \A k \in Copies(fp)' : Covered(fp, k, stored)'
                          /\ \A o \in Here(fp, "mark")' : call'[o].lead \in stored'
                          /\ Cardinality(Copies(fp)') + Cardinality(Pending(fp)')
                               <= Cardinality(Requests)
        BY DEF FewCopies
      <4>1. /\ \A k \in Copies(fp) : Covered(fp, k, stored)
            /\ \A o \in Here(fp, "mark") : call[o].lead \in stored
            /\ Cardinality(Copies(fp)) + Cardinality(Pending(fp)) <= Cardinality(Requests)
        BY <2>1 DEF FewCopies, FpInv
      <4>2. ASSUME NEW k \in Copies(fp)' PROVE Covered(fp, k, stored)'
        <5>1. CASE k = l
          BY <2>6, <3>1, <5>1 DEF Covered
        <5>2. CASE k \in Copies(fp)
          <6>1. lead'[k] = lead[k]
            BY <1>3, <5>2 DEF Copies
          <6>2. QED
            BY <1>1, <1>3, <2>2, <3>1, <4>1, <5>2, <6>1 DEF Covered
        <5>3. QED
          BY <3>2, <5>1, <5>2
      <4>3. \A o \in Here(fp, "mark")' : call'[o].lead \in stored'
        BY <1>3, <2>2, <2>6, <3>1, <4>1
      <4>4. Pending(fp)' \subseteq Pending(fp) \ {r} /\ r \in Pending(fp)
        BY <1>1, <1>3, <2>2, <2>3 DEF Pending
      <4> DEFINE c == Copies(fp)
                 cc == Copies(fp)'
                 p == Pending(fp)
                 pp == Pending(fp)'
      <4>5. Cardinality(cc) + Cardinality(pp) <= Cardinality(Requests)
        <5>1. /\ IsFiniteSet(c) /\ Cardinality(c) \in Nat
              /\ IsFiniteSet(p) /\ Cardinality(p) \in Nat
              /\ Cardinality(Requests) \in Nat
              /\ Cardinality(c) + Cardinality(p) <= Cardinality(Requests)
          BY <4>1, Counted
        <5>2. l \notin c /\ cc = c \cup {l} /\ r \in p /\ pp \subseteq p \ {r}
          BY <1>3, <3>2, <4>4 DEF Copies
        <5> HIDE DEF c, cc, p, pp
        <5>3. Cardinality(cc) = Cardinality(c) + 1
          BY <5>1, <5>2, FS_AddElement
        <5>4. IsFiniteSet(p \ {r}) /\ Cardinality(p \ {r}) = Cardinality(p) - 1
          BY <5>1, <5>2, FS_RemoveElement
        <5>5. IsFiniteSet(pp) /\ Cardinality(pp) <= Cardinality(p \ {r})
          BY <5>2, <5>4, FS_Subset
        <5>6. Cardinality(pp) \in Nat
          BY <5>5, FS_CardinalityType
        <5>7. QED
          BY <5>1, <5>3, <5>4, <5>5, <5>6
      <4>6. QED
        BY <4>2, <4>3, <4>5
    <3>5. QED
      BY <2>4, <3>3, <3>4 DEF FpInv
  <2>7. QED
    BY <1>3, <2>5, <2>6
<1>6. QED
  BY <1>4, <1>5

\* A lead that is deleted leaves its fingerprint behind.
LEMMA DeleteKeeps ==
  ASSUME IntakeTypeOK, LeadsInv, NEW fp \in Fps, FpInv(fp), NEW l \in Leads,
         DeleteLead(l)
  PROVE  FpInv(fp)'
<1>1. /\ l \in stored /\ stored' = stored \ {l} /\ UNCHANGED <<now, lead, seen, call>>
      /\ why' = [why EXCEPT ![lead[l].fp] = @ \cup {"deleted"}]
  BY DEF DeleteLead
<1>2. /\ Copies(fp)' \subseteq Copies(fp)
      /\ Here(fp, "mark")' = Here(fp, "mark")
      /\ Here(fp, "checked")' = Here(fp, "checked")
  BY <1>1 DEF Copies, Here, At
<1>3. why[fp] \subseteq why'[fp] /\ (lead[l].fp = fp => "deleted" \in why'[fp])
  BY <1>1 DEF IntakeTypeOK
<1>4. OverlapIsSeen(fp)'
  BY <1>1, <1>2, OverlapKept DEF FpInv
<1>5. OneCopy(fp)'
  BY <1>1, <1>2, <1>3, OneKept DEF FpInv
<1>6. FewCopies(fp)'
  <2>1. CASE lead[l].fp = fp
    BY <1>3, <2>1 DEF FewCopies
  <2>2. CASE lead[l].fp # fp
    <3>1. \A m \in stored : lead[m].fp = fp => m \in stored'
      BY <1>1, <2>2
    <3>2. QED
      BY <1>1, <1>2, <1>3, <3>1, FewKept DEF FpInv
  <2>3. QED
    BY <2>1, <2>2
<1>7. QED
  BY <1>4, <1>5, <1>6 DEF FpInv

\* A fingerprint that expires outlived the leads it covered.
LEMMA TimeKeeps ==
  ASSUME IntakeTypeOK, LeadsInv, NEW fp \in Fps, FpInv(fp), TimePasses
  PROVE  FpInv(fp)'
<1>1. PICK t \in Int : t = now + 1 /\ now' = t /\ now < t
  BY DEF TimePasses, Tick, IntakeTypeOK, LimiterTypeOK
<1>2. /\ UNCHANGED <<stored, lead, call, why>>
      /\ seen' = [gp \in Fps |-> IF seen[gp].until <= t THEN Unseen ELSE seen[gp]]
  BY <1>1 DEF TimePasses
<1>3. \A l \in Copies(fp)' : l \in Copies(fp) /\ t < lead[l].at + FpTtl
  <2> SUFFICES ASSUME NEW l \in Copies(fp)'
               PROVE  l \in Copies(fp) /\ t < lead[l].at + FpTtl
    OBVIOUS
  <2>1. l \in stored /\ lead[l].fp = fp /\ t - lead[l].at < FpTtl
    BY <1>1, <1>2 DEF Copies
  <2>2. lead[l].at \in Int
    <3>1. lead[l] \in Row
      BY <2>1 DEF IntakeTypeOK, LeadsInv
    <3>2. QED
      BY <3>1, RowIsNotNoRow
  <2>3. now - lead[l].at < FpTtl /\ t < lead[l].at + FpTtl
    <3>1. now \in Int /\ FpTtl \in Int
      BY CopyFacts
    <3>2. QED
      BY <1>1, <2>1, <2>2, <3>1
  <2>4. QED
    BY <2>1, <2>3 DEF Copies
<1>4. \/ seen'[fp] = seen[fp]
      \/ \A l \in Copies(fp)' : seen[fp].until < lead[l].at + FpTtl
  <2>1. CASE seen[fp].until <= t
    <3> SUFFICES ASSUME NEW l \in Copies(fp)' PROVE seen[fp].until < lead[l].at + FpTtl
      OBVIOUS
    <3>1. l \in Copies(fp) /\ t < lead[l].at + FpTtl
      BY <1>3
    <3>2. seen[fp].until \in Int /\ lead[l].at \in Int /\ FpTtl \in Int
      BY <3>1, CopyFacts
    <3>3. QED
      BY <1>1, <2>1, <3>1, <3>2
  <2>2. CASE ~(seen[fp].until <= t)
    BY <1>2, <2>2
  <2>3. QED
    BY <2>1, <2>2
<1>5. Here(fp, "mark")' = Here(fp, "mark") /\ Here(fp, "checked")' = Here(fp, "checked")
  BY <1>2 DEF Here, At
<1>6. Copies(fp)' \subseteq Copies(fp)
  BY <1>3
<1>7. OverlapIsSeen(fp)'
  BY <1>2, <1>5, OverlapKept DEF FpInv
<1>8. OneCopy(fp)'
  BY <1>2, <1>4, <1>5, <1>6, OneKept DEF FpInv
<1>9. FewCopies(fp)'
  BY <1>2, <1>4, <1>5, <1>6, FewKept DEF FpInv
<1>10. QED
  BY <1>7, <1>8, <1>9 DEF FpInv

\* A restart ends every call; the leads in memory go with them.
LEMMA RestartKeeps ==
  ASSUME IntakeTypeOK, LeadsInv, NEW fp \in Fps, FpInv(fp), Restart
  PROVE  FpInv(fp)'
<1>1. /\ \A r \in Requests : call'[r] = IdleCall
      /\ stored' = IF db = "memory" THEN {} ELSE stored
      /\ why'[fp] = why[fp] \cup
           IF \E r \in Requests : At(r, "mark") /\ call[r].fp = fp THEN {"blind"} ELSE {}
      /\ UNCHANGED <<now, lead, seen>>
  BY DEF Restart
<1>2. Here(fp, "mark")' = {} /\ Here(fp, "checked")' = {}
  BY <1>1, IdleIsNoCall DEF Here, At
<1>3. OverlapIsSeen(fp)'
  BY <1>2 DEF OverlapIsSeen
<1>4. CASE Here(fp, "mark") # {}
  <2>1. "blind" \in why'[fp]
    BY <1>1, <1>4 DEF Here
  <2>2. QED
    BY <1>3, <2>1, BlindKept DEF FpInv
<1>5. CASE Here(fp, "mark") = {} /\ stored' = stored
  <2>1. Copies(fp)' = Copies(fp)
    BY <1>1, <1>5 DEF Copies
  <2>2. why[fp] \subseteq why'[fp]
    BY <1>1
  <2>3. OneCopy(fp)'
    BY <1>1, <1>2, <1>5, <2>1, <2>2, OneKept DEF FpInv
  <2>4. FewCopies(fp)'
    BY <1>1, <1>2, <1>5, <2>1, <2>2, FewKept DEF FpInv
  <2>5. QED
    BY <1>3, <2>3, <2>4 DEF FpInv
<1>6. CASE Here(fp, "mark") = {} /\ stored' = {}
  <2>1. Copies(fp)' = {} /\ Pending(fp)' = {}
    BY <1>2, <1>6 DEF Copies, Pending
  <2>2. Cardinality({}) = 0 /\ Cardinality(Requests) \in Nat
    BY FS_EmptySet, FS_CardinalityType
  <2>3. Cardinality(Copies(fp)') + Cardinality(Pending(fp)') <= Cardinality(Requests)
    BY <2>1, <2>2
  <2>4. QED
    BY <1>2, <1>3, <2>1, <2>3 DEF FpInv, OneCopy, FewCopies
<1>7. QED
  BY <1>1, <1>4, <1>5, <1>6

\* Every step keeps what is known of every fingerprint.
LEMMA DedupStep ==
  ASSUME IntakeTypeOK, DedupInv, [Next]_vars
  PROVE  DedupInv'
<1>1. LeadsInv /\ \A fp \in Fps : FpInv(fp)
  BY DEF DedupInv, FpInv
<1>2. LeadsInv'
  BY <1>1, LeadsStep
<1> SUFFICES ASSUME NEW fp \in Fps PROVE FpInv(fp)'
  BY <1>2 DEF DedupInv, FpInv
<1>3. FpInv(fp)
  BY <1>1
<1>4. ASSUME NEW r \in Requests, NEW gp \in Fps, Begin(r, gp) PROVE FpInv(fp)'
  <2> DEFINE q == [pc |-> "limit", fp |-> gp, lead |-> NoLead, overlap |-> FALSE]
  <2>1. /\ call' = [call EXCEPT ![r] = q] /\ call[r].pc # "mark"
        /\ UNCHANGED <<now, stored, lead, seen, why>>
    BY <1>4, IdleIsNoCall DEF Begin, tableFrame
  <2>2. q.pc = "limit"
    OBVIOUS
  <2> HIDE DEF q
  <2>3. QED
    BY <1>1, <1>3, <2>1, <2>2, CallElsewhere
<1>5. ASSUME NEW r \in Requests, call[r] \in Call, call[r].pc # "mark",
             NEW label \in CallPc, label \notin {"mark", "checked"},
             GoOn(r, label) \/ Answer(r), UNCHANGED <<now, stored, lead, seen, why>>
      PROVE  FpInv(fp)'
  <2> DEFINE q == [call[r] EXCEPT !.pc = label]
  <2>1. q.pc = label
    BY <1>5, MovedOn
  <2>2. call' = [call EXCEPT ![r] = q] \/ call' = [call EXCEPT ![r] = IdleCall]
    BY <1>5 DEF GoOn, Answer
  <2> HIDE DEF q
  <2>3. QED
    BY <1>1, <1>3, <1>5, <2>1, <2>2, IdleIsNoCall, CallElsewhere
<1>6. ASSUME NEW r \in Requests, NEW ok \in BOOLEAN, Limit(r, ok) PROVE FpInv(fp)'
  <2>1. call[r] \in Call /\ call[r].pc # "mark" /\ "dedup" \in CallPc
    BY <1>6, CallShape DEF Limit, At, CallPc
  <2>2. UNCHANGED <<now, stored, lead, seen, why>>
    BY <1>6 DEF Limit, HitRedis, HitFallback
  <2>3. GoOn(r, "dedup") \/ Answer(r)
    BY <1>6 DEF Limit
  <2>4. QED
    BY <1>5, <2>1, <2>2, <2>3
<1>7. ASSUME NEW r \in Requests, AnswerExisting(r) \/ FollowStep(r) PROVE FpInv(fp)'
  <2>1. /\ call[r].pc \in {"checked", "follow", "enqueue"}
        /\ Answer(r) \/ GoOn(r, "enqueue")
        /\ UNCHANGED <<now, stored, lead, seen, why>>
    BY <1>7 DEF AnswerExisting, FollowStep, AnswerTrapped, ScheduleWebhook, Enqueue,
       EnqueueLost, At, tableFrame
  <2>2. call[r] \in Call /\ call[r].pc # "mark" /\ "enqueue" \in CallPc
    BY <2>1, CallShape DEF CallPc
  <2>3. QED
    BY <1>5, <2>1, <2>2
<1>8. CASE UNCHANGED vars
  BY <1>3, <1>8 DEF vars, intakeVars, FpInv, OverlapIsSeen, OneCopy, FewCopies, Copies,
     Pending, Covered, Here, At
<1>9. QED
  BY <1>1, <1>3, <1>4, <1>6, <1>7, <1>8, DedupKeeps, DedupBlindKeeps, CreateKeeps,
     MarkSeenKeeps, MarkLostKeeps, DeleteKeeps, TimeKeeps, RestartKeeps DEF Next, FollowStep

-----------------------------------------------------------------------------
(* The leads that are followed up.                                         *)

\* A submission that is past its insert, and one whose job is being created.
OnItsWay(l) == \E r \in Requests : call[r].pc \in {"mark", "follow"} /\ call[r].lead = l
Enqueuing(l) == \E r \in Requests : At(r, "enqueue") /\ call[r].lead = l

\* A step that stores and follows up nothing and leaves every call on its way.
LEMMA FollowKept ==
  ASSUME StoredIsFollowedUp, stored' \subseteq stored, UNCHANGED followVars, lead' = lead,
         \A r \in Requests : call[r].pc \in {"mark", "follow"} =>
           call'[r].pc \in {"mark", "follow"} /\ call'[r].lead = call[r].lead,
         \A r \in Requests : call[r].pc = "enqueue" =>
           call'[r].pc = "enqueue" /\ call'[r].lead = call[r].lead
  PROVE  StoredIsFollowedUp'
<1>1. \A l : (OnItsWay(l) => OnItsWay(l)') /\ (Enqueuing(l) => Enqueuing(l)')
  BY DEF OnItsWay, Enqueuing, At
<1>2. QED
  BY <1>1 DEF StoredIsFollowedUp, OnItsWay, Enqueuing, FollowedUp, followVars

LEMMA FollowedStep ==
  ASSUME IntakeTypeOK, LeadsInv, StoredIsFollowedUp, db # "postgres", [Next]_vars
  PROVE  StoredIsFollowedUp'
<1>1. ASSUME NEW r \in Requests, NEW q, call' = [call EXCEPT ![r] = q],
             call[r].pc \notin {"mark", "follow", "enqueue"},
             UNCHANGED <<stored, followVars, lead>>
      PROVE  StoredIsFollowedUp'
  <2>1. \A o \in Requests : o # r => call'[o] = call[o]
    BY <1>1, OnlyOneCall
  <2>2. QED
    BY <1>1, <2>1, FollowKept
<1>2. ASSUME NEW r \in Requests, NEW fp \in Fps, Begin(r, fp) PROVE StoredIsFollowedUp'
  <2>1. PICK q : call' = [call EXCEPT ![r] = q]
    BY <1>2 DEF Begin
  <2>2. QED
    BY <1>1, <1>2, <2>1, IdleIsNoCall DEF Begin, tableFrame
<1>3. ASSUME NEW r \in Requests, NEW ok \in BOOLEAN, Limit(r, ok)
      PROVE  StoredIsFollowedUp'
  <2>1. PICK q : call' = [call EXCEPT ![r] = q]
    BY <1>3 DEF Limit, GoOn, Answer
  <2>2. QED
    BY <1>1, <1>3, <2>1 DEF Limit, At
<1>4. ASSUME NEW r \in Requests, Dedup(r) \/ DedupBlind(r) \/ AnswerExisting(r)
      PROVE  StoredIsFollowedUp'
  <2>1. PICK q : call' = [call EXCEPT ![r] = q]
    BY <1>4 DEF Dedup, DedupBlind, Checked, AnswerExisting, Answer
  <2>2. QED
    BY <1>1, <1>4, <2>1 DEF Dedup, DedupBlind, AnswerExisting, At, tableFrame
<1>5. ASSUME NEW r \in Requests, Create(r) PROVE StoredIsFollowedUp'
  <2>1. PICK l \in Leads :
          /\ l \notin stored \cup FollowedUp /\ stored' = stored \cup {l}
          /\ \A m \in stored : lead'[m] = lead[m]
          /\ \A o \in Requests :
               /\ o = r => call'[r].pc = "mark" /\ call'[r].lead = l
               /\ o # r => call'[o].pc = call[o].pc /\ call'[o].lead = call[o].lead
    BY <1>5, NewLead
  <2>2. call[r].pc = "checked" /\ UNCHANGED followVars
    BY <1>5 DEF Create, MustCreate, At
  <2>3. \A m : (OnItsWay(m) => OnItsWay(m)') /\ (Enqueuing(m) => Enqueuing(m)')
    BY <2>1, <2>2 DEF OnItsWay, Enqueuing, At
  <2>4. OnItsWay(l)'
    BY <2>1 DEF OnItsWay
  <2>5. QED
    BY <2>1, <2>2, <2>3, <2>4 DEF StoredIsFollowedUp, OnItsWay, Enqueuing, FollowedUp,
       followVars
<1>6. ASSUME NEW r \in Requests, MarkSeen(r) \/ MarkLost(r) PROVE StoredIsFollowedUp'
  <2>1. call[r] \in Call /\ "follow" \in CallPc /\ GoOn(r, "follow")
    BY <1>6, CallShape DEF MarkSeen, MarkLost, At, CallPc
  <2> DEFINE q == [call[r] EXCEPT !.pc = "follow"]
  <2>2. q.pc = "follow" /\ q.lead = call[r].lead
    BY <2>1, MovedOn
  <2>3. call' = [call EXCEPT ![r] = q]
    BY <2>1 DEF GoOn
  <2> HIDE DEF q
  <2>4. call'[r] = q /\ \A o \in Requests : o # r => call'[o] = call[o]
    BY <2>3, OnlyOneCall
  <2>5. call[r].pc = "mark" /\ UNCHANGED <<stored, followVars, lead>>
    BY <1>6 DEF MarkSeen, MarkLost, tableFrame, At
  <2>6. QED
    BY <2>2, <2>4, <2>5, FollowKept
<1>7. ASSUME NEW r \in Requests, FollowStep(r) PROVE StoredIsFollowedUp'
  <2>0. PICK l : l = call[r].lead
    OBVIOUS
  <2>1. /\ call[r].pc \in {"follow", "enqueue"} /\ UNCHANGED <<stored, lead>>
        /\ \/ call[r].pc = "follow" /\ r \in Bots /\ Answer(r) /\ UNCHANGED followVars
           \/ /\ call[r].pc = "follow" /\ r \notin Bots /\ GoOn(r, "enqueue")
              /\ notified' = notified \cup ({l} \cap stored) /\ UNCHANGED <<queued, unqueued>>
           \/ /\ call[r].pc = "enqueue" /\ Answer(r) /\ UNCHANGED notified
              /\ queued' \cup unqueued' = queued \cup unqueued \cup ({l} \cap stored)
    BY <1>7, <2>0 DEF FollowStep, AnswerTrapped, ScheduleWebhook, Enqueue, EnqueueLost, At,
       tableFrame
  <2>2. call[r] \in Call /\ call[r] # IdleCall /\ "enqueue" \in CallPc
    BY <2>1, CallShape DEF CallPc
  <2>3. lead[l].trap = (r \in Bots) /\ (call[r].pc = "enqueue" => r \notin Bots)
    BY <2>0, <2>1, <2>2 DEF LeadsInv, Knows
  <2>4. \A o \in Requests : o # r => call'[o] = call[o]
    BY <2>1, OnlyOneCall DEF GoOn, Answer
  <2>5. \A m : m # l => (OnItsWay(m) => OnItsWay(m)') /\ (Enqueuing(m) => Enqueuing(m)')
    BY <2>0, <2>4 DEF OnItsWay, Enqueuing, At
  <2>6. CASE call[r].pc = "follow" /\ r \in Bots /\ Answer(r) /\ UNCHANGED followVars
    BY <2>1, <2>3, <2>5, <2>6 DEF StoredIsFollowedUp, OnItsWay, Enqueuing, FollowedUp,
       followVars
  <2>7. CASE /\ call[r].pc = "follow" /\ GoOn(r, "enqueue") /\ r \notin Bots
             /\ notified' = notified \cup ({l} \cap stored) /\ UNCHANGED <<queued, unqueued>>
    <3>1. Enqueuing(l)'
      <4> DEFINE q == [call[r] EXCEPT !.pc = "enqueue"]
      <4>1. q.pc = "enqueue" /\ q.lead = l
        BY <2>0, <2>2, MovedOn
      <4>2. call' = [call EXCEPT ![r] = q]
        BY <2>7 DEF GoOn
      <4> HIDE DEF q
      <4>3. call'[r] = q
        BY <4>2, OnlyOneCall
      <4>4. call'[r].pc = "enqueue" /\ call'[r].lead = l
        BY <4>1, <4>3
      <4>5. QED
        BY <4>4 DEF Enqueuing, At
    <3>2. QED
      BY <2>1, <2>3, <2>5, <2>7, <3>1 DEF StoredIsFollowedUp, OnItsWay, Enqueuing, FollowedUp
  <2>8. CASE /\ call[r].pc = "enqueue" /\ Answer(r) /\ UNCHANGED notified
             /\ queued' \cup unqueued' = queued \cup unqueued \cup ({l} \cap stored)
    <3>1. OnItsWay(l) => OnItsWay(l)'
      BY <2>4, <2>8 DEF OnItsWay
    <3>2. stored' = stored /\ lead' = lead
      BY <2>1
    <3>3. ASSUME NEW m \in stored, lead[m].trap PROVE m \notin FollowedUp'
      <4>1. m # l /\ m \notin notified /\ m \notin queued \cup unqueued
        BY <2>3, <2>8, <3>3 DEF StoredIsFollowedUp, FollowedUp
      <4>2. QED
        BY <2>8, <4>1 DEF FollowedUp
    <3>4. ASSUME NEW m \in stored, ~lead[m].trap
          PROVE  \/ OnItsWay(m)'
                 \/ m \in notified' /\ (m \in queued' \cup unqueued' \/ Enqueuing(m)')
      <4>1. \/ OnItsWay(m)
            \/ m \in notified /\ (m \in queued \cup unqueued \/ Enqueuing(m))
        BY <3>4 DEF StoredIsFollowedUp, OnItsWay, Enqueuing
      <4>2. QED
        BY <2>5, <2>8, <3>1, <4>1
    <3>5. QED
      BY <3>2, <3>3, <3>4 DEF StoredIsFollowedUp, OnItsWay, Enqueuing
  <2>9. QED
    BY <2>1, <2>6, <2>7, <2>8
<1>8. ASSUME NEW l \in Leads, DeleteLead(l) PROVE StoredIsFollowedUp'
  <2>1. /\ stored' = stored \ {l} /\ UNCHANGED <<lead, call>>
        /\ notified' = notified \ {l} /\ queued' = queued \ {l}
        /\ unqueued' = unqueued \ {l}
    BY <1>8 DEF DeleteLead, Forget
  <2>2. QED
    BY <2>1 DEF StoredIsFollowedUp, FollowedUp, At
<1>9. CASE TimePasses
  BY <1>9, FollowKept DEF TimePasses
<1>10. CASE Restart
  <2>1. db = "memory"
    BY DEF IntakeTypeOK
  <2>2. stored' = {}
    BY <1>10, <2>1 DEF Restart
  <2>3. QED
    BY <2>2 DEF StoredIsFollowedUp
<1>11. CASE UNCHANGED vars
  BY <1>11, FollowKept DEF vars, intakeVars
<1>12. QED
  BY <1>2, <1>3, <1>4, <1>5, <1>6, <1>7, <1>8, <1>9, <1>10, <1>11 DEF Next, FollowStep

-----------------------------------------------------------------------------
(* The limiter never refuses a caller who kept quiet.                      *)

LEMMA RefusedIsNotQuiet ==
  ASSUME IntakeTypeOK, LimiterInv, NEW r \in Requests, Limit(r, FALSE)
  PROVE  ~Quiet(Ip(r), Widget(r))
<1>1. Ip(r) \in Ips /\ Widget(r) \in Widgets
  BY CallShape DEF Limit, At, CallPc
<1>2. CASE HitRedis(Ip(r), Widget(r), FALSE)
  <2>1. PICK k \in KeysOf(Ip(r), Widget(r)) :
          ~(Charged(Ip(r), Widget(r))[k].n <= LimitOf(k))
    BY <1>2 DEF HitRedis, WithinLimits
  <2>2. k \in Keys
    BY <1>1, Tiers
  <2>3. ~(redis[k].n + 1 <= LimitOf(k))
    BY <2>1, <2>2 DEF Charged
  <2>4. redis[k].n > 0
    BY <2>2, <2>3, UnderKey, LimitsArePositive
  <2>5. now < redis[k].until /\ redis[k].until <= lastHit[k] + Window
    BY <2>2, <2>4, UnderKey DEF CounterInv
  <2>6. ~(now - lastHit[k] >= Window)
    BY <2>2, <2>5, UnderKey, SMTT(30)
  <2>7. QED
    BY <2>6 DEF Quiet
<1>3. CASE HitLocal(Ip(r), Widget(r), FALSE)
  <2>1. PICK i \in 1..3 :
          Len(Recent(local[TierKeys(Ip(r), Widget(r))[i]])) >= Limits[i]
    BY <1>3 DEF HitLocal, FullTiers
  <2>2. PICK k \in KeysOf(Ip(r), Widget(r)) :
          k = TierKeys(Ip(r), Widget(r))[i] /\ LimitOf(k) = Limits[i] /\ k \in Keys
    BY <1>1, Tiers
  <2>3. local[k] \in Times /\ now \in Nat
    BY <2>2, UnderKey
  <2>4. \A j \in DOMAIN local[k] : now - local[k][j] < Window /\ local[k][j] <= lastHit[k]
    BY <2>2, UnderKey DEF ListInv
  <2>5. Recent(local[k]) = local[k]
    BY <2>3, <2>4, NothingStale DEF Recent
  <2>6. Len(local[k]) >= LimitOf(k)
    BY <2>1, <2>2, <2>5
  <2>7. 1 \in DOMAIN local[k] /\ local[k][1] \in Int
    BY <2>2, <2>3, <2>6, LimitsArePositive, Shape
  <2>8. ~(now - lastHit[k] >= Window)
    BY <2>2, <2>3, <2>4, <2>7, UnderKey, SMTT(30)
  <2>9. QED
    BY <2>2, <2>8 DEF Quiet
<1>4. QED
  BY <1>2, <1>3 DEF Limit, HitFallback

-----------------------------------------------------------------------------
(* The theorems.                                                           *)

LEMMA InitHolds ==
  ASSUME Init
  PROVE  IntakeTypeOK /\ LimiterInv /\ DedupInv /\ StoredIsFollowedUp
<1> USE DEF Init, LimiterInit
<1>1. <<>> \in Times /\ Len(<<>>) = 0 /\ DOMAIN <<>> = {}
  BY DEF Times
<1>2. LimiterTypeOK
  <2>1. \A k \in Keys : Len(local[k]) <= LimitOf(k)
    BY <1>1, LimitsArePositive
  <2>2. QED
    BY <1>1, <2>1 DEF LimiterTypeOK, Times, Never
<1>3. LimiterInv
  <2>1. ASSUME NEW k \in Keys
        PROVE  /\ lastHit[k] <= now /\ CounterInv(k) /\ ListInv(k)
               /\ Len(admitted["redis"][k]) <= LimitOf(k)
    <3>1. /\ redis[k].n = 0 /\ local[k] = <<>> /\ lastHit[k] = Never /\ now = 0
          /\ admitted["redis"][k] = <<>> /\ admitted["local"][k] = <<>>
      OBVIOUS
    <3>2. lastHit[k] <= now
      BY <3>1 DEF Never
    <3>3. CounterInv(k)
      BY <1>1, <3>1 DEF CounterInv
    <3>4. ListInv(k)
      BY <1>1, <3>1 DEF ListInv, InOrder, Behind
    <3>5. QED
      BY <1>1, <3>1, <3>2, <3>3, <3>4, LimitsArePositive
  <2>2. QED
    BY <1>2, <2>1 DEF LimiterInv
<1>4. IntakeTypeOK
  <2>1. [fp \in Fps |-> Unseen] \in [Fps -> [lead: Leads \cup {NoLead},
                                             until: 0..(MaxTime + FpTtl)]]
    BY DEF Unseen
  <2>2. QED
    BY <1>2, <2>1 DEF IntakeTypeOK
<1>5. LeadsInv
  <2>1. NoRow.at <= 0 /\ Unseen.lead = NoLead
    BY DEF NoRow, Unseen
  <2>2. QED
    BY <2>1, FS_EmptySet DEF LeadsInv, Knows, FollowedUp
<1>6. ASSUME NEW fp \in Fps PROVE FpInv(fp)
  <2>1. Here(fp, "mark") = {} /\ Here(fp, "checked") = {}
    BY IdleIsNoCall DEF Here, At
  <2>2. Copies(fp) = {} /\ Pending(fp) = {}
    BY <2>1 DEF Copies, Pending
  <2>3. Cardinality({}) = 0 /\ Cardinality(Requests) \in Nat
    BY FS_EmptySet, FS_CardinalityType
  <2>4. Cardinality(Copies(fp)) + Cardinality(Pending(fp)) <= Cardinality(Requests)
    BY <2>2, <2>3
  <2>5. QED
    BY <2>1, <2>2, <2>4 DEF FpInv, OverlapIsSeen, OneCopy, FewCopies
<1>7. StoredIsFollowedUp
  BY DEF StoredIsFollowedUp
<1>8. QED
  BY <1>3, <1>4, <1>5, <1>6, <1>7 DEF DedupInv, FpInv

\* The inductive invariant: counters outlive what they admitted and stamps lie behind
\* it; what fingerprints and calls remember exists; without overlap and loss every lead
\* is covered, and with overlap each takes the place of a submission.
THEOREM IntakeSafety == Spec => [](IntakeTypeOK /\ LimiterInv /\ DedupInv)
<1>1. Init => IntakeTypeOK /\ LimiterInv /\ DedupInv
  BY InitHolds
<1>2. IntakeTypeOK /\ LimiterInv /\ DedupInv /\ [Next]_vars
        => IntakeTypeOK' /\ LimiterInv' /\ DedupInv'
  BY LimiterStep, TypeStep, DedupStep DEF DedupInv
<1>3. QED
  BY <1>1, <1>2, PTL DEF Spec

\* Every variable keeps its type, and no list in the process outgrows its tier
\* (Intake.IntakeTypeOK).
THEOREM IntakeTyping == Spec => []IntakeTypeOK
  BY IntakeSafety, PTL

\* Each form of the limiter admits no more than a tier's limit in any window, whatever
\* the other form, Redis and restarts do in between (RateLimiter.AdmittedWithinLimit).
THEOREM AdmissionsAreLimited == Spec => []AdmittedWithinLimit
<1>1. ASSUME LimiterInv PROVE AdmittedWithinLimit
  <2> SUFFICES ASSUME NEW k \in Keys
               PROVE  /\ Len(admitted["redis"][k]) <= LimitOf(k)
                      /\ Len(admitted["local"][k]) <= LimitOf(k)
    BY DEF AdmittedWithinLimit
  <2>1. Len(admitted["redis"][k]) <= LimitOf(k)
    BY <1>1, UnderKey
  <2>2. Len(admitted["local"][k]) <= LimitOf(k)
    <3>1. Len(admitted["local"][k]) <= Len(local[k])
      BY <1>1, UnderKey DEF ListInv, Behind
    <3>2. QED
      BY <1>1, <3>1, UnderKey, LimitsArePositive
  <2>3. QED
    BY <2>1, <2>2
<1>2. QED
  BY <1>1, IntakeSafety, PTL

\* For any number of submissions, deletions, restarts and lost calls: one lead for each
\* fingerprint and window where nothing overlapped or was lost, and no more than there
\* are overlapping submissions where they only overlapped (Intake.DuplicatesBounded).
THEOREM DuplicatesStayBounded == Spec => []DuplicatesBounded
<1>1. ASSUME DedupInv PROVE DuplicatesBounded
  <2> SUFFICES ASSUME NEW fp \in Fps
               PROVE  /\ why[fp] \cap {"raced", "blind"} = {} => Cardinality(Copies(fp)) <= 1
                      /\ why[fp] \subseteq {"raced"} =>
                           Cardinality(Copies(fp)) <= Cardinality(Requests)
    BY DEF DuplicatesBounded
  <2>1. OneCopy(fp) /\ FewCopies(fp) /\ LeadsInv
    BY <1>1 DEF DedupInv
  <2>2. ASSUME why[fp] \cap {"raced", "blind"} = {} PROVE Cardinality(Copies(fp)) <= 1
    <3>1. CASE Copies(fp) = {}
      BY <3>1, FS_EmptySet
    <3>2. CASE Copies(fp) # {}
      <4>1. PICK l : Copies(fp) = {l}
        <5>1. \A k, m \in Copies(fp) : m = k
          BY <2>1, <2>2 DEF OneCopy
        <5>2. QED
          BY <3>2, <5>1
      <4>2. Cardinality({l}) = 1
        BY FS_Singleton
      <4>3. QED
        BY <4>1, <4>2
    <3>3. QED
      BY <3>1, <3>2
  <2>3. ASSUME why[fp] \subseteq {"raced"}
        PROVE  Cardinality(Copies(fp)) <= Cardinality(Requests)
    <3>1. Cardinality(Copies(fp)) + Cardinality(Pending(fp)) <= Cardinality(Requests)
      BY <2>1, <2>3 DEF FewCopies
    <3>2. QED
      BY <2>1, <3>1, Counted
  <2>4. QED
    BY <2>2, <2>3
<1>2. QED
  BY <1>1, IntakeSafety, PTL

\* A submission is refused only after other calls from its address or to its widget
\* within the window, in both forms of the limiter (Intake.QuietCallerIsAdmitted).
THEOREM QuietCallersAreAdmitted == Spec => QuietCallerIsAdmitted
<1>1. IntakeTypeOK /\ LimiterInv
        => [\A r \in Requests : Limit(r, FALSE) => ~Quiet(Ip(r), Widget(r))]_vars
  BY RefusedIsNotQuiet
<1>2. QED
  BY <1>1, IntakeSafety, PTL DEF QuietCallerIsAdmitted

\* With the in-memory table, whatever fails: every lead that is stored is followed up or
\* its submission is on the way, a trapped one never (Intake.StoredIsFollowedUp).
THEOREM StoredLeadsAreFollowedUp ==
  ASSUME "postgres" \notin Backends
  PROVE  Spec => []StoredIsFollowedUp
<1>1. Init => StoredIsFollowedUp
  BY InitHolds
<1>2. IntakeTypeOK /\ DedupInv /\ StoredIsFollowedUp /\ [Next]_vars => StoredIsFollowedUp'
  <2>1. IntakeTypeOK => db # "postgres"
    BY DEF IntakeTypeOK
  <2>2. QED
    BY <2>1, FollowedStep DEF DedupInv
<1>3. QED
  BY <1>1, <1>2, IntakeSafety, PTL DEF Spec

=============================================================================
