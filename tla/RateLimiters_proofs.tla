------------------------ MODULE RateLimiters_proofs ------------------------
(***************************************************************************)
(* Theorems about the rate limiters: that of Redis by itself, and the two  *)
(* of RateLimiters, for every number of calls and subjects and every       *)
(* limit, window, TTL and delay of their assumptions.                      *)
(***************************************************************************)
EXTENDS RateLimiters, Integers, Sequences, TLAPS

-----------------------------------------------------------------------------
(* The limiter in Redis *)

\* No request for the window of k gets to the server from here on.
Closing(k) == k[2] * Window + Window + MaxDelay

RedisType ==
  /\ now \in Nat /\ now <= MaxTime
  /\ pc \in [Call -> {"idle", "incr", "expire"}]
  /\ stamp \in [Call -> Nat]
  /\ subject = [c \in Call |-> subject[c]]
  /\ count \in [Key -> Nat]
  /\ expiry \in [Key -> Nat]
  /\ granted \in [Key -> Nat]

\* Requests under way are recent, and their stamps are not of the future.
CallInv ==
  \A c \in Call : pc[c] # "idle" =>
    /\ KeyOf(c) \in Key
    /\ stamp[c] <= now
    /\ pc[c] = "incr" => now <= stamp[c] + MaxDelay

\* What makes WindowBound inductive: the server drops a counter only when no
\* request for it can be under way any more, and until then it counts at
\* least what was let through.
KeyInv ==
  \A k \in Key :
    /\ granted[k] * Parts <= PerMinute
    /\ expiry[k] # NoTtl => expiry[k] >= Closing(k)
    /\ granted[k] <= count[k] \/ now >= Closing(k)

RedisInv == RedisType /\ CallInv /\ KeyInv

-----------------------------------------------------------------------------
(* Arithmetic *)

\* A stamp lies in its window.
LEMMA WindowOfStamp ==
  ASSUME NEW t \in Nat
  PROVE  /\ WindowIndex(t) \in Nat
         /\ WindowIndex(t) * Window <= t
         /\ t < WindowIndex(t) * Window + Window
BY LimiterAssumption, Z3 DEF WindowIndex

LEMMA Monotone ==
  ASSUME NEW m \in Nat, NEW n \in Nat, NEW p \in Nat, m <= n
  PROVE  m * p <= n * p
<1>1. PICK d \in Nat : n = m + d
  BY n - m \in Nat, n = m + (n - m)
<1>2. (m + d) * p = m * p + d * p /\ m * p \in Int /\ d * p \in Nat
  OBVIOUS
<1>. QED BY <1>1, <1>2

\* As long as a request with the stamp t is under way, its window is not
\* closed; and a key that gets its TTL at or behind t outlives that.
LEMMA ClosingOfStamp ==
  ASSUME NEW t \in Nat, NEW s
  PROVE  /\ Closing(<<s, WindowIndex(t)>>) \in Nat
         /\ t + MaxDelay < Closing(<<s, WindowIndex(t)>>)
         /\ Closing(<<s, WindowIndex(t)>>) <= t + KeyTtl
<1>. DEFINE w == WindowIndex(t)
            a == w * Window
  \* The product by a name, which spares the provers its arithmetic.
<1>1. w \in Nat /\ a \in Nat /\ a <= t /\ t < a + Window
  BY WindowOfStamp, LimiterAssumption
<1>2. Closing(<<s, w>>) = a + Window + MaxDelay
  BY DEF Closing
<1>3. /\ MaxDelay \in Nat /\ Window \in Nat /\ KeyTtl \in Nat
      /\ MaxDelay <= KeyTtl - Window
  BY LimiterAssumption
<1>. HIDE DEF a, w
<1>4. Closing(<<s, w>>) \in Nat /\ t + MaxDelay < Closing(<<s, w>>)
       /\ Closing(<<s, w>>) <= t + KeyTtl
  BY <1>1, <1>2, <1>3
<1>. QED BY <1>4 DEF w

LEMMA ClosingType ==
  ASSUME NEW k \in Key
  PROVE  Closing(k) \in Nat
<1>1. WindowIndex(MaxTime) \in Nat
  BY WindowOfStamp, LimiterAssumption
<1>2. k[2] \in Nat
  BY <1>1 DEF Key
<1>3. k[2] * Window \in Nat
  BY <1>2, LimiterAssumption
<1>. QED BY <1>3, LimiterAssumption DEF Closing

-----------------------------------------------------------------------------
LEMMA RedisInit == Init => RedisInv
<1>. SUFFICES ASSUME Init PROVE RedisInv
  OBVIOUS
<1>1. RedisType
  BY LimiterAssumption DEF Init, RedisType, NoTtl
<1>2. CallInv
  BY DEF Init, CallInv
<1>3. 0 * Parts <= PerMinute
  BY LimiterAssumption
<1>4. KeyInv
  BY <1>3 DEF Init, KeyInv
<1>. QED BY <1>1, <1>2, <1>4 DEF RedisInv

LEMMA RedisTypeStep == RedisInv /\ [Next]_vars => RedisType'
<1>. SUFFICES ASSUME RedisType, CallInv, [Next]_vars PROVE RedisType'
  BY DEF RedisInv
<1>. USE DEF RedisType
<1>1. ASSUME NEW c \in Call, NEW s \in Subject, Ask(c, s) PROVE RedisType'
  BY <1>1 DEF Ask
<1>2. ASSUME NEW c \in Call, Incr(c) PROVE RedisType'
  <2>1. KeyOf(c) \in Key /\ count[KeyOf(c)] \in Nat /\ granted[KeyOf(c)] \in Nat
    BY <1>2 DEF Incr, CallInv
  <2>. QED BY <1>2, <2>1 DEF Incr
<1>3. ASSUME NEW c \in Call, Expire(c) PROVE RedisType'
  <2>1. KeyOf(c) \in Key /\ now + KeyTtl \in Nat
    BY <1>3, LimiterAssumption DEF Expire, CallInv
  <2>. QED BY <1>3, <2>1 DEF Expire
<1>4. ASSUME NEW c \in Call, Fail(c) PROVE RedisType'
  BY <1>4 DEF Fail
<1>5. CASE Tick
  BY <1>5, LimiterAssumption DEF Tick, NoTtl
<1>6. CASE UNCHANGED vars
  BY <1>6 DEF vars
<1>. QED BY <1>1, <1>2, <1>3, <1>4, <1>5, <1>6 DEF Next

\* The windows of stamps up to MaxTime have keys.
LEMMA KeyExists ==
  ASSUME NEW s \in Subject, NEW t \in Nat, t <= MaxTime
  PROVE  <<s, WindowIndex(t)>> \in Key
<1>1. WindowIndex(t) \in Nat /\ WindowIndex(MaxTime) \in Nat
  BY WindowOfStamp, LimiterAssumption
<1>2. WindowIndex(t) <= WindowIndex(MaxTime)
  BY LimiterAssumption, Z3 DEF WindowIndex
<1>. QED BY <1>1, <1>2 DEF Key

LEMMA CallStep == RedisInv /\ [Next]_vars => CallInv'
<1>. SUFFICES ASSUME RedisType, CallInv, [Next]_vars,
                     NEW d \in Call, (pc[d] # "idle")'
              PROVE  (/\ KeyOf(d) \in Key
                      /\ stamp[d] <= now
                      /\ pc[d] = "incr" => now <= stamp[d] + MaxDelay)'
  BY DEF RedisInv, CallInv
<1>. USE DEF RedisType
<1>0. MaxDelay \in Nat
  BY LimiterAssumption
<1>1. ASSUME NEW c \in Call, NEW s \in Subject, Ask(c, s)
      PROVE  (/\ KeyOf(d) \in Key
              /\ stamp[d] <= now
              /\ pc[d] = "incr" => now <= stamp[d] + MaxDelay)'
  <2>1. CASE c = d
    <3>1. subject'[d] = s /\ stamp'[d] = now /\ now' = now
      BY <1>1, <2>1 DEF Ask
    <3>. QED BY <1>0, <3>1, KeyExists DEF KeyOf
  <2>2. CASE c # d
    BY <1>1, <2>2 DEF Ask, CallInv, KeyOf
  <2>. QED BY <2>1, <2>2
<1>2. ASSUME NEW c \in Call, Incr(c) \/ Expire(c) \/ Fail(c)
      PROVE  (/\ KeyOf(d) \in Key
              /\ stamp[d] <= now
              /\ pc[d] = "incr" => now <= stamp[d] + MaxDelay)'
  <2>1. /\ UNCHANGED <<now, subject, stamp>>
        /\ pc[d] # "idle"
        /\ pc'[d] = "incr" => pc[d] = "incr"
    BY <1>2 DEF Incr, Expire, Fail
  <2>. QED BY <2>1 DEF CallInv, KeyOf
<1>3. CASE Tick
  BY <1>0, <1>3 DEF Tick, CallInv, KeyOf
<1>4. CASE UNCHANGED vars
  BY <1>4 DEF vars, CallInv, KeyOf
<1>. QED BY <1>1, <1>2, <1>3, <1>4 DEF Next

\* A request that gets to the server finds the counter of its window.
LEMMA Counted ==
  ASSUME RedisType, CallInv, KeyInv, NEW c \in Call, pc[c] = "incr"
  PROVE  granted[KeyOf(c)] <= count[KeyOf(c)]
<1>1. KeyOf(c) \in Key /\ now <= stamp[c] + MaxDelay
  BY DEF CallInv
<1>2. stamp[c] + MaxDelay < Closing(KeyOf(c)) /\ Closing(KeyOf(c)) \in Nat
  BY ClosingOfStamp DEF RedisType, KeyOf
<1>3. now < Closing(KeyOf(c))
  BY <1>1, <1>2, LimiterAssumption DEF RedisType
<1>4. ~(now >= Closing(KeyOf(c)))
  BY <1>2, <1>3 DEF RedisType
<1>. QED BY <1>1, <1>4 DEF KeyInv

LEMMA KeyStep == RedisInv /\ [Next]_vars => KeyInv'
<1>. SUFFICES ASSUME RedisType, CallInv, KeyInv, RedisType', [Next]_vars,
                     NEW k \in Key
              PROVE  (/\ granted[k] * Parts <= PerMinute
                      /\ expiry[k] # NoTtl => expiry[k] >= Closing(k)
                      /\ granted[k] <= count[k] \/ now >= Closing(k))'
  BY RedisTypeStep DEF RedisInv, KeyInv
<1>. DEFINE K == (/\ granted[k] * Parts <= PerMinute
                  /\ expiry[k] # NoTtl => expiry[k] >= Closing(k)
                  /\ granted[k] <= count[k] \/ now >= Closing(k))'
<1>0. /\ granted[k] * Parts <= PerMinute
      /\ expiry[k] # NoTtl => expiry[k] >= Closing(k)
      /\ granted[k] <= count[k] \/ now >= Closing(k)
  BY DEF KeyInv
<1>t. /\ now \in Nat /\ now' \in Nat /\ Closing(k) \in Nat
      /\ granted[k] \in Nat /\ count[k] \in Nat /\ expiry[k] \in Nat
      /\ (Closing(k))' = Closing(k)
  BY ClosingType DEF RedisType, Closing
<1>1. ASSUME NEW c \in Call, NEW s \in Subject, Ask(c, s) PROVE K
  BY <1>0, <1>1, <1>t DEF Ask
<1>2. ASSUME NEW c \in Call, Incr(c) PROVE K
  <2>1. KeyOf(c) \in Key /\ pc[c] = "incr"
    BY <1>2 DEF Incr, CallInv
  <2>2. CASE k = KeyOf(c)
    <3>. DEFINE n == count[k] + 1
    <3>1. granted[k] <= count[k]
      BY <2>1, <2>2, Counted
    <3>2. /\ count'[k] = n /\ expiry'[k] = expiry[k]
          /\ granted'[k] = IF Grants(n) THEN granted[k] + 1 ELSE granted[k]
      BY <1>2, <2>1, <2>2 DEF Incr, RedisType
    <3>3. n \in Nat /\ granted[k] + 1 \in Nat /\ granted[k] + 1 <= n
      BY <1>t, <3>1
    <3>4. Grants(n) => (granted[k] + 1) * Parts <= PerMinute
      <4>1. (granted[k] + 1) * Parts <= n * Parts
        BY <3>3, Monotone, LimiterAssumption
      <4>2. (granted[k] + 1) * Parts \in Nat /\ n * Parts \in Nat
        BY <3>3, LimiterAssumption
      <4>. HIDE DEF n
      <4>. QED BY <4>1, <4>2, LimiterAssumption DEF Grants
    <3>5. granted'[k] * Parts <= PerMinute
      BY <1>0, <3>2, <3>4
    <3>6. granted'[k] <= count'[k]
      BY <1>t, <3>1, <3>2
    <3>. QED BY <1>0, <1>t, <3>2, <3>5, <3>6
  <2>3. CASE k # KeyOf(c)
    <3>1. /\ count'[k] = count[k] /\ granted'[k] = granted[k]
          /\ expiry'[k] = expiry[k] /\ now' = now
      BY <1>2, <2>1, <2>3 DEF Incr, RedisType
    <3>. QED BY <1>0, <1>t, <3>1
  <2>. QED BY <2>2, <2>3
<1>3. ASSUME NEW c \in Call, Expire(c) PROVE K
  <2>1. KeyOf(c) \in Key /\ stamp[c] <= now /\ stamp[c] \in Nat
    BY <1>3 DEF Expire, CallInv, RedisType
  <2>2. /\ count'[k] = count[k] /\ granted'[k] = granted[k] /\ now' = now
        /\ expiry'[k] = IF k = KeyOf(c) THEN now + KeyTtl ELSE expiry[k]
    BY <1>3, <2>1 DEF Expire, RedisType
  <2>3. k = KeyOf(c) => Closing(k) <= now + KeyTtl
    <3>1. k = KeyOf(c) => Closing(k) <= stamp[c] + KeyTtl
      BY <2>1, ClosingOfStamp DEF KeyOf
    <3>. QED BY <1>t, <2>1, <3>1, LimiterAssumption
  <2>4. expiry'[k] # NoTtl => expiry'[k] >= Closing(k)
    BY <1>0, <1>t, <2>2, <2>3, LimiterAssumption
  <2>. QED BY <1>0, <1>t, <2>2, <2>4
<1>4. ASSUME NEW c \in Call, Fail(c) PROVE K
  BY <1>0, <1>4, <1>t DEF Fail
<1>5. CASE Tick
  <2>1. /\ granted'[k] = granted[k] /\ now' = now + 1
        /\ count'[k] = IF Due(k) THEN 0 ELSE count[k]
        /\ expiry'[k] = IF Due(k) THEN NoTtl ELSE expiry[k]
    BY <1>5 DEF Tick, RedisType
  <2>2. Due(k) => now' >= Closing(k)
    BY <1>0, <1>t, <2>1 DEF Due
  <2>3. granted'[k] <= count'[k] \/ now' >= Closing(k)
    BY <1>0, <1>t, <2>1, <2>2
  <2>. QED BY <1>0, <1>t, <2>1, <2>3
<1>6. CASE UNCHANGED vars
  BY <1>0, <1>6, <1>t DEF vars
<1>. QED BY <1>1, <1>2, <1>3, <1>4, <1>5, <1>6 DEF Next

\* The three parts of the invariant hold of every behaviour.
THEOREM RedisInvariant == Spec => []RedisInv
<1>1. RedisInv /\ [Next]_vars => RedisInv'
  BY RedisTypeStep, CallStep, KeyStep DEF RedisInv
<1>. QED BY <1>1, RedisInit, PTL DEF Spec

\* However requests are delayed, processes die and keys expire, a window lets
\* at most the limit through (redis-stores.ts, allow).
THEOREM WindowBoundCorrect == Spec => []WindowBound
<1>1. RedisInv => WindowBound
  BY DEF RedisInv, KeyInv, WindowBound
<1>. QED BY <1>1, RedisInvariant, PTL

-----------------------------------------------------------------------------
LEMMA EternalStep ==
  RedisInv /\ EternalKeysExplained /\ [Next]_vars => EternalKeysExplained'
<1>. SUFFICES ASSUME RedisType, CallInv, EternalKeysExplained, [Next]_vars,
                     NEW k \in Key, count'[k] > 0, expiry'[k] = NoTtl
              PROVE  (k \in leaked \/ \E d \in Call : pc[d] = "expire" /\ KeyOf(d) = k)'
  BY DEF RedisInv, EternalKeysExplained
<1>. DEFINE E == (k \in leaked \/ \E d \in Call : pc[d] = "expire" /\ KeyOf(d) = k)'
<1>0. /\ count[k] \in Nat
      /\ count[k] > 0 /\ expiry[k] = NoTtl =>
           k \in leaked \/ \E d \in Call : pc[d] = "expire" /\ KeyOf(d) = k
  BY DEF EternalKeysExplained, RedisType
<1>1. ASSUME NEW c \in Call, NEW s \in Subject, Ask(c, s) PROVE E
  <2>1. \A d \in Call : pc[d] = "expire" =>
          pc'[d] = "expire" /\ (KeyOf(d))' = KeyOf(d)
    BY <1>1 DEF Ask, KeyOf, RedisType
  <2>. QED BY <1>0, <1>1, <2>1 DEF Ask
<1>2. ASSUME NEW c \in Call, Incr(c) PROVE E
  <2>1. KeyOf(c) \in Key /\ pc[c] = "incr" /\ (KeyOf(c))' = KeyOf(c)
    BY <1>2 DEF Incr, CallInv, KeyOf
  <2>2. CASE k = KeyOf(c) /\ CreatedKey(count[k] + 1)
    <3>1. pc'[c] = "expire"
      BY <1>2, <2>2 DEF Incr, RedisType
    <3>. QED BY <2>1, <2>2, <3>1
  <2>3. CASE ~(k = KeyOf(c) /\ CreatedKey(count[k] + 1))
    <3>1. count[k] > 0 /\ expiry[k] = NoTtl
      <4>1. count'[k] = IF k = KeyOf(c) THEN count[k] + 1 ELSE count[k]
        BY <1>2, <2>1 DEF Incr, RedisType
      <4>. QED BY <1>0, <1>2, <2>3, <4>1 DEF Incr, CreatedKey
    <3>2. \A d \in Call : pc[d] = "expire" =>
            pc'[d] = "expire" /\ (KeyOf(d))' = KeyOf(d)
      BY <1>2, <2>1 DEF Incr, KeyOf, RedisType
    <3>. QED BY <1>0, <1>2, <3>1, <3>2 DEF Incr
  <2>. QED BY <2>2, <2>3
<1>3. ASSUME NEW c \in Call, Expire(c) PROVE E
  <2>1. KeyOf(c) \in Key /\ now + KeyTtl \in Nat /\ now + KeyTtl # NoTtl
    BY <1>3, LimiterAssumption DEF Expire, CallInv, RedisType, NoTtl
  <2>2. k # KeyOf(c) /\ expiry[k] = NoTtl /\ count[k] > 0
    BY <1>3, <2>1 DEF Expire, RedisType
  <2>3. \A d \in Call : pc[d] = "expire" /\ KeyOf(d) = k =>
          pc'[d] = "expire" /\ (KeyOf(d))' = k
    BY <1>3, <2>2 DEF Expire, KeyOf, RedisType
  <2>. QED BY <1>0, <1>3, <2>2, <2>3 DEF Expire
<1>4. ASSUME NEW c \in Call, Fail(c) PROVE E
  <2>1. \A d \in Call : pc[d] = "expire" /\ KeyOf(d) = k =>
          \/ pc'[d] = "expire" /\ (KeyOf(d))' = k
          \/ k \in leaked'
    BY <1>4 DEF Fail, KeyOf, RedisType
  <2>. QED BY <1>0, <1>4, <2>1 DEF Fail
<1>5. CASE Tick
  <2>1. count[k] > 0 /\ expiry[k] = NoTtl
    BY <1>0, <1>5 DEF Tick, Due, RedisType
  <2>. QED BY <1>0, <1>5, <2>1 DEF Tick, KeyOf
<1>6. CASE UNCHANGED vars
  BY <1>0, <1>6 DEF vars, KeyOf
<1>. QED BY <1>1, <1>2, <1>3, <1>4, <1>5, <1>6 DEF Next

\* A key that nothing will ever drop is one whose creator died, or failed,
\* between INCR and EXPIRE (redis-stores.ts:66-68).
THEOREM EternalKeysCorrect == Spec => []EternalKeysExplained
<1>1. Init => EternalKeysExplained
  BY DEF Init, EternalKeysExplained
<1>. QED BY <1>1, EternalStep, RedisInvariant, PTL DEF Spec

-----------------------------------------------------------------------------
(* The limiter in memory *)

Limit == Memory!Limit

\* What the counter w of a subject says at the time t of the messages that
\* were let through at the times a: how many of them are of its window, and
\* that Limit messages earlier a window had ended.
Tells(a, w, t) ==
  LET earlier == Len(a) - w.count
  IN /\ earlier >= 0
     /\ w = Memory!NoEntry <=> Len(a) = 0
     /\ \A i, j \in 1 .. Len(a) : i <= j => a[i] <= a[j]
     /\ \A i \in 1 .. Len(a) : a[i] <= t
     /\ Len(a) > 0 =>
          /\ w.count >= 1
          /\ a[earlier + 1] = w.windowStart
          /\ \A i \in 1 .. Len(a) : a[i] < w.windowStart + Window
          /\ \A i \in 1 .. earlier : a[i] < w.windowStart
          /\ \A i \in 1 .. Len(a) :
               i <= earlier + 1 - Limit => a[i] + Window <= w.windowStart

\* 2 * Limit messages in a row take a minute.
Spread(a) ==
  \A i, j \in 1 .. Len(a) : j = i + 2 * Limit - 1 => a[j] - a[i] >= Window

MemoryInv ==
  \A s \in Subject : Tells(allowed[s], counters[s], now) /\ Spread(allowed[s])

Counter == [windowStart : Nat, count : 0 .. Limit]

\* The limit, rounded up.
LEMMA LimitFacts ==
  /\ Limit \in Nat /\ Limit >= 1
  /\ \A n \in Nat : n * Parts < PerMinute => n + 1 <= Limit
<1>. DEFINE L == Limit
<1>0. PerMinute \in Nat \ {0} /\ Parts \in Nat \ {0}
  BY LimiterAssumption
<1>1. L = (PerMinute + Parts - 1) \div Parts
  BY DEF Limit, Memory!Limit
<1>2. L \in Nat /\ PerMinute + Parts - 1 < L * Parts + Parts
  BY <1>0, <1>1, Z3
<1>3. L >= 1
  <2>1. CASE L = 0
    <3>1. L * Parts = 0
      BY <1>0, <2>1
    <3>. QED BY <1>0, <1>2, <3>1
  <2>. QED BY <1>2, <2>1
<1>4. ASSUME NEW n \in Nat, n * Parts < PerMinute
      PROVE  n + 1 <= L
  <2>1. SUFFICES ASSUME L <= n PROVE FALSE
    BY <1>2
  <2>2. L * Parts <= n * Parts /\ L * Parts \in Nat /\ n * Parts \in Nat
    BY <1>0, <1>2, <2>1, Monotone
  <2>3. PerMinute <= L * Parts
    BY <1>0, <1>2, <2>2
  <2>. HIDE DEF L
  <2>. QED BY <1>0, <1>4, <2>2, <2>3
<1>. QED BY <1>2, <1>3, <1>4

\* A message that opens a window.
LEMMA Opens ==
  ASSUME NEW a \in Seq(Nat), NEW w \in Counter, NEW t \in Nat,
         Tells(a, w, t), Spread(a),
         w = Memory!NoEntry \/ t - w.windowStart >= Window
  PROVE  /\ Tells(Append(a, t), [windowStart |-> t, count |-> 1], t)
         /\ Spread(Append(a, t))
<1>. DEFINE b == Append(a, t)
            v == [windowStart |-> t, count |-> 1]
            n == Len(a)
            k == w.count
            start == w.windowStart
            earlier == n - k
<1>0. /\ Window \in Nat \ {0} /\ Limit \in Nat /\ Limit >= 1
      /\ k \in Nat /\ k <= Limit /\ start \in Nat
      /\ n \in Nat /\ earlier = n - k /\ earlier \in Int
  BY LimiterAssumption, LimitFacts DEF Counter
<1>1. /\ Len(b) = n + 1 /\ b[n + 1] = t
      /\ \A i \in 1 .. n : b[i] = a[i] /\ a[i] \in Nat
  OBVIOUS
<1>2. /\ earlier >= 0
      /\ \A i, j \in 1 .. n : i <= j => a[i] <= a[j]
      /\ \A i \in 1 .. n : a[i] <= t
      /\ n > 0 => /\ k >= 1 /\ a[earlier + 1] = start
                  /\ \A i \in 1 .. n : a[i] < start + Window
                  /\ t - start >= Window
  BY DEF Tells
<1>3. \A i, j \in 1 .. n : j = i + 2 * Limit - 1 => a[j] - a[i] >= Window
  BY DEF Spread
<1>4. Tells(b, v, t) <=>
        /\ \A i, j \in 1 .. n + 1 : i <= j => b[i] <= b[j]
        /\ \A i \in 1 .. n + 1 : b[i] <= t
        /\ b[n + 1] = t
        /\ \A i \in 1 .. n + 1 : b[i] < t + Window
        /\ \A i \in 1 .. n : b[i] < t
        /\ \A i \in 1 .. n + 1 : i <= n + 1 - Limit => b[i] + Window <= t
  <2>1. v.count = 1 /\ v.windowStart = t /\ v # Memory!NoEntry
    BY DEF Memory!NoEntry
  <2>. HIDE DEF b, v, n
  <2>2. Len(b) - 1 = n /\ n + 1 > 0 /\ n >= 0 /\ Len(b) # 0
    BY <1>0, <1>1
  <2>. QED BY <1>0, <1>1, <2>1, <2>2 DEF Tells
<1>5. Spread(b) <=> \A i, j \in 1 .. n + 1 :
                      j = i + 2 * Limit - 1 => b[j] - b[i] >= Window
  BY <1>1 DEF Spread
<1>. HIDE DEF b, v, n, k, start, earlier
<1>6. ASSUME NEW i \in 1 .. n PROVE a[i] < t
  BY <1>0, <1>1, <1>2, <1>6
<1>7. ASSUME NEW i \in 1 .. n, i <= n + 1 - Limit
      PROVE  a[i] + Window <= t
  <2>1. i <= earlier + 1 /\ earlier + 1 \in 1 .. n
    BY <1>0, <1>2, <1>7
  <2>2. n > 0
    BY <1>0, <1>7
  <2>3. a[i] <= start /\ t - start >= Window
    BY <1>2, <2>1, <2>2
  <2>. QED BY <1>0, <1>1, <2>3
<1>8. Spread(b)
  <2>. SUFFICES ASSUME NEW i \in 1 .. n + 1, NEW j \in 1 .. n + 1,
                       j = i + 2 * Limit - 1
                PROVE  b[j] - b[i] >= Window
    BY <1>5
  <2>1. CASE j <= n
    <3>1. i \in 1 .. n /\ j \in 1 .. n
      BY <1>0, <2>1
    <3>2. a[j] - a[i] >= Window
      BY <1>3, <3>1
    <3>3. b[i] = a[i] /\ b[j] = a[j]
      BY <1>1, <3>1
    <3>. QED BY <3>2, <3>3
  <2>2. CASE j = n + 1
    <3>1. i \in 1 .. n /\ i <= n + 1 - Limit
      BY <1>0, <2>2
    <3>2. a[i] + Window <= t /\ a[i] \in Nat
      BY <1>1, <1>7, <3>1
    <3>3. b[i] = a[i] /\ b[j] = t
      BY <1>1, <2>2, <3>1
    <3>. QED BY <1>0, <3>2, <3>3
  <2>. QED BY <1>0, <2>1, <2>2
<1>9. Tells(b, v, t)
  <2>1. \A i \in 1 .. n + 1 : i \in 1 .. n \/ i = n + 1
    BY <1>0
  <2>2. \A i \in 1 .. n + 1 : b[i] \in Nat /\ b[i] <= t /\ b[i] < t + Window
    BY <1>0, <1>1, <1>2, <2>1
  <2>3. \A i, j \in 1 .. n + 1 : i <= j => b[i] <= b[j]
    <3>. SUFFICES ASSUME NEW i \in 1 .. n + 1, NEW j \in 1 .. n + 1, i <= j
                  PROVE  b[i] <= b[j]
      OBVIOUS
    <3>1. CASE j = n + 1
      BY <1>1, <2>2, <3>1
    <3>2. CASE j \in 1 .. n
      <4>1. i \in 1 .. n
        BY <1>0, <3>2
      <4>. QED BY <1>1, <1>2, <3>2, <4>1
    <3>. QED BY <2>1, <3>1, <3>2
  <2>4. \A i \in 1 .. n + 1 : i <= n + 1 - Limit => b[i] + Window <= t
    BY <1>0, <1>1, <1>7, <2>1
  <2>5. \A i \in 1 .. n : b[i] < t
    BY <1>1, <1>6
  <2>. QED BY <1>1, <1>4, <2>2, <2>3, <2>4, <2>5
<1>. QED BY <1>8, <1>9 DEF b, v

\* A message that an open window has room for.
LEMMA CountsUp ==
  ASSUME NEW a \in Seq(Nat), NEW w \in Counter, NEW t \in Nat,
         Tells(a, w, t), Spread(a), w # Memory!NoEntry,
         t - w.windowStart < Window, w.count + 1 <= Limit
  PROVE  /\ Tells(Append(a, t), [w EXCEPT !.count = @ + 1], t)
         /\ Spread(Append(a, t))
<1>. DEFINE b == Append(a, t)
            v == [w EXCEPT !.count = @ + 1]
            n == Len(a)
            k == w.count
            start == w.windowStart
            earlier == n - k
<1>0. /\ Window \in Nat \ {0} /\ Limit \in Nat /\ Limit >= 1
      /\ k \in Nat /\ k + 1 <= Limit /\ start \in Nat
      /\ n \in Nat /\ earlier = n - k /\ earlier \in Int
  BY LimiterAssumption, LimitFacts DEF Counter
<1>1. /\ Len(b) = n + 1 /\ b[n + 1] = t
      /\ \A i \in 1 .. n : b[i] = a[i] /\ a[i] \in Nat
  OBVIOUS
<1>2. n > 0
  BY <1>0 DEF Tells
<1>3. /\ earlier >= 0
      /\ \A i, j \in 1 .. n : i <= j => a[i] <= a[j]
      /\ \A i \in 1 .. n : a[i] <= t
      /\ k >= 1 /\ a[earlier + 1] = start
      /\ \A i \in 1 .. n : a[i] < start + Window
      /\ \A i \in 1 .. earlier : a[i] < start
      /\ \A i \in 1 .. n : i <= earlier + 1 - Limit => a[i] + Window <= start
      /\ t < start + Window
  <2>1. t < start + Window
    BY <1>0
  <2>. QED BY <1>2, <2>1 DEF Tells
<1>4. \A i, j \in 1 .. n : j = i + 2 * Limit - 1 => a[j] - a[i] >= Window
  BY DEF Spread
<1>5. Tells(b, v, t) <=>
        /\ \A i, j \in 1 .. n + 1 : i <= j => b[i] <= b[j]
        /\ \A i \in 1 .. n + 1 : b[i] <= t
        /\ b[earlier + 1] = start
        /\ \A i \in 1 .. n + 1 : b[i] < start + Window
        /\ \A i \in 1 .. earlier : b[i] < start
        /\ \A i \in 1 .. n + 1 :
             i <= earlier + 1 - Limit => b[i] + Window <= start
  <2>1. v.count = k + 1 /\ v.windowStart = start
    BY DEF Counter
  <2>2. v # Memory!NoEntry
    BY <1>0, <2>1 DEF Memory!NoEntry
  <2>. HIDE DEF b, v, n, k, start, earlier
  <2>3. /\ Len(b) - (k + 1) = earlier /\ n + 1 > 0 /\ Len(b) # 0
        /\ k + 1 >= 1
    BY <1>0, <1>1
  <2>. QED BY <1>0, <1>1, <1>3, <2>1, <2>2, <2>3 DEF Tells
<1>6. Spread(b) <=> \A i, j \in 1 .. n + 1 :
                      j = i + 2 * Limit - 1 => b[j] - b[i] >= Window
  BY <1>1 DEF Spread
<1>. HIDE DEF b, v, n, k, start, earlier
<1>7. earlier + 1 \in 1 .. n /\ start <= t
  <2>1. earlier + 1 \in 1 .. n
    BY <1>0, <1>3
  <2>. QED BY <1>3, <2>1
<1>8. Spread(b)
  <2>. SUFFICES ASSUME NEW i \in 1 .. n + 1, NEW j \in 1 .. n + 1,
                       j = i + 2 * Limit - 1
                PROVE  b[j] - b[i] >= Window
    BY <1>6
  <2>1. CASE j <= n
    <3>1. i \in 1 .. n /\ j \in 1 .. n
      BY <1>0, <2>1
    <3>2. a[j] - a[i] >= Window
      BY <1>4, <3>1
    <3>3. b[i] = a[i] /\ b[j] = a[j]
      BY <1>1, <3>1
    <3>. QED BY <3>2, <3>3
  <2>2. CASE j = n + 1
    <3>1. i \in 1 .. n /\ i <= earlier + 1 - Limit
      BY <1>0, <2>2
    <3>2. a[i] + Window <= start /\ a[i] \in Nat
      BY <1>1, <1>3, <3>1
    <3>3. b[i] = a[i] /\ b[j] = t
      BY <1>1, <2>2, <3>1
    <3>. QED BY <1>0, <1>7, <3>2, <3>3
  <2>. QED BY <1>0, <2>1, <2>2
<1>9. Tells(b, v, t)
  <2>1. \A i \in 1 .. n + 1 : i \in 1 .. n \/ i = n + 1
    BY <1>0
  <2>2. \A i \in 1 .. n + 1 : b[i] \in Nat /\ b[i] <= t /\ b[i] < start + Window
    <3>1. \A i \in 1 .. n : b[i] \in Nat /\ b[i] <= t /\ b[i] < start + Window
      BY <1>1, <1>3
    <3>2. t \in Nat /\ t <= t /\ t < start + Window
      BY <1>0, <1>3
    <3>. QED BY <1>1, <2>1, <3>1, <3>2
  <2>3. \A i, j \in 1 .. n + 1 : i <= j => b[i] <= b[j]
    <3>. SUFFICES ASSUME NEW i \in 1 .. n + 1, NEW j \in 1 .. n + 1, i <= j
                  PROVE  b[i] <= b[j]
      OBVIOUS
    <3>1. CASE j = n + 1
      BY <1>1, <2>2, <3>1
    <3>2. CASE j \in 1 .. n
      <4>1. i \in 1 .. n
        BY <1>0, <3>2
      <4>. QED BY <1>1, <1>3, <3>2, <4>1
    <3>. QED BY <2>1, <3>1, <3>2
  <2>4. \A i \in 1 .. n + 1 :
          i <= earlier + 1 - Limit => b[i] + Window <= start
    <3>1. ~(n + 1 <= earlier + 1 - Limit)
      BY <1>0
    <3>. QED BY <1>1, <1>3, <2>1, <3>1
  <2>5. \A i \in 1 .. earlier : b[i] < start
    <3>1. \A i \in 1 .. earlier : i \in 1 .. n
      BY <1>0
    <3>. QED BY <1>1, <1>3, <3>1
  <2>6. b[earlier + 1] = start
    BY <1>1, <1>3, <1>7
  <2>. QED BY <1>5, <2>2, <2>3, <2>4, <2>5, <2>6
<1>. QED BY <1>8, <1>9 DEF b, v

\* Time passes.
LEMMA Passes ==
  ASSUME NEW a \in Seq(Nat), NEW w \in Counter, NEW t \in Nat,
         Tells(a, w, t)
  PROVE  Tells(a, w, t + 1)
<1>1. \A i \in 1 .. Len(a) : a[i] \in Nat /\ a[i] <= t
  BY DEF Tells
<1>2. \A i \in 1 .. Len(a) : a[i] <= t + 1
  BY <1>1
<1>. QED BY <1>2 DEF Tells

-----------------------------------------------------------------------------
(* Both, under one configuration *)

RateInv ==
  /\ TypeOK
  /\ RedisInv
  /\ MemoryInv
  /\ backend = "memory" => \A c \in Call : pc[c] = "idle"

LEMMA RateInit == LimiterInit => RateInv
<1>. SUFFICES ASSUME LimiterInit PROVE RateInv
  OBVIOUS
<1>. USE DEF LimiterInit
<1>1. RedisInv
  BY RedisInit
<1>2. TypeOK
  <2>1. 0 \in Memory!Time /\ 0 \in 0 .. MaxCount /\ 0 \in 0 .. MaxTime + KeyTtl
    BY LimiterAssumption DEF Memory!Time
  <2>2. 0 \in 0 .. Memory!Limit
    BY LimitFacts DEF Limit
  <2>3. Memory!NoEntry \in [windowStart : Memory!Time, count : 0 .. Memory!Limit]
    BY <2>1, <2>2 DEF Memory!NoEntry
  <2>4. << >> \in Seq(Memory!Time)
    OBVIOUS
  <2>5. Memory!TypeOK
    BY <2>1, <2>3, <2>4 DEF Memory!TypeOK, Memory!Init
  <2>. QED BY <2>1, <2>5 DEF TypeOK, Init, NoTtl
<1>3. MemoryInv
  <2>1. Tells(<< >>, Memory!NoEntry, 0)
    BY DEF Tells, Memory!NoEntry
  <2>2. Spread(<< >>)
    BY DEF Spread
  <2>. QED BY <2>1, <2>2 DEF MemoryInv, Memory!Init
<1>. QED BY <1>1, <1>2, <1>3 DEF RateInv, Init

\* The types of the counters, in the numbers the lemmas above are about.
LEMMA CountersType ==
  ASSUME TypeOK, NEW s \in Subject
  PROVE  /\ counters[s] \in Counter /\ allowed[s] \in Seq(Nat)
         /\ now \in Nat /\ now <= MaxTime
<1>1. \A t \in Memory!Time : t \in Nat /\ t <= MaxTime
  BY LimiterAssumption DEF Memory!Time
<1>2. /\ counters[s] \in [windowStart : Memory!Time, count : 0 .. Memory!Limit]
      /\ allowed[s] \in Seq(Memory!Time) /\ now \in Memory!Time
  BY DEF TypeOK, Memory!TypeOK
<1>3. allowed[s] \in Seq(Nat)
  BY <1>1, <1>2
<1>. QED BY <1>1, <1>2, <1>3 DEF Counter, Limit

\* What the counters in memory say stays true while time passes.
LEMMA MemoryPasses ==
  ASSUME TypeOK, MemoryInv, UNCHANGED memoryVars, now' \in {now, now + 1}
  PROVE  MemoryInv'
<1>. SUFFICES ASSUME NEW s \in Subject
              PROVE  Tells(allowed[s], counters[s], now') /\ Spread(allowed[s])
  BY DEF MemoryInv, memoryVars, Tells, Spread
<1>. QED BY CountersType, Passes DEF MemoryInv

LEMMA RedisSide ==
  ASSUME RateInv, backend = "redis", Next, UNCHANGED <<backend, memoryVars>>
  PROVE  RateInv'
<1>1. RedisInv'
  BY RedisTypeStep, CallStep, KeyStep DEF RateInv, RedisInv
<1>2. now' \in {now, now + 1}
  BY DEF Next, Ask, Incr, Expire, Fail, Tick
<1>3. MemoryInv'
  BY <1>2, MemoryPasses DEF RateInv
<1>4. now' \in Memory!Time
  BY <1>1, LimiterAssumption DEF RedisInv, RedisType, Memory!Time
<1>5. (Memory!TypeOK)'
  BY <1>4 DEF RateInv, TypeOK, Memory!TypeOK, memoryVars, Memory!Time, Memory!Limit
<1>6. /\ count' \in [Key -> 0 .. MaxCount]
      /\ expiry' \in [Key -> 0 .. MaxTime + KeyTtl]
      /\ pc' \in [Call -> {"idle", "incr", "expire"}]
  <2>. DEFINE Goal == /\ count' \in [Key -> 0 .. MaxCount]
                      /\ expiry' \in [Key -> 0 .. MaxTime + KeyTtl]
  <2>0. /\ count \in [Key -> 0 .. MaxCount]
        /\ expiry \in [Key -> 0 .. MaxTime + KeyTtl]
        /\ now \in Nat /\ now <= MaxTime
    BY DEF RateInv, TypeOK, RedisInv, RedisType
  <2>1. ASSUME NEW c \in Call, NEW s \in Subject, Ask(c, s) PROVE Goal
    BY <2>0, <2>1 DEF Ask
  <2>2. ASSUME NEW c \in Call, Incr(c) PROVE Goal
    <3>1. KeyOf(c) \in Key
      BY <2>2 DEF Incr, RateInv, RedisInv, CallInv
    <3>2. count[KeyOf(c)] + 1 \in 0 .. MaxCount
      BY <2>0, <2>2, <3>1, LimiterAssumption DEF Incr
    <3>3. /\ count' = [count EXCEPT ![KeyOf(c)] = count[KeyOf(c)] + 1]
          /\ expiry' = expiry
      BY <2>2 DEF Incr
    <3>. QED BY <2>0, <3>2, <3>3
  <2>3. ASSUME NEW c \in Call, Expire(c) PROVE Goal
    <3>1. now + KeyTtl \in 0 .. MaxTime + KeyTtl
      BY <2>0, LimiterAssumption
    <3>. QED BY <2>0, <2>3, <3>1 DEF Expire
  <2>4. ASSUME NEW c \in Call, Fail(c) PROVE Goal
    BY <2>0, <2>4 DEF Fail
  <2>5. ASSUME Tick PROVE Goal
    <3>1. /\ count' = [k \in Key |-> IF Due(k) THEN 0 ELSE count[k]]
          /\ expiry' = [k \in Key |-> IF Due(k) THEN 0 ELSE expiry[k]]
      BY <2>5 DEF Tick, NoTtl
    <3>2. 0 \in 0 .. MaxCount /\ 0 \in 0 .. MaxTime + KeyTtl
      BY LimiterAssumption
    <3>. QED BY <2>0, <3>1, <3>2
  <2>6. Goal
    <3>1. CASE \E c \in Call, s \in Subject : Ask(c, s)
      BY <2>1, <3>1
    <3>2. CASE \E c \in Call : Incr(c) \/ Expire(c) \/ Fail(c)
      BY <2>2, <2>3, <2>4, <3>2
    <3>. QED BY <2>5, <3>1, <3>2 DEF Next
  <2>. QED BY <1>1, <2>6 DEF RedisInv, RedisType
<1>7. TypeOK'
  BY <1>5, <1>6 DEF RateInv, TypeOK
<1>. QED BY <1>1, <1>3, <1>7 DEF RateInv

\* A message that is let through, and the counter it leaves.
LEMMA MemoryLets ==
  ASSUME RateInv, NEW s \in Subject,
         NEW w \in Counter, w.windowStart \in Memory!Time,
         Tells(Append(allowed[s], now), w, now), Spread(Append(allowed[s], now)),
         counters' = [counters EXCEPT ![s] = w],
         Memory!LetThrough(s), now' = now
  PROVE  (Memory!TypeOK)' /\ MemoryInv'
<1>1. /\ now \in Memory!Time /\ allowed \in [Subject -> Seq(Memory!Time)]
      /\ counters \in [Subject -> [windowStart : Memory!Time, count : 0 .. Memory!Limit]]
  BY DEF RateInv, TypeOK, Memory!TypeOK
<1>2. Append(allowed[s], now) \in Seq(Memory!Time)
  BY <1>1
<1>3. w \in [windowStart : Memory!Time, count : 0 .. Memory!Limit]
  BY DEF Counter, Limit
<1>4. allowed' = [allowed EXCEPT ![s] = Append(allowed[s], now)]
  BY DEF Memory!LetThrough
<1>5. (Memory!TypeOK)'
  BY <1>1, <1>2, <1>3, <1>4 DEF Memory!TypeOK, Memory!Time, Memory!Limit
<1>6. ASSUME NEW r \in Subject
      PROVE  Tells(allowed'[r], counters'[r], now') /\ Spread(allowed'[r])
  <2>1. CASE r = s
    <3>1. allowed'[r] = Append(allowed[s], now) /\ counters'[r] = w
      BY <1>1, <1>4, <2>1
    <3>. QED BY <3>1
  <2>2. CASE r # s
    <3>1. allowed'[r] = allowed[r] /\ counters'[r] = counters[r]
      BY <1>1, <1>4, <2>2
    <3>. QED BY <3>1 DEF RateInv, MemoryInv
  <2>. QED BY <2>1, <2>2
<1>7. MemoryInv'
  BY <1>6 DEF MemoryInv, Tells, Spread
<1>. QED BY <1>5, <1>7

LEMMA MemorySide ==
  ASSUME RateInv, backend = "memory", Memory!Next, UNCHANGED <<backend, redisVars>>
  PROVE  RateInv'
<1>0. TypeOK /\ MemoryInv
  BY DEF RateInv
<1>1. (Memory!TypeOK)' /\ MemoryInv' /\ now' \in {now, now + 1}
  <2>1. ASSUME NEW s \in Subject, Memory!OpenWindow(s)
        PROVE  (Memory!TypeOK)' /\ MemoryInv' /\ now' = now
    <3>. DEFINE w == [windowStart |-> now, count |-> 1]
    <3>1. /\ counters[s] \in Counter /\ allowed[s] \in Seq(Nat)
          /\ now \in Nat /\ now \in Memory!Time
      BY <1>0, CountersType DEF TypeOK, Memory!TypeOK
    <3>2. w \in Counter /\ w.windowStart \in Memory!Time
      BY <3>1, LimitFacts DEF Counter
    <3>3. Tells(Append(allowed[s], now), w, now) /\ Spread(Append(allowed[s], now))
      BY <1>0, <2>1, <3>1, Opens DEF MemoryInv, Memory!OpenWindow, Memory!Stale
    <3>4. /\ counters' = [counters EXCEPT ![s] = w]
          /\ Memory!LetThrough(s) /\ now' = now
      BY <2>1 DEF Memory!OpenWindow
    <3>. HIDE DEF w
    <3>. QED BY <3>2, <3>3, <3>4, MemoryLets
  <2>2. ASSUME NEW s \in Subject, Memory!CountUp(s)
        PROVE  (Memory!TypeOK)' /\ MemoryInv' /\ now' = now
    <3>. DEFINE w == [counters[s] EXCEPT !.count = @ + 1]
    <3>1. /\ counters[s] \in Counter /\ allowed[s] \in Seq(Nat) /\ now \in Nat
      BY <1>0, CountersType
    <3>2. counters[s] # Memory!NoEntry /\ now - counters[s].windowStart < Window
      <4>1. /\ counters[s] # Memory!NoEntry
            /\ ~(now - counters[s].windowStart >= Window)
        BY <2>2 DEF Memory!CountUp, Memory!Stale
      <4>. QED BY <3>1, <4>1, LimiterAssumption DEF Counter
    <3>3. counters[s].count + 1 <= Limit /\ counters[s].count \in Nat
      <4>1. counters[s].count \in Nat
        BY <3>1, LimitFacts DEF Counter
      <4>. QED BY <2>2, <4>1, LimitFacts DEF Memory!CountUp, Memory!HasRoom
    <3>4. w \in Counter /\ w.windowStart \in Memory!Time
      <4>1. counters[s].count + 1 \in 0 .. Limit
        BY <3>3, LimitFacts
      <4>2. counters[s].windowStart \in Memory!Time
        BY <1>0 DEF TypeOK, Memory!TypeOK
      <4>. QED BY <3>1, <4>1, <4>2 DEF Counter
    <3>5. Tells(Append(allowed[s], now), w, now) /\ Spread(Append(allowed[s], now))
      BY <1>0, <3>1, <3>2, <3>3, CountsUp DEF MemoryInv
    <3>6. /\ counters' = [counters EXCEPT ![s] = w]
          /\ Memory!LetThrough(s) /\ now' = now
      BY <1>0, <2>2 DEF Memory!CountUp, TypeOK, Memory!TypeOK
    <3>. HIDE DEF w
    <3>. QED BY <3>4, <3>5, <3>6, MemoryLets
  <2>3. ASSUME NEW s \in Subject, Memory!Refuse(s)
        PROVE  UNCHANGED <<now, counters, allowed>>
    BY <2>3 DEF Memory!Refuse, Memory!vars
  <2>4. CASE UNCHANGED <<now, counters, allowed>> \/ Memory!Tick
    <3>1. UNCHANGED memoryVars /\ now' \in {now, now + 1}
      BY <2>4 DEF Memory!Tick, memoryVars
    <3>2. now' \in Memory!Time
      BY <1>0, <2>4, LimiterAssumption
         DEF Memory!Tick, TypeOK, Memory!TypeOK, Memory!Time
    <3>3. (Memory!TypeOK)'
      BY <1>0, <3>1, <3>2
         DEF TypeOK, Memory!TypeOK, memoryVars, Memory!Time, Memory!Limit
    <3>. QED BY <1>0, <3>1, <3>3, MemoryPasses
  <2>. QED BY <2>1, <2>2, <2>3, <2>4 DEF Memory!Next
<1>2. TypeOK'
  BY <1>0, <1>1 DEF TypeOK, redisVars
<1>3. /\ now \in Nat /\ now' \in Nat /\ now' <= MaxTime /\ now <= now'
  BY <1>1, LimiterAssumption DEF RateInv, RedisInv, RedisType, Memory!TypeOK, Memory!Time
<1>4. RedisInv'
  <2>1. RedisType'
    BY <1>3 DEF RateInv, RedisInv, RedisType, redisVars
  <2>2. CallInv'
    BY DEF RateInv, CallInv, redisVars
  <2>3. KeyInv'
    <3>. SUFFICES ASSUME NEW k \in Key, KeyInv
                  PROVE  (/\ granted[k] * Parts <= PerMinute
                          /\ expiry[k] # NoTtl => expiry[k] >= Closing(k)
                          /\ granted[k] <= count[k] \/ now >= Closing(k))'
      BY DEF KeyInv, RateInv, RedisInv
    <3>1. now >= Closing(k) => now' >= Closing(k)
      BY <1>3, ClosingType
    <3>. QED BY <3>1 DEF KeyInv, redisVars, Closing
  <2>. QED BY <2>1, <2>2, <2>3 DEF RedisInv
<1>. QED BY <1>1, <1>2, <1>4 DEF RateInv, redisVars

LEMMA RateUnchanged ==
  ASSUME RateInv, UNCHANGED <<vars, backend, memoryVars>>
  PROVE  RateInv'
<1>1. RedisInv'
  BY RedisTypeStep, CallStep, KeyStep DEF RateInv, RedisInv
<1>2. MemoryInv'
  BY MemoryPasses DEF RateInv, vars
<1>3. TypeOK'
  BY DEF RateInv, TypeOK, Memory!TypeOK, Memory!Time, Memory!Limit, vars, memoryVars
<1>. QED BY <1>1, <1>2, <1>3 DEF RateInv, vars

\* The invariant of both limiters holds whichever is configured.
THEOREM RateInvariant == LimiterSpec => []RateInv
<1>1. RateInv /\ [LimiterNext]_<<vars, backend, memoryVars>> => RateInv'
  BY RedisSide, MemorySide, RateUnchanged DEF LimiterNext
<1>. QED BY <1>1, RateInit, PTL DEF LimiterSpec

\* Counters, TTLs and clocks stay within their types, and the counter in
\* memory never exceeds the limit, rounded up.
THEOREM LimiterTypeCorrect == LimiterSpec => []TypeOK
<1>1. RateInv => TypeOK
  BY DEF RateInv
<1>. QED BY <1>1, RateInvariant, PTL

\* Any minute sees at most twice the limit less one of a sender's messages
\* (memory-stores.ts, allow).
THEOREM MinuteBoundCorrect == LimiterSpec => []MinuteBound
<1>1. RateInv => MinuteBound
  <2>. SUFFICES ASSUME RateInv, NEW s \in Subject
                PROVE  \A i, j \in DOMAIN allowed[s] :
                         j = i + 2 * Memory!Limit - 1 =>
                           allowed[s][j] - allowed[s][i] >= Window
    BY DEF MinuteBound, Memory!MinuteBound
  <2>1. allowed[s] \in Seq(Nat) /\ Spread(allowed[s])
    BY CountersType DEF RateInv, MemoryInv
  <2>2. DOMAIN allowed[s] = 1 .. Len(allowed[s])
    BY <2>1
  <2>. QED BY <2>1, <2>2 DEF Spread, Limit
<1>. QED BY <1>1, RateInvariant, PTL

\* The counter of an open window is the number of messages let through since
\* it opened: nothing forgets a window before its time.
THEOREM CounterExactCorrect == LimiterSpec => []CounterExact
<1>1. RateInv => CounterExact
  <2>. SUFFICES ASSUME RateInv, NEW s \in Subject
                PROVE  LET earlier == Len(allowed[s]) - counters[s].count
                       IN /\ earlier >= 0
                          /\ counters[s] # Memory!NoEntry =>
                               \A i \in DOMAIN allowed[s] :
                                 allowed[s][i] >= counters[s].windowStart
                                   <=> i > earlier
    BY DEF CounterExact, Memory!CounterExact
  <2>. DEFINE a == allowed[s]
              w == counters[s]
              start == w.windowStart
              n == Len(a)
              earlier == n - w.count
  <2>1. a \in Seq(Nat) /\ w \in Counter /\ Tells(a, w, now)
    BY CountersType DEF RateInv, MemoryInv
  <2>2. /\ start \in Nat /\ n \in Nat /\ earlier \in Int /\ DOMAIN a = 1 .. n
        /\ \A i \in 1 .. n : a[i] \in Nat
    BY <2>1, LimitFacts DEF Counter
  <2>3. earlier >= 0
    BY <2>1 DEF Tells
  <2>. HIDE DEF a
  <2>4. ASSUME w # Memory!NoEntry, NEW i \in 1 .. n
        PROVE  a[i] >= start <=> i > earlier
    <3>1. n > 0
      BY <2>1, <2>2, <2>4 DEF Tells
    <3>2. /\ a[earlier + 1] = start /\ w.count >= 1
          /\ \A k \in 1 .. earlier : a[k] < start
          /\ \A k, l \in 1 .. n : k <= l => a[k] <= a[l]
      BY <2>1, <3>1 DEF Tells
    <3>3. earlier + 1 \in 1 .. n
      BY <2>1, <2>2, <2>3, <3>2, LimitFacts DEF Counter
    <3>. HIDE DEF n, start, earlier
    <3>4. CASE i > earlier
      <4>1. earlier + 1 <= i
        BY <2>2, <3>4
      <4>2. a[earlier + 1] <= a[i]
        BY <3>2, <3>3, <4>1
      <4>. QED BY <2>2, <3>2, <3>4, <4>2
    <3>5. CASE ~(i > earlier)
      <4>1. i \in 1 .. earlier
        BY <2>2, <3>5
      <4>. QED BY <2>2, <3>2, <3>5, <4>1
    <3>. QED BY <3>4, <3>5
  <2>. QED BY <2>2, <2>3, <2>4 DEF a
<1>. QED BY <1>1, RateInvariant, PTL

\* The window of the limiter in Redis lets at most the limit through, beside
\* the other backend too.
THEOREM WindowBoundHolds == LimiterSpec => []WindowBound
<1>1. RateInv => WindowBound
  BY DEF RateInv, RedisInv, KeyInv, WindowBound
<1>. QED BY <1>1, RateInvariant, PTL

\* And a key without an expiry is explained as above (redis-stores.ts:66-68).
THEOREM EternalKeysHolds == LimiterSpec => []EternalKeysExplained
<1>1. LimiterInit => EternalKeysExplained
  BY DEF LimiterInit, Init, EternalKeysExplained
<1>2. ASSUME RateInv, EternalKeysExplained,
             [LimiterNext]_<<vars, backend, memoryVars>>
      PROVE  EternalKeysExplained'
  <2>1. CASE Next \/ UNCHANGED <<vars, backend, memoryVars>>
    BY <1>2, <2>1, EternalStep DEF RateInv
  <2>2. CASE UNCHANGED redisVars
    BY <1>2, <2>2 DEF redisVars, EternalKeysExplained, KeyOf
  <2>. QED BY <1>2, <2>1, <2>2 DEF LimiterNext
<1>. QED BY <1>1, <1>2, RateInvariant, PTL DEF LimiterSpec

=============================================================================
