-------------------------- MODULE RateLimiterProofs --------------------------
(* The limiters admit what they promise for every window and maximum, any   *)
(* number of requests, and however often the process and Redis restart.     *)
EXTENDS RateLimiter, FiniteSetTheorems, TLAPS

\* The requests whose INCR counted 1 and that have not sent PEXPIRE.
Pending == {p \in Reqs : pc[p] = "pexpire"}

\* What the counter says of the requests that were not refused.
Counted == IF counter.count > Max THEN Max ELSE counter.count

\* The ticks since a window began; a key without expiry is always at its beginning.
Elapsed(left) == IF left \in {0, NoExpiry} THEN 0 ELSE Window - left

\* The requests of the present window are counted; those before it are the ones of one window,
\* and of one more for each time the limiter forgot its count.  A pending request is admitted
\* later, and may be counted by a key that is gone by then.
Bound(admitted, pending, count, left, forgot) ==
    \A age \in Ages :
        /\ admitted[age] + pending <= count + forgot * Max + Max
        /\ age <= Elapsed(left) => admitted[age] + pending <= count + forgot * Max

\* Each key that Redis forgot leaves at most one pending request behind.
PendingOK ==
    /\ IsFiniteSet(Pending)
    /\ Cardinality(Pending) <= crashes["redis"] + IF counter.left = NoExpiry THEN 1 ELSE 0

MemoryOK == Bound(recent["memory"], 0, bucket.count, bucket.left, crashes["memory"])
RedisOK  == Bound(recent["redis"], Cardinality(Pending), Counted, counter.left, crashes["redis"])

IInv == TypeOK /\ PendingOK /\ MemoryOK /\ RedisOK

-----------------------------------------------------------------------------
(* Bounds.                                                                  *)

Lefts      == (0..Window) \cup {NoExpiry}
Admissions == [Ages -> Nat]

LEMMA Multiples ==
    ASSUME NEW k \in Nat
    PROVE  k * Max \in Nat /\ k <= k * Max /\ (k + 1) * Max = k * Max + Max
  <1>1. Max \in Nat /\ Max >= 1
    BY LimiterAssumption
  <1>. QED  BY <1>1

LEMMA ElapsedTyped ==
    ASSUME NEW left \in Lefts
    PROVE  Elapsed(left) \in 0..(Window - 1) /\ Elapsed(0) = 0 /\ Elapsed(NoExpiry) = 0
           /\ Elapsed(Window) = 0
  BY LimiterAssumption DEF Lefts, Elapsed, NoExpiry

\* Whoever is admitted was counted or pending before.
LEMMA BoundKept ==
    ASSUME NEW S \in Admissions, NEW T \in Admissions, NEW p \in Nat, NEW q \in Nat,
           NEW c \in Nat, NEW d \in Nat, NEW left \in Lefts, NEW rest \in Lefts, NEW k \in Nat,
           Bound(S, p, c, left, k), Elapsed(rest) <= Elapsed(left),
           \A age \in Ages : T[age] + q + c <= S[age] + p + d
    PROVE  Bound(T, q, d, rest, k)
  <1>1. SUFFICES ASSUME NEW age \in Ages
                 PROVE  /\ T[age] + q <= d + k * Max + Max
                        /\ age <= Elapsed(rest) => T[age] + q <= d + k * Max
    BY DEF Bound
  <1>2. /\ S[age] + p <= c + k * Max + Max
        /\ age <= Elapsed(left) => S[age] + p <= c + k * Max
    BY DEF Bound
  <1>3. T[age] \in Nat /\ S[age] \in Nat /\ T[age] + q + c <= S[age] + p + d
    BY DEF Admissions
  <1>4. PICK m \in Nat : m = k * Max
    BY Multiples
  <1>5. Max \in Nat /\ age \in Nat
    BY LimiterAssumption DEF Ages
  <1>6. Elapsed(rest) \in Nat /\ Elapsed(left) \in Nat
    BY ElapsedTyped
  <1>. QED  BY <1>2, <1>3, <1>4, <1>5, <1>6

\* A limiter that forgets its count may admit the requests of one window more.
LEMMA BoundForgotten ==
    ASSUME NEW S \in Admissions, NEW p \in Nat, NEW c \in 0..Max, NEW left \in Lefts, NEW k \in Nat,
           Bound(S, p, c, left, k)
    PROVE  Bound(S, p, 0, 0, k + 1)
  <1>1. SUFFICES ASSUME NEW age \in Ages
                 PROVE  /\ S[age] + p <= 0 + (k + 1) * Max + Max
                        /\ age <= Elapsed(0) => S[age] + p <= 0 + (k + 1) * Max
    BY DEF Bound
  <1>2. /\ S[age] + p <= c + k * Max + Max
        /\ age <= Elapsed(left) => S[age] + p <= c + k * Max
    BY DEF Bound
  <1>3. S[age] \in Nat /\ Max \in Nat /\ age \in Nat /\ c \in Nat /\ c <= Max
    BY LimiterAssumption DEF Admissions, Ages
  <1>4. PICK m \in Nat : m = k * Max /\ (k + 1) * Max = m + Max
    BY Multiples
  <1>5. Elapsed(left) \in Nat /\ Elapsed(0) = 0
    BY ElapsedTyped
  <1>. QED  BY <1>2, <1>3, <1>4, <1>5

\* What a tick leaves of the count and of the window.
CountAfter(c, left)  == IF left \in {0, 1} THEN 0 ELSE c
LeftAfter(left)      == IF left = NoExpiry THEN left ELSE IF left \in {0, 1} THEN 0 ELSE left - 1

\* A tick makes a window older, or the present one a past one.
LEMMA BoundAged ==
    ASSUME NEW S \in Admissions, NEW T \in Admissions, NEW p \in Nat, NEW c \in 0..Max,
           NEW left \in Lefts, NEW k \in Nat, Bound(S, p, c, left, k),
           p <= k + (IF left = NoExpiry THEN c ELSE 0), left = 0 => c = 0,
           \A age \in Ages : T[age] = IF age = 0 THEN 0 ELSE S[age - 1]
    PROVE  Bound(T, p, CountAfter(c, left), LeftAfter(left), k)
  <1>. DEFINE d == CountAfter(c, left)
              rest == LeftAfter(left)
  <1>1. SUFFICES ASSUME NEW age \in Ages
                 PROVE  /\ T[age] + p <= d + k * Max + Max
                        /\ age <= Elapsed(rest) => T[age] + p <= d + k * Max
    BY DEF Bound
  <1>2. PICK m \in Nat : m = k * Max /\ k <= m
    BY Multiples
  <1>3. /\ Max \in Nat /\ Max >= 1 /\ Window \in Nat /\ Window >= 1 /\ age \in Nat
        /\ age <= Window - 1 /\ c \in Nat /\ c <= Max
    BY LimiterAssumption DEF Ages
  <1>4. d \in Nat /\ (left = NoExpiry => d = c)
    BY <1>3 DEF CountAfter, NoExpiry
  <1>5. p <= d + m
    BY <1>2, <1>3, <1>4
  <1>6. CASE age = 0
    <2>1. T[age] = 0
      BY <1>6
    <2>. QED  BY <1>2, <1>3, <1>4, <1>5, <2>1
  <1>7. CASE age # 0
    <2>1. PICK a \in Ages : a = age - 1 /\ age = a + 1
      BY <1>3, <1>7 DEF Ages
    <2>2. T[age] = S[a] /\ S[a] \in Nat /\ a \in Nat
      BY <1>7, <2>1 DEF Admissions, Ages
    <2>3. /\ S[a] + p <= c + m + Max
          /\ a <= Elapsed(left) => S[a] + p <= c + m
      BY <1>2 DEF Bound
    <2>4. CASE left \in {0, NoExpiry}
      <3>1. d = c /\ rest = left /\ Elapsed(rest) = 0
        BY <2>4 DEF CountAfter, LeftAfter, NoExpiry, Elapsed
      <3>. QED  BY <1>2, <1>3, <2>1, <2>2, <2>3, <3>1
    <2>5. CASE left = 1
      <3>1. d = 0 /\ Elapsed(rest) = 0 /\ a <= Elapsed(left)
        BY <1>3, <2>1, <2>5 DEF CountAfter, LeftAfter, NoExpiry, Elapsed
      <3>. QED  BY <1>2, <1>3, <2>1, <2>2, <2>3, <3>1
    <2>6. CASE left \in 2..Window
      <3>1. d = c /\ rest = left - 1 /\ Elapsed(rest) = Window - left + 1 /\ Elapsed(left) = Window - left
        BY <1>3, <2>6 DEF CountAfter, LeftAfter, NoExpiry, Elapsed
      <3>. QED  BY <1>2, <1>3, <2>1, <2>2, <2>3, <2>6, <3>1
    <2>7. left \in {0, NoExpiry} \/ left = 1 \/ left \in 2..Window
      BY <1>3 DEF Lefts
    <2>. QED  BY <2>4, <2>5, <2>6, <2>7
  <1>. QED  BY <1>6, <1>7

-----------------------------------------------------------------------------
(* Types and pending requests.                                              *)

LEMMA Typed1 ==
    ASSUME IInv
    PROVE  /\ recent["memory"] \in Admissions /\ recent["redis"] \in Admissions
           /\ crashes["memory"] \in Nat /\ crashes["redis"] \in Nat
           /\ Counted \in 0..Max /\ Counted \in Nat /\ bucket.count \in 0..Max /\ bucket.count \in Nat
           /\ counter.left \in Lefts /\ bucket.left \in Lefts
           /\ Cardinality(Pending) \in Nat /\ Max \in Nat /\ Max >= 1
           /\ DOMAIN pc = Reqs
  <1>1. Max \in Nat /\ Max >= 1 /\ MaxCrashes \in Nat /\ Window \in Nat
    BY LimiterAssumption
  <1>2. recent["memory"] \in Admissions /\ recent["redis"] \in Admissions
    BY DEF IInv, TypeOK, Limiters, Admissions
  <1>3. crashes["memory"] \in Nat /\ crashes["redis"] \in Nat
    BY <1>1 DEF IInv, TypeOK, Limiters
  <1>4. /\ bucket.count \in 0..Max /\ bucket.left \in Lefts
        /\ counter.count \in 0..(Max + 1) /\ counter.left \in Lefts
    BY <1>1 DEF IInv, TypeOK, Lefts, NoExpiry
  <1>5. Counted \in 0..Max
    BY <1>1, <1>4 DEF Counted
  <1>6. Cardinality(Pending) \in Nat
    BY FS_CardinalityType DEF IInv, PendingOK
  <1>7. DOMAIN pc = Reqs
    BY DEF IInv, TypeOK
  <1>. QED  BY <1>1, <1>2, <1>3, <1>4, <1>5, <1>6, <1>7

LEMMA Granted ==
    ASSUME TypeOK, NEW by \in Limiters, Grant(by)
    PROVE  /\ recent' \in [Limiters -> [Ages -> Nat]]
           /\ \A other \in Limiters \ {by} : recent'[other] = recent[other]
           /\ \A age \in Ages : recent'[by][age] = recent[by][age] + 1
  <1>1. recent \in [Limiters -> [Ages -> Nat]]
    BY DEF TypeOK
  <1>2. PICK T : T = [age \in Ages |-> recent[by][age] + 1]
    OBVIOUS
  <1>3. T \in [Ages -> Nat] /\ \A age \in Ages : T[age] = recent[by][age] + 1
    BY <1>1, <1>2
  <1>4. recent' = [recent EXCEPT ![by] = T]
    BY <1>2 DEF Grant
  <1>. QED  BY <1>1, <1>3, <1>4

LEMMA PendingSame ==
    ASSUME IInv, NEW p \in Reqs, NEW to \in Steps \ {"pexpire"}, pc[p] # "pexpire",
           pc' = [pc EXCEPT ![p] = to]
    PROVE  Pending' = Pending /\ pc' \in [Reqs -> Steps]
  BY DEF IInv, TypeOK, Pending

LEMMA PendingMore ==
    ASSUME IInv, NEW p \in Reqs, Goto(p, "incr", "pexpire")
    PROVE  /\ IsFiniteSet(Pending') /\ Cardinality(Pending') = Cardinality(Pending) + 1
           /\ pc' \in [Reqs -> Steps]
  <1>1. pc' \in [Reqs -> Steps] /\ Pending' = Pending \cup {p} /\ p \notin Pending
    BY DEF IInv, TypeOK, Pending, Goto, Steps
  <1>2. IsFiniteSet(Pending)
    BY DEF IInv, PendingOK
  <1>. QED  BY <1>1, <1>2, FS_AddElement

LEMMA PendingLess ==
    ASSUME IInv, NEW p \in Reqs, NEW to \in Steps \ {"pexpire"}, Goto(p, "pexpire", to)
    PROVE  /\ IsFiniteSet(Pending') /\ Cardinality(Pending') = Cardinality(Pending) - 1
           /\ Cardinality(Pending') \in Nat /\ pc' \in [Reqs -> Steps]
  <1>1. pc' \in [Reqs -> Steps] /\ Pending' = Pending \ {p} /\ p \in Pending
    BY DEF IInv, TypeOK, Pending, Goto, Steps
  <1>2. IsFiniteSet(Pending)
    BY DEF IInv, PendingOK
  <1>. QED  BY <1>1, <1>2, FS_RemoveElement, FS_CardinalityType

LEMMA MemoryKept ==
    ASSUME IInv, UNCHANGED <<bucket, crashes>>, recent'["memory"] = recent["memory"]
    PROVE  MemoryOK'
  BY DEF IInv, MemoryOK

\* What INCR does to the count.
LEMMA Incremented ==
    ASSUME IInv, Increment
    PROVE  /\ counter' \in [count : 0..(Max + 1), left : (0..Window) \cup {NoExpiry}]
           /\ counter'.left # 0 /\ counter'.count # 0
           /\ counter.count = 0 => counter'.count = 1 /\ counter'.left = NoExpiry /\ counter.left = 0
           /\ counter.count # 0 => counter'.left = counter.left /\ counter'.count >= 2
           /\ Counted' \in Nat /\ Counted' >= Counted
           /\ counter'.count <= Max => Counted' = Counted + 1
           /\ Elapsed(counter'.left) <= Elapsed(counter.left) /\ counter'.left \in Lefts
  <1>1. /\ Max \in Nat /\ Max >= 1 /\ counter.count \in 0..(Max + 1)
        /\ counter \in [count : 0..(Max + 1), left : (0..Window) \cup {NoExpiry}]
        /\ counter.left \in Lefts /\ (counter.left = 0 <=> counter.count = 0)
    BY Typed1 DEF IInv, TypeOK
  <1>2. PICK n : n = IF counter.count > Max THEN counter.count ELSE counter.count + 1
    OBVIOUS
  <1>3. n \in 1..(Max + 1)
    BY <1>1, <1>2
  <1>4. CASE counter.count = 0
    <2>1. counter' = [count |-> 1, left |-> NoExpiry] /\ counter.left = 0
      BY <1>1, <1>4 DEF Increment
    <2>2. counter'.count = 1 /\ counter'.left = NoExpiry /\ NoExpiry \in Lefts /\ NoExpiry # 0
      BY <2>1 DEF Lefts, NoExpiry
    <2>3. Counted' = 1 /\ Counted = 0
      BY <1>1, <1>4, <2>2 DEF Counted
    <2>4. Elapsed(counter'.left) = 0 /\ Elapsed(counter.left) = 0
      BY <2>1, <2>2 DEF Elapsed
    <2>5. counter' \in [count : 0..(Max + 1), left : (0..Window) \cup {NoExpiry}]
      BY <1>1, <2>1
    <2>. QED  BY <1>1, <1>4, <2>1, <2>2, <2>3, <2>4, <2>5
  <1>5. CASE counter.count # 0
    <2>1. counter' = [counter EXCEPT !.count = n]
      BY <1>1, <1>2, <1>5 DEF Increment
    <2>2. counter'.count = n /\ counter'.left = counter.left
      BY <1>1, <2>1
    <2>3. counter' \in [count : 0..(Max + 1), left : (0..Window) \cup {NoExpiry}]
      BY <1>1, <1>3, <2>1
    <2>4. Elapsed(counter.left) \in 0..(Window - 1)
      BY <1>1, ElapsedTyped
    <2>. QED  BY <1>1, <1>2, <1>3, <1>5, <2>2, <2>3, <2>4 DEF Counted
  <1>. QED  BY <1>4, <1>5

-----------------------------------------------------------------------------
(* The actions.                                                             *)

\* A step of p on Redis that has no effect on the bucket.
LEMMA RedisStep ==
    ASSUME IInv, UNCHANGED <<bucket, crashes>>, recent' \in [Limiters -> [Ages -> Nat]],
           recent'["memory"] = recent["memory"], pc' \in [Reqs -> Steps],
           counter' \in [count : 0..(Max + 1), left : (0..Window) \cup {NoExpiry}],
           counter'.left = 0 <=> counter'.count = 0,
           Counted' \in Nat, Elapsed(counter'.left) <= Elapsed(counter.left),
           IsFiniteSet(Pending'), Cardinality(Pending') \in Nat,
           Cardinality(Pending') <= crashes["redis"] + (IF counter'.left = NoExpiry THEN 1 ELSE 0),
           \A age \in Ages : recent'["redis"][age] + Cardinality(Pending') + Counted
                                <= recent["redis"][age] + Cardinality(Pending) + Counted'
    PROVE  IInv'
  <1>1. TypeOK'
    BY DEF IInv, TypeOK
  <1>2. PendingOK'
    BY DEF PendingOK
  <1>3. MemoryOK'
    BY MemoryKept
  <1>4. RedisOK'
    <2>1. PICK T, q, d, rest : /\ T = recent'["redis"] /\ q = Cardinality(Pending') /\ d = Counted'
                               /\ rest = counter'.left
      OBVIOUS
    <2>2. T \in Admissions /\ q \in Nat /\ d \in Nat /\ rest \in Lefts
      BY <2>1 DEF Admissions, Limiters, Lefts
    <2>3. Bound(recent["redis"], Cardinality(Pending), Counted, counter.left, crashes["redis"])
      BY DEF IInv, RedisOK
    <2>4. Bound(T, q, d, rest, crashes["redis"])
      BY <2>1, <2>2, <2>3, Typed1, BoundKept
    <2>. QED  BY <2>1, <2>4 DEF RedisOK
  <1>. QED  BY <1>1, <1>2, <1>3, <1>4 DEF IInv

LEMMA AllowKeeps ==
    ASSUME IInv, NEW p \in Reqs, Allow(p)
    PROVE  IInv'
  <1>1. PICK to \in {"incr", "fallback"} : Goto(p, "idle", to)
    BY DEF Allow
  <1>2. Pending' = Pending /\ pc' \in [Reqs -> Steps]
    BY <1>1, PendingSame DEF Goto, Steps
  <1>3. UNCHANGED <<bucket, counter, recent, crashes>>
    BY DEF Allow
  <1>. QED  BY <1>2, <1>3 DEF IInv, TypeOK, PendingOK, MemoryOK, RedisOK, Counted

LEMMA IncrKeeps ==
    ASSUME IInv, NEW p \in Reqs, Incr(p)
    PROVE  IInv'
  <1>0. Increment /\ UNCHANGED <<bucket, crashes>>
    BY DEF Incr
  <1>1. CASE counter'.count = 1 /\ Goto(p, "incr", "pexpire") /\ UNCHANGED recent
    <2>1. /\ IsFiniteSet(Pending') /\ Cardinality(Pending') = Cardinality(Pending) + 1
          /\ pc' \in [Reqs -> Steps]
      BY <1>1, PendingMore
    <2>2. counter.count = 0 /\ counter'.left = NoExpiry /\ counter.left = 0 /\ NoExpiry # 0
      BY <1>0, <1>1, Incremented DEF NoExpiry
    <2>3. Cardinality(Pending) <= crashes["redis"]
      BY <2>2, Typed1 DEF IInv, PendingOK
    <2>4. Counted' = Counted + 1
      BY <1>0, <1>1, Incremented, Typed1
    <2>5. \A age \in Ages : recent["redis"][age] \in Nat
      BY Typed1 DEF Admissions
    <2>6. recent' \in [Limiters -> [Ages -> Nat]]
      BY <1>1 DEF IInv, TypeOK
    <2>. QED
      BY <1>0, <1>1, <2>1, <2>2, <2>3, <2>4, <2>5, <2>6, Incremented, Typed1, RedisStep
  <1>2. CASE counter'.count \in 2..Max /\ Goto(p, "incr", "idle") /\ Grant("redis")
    <2>1. Pending' = Pending /\ pc' \in [Reqs -> Steps]
      BY <1>2, PendingSame DEF Goto, Steps
    <2>2. counter'.left = counter.left /\ Counted' = Counted + 1
      BY <1>0, <1>2, Incremented, Typed1
    <2>3. /\ recent' \in [Limiters -> [Ages -> Nat]] /\ recent'["memory"] = recent["memory"]
          /\ \A age \in Ages : recent'["redis"][age] = recent["redis"][age] + 1
      BY <1>2, Granted DEF IInv, Limiters
    <2>4. \A age \in Ages : recent["redis"][age] \in Nat
      BY Typed1 DEF Admissions
    <2>5. IsFiniteSet(Pending) /\ Cardinality(Pending) <= crashes["redis"]
                                        + (IF counter.left = NoExpiry THEN 1 ELSE 0)
      BY DEF IInv, PendingOK
    <2>. QED
      BY <1>0, <1>2, <2>1, <2>2, <2>3, <2>4, <2>5, Incremented, Typed1, RedisStep
  <1>3. CASE counter'.count > Max /\ Goto(p, "incr", "idle") /\ UNCHANGED recent
    <2>1. Pending' = Pending /\ pc' \in [Reqs -> Steps]
      BY <1>3, PendingSame DEF Goto, Steps
    <2>2. counter'.left = counter.left /\ Counted' >= Counted /\ Counted' \in Nat
      BY <1>0, <1>3, Incremented, Typed1
    <2>3. \A age \in Ages : recent["redis"][age] \in Nat
      BY Typed1 DEF Admissions
    <2>4. recent' \in [Limiters -> [Ages -> Nat]]
      BY <1>3 DEF IInv, TypeOK
    <2>5. IsFiniteSet(Pending) /\ Cardinality(Pending) <= crashes["redis"]
                                        + (IF counter.left = NoExpiry THEN 1 ELSE 0)
      BY DEF IInv, PendingOK
    <2>. QED
      BY <1>0, <1>3, <2>1, <2>2, <2>3, <2>4, <2>5, Incremented, Typed1, RedisStep
  <1>. QED  BY <1>1, <1>2, <1>3 DEF Incr

\* What PEXPIRE does to the count.
LEMMA Expired ==
    ASSUME IInv, Expire
    PROVE  /\ counter' \in [count : 0..(Max + 1), left : (0..Window) \cup {NoExpiry}]
           /\ counter'.left = 0 <=> counter'.count = 0
           /\ counter'.left # NoExpiry /\ Counted' = Counted
           /\ Elapsed(counter'.left) <= Elapsed(counter.left)
  <1>1. /\ Window \in Nat /\ Window >= 1
        /\ counter \in [count : 0..(Max + 1), left : (0..Window) \cup {NoExpiry}]
        /\ counter.left = 0 <=> counter.count = 0
        /\ Elapsed(counter.left) \in Nat
    BY Typed1, ElapsedTyped, LimiterAssumption DEF IInv, TypeOK
  <1>2. CASE counter.count = 0
    <2>1. counter' = counter /\ counter.left = 0 /\ NoExpiry # 0
      BY <1>1, <1>2 DEF Expire, NoExpiry
    <2>. QED  BY <1>1, <2>1 DEF Counted
  <1>3. CASE counter.count # 0
    <2>1. counter' = [counter EXCEPT !.left = Window]
      BY <1>3 DEF Expire
    <2>2. /\ counter'.left = Window /\ counter'.count = counter.count
          /\ counter' \in [count : 0..(Max + 1), left : (0..Window) \cup {NoExpiry}]
      BY <1>1, <2>1
    <2>3. Elapsed(Window) = 0 /\ Window # NoExpiry
      BY <1>1 DEF Elapsed, NoExpiry
    <2>4. Counted' = Counted
      BY <2>2 DEF Counted
    <2>. QED  BY <1>1, <1>3, <2>2, <2>3, <2>4
  <1>. QED  BY <1>2, <1>3

LEMMA PExpireKeeps ==
    ASSUME IInv, NEW p \in Reqs, PExpire(p)
    PROVE  IInv'
  <1>0. Expire /\ Goto(p, "pexpire", "idle") /\ Grant("redis") /\ UNCHANGED <<bucket, crashes>>
    BY DEF PExpire
  <1>1. /\ IsFiniteSet(Pending') /\ Cardinality(Pending') = Cardinality(Pending) - 1
        /\ Cardinality(Pending') \in Nat /\ pc' \in [Reqs -> Steps]
    BY <1>0, PendingLess DEF Steps
  <1>2. Cardinality(Pending) <= crashes["redis"] + 1
    BY Typed1 DEF IInv, PendingOK
  <1>3. /\ recent' \in [Limiters -> [Ages -> Nat]] /\ recent'["memory"] = recent["memory"]
        /\ \A age \in Ages : recent'["redis"][age] = recent["redis"][age] + 1
    BY <1>0, Granted DEF IInv, Limiters
  <1>4. \A age \in Ages : recent["redis"][age] \in Nat
    BY Typed1 DEF Admissions
  <1>. QED  BY <1>0, <1>1, <1>2, <1>3, <1>4, Expired, Typed1, RedisStep

LEMMA PrimaryFailsKeeps ==
    ASSUME IInv, NEW p \in Reqs, PrimaryFails(p)
    PROVE  IInv'
  <1>0. UNCHANGED <<bucket, recent, crashes>>
    BY DEF PrimaryFails
  <1>1. /\ \A age \in Ages : recent["redis"][age] \in Nat
        /\ recent' \in [Limiters -> [Ages -> Nat]]
        /\ counter \in [count : 0..(Max + 1), left : (0..Window) \cup {NoExpiry}]
        /\ counter.left = 0 <=> counter.count = 0
        /\ IsFiniteSet(Pending)
        /\ Cardinality(Pending) <= crashes["redis"] + (IF counter.left = NoExpiry THEN 1 ELSE 0)
        /\ Elapsed(counter.left) \in Nat
    BY <1>0, Typed1, ElapsedTyped DEF Admissions, IInv, TypeOK, PendingOK
  <1>2. CASE Goto(p, "incr", "fallback")
    <2>1. Pending' = Pending /\ pc' \in [Reqs -> Steps]
      BY <1>2, PendingSame DEF Goto, Steps
    <2>2. CASE UNCHANGED counter
      <3>1. Counted' = Counted
        BY <2>2 DEF Counted
      <3>. QED  BY <1>0, <1>1, <2>1, <2>2, <3>1, Typed1, RedisStep
    <2>3. CASE Increment
      <3>1. Cardinality(Pending) <= crashes["redis"] + (IF counter'.left = NoExpiry THEN 1 ELSE 0)
        <4>1. counter.left = NoExpiry => counter'.left = NoExpiry
          BY <1>1, <2>3, Incremented DEF NoExpiry
        <4>. QED  BY <1>1, <4>1, Typed1
      <3>. QED  BY <1>0, <1>1, <2>1, <2>3, <3>1, Incremented, Typed1, RedisStep
    <2>. QED  BY <1>2, <2>2, <2>3 DEF PrimaryFails, Goto
  <1>3. CASE Goto(p, "pexpire", "fallback")
    <2>1. /\ IsFiniteSet(Pending') /\ Cardinality(Pending') = Cardinality(Pending) - 1
          /\ Cardinality(Pending') \in Nat /\ pc' \in [Reqs -> Steps]
      BY <1>3, PendingLess DEF Steps
    <2>2. CASE UNCHANGED counter
      <3>1. Counted' = Counted
        BY <2>2 DEF Counted
      <3>. QED  BY <1>0, <1>1, <2>1, <2>2, <3>1, Typed1, RedisStep
    <2>3. CASE Expire
      BY <1>0, <1>1, <2>1, <2>3, Expired, Typed1, RedisStep
    <2>. QED  BY <1>3, <2>2, <2>3 DEF PrimaryFails, Goto
  <1>. QED  BY <1>2, <1>3 DEF PrimaryFails

LEMMA MemoryAllowKeeps ==
    ASSUME IInv, NEW p \in Reqs, MemoryAllow(p)
    PROVE  IInv'
  <1>0. Goto(p, "fallback", "idle") /\ UNCHANGED <<counter, crashes>>
    BY DEF MemoryAllow
  <1>1. Pending' = Pending /\ pc' \in [Reqs -> Steps]
    BY <1>0, PendingSame DEF Goto, Steps
  <1>2. /\ Window \in Nat /\ Window >= 1 /\ Max \in Nat /\ Max >= 1
        /\ bucket \in [count : 0..Max, left : 0..Window] /\ (bucket.left = 0 <=> bucket.count = 0)
        /\ Elapsed(bucket.left) \in Nat /\ Elapsed(0) = 0 /\ Elapsed(Window) = 0
    BY Typed1, ElapsedTyped, LimiterAssumption DEF IInv, TypeOK
  <1>3. ASSUME recent' \in [Limiters -> [Ages -> Nat]], recent'["redis"] = recent["redis"],
               bucket' \in [count : 0..Max, left : 0..Window],
               bucket'.left = 0 <=> bucket'.count = 0,
               Elapsed(bucket'.left) <= Elapsed(bucket.left),
               \A age \in Ages : recent'["memory"][age] + bucket.count
                                    <= recent["memory"][age] + bucket'.count
        PROVE  IInv'
    <2>1. TypeOK'
      BY <1>0, <1>1, <1>3 DEF IInv, TypeOK
    <2>2. PendingOK' /\ RedisOK'
      BY <1>0, <1>1, <1>3 DEF IInv, PendingOK, RedisOK, Counted
    <2>3. PICK T, d, rest : T = recent'["memory"] /\ d = bucket'.count /\ rest = bucket'.left
      OBVIOUS
    <2>4. T \in Admissions /\ d \in Nat /\ rest \in Lefts
      BY <1>2, <1>3, <2>3 DEF Admissions, Limiters, Lefts
    <2>5. \A age \in Ages : T[age] + 0 + bucket.count <= recent["memory"][age] + 0 + d
      BY <1>2, <1>3, <2>3, <2>4, Typed1 DEF Admissions
    <2>6. Bound(recent["memory"], 0, bucket.count, bucket.left, crashes["memory"])
      BY DEF IInv, MemoryOK
    <2>7. Elapsed(rest) <= Elapsed(bucket.left)
      BY <1>3, <2>3
    <2>8. Bound(T, 0, d, rest, crashes["memory"])
      BY <2>4, <2>5, <2>6, <2>7, Typed1, BoundKept
    <2>9. MemoryOK'
      BY <1>0, <2>3, <2>8 DEF MemoryOK
    <2>. QED  BY <2>1, <2>2, <2>9 DEF IInv
  <1>4. ASSUME Grant("memory")
        PROVE  /\ recent' \in [Limiters -> [Ages -> Nat]] /\ recent'["redis"] = recent["redis"]
               /\ \A age \in Ages : recent'["memory"][age] = recent["memory"][age] + 1
    BY <1>4, Granted DEF IInv, Limiters
  <1>5. \A age \in Ages : recent["memory"][age] \in Nat
    BY Typed1 DEF Admissions
  <1>6. CASE bucket.left = 0 /\ Grant("memory") /\ bucket' = [count |-> 1, left |-> Window]
    BY <1>2, <1>3, <1>4, <1>5, <1>6
  <1>7. CASE /\ bucket.left > 0 /\ bucket.count < Max /\ Grant("memory")
             /\ bucket' = [bucket EXCEPT !.count = @ + 1]
    BY <1>2, <1>3, <1>4, <1>5, <1>7
  <1>8. CASE UNCHANGED <<bucket, recent>>
    <2>1. recent' \in [Limiters -> [Ages -> Nat]]
      BY <1>8 DEF IInv, TypeOK
    <2>. QED  BY <1>2, <1>3, <1>5, <1>8, <2>1
  <1>. QED  BY <1>6, <1>7, <1>8 DEF MemoryAllow

LEMMA CrashKeeps ==
    ASSUME IInv, Crash
    PROVE  IInv'
  <1>1. /\ crashes["memory"] < MaxCrashes /\ UNCHANGED <<counter, recent>>
        /\ crashes' = [crashes EXCEPT !["memory"] = @ + 1]
        /\ bucket' = NoBucket /\ pc' = [q \in Reqs |-> "idle"]
    BY DEF Crash, Dies
  <1>2. /\ crashes' \in [Limiters -> 0..MaxCrashes] /\ crashes'["redis"] = crashes["redis"]
        /\ crashes'["memory"] = crashes["memory"] + 1
    BY <1>1, LimiterAssumption DEF IInv, TypeOK, Limiters
  <1>3. Pending' = {} /\ IsFiniteSet({}) /\ Cardinality({}) = 0
    BY <1>1, FS_EmptySet DEF Pending
  <1>4. TypeOK'
    BY <1>1, <1>2, LimiterAssumption DEF IInv, TypeOK, NoBucket, Steps
  <1>5. PendingOK'
    BY <1>2, <1>3, Typed1 DEF PendingOK
  <1>6. MemoryOK'
    <2>1. Bound(recent["memory"], 0, 0, 0, crashes["memory"] + 1)
      BY Typed1, BoundForgotten DEF IInv, MemoryOK
    <2>. QED  BY <1>1, <1>2, <2>1 DEF MemoryOK, NoBucket
  <1>7. RedisOK'
    <2>1. \A age \in Ages : recent["redis"][age] \in Nat
      BY Typed1 DEF Admissions
    <2>2. \A age \in Ages : recent["redis"][age] + 0 + Counted
                              <= recent["redis"][age] + Cardinality(Pending) + Counted
      BY <2>1, Typed1
    <2>3. Elapsed(counter.left) <= Elapsed(counter.left)
      BY Typed1, ElapsedTyped
    <2>4. Bound(recent["redis"], 0, Counted, counter.left, crashes["redis"])
      BY <2>2, <2>3, Typed1, BoundKept DEF IInv, RedisOK
    <2>. QED  BY <1>1, <1>2, <1>3, <2>4 DEF RedisOK, Counted
  <1>. QED  BY <1>4, <1>5, <1>6, <1>7 DEF IInv

LEMMA RedisRestartsKeeps ==
    ASSUME IInv, RedisRestarts
    PROVE  IInv'
  <1>1. /\ crashes["redis"] < MaxCrashes /\ UNCHANGED <<bucket, pc, recent>>
        /\ crashes' = [crashes EXCEPT !["redis"] = @ + 1] /\ counter' = NoCounter
    BY DEF RedisRestarts, Dies
  <1>2. /\ crashes' \in [Limiters -> 0..MaxCrashes] /\ crashes'["memory"] = crashes["memory"]
        /\ crashes'["redis"] = crashes["redis"] + 1
    BY <1>1, LimiterAssumption DEF IInv, TypeOK, Limiters
  <1>3. Pending' = Pending
    BY <1>1 DEF Pending
  <1>4. counter'.left = 0 /\ counter'.count = 0 /\ NoExpiry # 0 /\ Counted' = 0
    BY <1>1, Typed1 DEF NoCounter, NoExpiry, Counted
  <1>5. TypeOK'
    BY <1>1, <1>2, LimiterAssumption DEF IInv, TypeOK, NoCounter
  <1>6. PendingOK'
    BY <1>2, <1>3, <1>4, Typed1 DEF IInv, PendingOK
  <1>7. MemoryOK'
    BY <1>1, <1>2 DEF IInv, MemoryOK
  <1>8. RedisOK'
    <2>1. Bound(recent["redis"], Cardinality(Pending), 0, 0, crashes["redis"] + 1)
      BY Typed1, BoundForgotten DEF IInv, RedisOK
    <2>. QED  BY <1>1, <1>2, <1>3, <1>4, <2>1 DEF RedisOK
  <1>. QED  BY <1>5, <1>6, <1>7, <1>8 DEF IInv

LEMMA TickKeeps ==
    ASSUME IInv, Tick
    PROVE  IInv'
  <1>0. /\ Window \in Nat /\ Window >= 1 /\ Max \in Nat /\ Max >= 1
        /\ bucket \in [count : 0..Max, left : 0..Window] /\ (bucket.left = 0 <=> bucket.count = 0)
        /\ counter \in [count : 0..(Max + 1), left : (0..Window) \cup {NoExpiry}]
        /\ counter.left = 0 <=> counter.count = 0
        /\ recent \in [Limiters -> [Ages -> Nat]] /\ NoExpiry = -1
    BY LimiterAssumption DEF IInv, TypeOK, NoExpiry
  <1>1. UNCHANGED <<pc, crashes>> /\ Pending' = Pending
    BY DEF Tick, Pending
  <1>2. ASSUME NEW by \in Limiters
        PROVE  /\ recent'[by] \in Admissions
               /\ \A age \in Ages : recent'[by][age] = IF age = 0 THEN 0 ELSE recent[by][age - 1]
    <2>1. PICK S : S = recent[by]
      OBVIOUS
    <2>2. S \in [Ages -> Nat]
      BY <1>0, <2>1
    <2>3. recent'[by] = [age \in Ages |-> IF age = 0 THEN 0 ELSE S[age - 1]]
      BY <2>1 DEF Tick
    <2>4. \A age \in Ages : age # 0 => age - 1 \in Ages
      BY <1>0 DEF Ages
    <2>. QED  BY <2>1, <2>2, <2>3, <2>4 DEF Admissions
  <1>3. recent' \in [Limiters -> [Ages -> Nat]]
    <2>1. recent' = [by \in Limiters |-> recent'[by]]
      BY DEF Tick
    <2>. QED  BY <1>2, <2>1 DEF Admissions
  <1>4. /\ bucket' \in [count : 0..Max, left : 0..Window] /\ (bucket'.left = 0 <=> bucket'.count = 0)
        /\ bucket'.count = CountAfter(bucket.count, bucket.left)
        /\ bucket'.left = LeftAfter(bucket.left)
    <2>0. bucket' = IF bucket.left <= 1 THEN NoBucket ELSE [bucket EXCEPT !.left = @ - 1]
      BY DEF Tick
    <2>1. CASE bucket.left <= 1
      <3>1. bucket' = NoBucket /\ bucket.left \in {0, 1}
        BY <1>0, <2>0, <2>1
      <3>. QED  BY <1>0, <3>1 DEF NoBucket, CountAfter, LeftAfter
    <2>2. CASE bucket.left > 1
      <3>1. bucket' = [bucket EXCEPT !.left = @ - 1]
        BY <1>0, <2>0, <2>2
      <3>. QED  BY <1>0, <2>2, <3>1 DEF CountAfter, LeftAfter
    <2>. QED  BY <1>0, <2>1, <2>2
  <1>5. /\ counter' \in [count : 0..(Max + 1), left : (0..Window) \cup {NoExpiry}]
        /\ counter'.left = 0 <=> counter'.count = 0
        /\ counter'.left = LeftAfter(counter.left)
        /\ counter'.count = CountAfter(counter.count, counter.left)
    <2>0. counter' = CASE counter.left = NoExpiry -> counter
                       [] counter.left \in {0, 1} -> NoCounter
                       [] OTHER -> [counter EXCEPT !.left = @ - 1]
      BY DEF Tick
    <2>1. CASE counter.left = NoExpiry
      <3>1. counter' = counter
        BY <1>0, <2>0, <2>1
      <3>. QED  BY <1>0, <2>1, <3>1 DEF CountAfter, LeftAfter
    <2>2. CASE counter.left \in {0, 1}
      <3>1. counter' = NoCounter
        BY <1>0, <2>0, <2>2
      <3>. QED  BY <1>0, <2>2, <3>1 DEF NoCounter, CountAfter, LeftAfter
    <2>3. CASE counter.left \in 2..Window
      <3>1. counter' = [counter EXCEPT !.left = @ - 1]
        BY <1>0, <2>0, <2>3
      <3>. QED  BY <1>0, <2>3, <3>1 DEF CountAfter, LeftAfter
    <2>. QED  BY <1>0, <2>1, <2>2, <2>3
  <1>6. Counted' = CountAfter(Counted, counter.left)
    BY <1>0, <1>5 DEF Counted, CountAfter
  <1>7. TypeOK'
    BY <1>1, <1>3, <1>4, <1>5 DEF IInv, TypeOK
  <1>8. PendingOK'
    BY <1>0, <1>1, <1>5 DEF IInv, PendingOK, LeftAfter
  <1>9. MemoryOK'
    <2>1. PICK T : T = recent'["memory"]
      OBVIOUS
    <2>2. /\ T \in Admissions
          /\ \A age \in Ages : T[age] = IF age = 0 THEN 0 ELSE recent["memory"][age - 1]
      BY <1>2, <2>1 DEF Limiters
    <2>3. Bound(recent["memory"], 0, bucket.count, bucket.left, crashes["memory"])
      BY DEF IInv, MemoryOK
    <2>4. 0 <= crashes["memory"] + (IF bucket.left = NoExpiry THEN bucket.count ELSE 0)
      BY <1>0, Typed1
    <2>5. Bound(T, 0, CountAfter(bucket.count, bucket.left), LeftAfter(bucket.left), crashes["memory"])
      BY <1>0, <2>2, <2>3, <2>4, Typed1, BoundAged
    <2>. QED  BY <1>1, <1>4, <2>1, <2>5 DEF MemoryOK
  <1>10. RedisOK'
    <2>1. PICK T : T = recent'["redis"]
      OBVIOUS
    <2>2. /\ T \in Admissions
          /\ \A age \in Ages : T[age] = IF age = 0 THEN 0 ELSE recent["redis"][age - 1]
      BY <1>2, <2>1 DEF Limiters
    <2>3. Bound(recent["redis"], Cardinality(Pending), Counted, counter.left, crashes["redis"])
      BY DEF IInv, RedisOK
    <2>4. /\ Cardinality(Pending) <= crashes["redis"] + (IF counter.left = NoExpiry THEN Counted ELSE 0)
          /\ counter.left = 0 => Counted = 0
      <3>1. Cardinality(Pending) <= crashes["redis"] + (IF counter.left = NoExpiry THEN 1 ELSE 0)
        BY DEF IInv, PendingOK
      <3>2. counter.left = NoExpiry => Counted >= 1
        BY <1>0 DEF Counted
      <3>3. counter.left = 0 => Counted = 0
        BY <1>0 DEF Counted
      <3>. QED  BY <1>0, <3>1, <3>2, <3>3, Typed1
    <2>5. Bound(T, Cardinality(Pending), CountAfter(Counted, counter.left), LeftAfter(counter.left),
                crashes["redis"])
      BY <2>2, <2>3, <2>4, Typed1, BoundAged
    <2>. QED  BY <1>1, <1>5, <1>6, <2>1, <2>5 DEF RedisOK
  <1>. QED  BY <1>7, <1>8, <1>9, <1>10 DEF IInv

-----------------------------------------------------------------------------
(* The theorems.                                                            *)

LEMMA InitIInv == Init => IInv
  <1>. SUFFICES ASSUME Init
                PROVE  IInv
    OBVIOUS
  <1>1. /\ bucket = NoBucket /\ counter = NoCounter /\ pc = [p \in Reqs |-> "idle"]
        /\ recent = [by \in Limiters |-> [age \in Ages |-> 0]]
        /\ crashes = [by \in Limiters |-> 0]
    BY DEF Init
  <1>2. TypeOK
    BY <1>1, LimiterAssumption DEF TypeOK, NoBucket, NoCounter, Steps
  <1>3. Pending = {} /\ IsFiniteSet({}) /\ Cardinality({}) = 0
    BY <1>1, FS_EmptySet DEF Pending
  <1>4. crashes["memory"] = 0 /\ crashes["redis"] = 0
    BY <1>1 DEF Limiters
  <1>5. \A age \in Ages : recent["memory"][age] = 0 /\ recent["redis"][age] = 0
    BY <1>1 DEF Limiters
  <1>6. Max \in Nat /\ Counted = 0
    BY <1>1, LimiterAssumption DEF Counted, NoCounter
  <1>7. PendingOK
    BY <1>3, <1>4 DEF PendingOK
  <1>8. MemoryOK
    BY <1>1, <1>4, <1>5, <1>6 DEF MemoryOK, Bound, NoBucket
  <1>9. RedisOK
    BY <1>1, <1>3, <1>4, <1>5, <1>6 DEF RedisOK, Bound, NoCounter
  <1>. QED  BY <1>2, <1>7, <1>8, <1>9 DEF IInv

LEMMA NextKeeps == IInv /\ [Next]_vars => IInv'
  <1>1. ASSUME IInv, UNCHANGED vars
        PROVE  IInv'
    BY <1>1 DEF vars, IInv, TypeOK, PendingOK, Pending, MemoryOK, RedisOK, Counted
  <1>. QED
    BY <1>1, AllowKeeps, IncrKeeps, PExpireKeeps, PrimaryFailsKeeps, MemoryAllowKeeps, CrashKeeps,
       RedisRestartsKeeps, TickKeeps DEF Next, Continue

\* The inductive invariant: what each limiter admitted lately is accounted for by its present
\* count, by one past window, and by the windows that were cut short by a restart.
THEOREM Invariance == Spec => []IInv
  BY InitIInv, NextKeeps, PTL DEF Spec

\* The bucket and the counter stay in their ranges, and a counter that is gone counts nothing.
THEOREM Typed == Spec => []TypeOK
  BY Invariance, PTL DEF IInv

\* In any window the Redis limiter and the fallback each admit at most the requests of two windows
\* and of one more for each restart, however INCR, PEXPIRE, failures and restarts interleave.
THEOREM AdmissionsLimited == Spec => []AdmissionBounded
  <1>1. ASSUME IInv
        PROVE  AdmissionBounded
    <2>1. /\ Window - 1 \in Ages /\ Max \in Nat
          /\ recent["memory"] \in Admissions /\ recent["redis"] \in Admissions
          /\ Cardinality(Pending) \in Nat /\ Counted \in 0..Max /\ bucket.count \in 0..Max
      BY <1>1, Typed1, LimiterAssumption DEF Ages
    <2>2. ASSUME NEW by \in Limiters
          PROVE  /\ recent[by][Window - 1] \in Nat /\ crashes[by] \in Nat
                 /\ recent[by][Window - 1] <= Max + crashes[by] * Max + Max
      <3>1. crashes[by] * Max \in Nat /\ crashes[by] \in Nat
        BY <1>1, Typed1, Multiples DEF Limiters
      <3>2. PICK m \in Nat : m = crashes[by] * Max
        BY <3>1
      <3>3. recent[by][Window - 1] \in Nat
        BY <2>1 DEF Limiters, Admissions
      <3>4. CASE by = "memory"
        <4>1. recent[by][Window - 1] + 0 <= bucket.count + m + Max
          BY <1>1, <2>1, <3>2, <3>4 DEF IInv, MemoryOK, Bound
        <4>. QED  BY <2>1, <3>1, <3>2, <3>3, <4>1
      <3>5. CASE by = "redis"
        <4>1. recent[by][Window - 1] + Cardinality(Pending) <= Counted + m + Max
          BY <1>1, <2>1, <3>2, <3>5 DEF IInv, RedisOK, Bound
        <4>. QED  BY <2>1, <3>1, <3>2, <3>3, <4>1
      <3>. QED  BY <3>4, <3>5 DEF Limiters
    <2>3. \A k \in Nat : (2 + k) * Max = Max + k * Max + Max
      BY <2>1
    <2>. QED  BY <2>2, <2>3 DEF AdmissionBounded
  <1>. QED  BY <1>1, Invariance, PTL

===============================================================================
