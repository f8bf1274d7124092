----------------------------- MODULE RateLimiter -----------------------------
(* One key of the limiters that newAppLimiters builds: a counter in Redis,  *)
(* and a bucket in the memory of the API process for the requests whose     *)
(* Redis commands fail.  Keys never meet, so one key is enough.  A limiter  *)
(* with no window or no maximum admits everything and is not modelled.      *)
(*                                                                          *)
(* Time passes in ticks; windowEnd and the expiry of the Redis key are kept *)
(* as the ticks that are left.                                              *)
EXTENDS Integers

CONSTANTS
    Reqs,        \* request goroutines
    Window,      \* ticks of a window
    Max,         \* requests per window
    Redis,       \* is REDIS_ADDR set?
    Faults,      \* the failures that may happen, see FaultKinds
    MaxCrashes   \* bound: crashes of the API process, and restarts of Redis

FaultKinds ==
    {"dial",     \* Redis cannot be reached, or INCR fails with no effect
     "expire",   \* PEXPIRE fails with no effect
     "lost"}     \* a command is executed and its reply is lost

ASSUME LimiterAssumption ==
    /\ Window \in Nat \ {0} /\ Max \in Nat \ {0} /\ MaxCrashes \in Nat
    /\ Redis \in BOOLEAN /\ Faults \subseteq FaultKinds

VARIABLES
    bucket,   \* the bucket in memory; nothing is left of one that has ended
    counter,  \* the counter in Redis
    pc,       \* pc[p]: the next step of goroutine p
    recent,   \* history: recent[by][age]: requests admitted up to age ticks ago
    crashes   \* crashes[by] so far: the API process with its memory, or Redis

vars == <<bucket, counter, pc, recent, crashes>>

NoExpiry == -1
Limiters == {"memory", "redis"}
Ages     == 0..(Window - 1)
Steps    == {"idle", "incr", "pexpire", "fallback"}

\* Above Max every count is refused alike, so the count stops at Max + 1.
TypeOK ==
    /\ bucket \in [count : 0..Max, left : 0..Window]
    /\ counter \in [count : 0..(Max + 1), left : (0..Window) \cup {NoExpiry}]
    /\ pc \in [Reqs -> Steps]
    /\ recent \in [Limiters -> [Ages -> Nat]]
    /\ crashes \in [Limiters -> 0..MaxCrashes]
    /\ bucket.left = 0 <=> bucket.count = 0
    /\ counter.left = 0 <=> counter.count = 0

NoBucket  == [count |-> 0, left |-> 0]
NoCounter == [count |-> 0, left |-> 0]

Init ==
    /\ bucket = NoBucket /\ counter = NoCounter
    /\ pc = [p \in Reqs |-> "idle"]
    /\ recent = [by \in Limiters |-> [age \in Ages |-> 0]]
    /\ crashes = [by \in Limiters |-> 0]

-----------------------------------------------------------------------------
Goto(p, from, to) == pc[p] = from /\ pc' = [pc EXCEPT ![p] = to]

Grant(by) == recent' = [recent EXCEPT ![by] = [age \in Ages |-> @[age] + 1]]

\* enforceRateLimit
Allow(p) ==
    /\ Goto(p, "idle", IF Redis THEN "incr" ELSE "fallback")
    /\ UNCHANGED <<bucket, counter, recent, crashes>>

\* What INCR makes of the counter: a missing key counts 1 and never expires.
Increment ==
    counter' = IF counter.count = 0 THEN [count |-> 1, left |-> NoExpiry]
               ELSE [counter EXCEPT !.count = IF @ > Max THEN @ ELSE @ + 1]

Incr(p) ==
    /\ Increment
    /\ \/ counter'.count = 1 /\ Goto(p, "incr", "pexpire") /\ UNCHANGED recent
       \/ counter'.count \in 2..Max /\ Goto(p, "incr", "idle") /\ Grant("redis")
       \/ counter'.count > Max /\ Goto(p, "incr", "idle") /\ UNCHANGED recent
    /\ UNCHANGED <<bucket, crashes>>

\* PEXPIRE of a key that is gone answers 0, which is no error.
Expire ==
    counter' = IF counter.count = 0 THEN counter ELSE [counter EXCEPT !.left = Window]

\* Fault: PEXPIRE is taken to find the key.
PExpireUnseen(p) ==
    /\ counter' = [counter EXCEPT !.left = Window]
    /\ Goto(p, "pexpire", "idle") /\ Grant("redis")
    /\ UNCHANGED <<bucket, crashes>>

PExpire(p) ==
    /\ Expire /\ Goto(p, "pexpire", "idle") /\ Grant("redis")
    /\ UNCHANGED <<bucket, crashes>>

\* Any error of the primary limiter leads to the fallback.
PrimaryFails(p) ==
    /\ \/ "dial" \in Faults /\ Goto(p, "incr", "fallback") /\ UNCHANGED counter
       \/ "lost" \in Faults /\ Goto(p, "incr", "fallback") /\ Increment
       \/ "expire" \in Faults /\ Goto(p, "pexpire", "fallback") /\ UNCHANGED counter
       \/ "lost" \in Faults /\ Goto(p, "pexpire", "fallback") /\ Expire
    /\ UNCHANGED <<bucket, recent, crashes>>

\* Fault: the bucket admits one request more.
MemoryAllowOneMore(p) ==
    /\ Goto(p, "fallback", "idle")
    /\ \/ /\ bucket.left = 0 /\ Grant("memory")
          /\ bucket' = [count |-> 1, left |-> Window]
       \/ /\ bucket.left > 0 /\ bucket.count <= Max /\ Grant("memory")
          /\ bucket' = [bucket EXCEPT !.count = IF @ < Max THEN @ + 1 ELSE @]
    /\ UNCHANGED <<counter, crashes>>

\* memoryRateLimiter.Allow, under its mutex.
MemoryAllow(p) ==
    /\ Goto(p, "fallback", "idle")
    /\ \/ /\ bucket.left = 0 /\ Grant("memory")
          /\ bucket' = [count |-> 1, left |-> Window]
       \/ /\ bucket.left > 0 /\ bucket.count < Max /\ Grant("memory")
          /\ bucket' = [bucket EXCEPT !.count = @ + 1]
       \/ bucket.left > 0 /\ bucket.count >= Max /\ UNCHANGED <<bucket, recent>>
    /\ UNCHANGED <<counter, crashes>>

-----------------------------------------------------------------------------
Dies(by) == crashes[by] < MaxCrashes /\ crashes' = [crashes EXCEPT ![by] = @ + 1]

\* The API process dies: handlers and buckets are gone, Redis is not.
Crash ==
    /\ Dies("memory")
    /\ bucket' = NoBucket
    /\ pc' = [p \in Reqs |-> "idle"]
    /\ UNCHANGED <<counter, recent>>

\* Redis restarts and forgets the key: it is not asked to keep its data.
RedisRestarts ==
    /\ Redis /\ Dies("redis")
    /\ counter' = NoCounter
    /\ UNCHANGED <<bucket, pc, recent>>

\* A window that has no time left ends.
Tick ==
    /\ bucket' = IF bucket.left <= 1 THEN NoBucket ELSE [bucket EXCEPT !.left = @ - 1]
    /\ counter' = CASE counter.left = NoExpiry -> counter
                    [] counter.left \in {0, 1} -> NoCounter
                    [] OTHER -> [counter EXCEPT !.left = @ - 1]
    /\ recent' = [by \in Limiters |->
                    [age \in Ages |-> IF age = 0 THEN 0 ELSE recent[by][age - 1]]]
    /\ UNCHANGED <<pc, crashes>>

Continue(p) == Incr(p) \/ PExpire(p) \/ PrimaryFails(p) \/ MemoryAllow(p)

Next == Crash \/ RedisRestarts \/ Tick \/ \E p \in Reqs : Allow(p) \/ Continue(p)

Spec == Init /\ [][Next]_vars

\* A Redis command is answered or times out (dialTimeout is also the deadline
\* of the connection), and time passes.
FairSpec == Spec /\ WF_vars(Tick) /\ \A p \in Reqs : WF_vars(Continue(p))

-----------------------------------------------------------------------------
(* Properties                                                              *)

\* In any Window ticks a limiter admits at most the requests of the two
\* windows that may overlap them, and of one more for each time it forgot its
\* count, however INCR and PEXPIRE interleave; with the fallback the limits
\* add up and no more.
AdmissionBounded ==
    \A by \in Limiters : recent[by][Window - 1] <= (2 + crashes[by]) * Max

\* A limiter that refuses requests admits some again.
WindowEnds ==
    /\ counter.count >= Max ~> counter.count < Max
    /\ bucket.count >= Max ~> bucket.count < Max

=============================================================================
