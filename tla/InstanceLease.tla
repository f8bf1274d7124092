---------------------------- MODULE InstanceLease ----------------------------
(* What the instance runtime promises, without goroutines, mutex, table and *)
(* Docker: a user holds at most one lease of a challenge at a time, on a    *)
(* container that no other lease ever had; a lease only gets longer, by at  *)
(* most one time to live for each renewal that is counted; it ends when its *)
(* container is gone, and then for good.                                    *)
EXTENDS Integers

CONSTANTS
    Ids,     \* numbers of leases
    Keys,    \* the pairs of a user and a challenge
    NoKey,   \* the key of a lease that was not granted yet
    Boxes,   \* containers
    MaxTTL   \* the longest time to live of a challenge

VARIABLES
    time,    \* the clock
    leases,  \* leases[i]: lease i
    up       \* the containers that exist

leaseVars == <<time, leases, up>>

Blank == [state |-> "none", key |-> NoKey, box |-> 0, until |-> 0, renewed |-> 0]

LeaseInit ==
    /\ time = 0 /\ up = {}
    /\ leases = [i \in Ids |-> Blank]

Open(i) == leases[i].state = "open"

Latest(a, b) == IF a < b THEN b ELSE a

Grant(i, k, b, t) ==
    /\ leases[i] = Blank
    /\ \A j \in Ids : /\ Open(j) => leases[j].key # k
                      /\ leases[j].box # b
    /\ leases' = [leases EXCEPT ![i] =
                    [state |-> "open", key |-> k, box |-> b, until |-> t, renewed |-> 0]]
    /\ UNCHANGED <<time, up>>

Renew(i, t) ==
    /\ Open(i)
    /\ leases' = [leases EXCEPT ![i].until = t, ![i].renewed = @ + 1]
    /\ UNCHANGED <<time, up>>

End(i) ==
    /\ Open(i) /\ leases[i].box \notin up
    /\ leases' = [leases EXCEPT ![i].state = "ended"]
    /\ UNCHANGED <<time, up>>

\* Time passes; containers come and go, those of a lease only go.
World ==
    /\ time' >= time
    /\ up' \subseteq Boxes
    /\ \A i \in Ids : leases[i] # Blank => (leases[i].box \in up' => leases[i].box \in up)
    /\ UNCHANGED leases

LeaseNext ==
    \/ World
    \/ \E i \in Ids :
         \/ \E k \in Keys, b \in Boxes, t \in time..(time + MaxTTL) : Grant(i, k, b, t)
         \/ \E t \in leases[i].until..(Latest(leases[i].until, time) + MaxTTL) : Renew(i, t)
         \/ End(i)

LeaseSpec == LeaseInit /\ [][LeaseNext]_leaseVars

=============================================================================
