----------------------------- MODULE SolveLedger -----------------------------
(* What flag submission promises: a ledger in which a user earns the points *)
(* of a challenge once, for good, and is told that a flag was accepted only *)
(* when the ledger shows it.                                                *)
CONSTANTS
    Users,    \* user ids
    Chals,    \* challenge ids
    Points,   \* the points a challenge may be worth
    NoPoints  \* nothing earned yet

VARIABLES
    ledger,   \* ledger[<<u, c>>]: the points user u earned with challenge c
    accepted  \* the pairs <<u, c>> for which a flag was reported as accepted

ledgerVars == <<ledger, accepted>>

Pairs == Users \X Chals

LedgerInit ==
    /\ ledger = [k \in Pairs |-> NoPoints]
    /\ accepted = {}

Earned(k) == ledger[k] # NoPoints

\* Points are credited once; the user may not get to know it.
Credit(k, points) ==
    /\ ~Earned(k)
    /\ ledger' = [ledger EXCEPT ![k] = points]
    /\ accepted' \in {accepted, accepted \cup {k}}

\* The user is told (again) about points that were earned.
Confirm(k) ==
    /\ Earned(k)
    /\ accepted' = accepted \cup {k}
    /\ UNCHANGED ledger

LedgerNext ==
    \E k \in Pairs : Confirm(k) \/ \E points \in Points : Credit(k, points)

LedgerSpec == LedgerInit /\ [][LedgerNext]_ledgerVars

=============================================================================
