---------------------------- MODULE FlagSubmission ----------------------------
(* The path of a flag: handleSubmitFlag, game.Service.SubmitFlag and the    *)
(* statements of store.GameRepository behind it, run by concurrent request  *)
(* goroutines while administrators change the contest and the challenges,   *)
(* calls fail and the API process dies.                                     *)
(*                                                                          *)
(* One action is one SQL statement.  A request that the rate limiter        *)
(* refuses, or whose body is not JSON, changes nothing here.  A flag        *)
(* strategy (static, case_insensitive, regex) with its stored value is the  *)
(* set of inputs it accepts; every path that stores one validates it first, *)
(* so evaluateFlag meets no invalid one.  Time stamps are left out: rows    *)
(* are numbered in the order in which they were inserted.                   *)
EXTENDS Integers, Sequences, ContestPhase

CONSTANTS
    Users,       \* user ids
    Chals,       \* challenge ids
    Inputs,      \* what players type
    Challenges,  \* what an administrator may save for a challenge
    Points,      \* what a challenge may be worth
    NoPoints,    \* not worth anything yet
    Reqs,        \* request goroutines
    NoKey,       \* no (user, challenge) pair
    Settings,    \* what an administrator may write into the contest's status
    MaxSubs,     \* bound: submissions ever inserted
    MaxFaults    \* bound: statements that fail, and crashes of the API process

Keys      == Users \X Chals
Challenge == [published : BOOLEAN, points : Points, accepts : SUBSET Inputs]

ASSUME ChallengeAssumption == Challenges # {} /\ Challenges \subseteq Challenge

ASSUME SubmissionAssumption ==
    /\ NoKey \notin Keys /\ NoPoints \notin Points
    /\ MaxSubs \in Nat /\ MaxFaults \in Nat

VARIABLES
    status,   \* the status of the contest
    chals,    \* the challenges table
    subs,     \* the submissions table, in insertion order
    solves,   \* the solves table
    replies,  \* history: the replies to correct flags that were sent
    pc,       \* pc[p]: the next statement of goroutine p
    loc,      \* loc[p]: its local variables
    faults    \* failures so far

vars == <<status, chals, subs, solves, replies, pc, loc, faults>>
aside == <<status, chals, faults>>

Submission == [key : Keys, correct : BOOLEAN]
Solve == [key : Keys, sub : 1..MaxSubs, points : Points]
\* SubmitResult of a correct flag: Solved with its AwardedPoints, or not.
Reply == [key : Keys, sub : 1..MaxSubs, solved : BOOLEAN, points : Points \cup {NoPoints}]
Loc   == [key : Keys \cup {NoKey}, input : Inputs \cup {NoKey},
          points : Points \cup {NoPoints}, correct : BOOLEAN, sub : 0..MaxSubs]

NoLoc == [key |-> NoKey, input |-> NoKey, points |-> NoPoints, correct |-> FALSE, sub |-> 0]

Steps == {"idle", "get", "submit", "has", "solve"}

\* A goroutine knows its key once it runs, the points once it has read the
\* challenge, and its submission once that is inserted.
TypeOK ==
    /\ status \in Statuses
    /\ chals \in [Chals -> Challenges]
    /\ subs \in Seq(Submission) /\ Len(subs) <= MaxSubs
    /\ solves \subseteq Solve
    /\ replies \subseteq Reply
    /\ pc \in [Reqs -> Steps]
    /\ loc \in [Reqs -> Loc]
    /\ faults \in 0..MaxFaults
    /\ \A p \in Reqs :
         /\ pc[p] # "idle" => loc[p].key \in Keys
         /\ pc[p] \in {"submit", "has", "solve"} => loc[p].points \in Points
         /\ pc[p] \in {"has", "solve"} => loc[p].sub \in 1..Len(subs)

Init ==
    /\ status \in {NormalizeStatus(value) : value \in Settings}
    /\ chals \in [Chals -> Challenges]
    /\ subs = <<>> /\ solves = {} /\ replies = {}
    /\ pc = [p \in Reqs |-> "idle"]
    /\ loc = [p \in Reqs |-> NoLoc]
    /\ faults = 0

-----------------------------------------------------------------------------
Goto(p, from, to) == pc[p] = from /\ pc' = [pc EXCEPT ![p] = to]

Return(p) ==
    /\ pc' = [pc EXCEPT ![p] = "idle"]
    /\ loc' = [loc EXCEPT ![p] = NoLoc]

Solved(k) == \E s \in solves : s.key = k

RequireContestPhase(capability) == capability \in Phase(status)

\* The contest is read once; the rest of the request trusts it.
Admit(p, k, input) ==
    /\ RequireContestPhase("submission")
    /\ Goto(p, "idle", "get")
    /\ loc' = [loc EXCEPT ![p] = [NoLoc EXCEPT !.key = k, !.input = input]]
    /\ UNCHANGED <<subs, solves, replies>> /\ UNCHANGED aside

\* GetChallenge finds published challenges only; evaluateFlag then compares
\* the input with the flag that was read.
GetChallenge(p) ==
    /\ pc[p] = "get"
    /\ LET ch == chals[loc[p].key[2]] IN
         \/ /\ ch.published
            /\ Goto(p, "get", "submit")
            /\ loc' = [loc EXCEPT ![p].points = ch.points,
                                  ![p].correct = loc[p].input \in ch.accepts]
         \/ ~ch.published /\ Return(p)
    /\ UNCHANGED <<subs, solves, replies>> /\ UNCHANGED aside

InsertSubmission(p) ==
    /\ Len(subs) < MaxSubs
    /\ subs' = Append(subs, [key |-> loc[p].key, correct |-> loc[p].correct])

\* Fault: the id of the inserted submission is not returned.
SubmissionWithoutId(p) ==
    /\ InsertSubmission(p)
    /\ \/ loc[p].correct /\ Goto(p, "submit", "has") /\ UNCHANGED loc
       \/ ~loc[p].correct /\ pc[p] = "submit" /\ Return(p)
    /\ UNCHANGED <<solves, replies>> /\ UNCHANGED aside

\* A wrong flag is answered once it is recorded.
CreateSubmission(p) ==
    /\ InsertSubmission(p)
    /\ \/ /\ loc[p].correct /\ Goto(p, "submit", "has")
          /\ loc' = [loc EXCEPT ![p].sub = Len(subs')]
       \/ ~loc[p].correct /\ pc[p] = "submit" /\ Return(p)
    /\ UNCHANGED <<solves, replies>> /\ UNCHANGED aside

\* The reply to a correct flag.
Answer(p, solved) ==
    replies' = replies \cup
        {[key |-> loc[p].key, sub |-> loc[p].sub, solved |-> solved,
          points |-> IF solved THEN loc[p].points ELSE NoPoints]}

\* Fault: the look for a solve looks at the submissions instead.
HasSolvedBySubmission(p) ==
    /\ LET seen == \E i \in 1..Len(subs) : /\ subs[i].key = loc[p].key
                                           /\ subs[i].correct /\ i # loc[p].sub
       IN \/ seen /\ pc[p] = "has" /\ Answer(p, FALSE) /\ Return(p)
          \/ ~seen /\ Goto(p, "has", "solve") /\ UNCHANGED <<replies, loc>>
    /\ UNCHANGED <<subs, solves>> /\ UNCHANGED aside

HasSolved(p) ==
    /\ \/ Solved(loc[p].key) /\ pc[p] = "has" /\ Answer(p, FALSE) /\ Return(p)
       \/ ~Solved(loc[p].key) /\ Goto(p, "has", "solve") /\ UNCHANGED <<replies, loc>>
    /\ UNCHANGED <<subs, solves>> /\ UNCHANGED aside

NewSolve(p) == [key |-> loc[p].key, sub |-> loc[p].sub, points |-> loc[p].points]

\* Fault: the solve names the latest submission instead of the request's own.
InsertSolveLatest(p) ==
    solves' = IF Solved(loc[p].key) THEN solves
                                    ELSE solves \cup {[NewSolve(p) EXCEPT !.sub = Len(subs)]}

\* Fault: the solve takes the points the challenge has by now.
InsertSolveCurrent(p) ==
    solves' = IF Solved(loc[p].key) THEN solves
              ELSE solves \cup {[NewSolve(p) EXCEPT !.points = chals[loc[p].key[2]].points]}

\* Fault: without the unique constraint on (challenge_id, user_id).
InsertSolveAlways(p) == solves' = solves \cup {NewSolve(p)}

\* Fault: ON CONFLICT DO UPDATE.
UpsertSolve(p) ==
    solves' = {s \in solves : s.key # loc[p].key} \cup {NewSolve(p)}

\* INSERT ... ON CONFLICT (challenge_id, user_id) DO NOTHING.
InsertSolve(p) ==
    solves' = IF Solved(loc[p].key) THEN solves ELSE solves \cup {NewSolve(p)}

\* A conflict is answered like an insertion.
CreateSolve(p) ==
    /\ pc[p] = "solve" /\ Return(p)
    /\ InsertSolve(p) /\ Answer(p, TRUE)
    /\ UNCHANGED subs /\ UNCHANGED aside

-----------------------------------------------------------------------------
(* Failures, administrators.                                               *)

Fault == faults < MaxFaults /\ faults' = faults + 1

\* A statement fails and has no effect: the handler answers with an error.
CallFails(p) ==
    /\ Fault /\ pc[p] # "idle" /\ Return(p)
    /\ UNCHANGED <<status, chals, subs, solves, replies>>

\* A statement commits and its reply is lost.
ReplyLost(p) ==
    /\ Fault /\ Return(p)
    /\ \/ pc[p] = "submit" /\ InsertSubmission(p) /\ UNCHANGED solves
       \/ pc[p] = "solve" /\ InsertSolve(p) /\ UNCHANGED subs
    /\ UNCHANGED <<status, chals, replies>>

Crash ==
    /\ Fault
    /\ pc' = [p \in Reqs |-> "idle"]
    /\ loc' = [p \in Reqs |-> NoLoc]
    /\ UNCHANGED <<status, chals, subs, solves, replies>>

\* contest.Service.Update stores the normalized status.
UpdateContest(value) ==
    /\ status' = NormalizeStatus(value)
    /\ UNCHANGED <<chals, subs, solves, replies, pc, loc, faults>>

UpdateChallenge(c, ch) ==
    /\ chals' = [chals EXCEPT ![c] = ch]
    /\ UNCHANGED <<status, subs, solves, replies, pc, loc, faults>>

-----------------------------------------------------------------------------
Continue(p) == GetChallenge(p) \/ CreateSubmission(p) \/ HasSolved(p) \/ CreateSolve(p)

Next ==
    \/ \E p \in Reqs, k \in Keys, input \in Inputs : Admit(p, k, input)
    \/ \E p \in Reqs : Continue(p) \/ CallFails(p) \/ ReplyLost(p)
    \/ Crash
    \/ \E value \in Settings : UpdateContest(value)
    \/ \E c \in Chals, ch \in Challenges : UpdateChallenge(c, ch)

Spec == Init /\ [][Next]_vars

\* A handler that has begun runs to its end: every statement has an answer.
FairSpec == Spec /\ \A p \in Reqs : WF_vars(Continue(p))

-----------------------------------------------------------------------------
(* Properties                                                              *)

\* A solve is backed by a correct submission of the same user to the same
\* challenge, and no submission backs two solves, however the requests of a
\* user interleave.  (SubmitFlag passes its own submissionID to CreateSolve.)
SolveBacked ==
    \A s \in solves :
        /\ s.sub \in 1..Len(subs) /\ subs[s.sub] = [key |-> s.key, correct |-> TRUE]
        /\ \A t \in solves : t.sub = s.sub => t = s

\* A user solves a challenge at most once although HasSolved and CreateSolve
\* are two statements.
SolvedOnce == \A s, t \in solves : s.key = t.key => s = t

\* A user who was told that the flag is accepted has the solve, whatever
\* failed, crashed or was changed before and after the reply.
AcceptedIsRecorded == \A r \in replies : Solved(r.key)

\* The request that won the solve told its user the points that count.
WinnerToldPoints ==
    \A r \in replies, s \in solves : r.solved /\ r.sub = s.sub => r.points = s.points

\* Points are earned once and for good: SubmitFlag implements the ledger.
Ledger ==
    INSTANCE SolveLedger WITH
        ledger   <- [k \in Keys |-> IF Solved(k) THEN (CHOOSE s \in solves : s.key = k).points
                                                 ELSE NoPoints],
        accepted <- {r.key : r \in replies}

ImplementsLedger == Ledger!LedgerSpec

Accepting(k) == \E p \in Reqs : pc[p] \in {"has", "solve"} /\ loc[p].key = k

\* A correct submission leads to the solve unless its statements fail, even
\* if the contest closes, the challenge is withdrawn or an earlier correct
\* submission failed on its way.
CorrectIsSolved ==
    \A k \in Keys, n \in 0..MaxFaults :
        Accepting(k) /\ faults = n ~> Solved(k) \/ faults > n

=============================================================================
