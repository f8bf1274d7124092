------------------------ MODULE FlagSubmissionProofs ------------------------
(* Theorems about FlagSubmission, for every value of its constants.        *)
EXTENDS FlagSubmission, TLAPS

-----------------------------------------------------------------------------
(* Type correctness.                                                       *)

\* A goroutine's step, once the table of submissions has its type and has
\* not become shorter: the three ways in which pc and loc change.

LEMMA NoLocType == NoLoc \in Loc
BY SubmissionAssumption DEF NoLoc, Loc

ControlOK ==
    /\ pc \in [Reqs -> Steps]
    /\ loc \in [Reqs -> Loc]
    /\ \A p \in Reqs :
         /\ pc[p] # "idle" => loc[p].key \in Keys
         /\ pc[p] \in {"submit", "has", "solve"} => loc[p].points \in Points
         /\ pc[p] \in {"has", "solve"} => loc[p].sub \in 1..Len(subs)

DataOK ==
    /\ status \in Statuses
    /\ chals \in [Chals -> Challenges]
    /\ subs \in Seq(Submission) /\ Len(subs) <= MaxSubs
    /\ solves \subseteq Solve
    /\ replies \subseteq Reply
    /\ faults \in 0..MaxFaults

LEMMA TypeParts == /\ TypeOK <=> ControlOK /\ DataOK
                   /\ TypeOK' <=> ControlOK' /\ DataOK'
BY DEF TypeOK, ControlOK, DataOK

LEMMA ReturnType ==
    ASSUME TypeOK, NEW p \in Reqs, Return(p), Len(subs) \in Nat, Len(subs') \in Nat,
           Len(subs) <= Len(subs')
    PROVE  ControlOK'
BY NoLocType DEF TypeOK, ControlOK, Return, Steps

LEMMA MoveType ==
    ASSUME TypeOK, NEW p \in Reqs, NEW from, NEW to \in Steps, NEW l \in Loc,
           Goto(p, from, to), loc' = [loc EXCEPT ![p] = l],
           Len(subs) \in Nat, Len(subs') \in Nat, Len(subs) <= Len(subs'),
           to # "idle" => l.key \in Keys,
           to \in {"submit", "has", "solve"} => l.points \in Points,
           to \in {"has", "solve"} => l.sub \in 1..Len(subs')
    PROVE  ControlOK'
BY DEF TypeOK, ControlOK, Goto

LEMMA InsertType ==
    ASSUME TypeOK, NEW p \in Reqs, pc[p] = "submit", InsertSubmission(p)
    PROVE  /\ subs' \in Seq(Submission) /\ Len(subs') = Len(subs) + 1
           /\ Len(subs') <= MaxSubs /\ Len(subs) \in Nat
           /\ \A i \in 1..Len(subs) : subs'[i] = subs[i]
           /\ subs'[Len(subs')] = [key |-> loc[p].key, correct |-> loc[p].correct]
<1> DEFINE new == [key |-> loc[p].key, correct |-> loc[p].correct]
<1>1. new \in Submission
  BY DEF TypeOK, Loc, Submission
<1>2. subs \in Seq(Submission) /\ Len(subs) \in Nat
  BY DEF TypeOK
<1>3. subs' = Append(subs, new) /\ Len(subs) < MaxSubs /\ MaxSubs \in Nat
  BY SubmissionAssumption DEF InsertSubmission
<1> HIDE DEF new
<1>4. subs' \in Seq(Submission) /\ Len(subs') = Len(subs) + 1
  BY <1>1, <1>2, <1>3
<1>5. (\A i \in 1..Len(subs) : subs'[i] = subs[i]) /\ subs'[Len(subs) + 1] = new
  BY <1>1, <1>2, <1>3
<1>6. QED
  BY <1>2, <1>3, <1>4, <1>5 DEF new

LEMMA LenSubs == TypeOK => Len(subs) \in Nat /\ MaxSubs \in Nat
BY SubmissionAssumption DEF TypeOK

LEMMA AnswerType ==
    ASSUME TypeOK, NEW p \in Reqs, pc[p] \in {"has", "solve"}, NEW b \in BOOLEAN, Answer(p, b)
    PROVE  replies' \subseteq Reply
<1>1. /\ loc[p].key \in Keys /\ loc[p].sub \in 1..MaxSubs
      /\ (IF b THEN loc[p].points ELSE NoPoints) \in Points \cup {NoPoints}
  BY LenSubs DEF TypeOK
<1>2. QED
  BY <1>1 DEF TypeOK, Answer, Reply

LEMMA SolveType ==
    ASSUME TypeOK, NEW p \in Reqs, pc[p] = "solve", InsertSolve(p)
    PROVE  solves' \subseteq Solve
<1>1. loc[p].key \in Keys /\ loc[p].sub \in 1..MaxSubs /\ loc[p].points \in Points
  BY LenSubs DEF TypeOK
<1>2. QED
  BY <1>1 DEF TypeOK, InsertSolve, NewSolve, Solve

LEMMA InitType == Init => TypeOK
BY NoLocType, SubmissionAssumption DEF Init, TypeOK, Steps, NormalizeStatus, Statuses

LEMMA RequestType ==
    ASSUME TypeOK, NEW p \in Reqs, NEW k \in Keys, NEW input \in Inputs, Admit(p, k, input)
    PROVE  TypeOK'
<1> DEFINE l == [NoLoc EXCEPT !.key = k, !.input = input]
<1>1. l \in Loc /\ l.key \in Keys
  BY NoLocType DEF NoLoc, Loc
<1>2. Goto(p, "idle", "get") /\ loc' = [loc EXCEPT ![p] = l] /\ subs' = subs
  BY DEF Admit
<1> HIDE DEF l
<1>3. ControlOK'
  <2>1. "get" \in Steps /\ "get" \notin {"submit", "has", "solve"}
    BY DEF Steps
  <2>2. Len(subs) \in Nat /\ Len(subs') \in Nat /\ Len(subs) <= Len(subs')
    BY <1>2, LenSubs
  <2>3. QED
    BY <1>1, <1>2, <2>1, <2>2, MoveType
<1>4. DataOK'
  BY TypeParts DEF DataOK, Admit, aside
<1>5. QED
  BY <1>3, <1>4, TypeParts

LEMMA ContinueType ==
    ASSUME TypeOK, NEW p \in Reqs, Continue(p)
    PROVE  TypeOK'
<1>1. CASE GetChallenge(p)
  <2> DEFINE ch == chals[loc[p].key[2]]
             l  == [loc[p] EXCEPT !.points = ch.points, !.correct = loc[p].input \in ch.accepts]
  <2>1. ch \in Challenge /\ loc[p] \in Loc /\ loc[p].key \in Keys
    BY <1>1, ChallengeAssumption DEF TypeOK, GetChallenge, Keys
  <2>2. l \in Loc /\ l.key \in Keys /\ l.points \in Points
    <3>1. ch.points \in Points /\ (loc[p].input \in ch.accepts) \in BOOLEAN
      BY <2>1 DEF Challenge
    <3>2. QED
      BY <2>1, <3>1 DEF Loc
  <2>3. \/ Goto(p, "get", "submit") /\ loc' = [loc EXCEPT ![p] = l]
        \/ Return(p)
    BY <1>1, <2>1 DEF GetChallenge, TypeOK
  <2> HIDE DEF l
  <2>4. subs' = subs
    BY <1>1 DEF GetChallenge
  <2>5. ControlOK'
    <3>1. "submit" \in Steps /\ "submit" \notin {"has", "solve"}
      BY DEF Steps
    <3>2. Len(subs) \in Nat /\ Len(subs') \in Nat /\ Len(subs) <= Len(subs')
      BY <2>4, LenSubs
    <3>3. QED
      BY <2>2, <2>3, <3>1, <3>2, MoveType, ReturnType
  <2>6. DataOK'
    BY <1>1, TypeParts DEF DataOK, GetChallenge, aside
  <2>7. QED
    BY <2>5, <2>6, TypeParts
<1>2. CASE CreateSubmission(p)
  <2> DEFINE l == [loc[p] EXCEPT !.sub = Len(subs')]
  <2>1. pc[p] = "submit"
    BY <1>2 DEF CreateSubmission, Goto
  <2>2. /\ subs' \in Seq(Submission) /\ Len(subs') = Len(subs) + 1
        /\ Len(subs') <= MaxSubs /\ Len(subs) \in Nat
    BY <1>2, <2>1, InsertType DEF CreateSubmission
  <2>3. /\ l \in Loc /\ l.key \in Keys /\ l.points \in Points
        /\ l.sub \in 1..Len(subs')
    <3>1. Len(subs') \in 0..MaxSubs /\ Len(subs') \in 1..Len(subs')
      BY <2>2, LenSubs
    <3>2. loc[p] \in Loc /\ loc[p].key \in Keys /\ loc[p].points \in Points
      BY <2>1 DEF TypeOK
    <3>3. l \in Loc
      BY <3>1, <3>2 DEF Loc
    <3>4. l.key = loc[p].key /\ l.points = loc[p].points /\ l.sub = Len(subs')
      BY <3>2 DEF Loc
    <3>5. QED
      BY <3>1, <3>2, <3>3, <3>4
  <2>4. \/ Goto(p, "submit", "has") /\ loc' = [loc EXCEPT ![p] = l]
        \/ Return(p)
    BY <1>2 DEF CreateSubmission, TypeOK
  <2> HIDE DEF l
  <2>5. ControlOK'
    <3>1. "has" \in Steps
      BY DEF Steps
    <3>2. Len(subs') \in Nat /\ Len(subs) <= Len(subs')
      BY <2>2
    <3>3. QED
      BY <2>2, <2>3, <2>4, <3>1, <3>2, MoveType, ReturnType
  <2>6. DataOK'
    BY <1>2, <2>2, TypeParts DEF DataOK, CreateSubmission, aside
  <2>7. QED
    BY <2>5, <2>6, TypeParts
<1>3. CASE HasSolved(p)
  <2>1. pc[p] = "has" /\ subs' = subs
    BY <1>3 DEF HasSolved, Goto
  <2>2. ControlOK'
    <3>1. CASE Return(p)
      BY <2>1, <3>1, LenSubs, ReturnType
    <3>2. CASE Goto(p, "has", "solve") /\ UNCHANGED loc
      BY <2>1, <3>2 DEF TypeOK, ControlOK, Goto, Steps
    <3>3. QED
      BY <1>3, <3>1, <3>2 DEF HasSolved
  <2>3. replies' \subseteq Reply
    BY <1>3, <2>1, AnswerType DEF HasSolved, TypeOK
  <2>4. DataOK'
    BY <1>3, <2>3, TypeParts DEF DataOK, HasSolved, aside
  <2>5. QED
    BY <2>2, <2>4, TypeParts
<1>4. CASE CreateSolve(p)
  <2>1. pc[p] = "solve" /\ subs' = subs /\ Return(p)
    BY <1>4 DEF CreateSolve
  <2>2. ControlOK'
    BY <2>1, LenSubs, ReturnType
  <2>3. replies' \subseteq Reply /\ solves' \subseteq Solve
    BY <1>4, <2>1, AnswerType, SolveType DEF CreateSolve
  <2>4. DataOK'
    BY <1>4, <2>3, TypeParts DEF DataOK, CreateSolve, aside
  <2>5. QED
    BY <2>2, <2>4, TypeParts
<1>5. QED
  BY <1>1, <1>2, <1>3, <1>4 DEF Continue

LEMMA FailureType ==
    ASSUME TypeOK, NEW p \in Reqs, CallFails(p) \/ ReplyLost(p)
    PROVE  TypeOK'
<1>1. CASE CallFails(p)
  <2>1. ControlOK'
    BY <1>1, LenSubs, ReturnType DEF CallFails
  <2>2. DataOK'
    BY <1>1, TypeParts, SubmissionAssumption DEF DataOK, CallFails, Fault
  <2>3. QED
    BY <2>1, <2>2, TypeParts
<1>2. CASE ReplyLost(p) /\ pc[p] = "submit" /\ InsertSubmission(p) /\ UNCHANGED solves
  <2>1. /\ subs' \in Seq(Submission) /\ Len(subs') = Len(subs) + 1
        /\ Len(subs') <= MaxSubs /\ Len(subs) \in Nat
    BY <1>2, InsertType
  <2>2. ControlOK'
    BY <1>2, <2>1, ReturnType DEF ReplyLost
  <2>3. DataOK'
    BY <1>2, <2>1, TypeParts, SubmissionAssumption DEF DataOK, ReplyLost, Fault
  <2>4. QED
    BY <2>2, <2>3, TypeParts
<1>3. CASE ReplyLost(p) /\ pc[p] = "solve" /\ InsertSolve(p) /\ UNCHANGED subs
  <2>1. ControlOK'
    BY <1>3, LenSubs, ReturnType DEF ReplyLost
  <2>2. DataOK'
    BY <1>3, SolveType, TypeParts, SubmissionAssumption DEF DataOK, ReplyLost, Fault
  <2>3. QED
    BY <2>1, <2>2, TypeParts
<1>4. QED
  BY <1>1, <1>2, <1>3 DEF ReplyLost

LEMMA EnvironmentType ==
    ASSUME TypeOK,
           \/ Crash
           \/ \E value \in Settings : UpdateContest(value)
           \/ \E c \in Chals, ch \in Challenges : UpdateChallenge(c, ch)
    PROVE  TypeOK'
<1>1. CASE Crash
  BY <1>1, NoLocType, SubmissionAssumption DEF Crash, Fault, TypeOK, Steps
<1>2. ASSUME NEW value, UpdateContest(value) PROVE TypeOK'
  BY <1>2 DEF UpdateContest, NormalizeStatus, Statuses, TypeOK
<1>3. ASSUME NEW c \in Chals, NEW ch \in Challenges, UpdateChallenge(c, ch) PROVE TypeOK'
  BY <1>3 DEF UpdateChallenge, TypeOK
<1>4. QED
  BY <1>1, <1>2, <1>3

LEMMA NextType == TypeOK /\ [Next]_vars => TypeOK'
<1> SUFFICES ASSUME TypeOK, [Next]_vars PROVE TypeOK'
  OBVIOUS
<1>1. CASE UNCHANGED vars
  BY <1>1 DEF vars, TypeOK
<1>2. QED
  BY <1>1, RequestType, ContinueType, FailureType, EnvironmentType DEF Next

\* Every variable keeps its type, and a goroutine has the key, the points and
\* the submission that its next statement uses.
THEOREM TypeCorrect == Spec => []TypeOK
BY InitType, NextType, PTL DEF Spec

-----------------------------------------------------------------------------
(* The safety invariants.  None of them is inductive alone: what a request  *)
(* in flight holds must be its own.                                         *)

InFlight(p) == pc[p] \in {"has", "solve"}

\* A request in flight names a correct submission for its key, which no
\* other request in flight, no solve and no reply names.
OwnSubmission ==
    \A p \in Reqs : InFlight(p) =>
        /\ subs[loc[p].sub] = [key |-> loc[p].key, correct |-> TRUE]
        /\ \A q \in Reqs : InFlight(q) /\ loc[q].sub = loc[p].sub => q = p
        /\ \A s \in solves : s.sub # loc[p].sub
        /\ \A r \in replies : r.sub # loc[p].sub

RepliesNumbered == \A r \in replies : r.sub \in 1..Len(subs)

Safety == SolveBacked /\ SolvedOnce /\ AcceptedIsRecorded /\ WinnerToldPoints

IInv == TypeOK /\ OwnSubmission /\ RepliesNumbered /\ Safety

LEMMA InitInv == Init => IInv
BY InitType DEF Init, IInv, OwnSubmission, InFlight, RepliesNumbered, Safety,
                SolveBacked, SolvedOnce, AcceptedIsRecorded, WinnerToldPoints

\* Steps that write neither table and put no request in flight.
LEMMA QuietInv ==
    ASSUME IInv, TypeOK', UNCHANGED <<subs, solves, replies>>,
           \A p \in Reqs : InFlight(p)' => InFlight(p) /\ loc'[p] = loc[p]
    PROVE  IInv'
<1>1. subs' = subs /\ solves' = solves /\ replies' = replies
  OBVIOUS
<1>2. OwnSubmission'
  <2> SUFFICES ASSUME NEW q \in Reqs, InFlight(q)'
               PROVE  /\ subs[loc[q].sub] = [key |-> loc[q].key, correct |-> TRUE]
                      /\ \A o \in Reqs : InFlight(o)' /\ loc'[o].sub = loc[q].sub => o = q
                      /\ \A s \in solves : s.sub # loc[q].sub
                      /\ \A r \in replies : r.sub # loc[q].sub
    BY <1>1 DEF OwnSubmission, InFlight
  <2>1. InFlight(q)
    OBVIOUS
  <2>2. ASSUME NEW o \in Reqs, InFlight(o)', loc'[o].sub = loc[q].sub PROVE o = q
    BY <2>1, <2>2 DEF IInv, OwnSubmission
  <2>3. QED
    BY <2>1, <2>2 DEF IInv, OwnSubmission
<1>3. RepliesNumbered'
  BY <1>1 DEF IInv, RepliesNumbered
<1>4. SolveBacked' /\ SolvedOnce'
  BY <1>1 DEF IInv, Safety, SolveBacked, SolvedOnce
<1>5. AcceptedIsRecorded' /\ WinnerToldPoints'
  BY <1>1 DEF IInv, Safety, AcceptedIsRecorded, WinnerToldPoints, Solved
<1>6. QED
  BY <1>2, <1>3, <1>4, <1>5 DEF IInv, Safety

\* A request that ends is no longer in flight, and the others are as before.
LEMMA ReturnFlight ==
    ASSUME TypeOK, NEW p \in Reqs, Return(p)
    PROVE  /\ ~InFlight(p)'
           /\ \A q \in Reqs : InFlight(q)' => q # p /\ InFlight(q) /\ loc'[q] = loc[q]
BY DEF TypeOK, Return, InFlight

\* A new submission, whose request is in flight if it is correct and not at
\* all if the request ended.
LEMMA InsertInv ==
    ASSUME IInv, TypeOK', NEW p \in Reqs, pc[p] = "submit", InsertSubmission(p),
           UNCHANGED <<solves, replies>>,
           \A q \in Reqs : q # p /\ InFlight(q)' => InFlight(q) /\ loc'[q] = loc[q],
           InFlight(p)' => /\ loc[p].correct
                           /\ loc'[p].sub = Len(subs') /\ loc'[p].key = loc[p].key
    PROVE  IInv'
<1>t. TypeOK
  BY DEF IInv
<1>1. /\ Len(subs') = Len(subs) + 1 /\ Len(subs) \in Nat
      /\ \A i \in 1..Len(subs) : subs'[i] = subs[i]
      /\ subs'[Len(subs')] = [key |-> loc[p].key, correct |-> loc[p].correct]
  BY <1>t, InsertType
<1>2. \A s \in solves : s.sub \in 1..Len(subs)
  BY DEF IInv, Safety, SolveBacked
<1>3. \A r \in replies : r.sub \in 1..Len(subs)
  BY DEF IInv, RepliesNumbered
<1>4. \A q \in Reqs : InFlight(q) => loc[q].sub \in 1..Len(subs)
  BY <1>t DEF InFlight, TypeOK
<1>5. OwnSubmission'
  <2> SUFFICES ASSUME NEW q \in Reqs, InFlight(q)'
               PROVE  /\ subs'[loc'[q].sub] = [key |-> loc'[q].key, correct |-> TRUE]
                      /\ \A o \in Reqs : InFlight(o)' /\ loc'[o].sub = loc'[q].sub => o = q
                      /\ \A s \in solves : s.sub # loc'[q].sub
                      /\ \A r \in replies : r.sub # loc'[q].sub
    BY DEF OwnSubmission, InFlight
  <2>1. CASE q = p
    <3>1. subs'[loc'[q].sub] = [key |-> loc'[q].key, correct |-> TRUE]
      <4>1. loc[p].correct = TRUE
        BY <1>t, <2>1 DEF TypeOK, Loc
      <4>2. QED
        BY <1>1, <2>1, <4>1
    <3>2. loc'[q].sub \notin 1..Len(subs)
      BY <1>1, <2>1
    <3>3. QED
      BY <1>2, <1>3, <1>4, <2>1, <3>1, <3>2
  <2>2. CASE q # p
    <3>1. InFlight(q) /\ loc'[q] = loc[q] /\ loc[q].sub \in 1..Len(subs)
      BY <1>4, <2>2
    <3>2. subs'[loc'[q].sub] = [key |-> loc'[q].key, correct |-> TRUE]
      BY <1>1, <3>1 DEF IInv, OwnSubmission
    <3>3. ASSUME NEW o \in Reqs, InFlight(o)', loc'[o].sub = loc'[q].sub PROVE o = q
      <4>1. o # p
        BY <1>1, <3>1, <3>3
      <4>2. QED
        BY <3>1, <3>3, <4>1 DEF IInv, OwnSubmission
    <3>4. QED
      BY <3>1, <3>2, <3>3 DEF IInv, OwnSubmission
  <2>3. QED
    BY <2>1, <2>2
<1>6. RepliesNumbered'
  BY <1>1, <1>3 DEF RepliesNumbered
<1>7. Safety'
  <2>1. SolveBacked'
    <3> SUFFICES ASSUME NEW s \in solves
                 PROVE  /\ s.sub \in 1..Len(subs')
                        /\ subs'[s.sub] = [key |-> s.key, correct |-> TRUE]
                        /\ \A t \in solves : t.sub = s.sub => t = s
      BY DEF SolveBacked
    <3>1. s.sub \in 1..Len(subs')
      BY <1>1, <1>2
    <3>2. /\ subs'[s.sub] = [key |-> s.key, correct |-> TRUE]
          /\ \A t \in solves : t.sub = s.sub => t = s
      BY <1>1, <1>2 DEF IInv, Safety, SolveBacked
    <3>3. QED
      BY <3>1, <3>2
  <2>2. SolvedOnce' /\ AcceptedIsRecorded' /\ WinnerToldPoints'
    BY DEF IInv, Safety, SolvedOnce, AcceptedIsRecorded, WinnerToldPoints, Solved
  <2>3. QED
    BY <2>1, <2>2 DEF Safety
<1>8. QED
  BY <1>5, <1>6, <1>7 DEF IInv

\* The statement that inserts the solve, whether or not the reply is sent.
LEMMA SolveInv ==
    ASSUME IInv, TypeOK', NEW p \in Reqs, pc[p] = "solve", Return(p), InsertSolve(p),
           subs' = subs, Answer(p, TRUE) \/ replies' = replies
    PROVE  IInv'
<1>t. TypeOK
  BY DEF IInv
<1> DEFINE new == NewSolve(p)
           say == [key |-> loc[p].key, sub |-> loc[p].sub, solved |-> TRUE,
                   points |-> loc[p].points]
<1>1. /\ new.key = loc[p].key /\ new.sub = loc[p].sub /\ new.points = loc[p].points
      /\ say.key = loc[p].key /\ say.sub = loc[p].sub /\ say.points = loc[p].points
  BY DEF NewSolve
<1>2. /\ loc[p].sub \in 1..Len(subs)
      /\ subs[loc[p].sub] = [key |-> loc[p].key, correct |-> TRUE]
      /\ \A s \in solves : s.sub # loc[p].sub
      /\ \A r \in replies : r.sub # loc[p].sub
      /\ \A q \in Reqs : InFlight(q) /\ loc[q].sub = loc[p].sub => q = p
  BY <1>t DEF IInv, OwnSubmission, InFlight, TypeOK
<1>3. \/ solves' = solves /\ Solved(loc[p].key)
      \/ solves' = solves \cup {new} /\ ~Solved(loc[p].key)
  BY DEF InsertSolve
<1>4. replies' = replies \cup {say} \/ replies' = replies
  BY DEF Answer
<1>5. \A q \in Reqs : InFlight(q)' => q # p /\ InFlight(q) /\ loc'[q] = loc[q]
  BY <1>t, ReturnFlight
<1> HIDE DEF new, say
<1>6. OwnSubmission'
  <2> SUFFICES ASSUME NEW q \in Reqs, InFlight(q)'
               PROVE  /\ subs[loc[q].sub] = [key |-> loc[q].key, correct |-> TRUE]
                      /\ \A o \in Reqs : InFlight(o)' /\ loc'[o].sub = loc[q].sub => o = q
                      /\ \A s \in solves' : s.sub # loc[q].sub
                      /\ \A r \in replies' : r.sub # loc[q].sub
    BY <1>5 DEF OwnSubmission, InFlight
  <2>1. q # p /\ InFlight(q) /\ loc[q].sub # loc[p].sub
    BY <1>2, <1>5
  <2>2. /\ subs[loc[q].sub] = [key |-> loc[q].key, correct |-> TRUE]
        /\ \A s \in solves : s.sub # loc[q].sub
        /\ \A r \in replies : r.sub # loc[q].sub
    BY <2>1 DEF IInv, OwnSubmission
  <2>3. ASSUME NEW o \in Reqs, InFlight(o)', loc'[o].sub = loc[q].sub PROVE o = q
    BY <1>5, <2>1, <2>3 DEF IInv, OwnSubmission
  <2>4. QED
    BY <1>1, <1>3, <1>4, <2>1, <2>2, <2>3
<1>7. RepliesNumbered'
  BY <1>1, <1>2, <1>4 DEF IInv, RepliesNumbered
<1>8. SolveBacked'
  <2> SUFFICES ASSUME NEW s \in solves'
               PROVE  /\ s.sub \in 1..Len(subs)
                      /\ subs[s.sub] = [key |-> s.key, correct |-> TRUE]
                      /\ \A t \in solves' : t.sub = s.sub => t = s
    BY DEF SolveBacked
  <2>1. CASE s \in solves
    <3>1. /\ s.sub \in 1..Len(subs)
          /\ subs[s.sub] = [key |-> s.key, correct |-> TRUE]
          /\ \A t \in solves : t.sub = s.sub => t = s
      BY <2>1 DEF IInv, Safety, SolveBacked
    <3>2. \A t \in solves' : t \in solves \/ (t = new /\ t.sub # s.sub)
      BY <1>1, <1>2, <1>3, <2>1
    <3>3. QED
      BY <3>1, <3>2
  <2>2. CASE s = new
    BY <1>1, <1>2, <1>3, <2>2
  <2>3. QED
    BY <1>3, <2>1, <2>2
<1>9. SolvedOnce'
  BY <1>1, <1>3 DEF IInv, Safety, SolvedOnce, Solved
<1>10. AcceptedIsRecorded'
  <2>1. \E s \in solves' : s.key = loc[p].key
    BY <1>1, <1>3 DEF Solved
  <2>2. \A r \in replies : \E s \in solves' : s.key = r.key
    BY <1>3 DEF IInv, Safety, AcceptedIsRecorded, Solved
  <2>3. \A r \in replies' : \E s \in solves' : s.key = r.key
    BY <1>1, <1>4, <2>1, <2>2
  <2>4. QED
    BY <2>3 DEF AcceptedIsRecorded, Solved
<1>11. WinnerToldPoints'
  <2> SUFFICES ASSUME NEW r \in replies', NEW s \in solves', r.solved, r.sub = s.sub
               PROVE  r.points = s.points
    BY DEF WinnerToldPoints
  <2>1. CASE r \in replies /\ s \in solves
    BY <2>1 DEF IInv, Safety, WinnerToldPoints
  <2>2. CASE r = say
    BY <1>1, <1>2, <1>3, <2>2
  <2>3. CASE s = new
    BY <1>1, <1>2, <1>4, <2>3
  <2>4. QED
    BY <1>3, <1>4, <2>1, <2>2, <2>3
<1>12. QED
  BY <1>6, <1>7, <1>8, <1>9, <1>10, <1>11 DEF IInv, Safety

\* HasSolved found a solve: the reply claims one that is there.
LEMMA AlreadySolvedInv ==
    ASSUME IInv, TypeOK', NEW p \in Reqs, pc[p] = "has", Return(p), Solved(loc[p].key),
           Answer(p, FALSE), UNCHANGED <<subs, solves>>
    PROVE  IInv'
<1>t. TypeOK
  BY DEF IInv
<1> DEFINE say == [key |-> loc[p].key, sub |-> loc[p].sub, solved |-> FALSE,
                   points |-> NoPoints]
<1>1. say.key = loc[p].key /\ say.sub = loc[p].sub /\ ~say.solved
  OBVIOUS
<1>2. /\ loc[p].sub \in 1..Len(subs)
      /\ \A q \in Reqs : InFlight(q) /\ loc[q].sub = loc[p].sub => q = p
  BY <1>t DEF IInv, OwnSubmission, InFlight, TypeOK
<1>3. replies' = replies \cup {say}
  BY DEF Answer
<1>4. \A q \in Reqs : InFlight(q)' => q # p /\ InFlight(q) /\ loc'[q] = loc[q]
  BY <1>t, ReturnFlight
<1> HIDE DEF say
<1>5. OwnSubmission'
  <2> SUFFICES ASSUME NEW q \in Reqs, InFlight(q)'
               PROVE  /\ subs[loc[q].sub] = [key |-> loc[q].key, correct |-> TRUE]
                      /\ \A o \in Reqs : InFlight(o)' /\ loc'[o].sub = loc[q].sub => o = q
                      /\ \A s \in solves : s.sub # loc[q].sub
                      /\ \A r \in replies' : r.sub # loc[q].sub
    BY <1>4 DEF OwnSubmission, InFlight
  <2>1. q # p /\ InFlight(q) /\ loc[q].sub # loc[p].sub
    BY <1>2, <1>4
  <2>2. ASSUME NEW o \in Reqs, InFlight(o)', loc'[o].sub = loc[q].sub PROVE o = q
    BY <1>4, <2>1, <2>2 DEF IInv, OwnSubmission
  <2>3. QED
    BY <1>1, <1>3, <2>1, <2>2 DEF IInv, OwnSubmission
<1>6. RepliesNumbered'
  BY <1>1, <1>2, <1>3 DEF IInv, RepliesNumbered
<1>7. Safety'
  BY <1>1, <1>3 DEF IInv, Safety, SolveBacked, SolvedOnce, AcceptedIsRecorded,
                    WinnerToldPoints, Solved
<1>8. QED
  BY <1>5, <1>6, <1>7 DEF IInv

LEMMA NextInv == IInv /\ [Next]_vars => IInv'
<1> SUFFICES ASSUME IInv, [Next]_vars PROVE IInv'
  OBVIOUS
<1>t. TypeOK /\ TypeOK'
  BY NextType DEF IInv
<1>1. ASSUME NEW p \in Reqs, NEW k \in Keys, NEW input \in Inputs, Admit(p, k, input)
      PROVE  IInv'
  BY <1>t, <1>1, QuietInv DEF Admit, Goto, InFlight, TypeOK
<1>2. ASSUME NEW p \in Reqs, GetChallenge(p) PROVE IInv'
  BY <1>t, <1>2, QuietInv DEF GetChallenge, Goto, Return, InFlight, TypeOK
<1>3. ASSUME NEW p \in Reqs, CreateSubmission(p) PROVE IInv'
  <2>1. pc[p] = "submit"
    BY <1>3 DEF CreateSubmission, Goto
  <2>2. \A q \in Reqs : q # p /\ InFlight(q)' => InFlight(q) /\ loc'[q] = loc[q]
    BY <1>t, <1>3 DEF CreateSubmission, Goto, Return, InFlight, TypeOK
  <2>3. InFlight(p)' => /\ loc[p].correct
                        /\ loc'[p].sub = Len(subs') /\ loc'[p].key = loc[p].key
    BY <1>t, <1>3 DEF CreateSubmission, Goto, Return, InFlight, TypeOK, Loc
  <2>4. QED
    BY <1>t, <1>3, <2>1, <2>2, <2>3, InsertInv DEF CreateSubmission
<1>4. ASSUME NEW p \in Reqs, HasSolved(p) PROVE IInv'
  <2>1. CASE Solved(loc[p].key) /\ pc[p] = "has" /\ Answer(p, FALSE) /\ Return(p)
    BY <1>t, <1>4, <2>1, AlreadySolvedInv DEF HasSolved
  <2>2. CASE Goto(p, "has", "solve") /\ UNCHANGED <<replies, loc>>
    BY <1>t, <1>4, <2>2, QuietInv DEF HasSolved, Goto, InFlight, TypeOK
  <2>3. QED
    BY <1>4, <2>1, <2>2 DEF HasSolved
<1>5. ASSUME NEW p \in Reqs, CreateSolve(p) PROVE IInv'
  BY <1>t, <1>5, SolveInv DEF CreateSolve
<1>6. ASSUME NEW p \in Reqs, CallFails(p) PROVE IInv'
  BY <1>t, <1>6, ReturnFlight, QuietInv DEF CallFails
<1>7. ASSUME NEW p \in Reqs, ReplyLost(p) PROVE IInv'
  <2>1. CASE pc[p] = "submit" /\ InsertSubmission(p) /\ UNCHANGED solves
    BY <1>t, <1>7, <2>1, ReturnFlight, InsertInv DEF ReplyLost
  <2>2. CASE pc[p] = "solve" /\ InsertSolve(p) /\ UNCHANGED subs
    BY <1>t, <1>7, <2>2, SolveInv DEF ReplyLost
  <2>3. QED
    BY <1>7, <2>1, <2>2 DEF ReplyLost
<1>8. CASE Crash
  BY <1>t, <1>8, QuietInv DEF Crash, InFlight
<1>9. ASSUME NEW value, UpdateContest(value) PROVE IInv'
  BY <1>t, <1>9, QuietInv DEF UpdateContest, InFlight
<1>10. ASSUME NEW c, NEW ch, UpdateChallenge(c, ch) PROVE IInv'
  BY <1>t, <1>10, QuietInv DEF UpdateChallenge, InFlight
<1>11. CASE UNCHANGED vars
  BY <1>t, <1>11, QuietInv DEF vars, InFlight
<1>12. QED
  BY <1>1, <1>2, <1>3, <1>4, <1>5, <1>6, <1>7, <1>8, <1>9, <1>10, <1>11 DEF Next, Continue

THEOREM Invariance == Spec => []IInv
BY InitInv, NextInv, PTL DEF Spec

\* A solve is backed by a correct submission of its own user and challenge,
\* for any number of concurrent requests, failures and crashes.
THEOREM SolvesBacked == Spec => []SolveBacked
<1>1. IInv => SolveBacked
  BY DEF IInv, Safety
<1>2. QED
  BY <1>1, Invariance, PTL

\* Nobody solves a challenge twice.
THEOREM SolvesUnique == Spec => []SolvedOnce
<1>1. IInv => SolvedOnce
  BY DEF IInv, Safety
<1>2. QED
  BY <1>1, Invariance, PTL

\* A flag that was reported as accepted has its solve, for ever.
THEOREM AcceptedRecorded == Spec => []AcceptedIsRecorded
<1>1. IInv => AcceptedIsRecorded
  BY DEF IInv, Safety
<1>2. QED
  BY <1>1, Invariance, PTL

\* The request whose submission is the solve told the points that count.
THEOREM WinnerTold == Spec => []WinnerToldPoints
<1>1. IInv => WinnerToldPoints
  BY DEF IInv, Safety
<1>2. QED
  BY <1>1, Invariance, PTL

-----------------------------------------------------------------------------
(* FlagSubmission implements SolveLedger.                                   *)

\* What the refinement mapping of Ledger puts for SolveLedger's variables.
Awarded  == [k \in Keys |-> IF Solved(k) THEN (CHOOSE s \in solves : s.key = k).points
                                         ELSE NoPoints]
Accepted == {r.key : r \in replies}

\* The one element of a table that has a key is the one that is chosen.
LEMMA Chosen ==
    ASSUME NEW table, NEW row \in table,
           \A other \in table : other.key = row.key => other = row
    PROVE  (CHOOSE t \in table : t.key = row.key) = row
OBVIOUS

\* The ledger shows the points of the one solve of a key, before and after a
\* step.
LEMMA AwardedPoints ==
    ASSUME IInv, NEW s \in solves
    PROVE  Awarded[s.key] = s.points
<1>1. s.key \in Keys /\ Solved(s.key)
  BY DEF IInv, TypeOK, Solve, Solved
<1>2. (CHOOSE t \in solves : t.key = s.key) = s
  BY Chosen DEF IInv, Safety, SolvedOnce
<1>3. QED
  BY <1>1, <1>2 DEF Awarded

LEMMA AwardedPointsNext ==
    ASSUME IInv', NEW s \in solves'
    PROVE  Awarded'[s.key] = s.points
<1>1. s.key \in Keys /\ Solved(s.key)'
  BY DEF IInv, TypeOK, Solve, Solved
<1>2. (CHOOSE t \in solves' : t.key = s.key) = s
  BY Chosen DEF IInv, Safety, SolvedOnce
<1>3. QED
  BY <1>1, <1>2 DEF Awarded

LEMMA EarnedIsSolved ==
    ASSUME IInv, NEW k \in Keys
    PROVE  Solved(k) <=> Awarded[k] # NoPoints
<1>1. CASE Solved(k)
  <2>1. PICK s \in solves : s.key = k
    BY <1>1 DEF Solved
  <2>2. Awarded[k] = s.points /\ s.points \in Points
    BY <2>1, AwardedPoints DEF IInv, TypeOK, Solve
  <2>3. QED
    BY <1>1, <2>2, SubmissionAssumption
<1>2. CASE ~Solved(k)
  BY <1>2 DEF Awarded
<1>3. QED
  BY <1>1, <1>2

\* A reply adds its key to the accepted ones.
LEMMA AcceptedAfter ==
    ASSUME NEW p \in Reqs, NEW solved \in BOOLEAN, Answer(p, solved)
    PROVE  Accepted' = Accepted \cup {loc[p].key}
<1> DEFINE say == [key |-> loc[p].key, sub |-> loc[p].sub, solved |-> solved,
                   points |-> IF solved THEN loc[p].points ELSE NoPoints]
<1>1. replies' = replies \cup {say} /\ say.key = loc[p].key
  BY DEF Answer
<1> HIDE DEF say
<1>2. QED
  BY <1>1 DEF Accepted

LEMMA LedgerInitially == Init => Ledger!LedgerInit
BY DEF Init, Ledger!LedgerInit, Ledger!Pairs, Keys, Solved

\* A step that leaves the solves alone and confirms at most what is solved.
LEMMA ConfirmStep ==
    ASSUME IInv, solves' = solves, NEW k \in Keys, Solved(k),
           Accepted' = Accepted \cup {k}
    PROVE  Ledger!LedgerNext
<1>1. Awarded' = Awarded
  BY DEF Awarded, Solved
<1>2. Awarded[k] # NoPoints
  BY EarnedIsSolved
<1>3. Ledger!Confirm(k)
  BY <1>1, <1>2 DEF Ledger!Confirm, Ledger!Earned, Awarded, Accepted
<1>4. QED
  BY <1>3 DEF Ledger!LedgerNext, Ledger!Pairs, Keys

\* A step that adds the first solve of a key.
LEMMA CreditStep ==
    ASSUME IInv, IInv', NEW new, new.key \in Keys, new.points \in Points,
           ~Solved(new.key), solves' = solves \cup {new},
           Accepted' \in {Accepted, Accepted \cup {new.key}}
    PROVE  Ledger!LedgerNext
<1>1. Awarded' = [Awarded EXCEPT ![new.key] = new.points]
  <2>1. ASSUME NEW k \in Keys, k # new.key PROVE Awarded'[k] = Awarded[k]
    <3>1. CASE Solved(k)
      <4>1. PICK s \in solves : s.key = k
        BY <3>1 DEF Solved
      <4>2. QED
        BY <4>1, AwardedPoints, AwardedPointsNext
    <3>2. CASE ~Solved(k)
      <4>1. ~Solved(k)'
        BY <2>1, <3>2 DEF Solved
      <4>2. QED
        BY <3>2, <4>1 DEF Awarded
    <3>3. QED
      BY <3>1, <3>2
  <2>2. Awarded'[new.key] = new.points
    BY AwardedPointsNext
  <2>3. /\ Awarded = [k \in Keys |-> Awarded[k]]
        /\ Awarded' = [k \in Keys |-> Awarded'[k]]
    BY DEF Awarded
  <2>4. QED
    BY <2>1, <2>2, <2>3
<1>2. Awarded[new.key] = NoPoints
  BY DEF Awarded
<1>3. Ledger!Credit(new.key, new.points)
  BY <1>1, <1>2 DEF Ledger!Credit, Ledger!Earned, Awarded, Accepted
<1>4. QED
  BY <1>3 DEF Ledger!LedgerNext, Ledger!Pairs, Keys

\* The statement that inserts the solve, whether or not the reply is sent.
LEMMA SolveStep ==
    ASSUME IInv, IInv', NEW p \in Reqs, pc[p] = "solve", InsertSolve(p),
           Answer(p, TRUE) \/ replies' = replies
    PROVE  [Ledger!LedgerNext]_(Ledger!ledgerVars)
<1>1. loc[p].key \in Keys /\ loc[p].points \in Points
  BY DEF IInv, TypeOK
<1>2. Accepted' = Accepted \/ Accepted' = Accepted \cup {loc[p].key}
  BY AcceptedAfter DEF Accepted
<1>3. CASE Solved(loc[p].key)
  <2>1. solves' = solves
    BY <1>3 DEF InsertSolve
  <2>2. CASE Accepted' = Accepted
    BY <2>1, <2>2 DEF Ledger!ledgerVars, Solved, Accepted
  <2>3. CASE Accepted' = Accepted \cup {loc[p].key}
    BY <1>1, <1>3, <2>1, <2>3, ConfirmStep
  <2>4. QED
    BY <1>2, <2>2, <2>3
<1>4. CASE ~Solved(loc[p].key)
  <2>1. solves' = solves \cup {NewSolve(p)}
    BY <1>4 DEF InsertSolve
  <2>2. NewSolve(p).key = loc[p].key /\ NewSolve(p).points = loc[p].points
    BY DEF NewSolve
  <2>3. QED
    BY <1>1, <1>2, <1>4, <2>1, <2>2, CreditStep
<1>5. QED
  BY <1>3, <1>4

LEMMA LedgerStep == IInv /\ IInv' /\ [Next]_vars => [Ledger!LedgerNext]_(Ledger!ledgerVars)
<1> SUFFICES ASSUME IInv, IInv', [Next]_vars
             PROVE  [Ledger!LedgerNext]_(Ledger!ledgerVars)
  OBVIOUS
<1>q. ASSUME UNCHANGED <<solves, replies>> PROVE [Ledger!LedgerNext]_(Ledger!ledgerVars)
  BY <1>q DEF Ledger!ledgerVars, Solved
<1>1. ASSUME NEW p \in Reqs, HasSolved(p) PROVE [Ledger!LedgerNext]_(Ledger!ledgerVars)
  <2>1. CASE Solved(loc[p].key) /\ pc[p] = "has" /\ Answer(p, FALSE)
    <3>1. loc[p].key \in Keys /\ solves' = solves
      BY <1>1, <2>1 DEF IInv, TypeOK, HasSolved
    <3>2. Accepted' = Accepted \cup {loc[p].key}
      BY <2>1, AcceptedAfter
    <3>3. QED
      BY <2>1, <3>1, <3>2, ConfirmStep
  <2>2. CASE UNCHANGED <<solves, replies>>
    BY <1>q, <2>2
  <2>3. QED
    BY <1>1, <2>1, <2>2 DEF HasSolved
<1>2. ASSUME NEW p \in Reqs, CreateSolve(p) PROVE [Ledger!LedgerNext]_(Ledger!ledgerVars)
  BY <1>2, SolveStep DEF CreateSolve
<1>3. ASSUME NEW p \in Reqs, ReplyLost(p) PROVE [Ledger!LedgerNext]_(Ledger!ledgerVars)
  BY <1>3, <1>q, SolveStep DEF ReplyLost
<1>4. ASSUME NEW p \in Reqs, NEW k \in Keys, NEW input \in Inputs, Admit(p, k, input)
      PROVE  UNCHANGED <<solves, replies>>
  BY <1>4 DEF Admit
<1>5. ASSUME NEW p \in Reqs, GetChallenge(p) \/ CreateSubmission(p) \/ CallFails(p)
      PROVE  UNCHANGED <<solves, replies>>
  BY <1>5 DEF GetChallenge, CreateSubmission, CallFails
<1>6. ASSUME \/ Crash
             \/ \E value \in Settings : UpdateContest(value)
             \/ \E c \in Chals, ch \in Challenges : UpdateChallenge(c, ch)
             \/ UNCHANGED vars
      PROVE  UNCHANGED <<solves, replies>>
  BY <1>6 DEF Crash, UpdateContest, UpdateChallenge, vars
<1>7. QED
  BY <1>q, <1>1, <1>2, <1>3, <1>4, <1>5, <1>6 DEF Next, Continue

\* However requests, failures and crashes interleave, points are credited
\* once, never taken back, and confirmed only after they were credited.
THEOREM LedgerImplemented == Spec => ImplementsLedger
BY LedgerInitially, LedgerStep, Invariance, PTL
   DEF Spec, ImplementsLedger, Ledger!LedgerSpec

=============================================================================
