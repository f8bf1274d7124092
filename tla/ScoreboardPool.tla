--------------------------- MODULE ScoreboardPool ---------------------------
(* GET /scoreboard on the connection pool of store.Open: ListScoreboard     *)
(* reads the rows of one query while it runs another query for each row, so *)
(* a request holds one connection and waits for a second one, and the score *)
(* of a row and its solves come from two reads.  Meanwhile players solve    *)
(* challenges, and administrators change users and points.                  *)
(*                                                                          *)
(* A statement that takes a connection and gives it back without waiting    *)
(* for another is one step that needs a free connection.                    *)
EXTENDS Integers, Sequences, FiniteSets, Functions, FiniteSetsExt

CONSTANTS
    Users,     \* user ids, numbers
    Chals,     \* challenge ids
    Points,    \* what a challenge may be worth: any integers, because only the
               \* importer asks for positive points, neither the service nor the schema
    Boards,    \* goroutines that handle GET /scoreboard
    PoolSize,  \* MaxOpenConns
    Errors,    \* may a query fail, or a client hang up?
    MaxSolves  \* bound: solves ever inserted

ASSUME BoardAssumption ==
    /\ Users \subseteq Nat /\ IsFiniteSet(Users) /\ IsFiniteSet(Boards)
    /\ Points \subseteq Int /\ Errors \in BOOLEAN
    /\ PoolSize \in Nat \ {0} /\ MaxSolves \in Nat

VARIABLES
    free,    \* connections that nobody holds
    listed,  \* the active users with role player
    points,  \* the points each challenge is worth now
    solves,  \* the solves table, in the order of solved_at; a row keeps its number
    pc,      \* pc[p]: the next step of goroutine p
    loc,     \* loc[p]: what goroutine p has read
    seen     \* history: seen[u]: the score of u that some answer showed

vars == <<free, listed, points, solves, pc, loc, seen>>

Solve == [user : Users, chal : Chals, points : Points]
Row   == [user : Users, score : Int]
Steps == {"idle", "phase", "board", "rows"}
NoLoc == [todo |-> <<>>, items |-> <<>>, before |-> 0, seen |-> [u \in Users |-> 0]]

TypeOK ==
    /\ free \in 0..PoolSize
    /\ listed \in SUBSET Users
    /\ points \in [Chals -> Points]
    /\ solves \in Seq(Solve) /\ Len(solves) <= MaxSolves
    /\ pc \in [Boards -> Steps]
    /\ \A p \in Boards :
         /\ loc[p].todo \in Seq(Row)
         /\ loc[p].items \in Seq([user : Users, score : Int, solves : SUBSET DOMAIN solves])
         /\ loc[p].before \in 0..MaxSolves /\ loc[p].seen \in [Users -> Int]
    /\ seen \in [Users -> Int]

Init ==
    /\ free = PoolSize
    /\ listed \in SUBSET Users
    /\ points \in [Chals -> Points]
    /\ solves = <<>>
    /\ pc = [p \in Boards |-> "idle"]
    /\ loc = [p \in Boards |-> NoLoc]
    /\ seen = [u \in Users |-> 0]

-----------------------------------------------------------------------------
(* The two queries.                                                         *)

\* The rows that join the user.
SolvesOf(u) == {n \in DOMAIN solves : solves[n].user = u}

\* SUM of value[1], ..., value[n]
Sum(value, n) ==
    LET sum[i \in 0..n] == IF i = 0 THEN 0 ELSE sum[i - 1] + value[i]
    IN  sum[n]

\* The points that were awarded with these rows.
Total(rows) == Sum([n \in DOMAIN solves |-> IF n \in rows THEN solves[n].points ELSE 0], Len(solves))

\* Fault: the score counts what the challenges are worth now.
CurrentScore(u) ==
    Sum([n \in DOMAIN solves |-> IF n \in SolvesOf(u) THEN points[solves[n].chal] ELSE 0], Len(solves))

Score(u) == Total(SolvesOf(u))

\* MAX(solved_at); NULLS LAST puts a user without solves behind the others.
LastSolve(u) == IF SolvesOf(u) = {} THEN Len(solves) + 1 ELSE Max(SolvesOf(u))

\* ORDER BY score DESC, last_solve_at ASC NULLS LAST, u.id ASC
Ahead(u, v) ==
    \/ Score(u) > Score(v)
    \/ Score(u) = Score(v) /\ LastSolve(u) < LastSolve(v)
    \/ Score(u) = Score(v) /\ LastSolve(u) = LastSolve(v) /\ u < v

Board(order) == [i \in DOMAIN order |-> [user |-> order[i], score |-> Score(order[i])]]

BoardQuery ==
    {Board(order) : order \in {f \in [1..Cardinality(listed) -> listed] :
                                 \A i, j \in DOMAIN f : i < j => Ahead(f[i], f[j])}}

-----------------------------------------------------------------------------
Goto(p, from, to) == pc[p] = from /\ pc' = [pc EXCEPT ![p] = to]

tables == <<listed, points, solves>>

\* handleScoreboard; what is known when the request begins is history.
Scoreboard(p) ==
    /\ Goto(p, "idle", "phase")
    /\ loc' = [loc EXCEPT ![p] = [NoLoc EXCEPT !.before = Len(solves), !.seen = seen]]
    /\ UNCHANGED <<free, seen>> /\ UNCHANGED tables

\* requireContestPhase reads the contest.
ContestPhase(p) ==
    /\ free > 0 /\ Goto(p, "phase", "board")
    /\ UNCHANGED <<free, loc, seen>> /\ UNCHANGED tables

\* The first query keeps its connection until its rows are read.
ListScoreboard(p) ==
    /\ free > 0 /\ free' = free - 1
    /\ Goto(p, "board", "rows")
    /\ \E rows \in BoardQuery : loc' = [loc EXCEPT ![p].todo = rows]
    /\ UNCHANGED seen /\ UNCHANGED tables

\* Fault: the solves are read before the rows are counted.
OldSolves(p) == SolvesOf(Head(loc[p].todo).user) \cap (1..loc[p].before)

ListScoreboardSolvesBefore(p) ==
    /\ pc[p] = "rows" /\ loc[p].todo # <<>> /\ free > 0
    /\ LET row == Head(loc[p].todo) IN
         loc' = [loc EXCEPT ![p].todo = Tail(@),
                            ![p].items = Append(@, [user |-> row.user, score |-> row.score,
                                                    solves |-> OldSolves(p)])]
    /\ UNCHANGED <<free, pc, seen>> /\ UNCHANGED tables

\* One query for each row, on another connection.
ListScoreboardSolves(p) ==
    /\ pc[p] = "rows" /\ loc[p].todo # <<>> /\ free > 0
    /\ LET row == Head(loc[p].todo) IN
         loc' = [loc EXCEPT ![p].todo = Tail(@),
                            ![p].items = Append(@, [user |-> row.user, score |-> row.score,
                                                    solves |-> SolvesOf(row.user)])]
    /\ UNCHANGED <<free, pc, seen>> /\ UNCHANGED tables

Return(p) ==
    /\ pc' = [pc EXCEPT ![p] = "idle"]
    /\ loc' = [loc EXCEPT ![p] = NoLoc]
    /\ UNCHANGED tables

Reply(p) ==
    /\ pc[p] = "rows" /\ loc[p].todo = <<>> /\ Return(p)
    /\ free' = free + 1
    /\ seen' = [u \in Users |->
                  Max({seen[u]} \cup {item.score : item \in {i \in Range(loc[p].items) : i.user = u}})]

\* Fault: an early return leaves the rows open.
FailsWithoutClose(p) ==
    /\ Errors /\ pc[p] # "idle" /\ Return(p)
    /\ UNCHANGED <<free, seen>>

\* Fault: a request that fails closes rows that it never opened.
FailsClosesTwice(p) ==
    /\ Errors /\ pc[p] # "idle" /\ Return(p)
    /\ free' = free + 1
    /\ UNCHANGED seen

\* A query fails, or the client hangs up and its context ends a wait; the
\* deferred Close gives the connection back.
Fails(p) ==
    /\ Errors /\ pc[p] # "idle" /\ Return(p)
    /\ free' = IF pc[p] = "rows" THEN free + 1 ELSE free
    /\ UNCHANGED seen

-----------------------------------------------------------------------------
(* Other requests, with one statement each; one that changes nothing of     *)
(* this module is a stuttering step.                                        *)

CreateSolve(u, c) ==
    /\ free > 0 /\ Len(solves) < MaxSolves
    /\ \A i \in 1..Len(solves) : <<solves[i].user, solves[i].chal>> # <<u, c>>
    /\ solves' = Append(solves, [user |-> u, chal |-> c, points |-> points[c]])
    /\ UNCHANGED <<free, listed, points, pc, loc, seen>>

UpdateChallenge(c, value) ==
    /\ free > 0 /\ value # points[c] /\ points' = [points EXCEPT ![c] = value]
    /\ UNCHANGED <<free, listed, solves, pc, loc, seen>>

\* A user registers, or gets another role or status.
UpdateUser(u) ==
    /\ free > 0 /\ listed' = IF u \in listed THEN listed \ {u} ELSE listed \cup {u}
    /\ UNCHANGED <<free, points, solves, pc, loc, seen>>

Continue(p) ==
    ContestPhase(p) \/ ListScoreboard(p) \/ ListScoreboardSolves(p) \/ Reply(p)

Next ==
    \/ \E p \in Boards : Scoreboard(p) \/ Continue(p) \/ Fails(p)
    \/ \E u \in Users, c \in Chals : CreateSolve(u, c)
    \/ \E c \in Chals, value \in Points : UpdateChallenge(c, value)
    \/ \E u \in Users : UpdateUser(u)

Spec == Init /\ [][Next]_vars

\* The pool serves waiters in no order, but a request that waits for a
\* connection again and again gets one.
FairSpec == Spec /\ \A p \in Boards : SF_vars(Continue(p))

-----------------------------------------------------------------------------
(* Properties                                                              *)

\* What a user had solved after the first n rows of the table.
Solved(u, n) == {m \in 1..n : solves[m].user = u}

\* The solves that an entry lists explain its score, although they are read
\* after it: all scores of a board are of one moment since the request began,
\* and the solves of each entry are those of that moment or a later one.
SolvesExplainScore ==
    \A p \in Boards : \E asked \in loc[p].before..Len(solves) :
        \A i \in DOMAIN loc[p].items :
            LET item == loc[p].items[i] IN
            /\ item.score = Total(Solved(item.user, asked))
            /\ \E read \in asked..Len(solves) : item.solves = Solved(item.user, read)

\* Somebody was awarded less than nothing: the administration accepts that.
Penalized(u) == \E n \in DOMAIN solves : solves[n].user = u /\ solves[n].points < 0

\* A board that is requested after another one was answered never shows a
\* lower score of a user, whatever the challenges are worth by then, unless a
\* solve of the user was awarded negative points.
ScoresNeverDrop ==
    \A p \in Boards : \A i \in DOMAIN loc[p].items :
        LET item == loc[p].items[i] IN
        item.score >= loc[p].seen[item.user] \/ Penalized(item.user)

\* Somebody can always go on without waiting for a connection, as long as
\* fewer boards are requested at once than the pool has connections.
PoolNeverExhausted == Cardinality(Boards) < PoolSize => free > 0

\* docs/requirements.md:65: the scoreboard is one of the paths that come first.
BoardAnswered == \A p \in Boards : pc[p] = "phase" ~> pc[p] = "idle"

=============================================================================
