----------------------------- MODULE CtfJeopardy -----------------------------
(***************************************************************************)
(* The jeopardy side of backend/internal/service/ctf: flag submissions     *)
(* with their rate limit and cooldown, dynamic scores and first bloods,    *)
(* the score synchronisation task, and the end of the competition.         *)
(*                                                                         *)
(* A submission loads a copy of the challenge item, is judged, and then    *)
(* writes PostgreSQL in one transaction and Redis in several calls; any    *)
(* number of submissions are in flight at once.  One competition; Redis is *)
(* reachable (its errors only switch the code to slower paths).  Time is   *)
(* counted in ticks of the rate limit's window, one minute.                *)
(***************************************************************************)
EXTENDS Integers, Sequences, FiniteSets, TLC

CONSTANTS
    Teams, NoTeam, Challenges, NoChallenge,
    Threads,        \* goroutines serving SubmitChallenge
    Closers,        \* goroutines ending the competition
    Base,           \* base_score of every challenge
    DecayNum, DecayDen, \* decay_factor
    MinScore,       \* floor(base_score * min_score_ratio)
    BonusPct,       \* first_blood_bonus in percent
    MaxPerMinute,   \* submission_limit.max_per_minute
    Threshold,      \* submission_limit.cooldown_threshold
    CoolTicks,      \* submission_limit.cooldown_minutes
    MaxSubs,        \* bound: stored submissions
    MaxCrashes,     \* bound: crashes of the backend process
    Overlap         \* submissions, tasks and the end may overlap

ASSUME NamesAssumption == NoTeam \notin Teams /\ NoChallenge \notin Challenges
ASSUME ScoringAssumption == /\ Base \in Nat /\ MinScore \in 0..Base
                            /\ DecayNum \in Nat \ {0} /\ DecayDen \in Nat \ {0}
                            /\ DecayNum <= DecayDen /\ BonusPct \in Nat
ASSUME LimitAssumption == /\ MaxPerMinute \in Nat \ {0} /\ Threshold \in Nat \ {0}
                          /\ CoolTicks \in Nat \ {0}
ASSUME BoundAssumption == /\ MaxSubs \in Nat /\ MaxCrashes \in Nat
                          /\ Overlap \in BOOLEAN

(* math.Pow(decay_factor, k), as a fraction.                               *)
NumPower[k \in Nat] == IF k = 0 THEN 1 ELSE DecayNum * NumPower[k - 1]
DenPower[k \in Nat] == IF k = 0 THEN 1 ELSE DecayDen * DenPower[k - 1]

(* calculateJeopardyScore: decayed per solve, never below the minimum.     *)
Price(k) == LET p == (Base * NumPower[k]) \div DenPower[k]
            IN  IF p < MinScore THEN MinScore ELSE p

(* calculateSubmissionAward from a loaded solve count n: the pay of this   *)
(* solve, and the price shown to the next team.                            *)
AwardFor(n, blood) == Price(n + 1) + IF blood THEN (Price(n + 1) * BonusPct) \div 100 ELSE 0
NextPrice(n) == Price(n + 2)

VARIABLES
    comp,     \* competitions.status
    ranked,   \* team.final_rank is written: the totals it was computed from
    subs,     \* submissions, in the order of their inserts
    total,    \* teams.total_score
    item,     \* competition_challenges: solve_count, current_score, first blood
    shown,    \* Redis: score and solve count of a challenge
    solved,   \* Redis: "solved" marks
    fails,    \* Redis: failure counter and the ticks it has left
    cool,     \* Redis: ticks the cooldown mark has left
    rate,     \* Redis: attempts in the current minute
    th,       \* submissions in flight, with the copy they loaded
    sync,     \* RunDynamicScoreSync: the challenge and the payload it read
    closer,   \* finishCompetition and Terminate in progress
    crashes

vars == <<comp, ranked, subs, total, item, shown, solved, fails, cool, rate, th,
          sync, closer, crashes>>

Pairs == Teams \X Challenges
IdleThread == [pc |-> "idle", t |-> NoTeam, c |-> NoChallenge, n |-> 0, blood |-> FALSE]
IdleSync == [c |-> NoChallenge, n |-> 0, price |-> 0]

ThreadRec == {IdleThread} \cup
    [pc : {"judge", "failed", "cooldown", "clear", "mark", "show"},
     t : Teams, c : Challenges, n : Nat, blood : BOOLEAN]
SyncRec == {IdleSync} \cup [c : Challenges, n : Nat, price : Nat]
SubRec == [t : Teams, c : Challenges, ok : BOOLEAN, blood : BOOLEAN, award : Nat]

TypeOK ==
    /\ comp \in {"registration", "running", "ended", "archived"}
    /\ ranked \in {<<>>} \cup [Teams -> Nat]
    /\ subs \in Seq(SubRec)
    /\ total \in [Teams -> Nat]
    /\ item \in [Challenges -> [n : Nat, price : Nat, first : Teams \cup {NoTeam}]]
    /\ shown \in [Challenges -> [n : Nat, price : Nat]]
    /\ solved \in [Pairs -> BOOLEAN]
    /\ fails \in [Pairs -> [n : Nat, left : 0..CoolTicks]]
    /\ cool \in [Pairs -> 0..CoolTicks]
    /\ rate \in [Pairs -> Nat]
    /\ th \in [Threads -> ThreadRec]
    /\ sync \in SyncRec
    /\ closer \in [Closers -> {"idle", "finish", "cleanup", "terminate", "commit", "rank"}]
    /\ crashes \in 0..MaxCrashes

(* The challenges were added (AddChallenges) and the competition published.*)
Init ==
    /\ comp = "registration"
    /\ ranked = <<>>
    /\ subs = <<>>
    /\ total = [t \in Teams |-> 0]
    /\ item = [c \in Challenges |-> [n |-> 0, price |-> Base, first |-> NoTeam]]
    /\ shown = [c \in Challenges |-> [n |-> 0, price |-> Base]]
    /\ solved = [p \in Pairs |-> FALSE]
    /\ fails = [p \in Pairs |-> [n |-> 0, left |-> 0]]
    /\ cool = [p \in Pairs |-> 0]
    /\ rate = [p \in Pairs |-> 0]
    /\ th = [s \in Threads |-> IdleThread]
    /\ sync = IdleSync
    /\ closer = [k \in Closers |-> "idle"]
    /\ crashes = 0

season == <<comp, ranked>>
scores == <<subs, total, item>>
limits == <<fails, cool, rate>>

-----------------------------------------------------------------------------
(* SubmitChallenge.                                                        *)

At(s, pc) == th[s].pc = pc
Goto(s, pc) == th' = [th EXCEPT ![s].pc = pc]
Finish(s) == th' = [th EXCEPT ![s] = IdleThread]
Mine(s) == <<th[s].t, th[s].c>>

CorrectSubs(t, c) == {k \in 1..Len(subs) : subs[k].t = t /\ subs[k].c = c /\ subs[k].ok}

(* hasSolvedChallenge: the mark in Redis or a correct row.                 *)
HasSolved(t, c) == solved[<<t, c>>] \/ CorrectSubs(t, c) # {}

InFlight(c) == \E s \in Threads : th[s].c = c
Closing == \E k \in Closers : closer[k] # "idle"

(* Mutants: a submission of an ended competition; a second solve.          *)
Open_ended(t, c) == comp # "registration" /\ ~HasSolved(t, c) /\ cool[<<t, c>>] = 0
Open_solved(t, c) == comp = "running" /\ cool[<<t, c>>] = 0
Open(t, c) == comp = "running" /\ ~HasSolved(t, c) /\ cool[<<t, c>>] = 0

(* The item is loaded, then the solved mark and the submission window are  *)
(* checked; the attempt counts even when it is over the limit (the guard   *)
(* on rate bounds the model's counter at one above it).                    *)
Enter(s, t, c) ==
    LET p == <<t, c>>
    IN  /\ At(s, "idle")
        /\ Overlap \/ ~(InFlight(c) \/ sync.c = c \/ Closing)
        /\ Open(t, c)
        /\ rate[p] <= MaxPerMinute
        /\ rate' = [rate EXCEPT ![p] = @ + 1]
        /\ IF rate[p] < MaxPerMinute
           THEN th' = [th EXCEPT ![s] = [pc |-> "judge", t |-> t, c |-> c, n |-> item[c].n,
                                         blood |-> item[c].first = NoTeam]]
           ELSE UNCHANGED th
        /\ UNCHANGED <<season, scores, shown, solved, fails, cool, sync, closer, crashes>>

(* Mutant: a failed transaction is taken for a stored one.                 *)
JudgeFails_marks(s) ==
    /\ At(s, "judge")
    /\ Goto(s, "clear")
    /\ UNCHANGED <<season, scores, shown, solved, limits, sync, closer, crashes>>

(* evaluateCompetitionSubmission ends in an error, or an insert fails.     *)
JudgeFails(s) ==
    /\ At(s, "judge")
    /\ Finish(s)
    /\ UNCHANGED <<season, scores, shown, solved, limits, sync, closer, crashes>>

Row(s, ok, blood, award) ==
    [t |-> th[s].t, c |-> th[s].c, ok |-> ok, blood |-> blood, award |-> award]

Wrong(s) ==
    /\ At(s, "judge")
    /\ Len(subs) < MaxSubs
    /\ subs' = Append(subs, Row(s, FALSE, FALSE, 0))
    /\ Goto(s, "failed")
    /\ UNCHANGED <<season, total, item, shown, solved, limits, sync, closer, crashes>>

(* IncrWithExpire: the counter lives CoolTicks from its first failure.     *)
Counted(f) == [n |-> f.n + 1, left |-> IF f.n = 0 THEN CoolTicks ELSE f.left]

(* recordFailedSubmission: at the threshold the cooldown mark is set.      *)
CountFailure(s) ==
    LET p == Mine(s)
    IN  /\ At(s, "failed")
        /\ fails' = [fails EXCEPT ![p] = Counted(@)]
        /\ IF fails[p].n + 1 >= Threshold THEN Goto(s, "cooldown") ELSE Finish(s)
        /\ UNCHANGED <<season, scores, shown, solved, cool, rate, sync, closer, crashes>>

SetCooldown(s) ==
    /\ At(s, "cooldown")
    /\ cool' = [cool EXCEPT ![Mine(s)] = CoolTicks]
    /\ Finish(s)
    /\ UNCHANGED <<season, scores, shown, solved, fails, rate, sync, closer, crashes>>

(* IncrementSolveCount (the price comes from the loaded count) and         *)
(* MarkFirstBlood, which sets a first blood only where there is none.      *)
Solved_overwrites(it, s) ==  \* mutant
    [n |-> it.n + 1, price |-> NextPrice(th[s].n),
     first |-> IF th[s].blood THEN th[s].t ELSE it.first]
Solved(it, s) ==
    [n |-> it.n + 1, price |-> NextPrice(th[s].n),
     first |-> IF th[s].blood /\ it.first = NoTeam THEN th[s].t ELSE it.first]

(* One transaction: the submission, the team's total (+=) and the item.    *)
RightPaying(s, row, points) ==
    /\ At(s, "judge")
    /\ Len(subs) < MaxSubs
    /\ subs' = Append(subs, row)
    /\ total' = [total EXCEPT ![th[s].t] = @ + points]
    /\ item' = [item EXCEPT ![th[s].c] = Solved(@, s)]
    /\ Goto(s, "clear")
    /\ UNCHANGED <<season, shown, solved, limits, sync, closer, crashes>>

(* Mutants: the team gets the price without its bonus; the row does not    *)
(* say that it is a first blood.                                           *)
Right_price(s) ==
    RightPaying(s, Row(s, TRUE, th[s].blood, AwardFor(th[s].n, th[s].blood)), Price(th[s].n + 1))
Right_unflagged(s) ==
    LET pay == AwardFor(th[s].n, th[s].blood)
    IN  RightPaying(s, Row(s, TRUE, FALSE, pay), pay)
Right(s) ==
    LET pay == AwardFor(th[s].n, th[s].blood)
    IN  RightPaying(s, Row(s, TRUE, th[s].blood, pay), pay)

(* recordSuccessfulSubmission and writeChallengeScoreCache.                *)
ClearLimits_cooldown(s) ==  \* mutant: the failure counter stays
    /\ At(s, "clear")
    /\ cool' = [cool EXCEPT ![Mine(s)] = 0]
    /\ Goto(s, "mark")
    /\ UNCHANGED <<season, scores, shown, solved, fails, rate, sync, closer, crashes>>

ClearLimits(s) ==
    /\ At(s, "clear")
    /\ fails' = [fails EXCEPT ![Mine(s)] = [n |-> 0, left |-> 0]]
    /\ cool' = [cool EXCEPT ![Mine(s)] = 0]
    /\ Goto(s, "mark")
    /\ UNCHANGED <<season, scores, shown, solved, rate, sync, closer, crashes>>

MarkSolved(s) ==
    /\ At(s, "mark")
    /\ solved' = [solved EXCEPT ![Mine(s)] = TRUE]
    /\ Goto(s, "show")
    /\ UNCHANGED <<season, scores, shown, limits, sync, closer, crashes>>

ShowPrice_before(s) ==  \* mutant: the count before this solve
    /\ At(s, "show")
    /\ shown' = [shown EXCEPT ![th[s].c] = [n |-> th[s].n, price |-> NextPrice(th[s].n)]]
    /\ Finish(s)
    /\ UNCHANGED <<season, scores, solved, limits, sync, closer, crashes>>

ShowPrice(s) ==
    /\ At(s, "show")
    /\ shown' = [shown EXCEPT ![th[s].c] = [n |-> th[s].n + 1, price |-> NextPrice(th[s].n)]]
    /\ Finish(s)
    /\ UNCHANGED <<season, scores, solved, limits, sync, closer, crashes>>

SubmissionStep(s) ==
    \/ JudgeFails(s) \/ Wrong(s) \/ CountFailure(s) \/ SetCooldown(s)
    \/ Right(s) \/ ClearLimits(s) \/ MarkSolved(s) \/ ShowPrice(s)

-----------------------------------------------------------------------------
(* RunDynamicScoreSync: the payload read from Redis overwrites the item.   *)

SyncRead(c) ==
    /\ sync = IdleSync
    /\ comp = "running"
    /\ Overlap \/ ~(InFlight(c) \/ Closing)
    /\ sync' = [c |-> c, n |-> shown[c].n, price |-> shown[c].price]
    /\ UNCHANGED <<season, scores, shown, solved, limits, th, closer, crashes>>

SyncWrite ==
    /\ sync.c # NoChallenge
    /\ item' = [item EXCEPT ![sync.c] = [n |-> sync.n, price |-> sync.price, first |-> @.first]]
    /\ sync' = IdleSync
    /\ UNCHANGED <<season, subs, total, shown, solved, limits, th, closer, crashes>>

-----------------------------------------------------------------------------
(* The competition.                                                        *)

StartCompetition ==
    /\ comp = "registration"
    /\ comp' = "running"
    /\ UNCHANGED <<ranked, scores, shown, solved, limits, th, sync, closer, crashes>>

CloserAt(k, from, to) == closer[k] = from /\ closer' = [closer EXCEPT ![k] = to]
rest == <<scores, shown, solved, limits, th, sync, crashes>>

(* finishCompetition (the status task) and Terminate (an administrator)    *)
(* act on a competition they loaded as running.                            *)
BeginClose(k) ==
    /\ comp = "running"
    /\ Overlap \/ (~Closing /\ sync = IdleSync /\ \A s \in Threads : At(s, "idle"))
    /\ CloserAt(k, "idle", "finish") \/ CloserAt(k, "idle", "terminate")
    /\ UNCHANGED <<season, rest>>

(* The natural end writes the status, then frees the environments: when    *)
(* that fails it returns, and the competition is not listed again.         *)
FinishCommit(k) ==
    /\ CloserAt(k, "finish", "cleanup")
    /\ comp' = "ended"
    /\ UNCHANGED <<ranked, rest>>

FinishCleanup(k) ==
    /\ CloserAt(k, "cleanup", "rank") \/ CloserAt(k, "cleanup", "idle")
    /\ UNCHANGED <<season, rest>>

(* Terminate frees the environments first.                                 *)
TerminateCleanup(k) ==
    /\ CloserAt(k, "terminate", "commit") \/ CloserAt(k, "terminate", "idle")
    /\ UNCHANGED <<season, rest>>

TerminateCommit(k) ==
    /\ CloserAt(k, "commit", "rank")
    /\ comp' = "ended"
    /\ UNCHANGED <<ranked, rest>>

(* persistFinalArtifacts: the final ranks, from the totals of this moment. *)
Rank(k) ==
    /\ CloserAt(k, "rank", "idle")
    /\ ranked' = total
    /\ UNCHANGED <<comp, rest>>

(* archiveCompetition clears every Redis key of the competition.           *)
Archive ==
    /\ comp = "ended"
    /\ Overlap \/ ~Closing
    /\ comp' = "archived"
    /\ shown' = [c \in Challenges |-> [n |-> 0, price |-> 0]]
    /\ solved' = [p \in Pairs |-> FALSE]
    /\ fails' = [p \in Pairs |-> [n |-> 0, left |-> 0]]
    /\ cool' = [p \in Pairs |-> 0]
    /\ rate' = [p \in Pairs |-> 0]
    /\ UNCHANGED <<ranked, scores, th, sync, closer, crashes>>

CloserStep(k) == \/ BeginClose(k) \/ FinishCommit(k) \/ FinishCleanup(k)
                 \/ TerminateCleanup(k) \/ TerminateCommit(k) \/ Rank(k)

(* A minute passes: Redis expires keys.                                    *)
Less(n) == IF n = 0 THEN 0 ELSE n - 1
Tick ==
    /\ cool' = [p \in Pairs |-> Less(cool[p])]
    /\ fails' = [p \in Pairs |-> IF fails[p].left <= 1 THEN [n |-> 0, left |-> 0]
                                  ELSE [n |-> fails[p].n, left |-> fails[p].left - 1]]
    /\ rate' = [p \in Pairs |-> 0]
    /\ UNCHANGED <<season, scores, shown, solved, th, sync, closer, crashes>>

Crash ==
    /\ crashes < MaxCrashes
    /\ crashes' = crashes + 1
    /\ th' = [s \in Threads |-> IdleThread]
    /\ sync' = IdleSync
    /\ closer' = [k \in Closers |-> "idle"]
    /\ UNCHANGED <<season, scores, shown, solved, limits>>

Next ==
    \/ \E s \in Threads : SubmissionStep(s) \/ \E t \in Teams, c \in Challenges : Enter(s, t, c)
    \/ (\E c \in Challenges : SyncRead(c)) \/ SyncWrite
    \/ StartCompetition \/ (\E k \in Closers : CloserStep(k)) \/ Archive
    \/ Tick \/ Crash

Spec == Init /\ [][Next]_vars

-----------------------------------------------------------------------------
(* Properties that hold however submissions overlap.                       *)

AwardIn(row, t) == IF row.t = t THEN row.award ELSE 0
Paid(rows, t) ==
    LET upTo[n \in 0..Len(rows)] == IF n = 0 THEN 0 ELSE upTo[n - 1] + AwardIn(rows[n], t)
    IN  upTo[Len(rows)]

(* A team's total is what its submissions say it was awarded, although     *)
(* concurrent transactions, of team mates too, add to it.                  *)
TotalsAreAwards == \A t \in Teams : total[t] = Paid(subs, t)

(* A first blood stays with its team (concurrent first solvers, the score  *)
(* synchronisation and the sync after a crash included), and that team     *)
(* holds a correct submission that was paid the bonus.                     *)
FirstBloodStands ==
    [][\A c \in Challenges : item[c].first # NoTeam => item'[c].first = item[c].first]_vars
FirstBloodEarned ==
    \A c \in Challenges : item[c].first # NoTeam =>
        \E k \in CorrectSubs(item[c].first, c) : subs[k].blood

(* A team is locked out of a challenge as solved only when a correct       *)
(* submission of it is stored, also after a crash.                         *)
SolvedMarkTrue ==
    \A t \in Teams, c \in Challenges : solved[<<t, c>>] => CorrectSubs(t, c) # {}

(* BR-15: a failure count at the threshold has its cooldown running, or a  *)
(* submission that is just about to set it, whatever order the failures    *)
(* and the expiries of the two keys come in.                               *)
CooldownArmed ==
    crashes = 0 => \A p \in Pairs : fails[p].n >= Threshold =>
        cool[p] > 0 \/ \E s \in Threads : At(s, "cooldown") /\ Mine(s) = p

-----------------------------------------------------------------------------
(* Properties of submissions that do not overlap on one challenge.         *)

(* Redis, the item and the submissions agree on a challenge nobody is      *)
(* submitting to: the solve count is the number of solvers and the price   *)
(* follows it, across synchronisations.                                    *)
Solvers(c) == {t \in Teams : CorrectSubs(t, c) # {}}
ScoresAgree ==
    \A c \in Challenges : ~InFlight(c) /\ crashes = 0 =>
        LET n == Cardinality(Solvers(c))
        IN  /\ item[c].n = n
            /\ n > 0 => item[c].price = Price(n + 1)
            /\ comp # "archived" => shown[c] = [n |-> n, price |-> item[c].price]

(* The teams that solved a challenge, in the order of their solves.        *)
Noted(order, row, c) == IF row.c = c /\ row.ok THEN Append(order, row.t) ELSE order
Order(rows, c) ==
    LET upTo[n \in 0..Len(rows)] == IF n = 0 THEN <<>> ELSE Noted(upTo[n - 1], rows[n], c)
    IN  upTo[Len(rows)]

(* What CtfScoreboard promises: paid by the order of solves, once.         *)
Board == INSTANCE CtfScoreboard WITH
    solvers <- [c \in Challenges |-> Order(subs, c)],
    points <- total,
    Award <- LAMBDA k : AwardFor(k - 1, k = 1)
ImplementsBoard == Board!Spec

(* The final ranks were computed from the totals that stand: nothing is    *)
(* scored after the competition was closed.                                *)
RanksAreFinal == ranked # <<>> => ranked = total

-----------------------------------------------------------------------------
(* What the documents say and the code does not keep.                      *)

(* AC-25, "a team that has solved a challenge and submits again is         *)
(* refused": one correct submission per team and challenge.                *)
OneSolvePerTeam == \A t \in Teams, c \in Challenges : Cardinality(CorrectSubs(t, c)) <= 1

\* For TLC: no definition tells submissions and teams apart.
Symmetry == Permutations(Threads) \cup Permutations(Teams)
=============================================================================
