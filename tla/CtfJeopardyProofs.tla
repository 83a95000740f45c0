-------------------------- MODULE CtfJeopardyProofs --------------------------
(***************************************************************************)
(* What holds of CtfJeopardy for any teams, challenges, goroutines, prices *)
(* and limits.                                                             *)
(***************************************************************************)
EXTENDS CtfJeopardy, Recursion, SequenceTheorems, TLAPS

(* A price is a natural number, and so is what a submission is paid.       *)
LEMMA PriceType == ASSUME NEW k \in Nat PROVE Price(k) \in Nat
  <1>1. NumPower \in [Nat -> Nat \ {0}] /\ DenPower \in [Nat -> Nat \ {0}]
    BY Powers, ScoringAssumption DEF NumPower, DenPower
  <1>2. NumPower[k] \in Nat /\ DenPower[k] \in Nat \ {0}
    BY <1>1
  <1>3. Base * NumPower[k] \in Nat
    BY <1>2, ScoringAssumption
  <1>4. (Base * NumPower[k]) \div DenPower[k] \in Nat
    BY <1>2, <1>3
  <1>5. MinScore \in Nat
    BY ScoringAssumption
  <1> QED BY <1>4, <1>5 DEF Price

LEMMA AwardType ==
    ASSUME NEW n \in Nat, NEW blood \in BOOLEAN
    PROVE  AwardFor(n, blood) \in Nat /\ NextPrice(n) \in Nat
  <1>1. Price(n + 1) \in Nat /\ Price(n + 2) \in Nat
    BY PriceType
  <1>2. (Price(n + 1) * BonusPct) \div 100 \in Nat
    BY <1>1, ScoringAssumption
  <1> QED BY <1>1, <1>2 DEF AwardFor, NextPrice

-----------------------------------------------------------------------------
(* Types.                                                                  *)

(* A thread that is not idle serves a team's submission to a challenge.    *)
LEMMA Serving ==
    ASSUME TypeOK, NEW s \in Threads, ~At(s, "idle")
    PROVE  /\ th[s].pc \in {"judge", "failed", "cooldown", "clear", "mark", "show"}
           /\ th[s].t \in Teams /\ th[s].c \in Challenges /\ Mine(s) \in Pairs
           /\ th[s].n \in Nat /\ th[s].blood \in BOOLEAN
  <1>1. th[s] \in ThreadRec /\ th[s] # IdleThread
    BY DEF TypeOK, At, IdleThread
  <1> QED BY <1>1 DEF ThreadRec, Mine, Pairs

(* It keeps its submission when it goes on, and drops it when it ends.     *)
LEMMA GotoType ==
    ASSUME TypeOK, NEW s \in Threads, ~At(s, "idle"),
           NEW pc \in {"judge", "failed", "cooldown", "clear", "mark", "show"}, Goto(s, pc)
    PROVE  th' \in [Threads -> ThreadRec]
  <1>1. [th[s] EXCEPT !.pc = pc] \in ThreadRec
    <2>1. th[s] \in ThreadRec /\ th[s] # IdleThread
      BY DEF TypeOK, At, IdleThread
    <2> QED BY <2>1 DEF ThreadRec
  <1> QED BY <1>1 DEF Goto, TypeOK

LEMMA FinishType ==
    ASSUME TypeOK, NEW s \in Threads, Finish(s)
    PROVE  th' \in [Threads -> ThreadRec]
  BY DEF TypeOK, Finish, ThreadRec

(* The initial state is well typed.                                        *)
LEMMA TypeInit == Init => TypeOK
  <1> SUFFICES ASSUME Init PROVE TypeOK
    OBVIOUS
  <1>1. Base \in Nat /\ CoolTicks \in Nat /\ MaxCrashes \in Nat
    BY ScoringAssumption, LimitAssumption, BoundAssumption
  <1>2. subs \in Seq(SubRec)
    BY DEF Init
  <1>3. th \in [Threads -> ThreadRec] /\ sync \in SyncRec
    BY DEF Init, ThreadRec, SyncRec
  <1>4. item \in [Challenges -> [n : Nat, price : Nat, first : Teams \cup {NoTeam}]]
    BY <1>1 DEF Init
  <1>5. fails \in [Pairs -> [n : Nat, left : 0..CoolTicks]]
    BY <1>1 DEF Init
  <1> QED BY <1>1, <1>2, <1>3, <1>4, <1>5 DEF Init, TypeOK

LEMMA SubmissionType ==
    ASSUME TypeOK, NEW s \in Threads, SubmissionStep(s)
    PROVE  TypeOK'
  <1> USE DEF season, scores, limits
  <1>1. ~At(s, "idle")
    BY DEF SubmissionStep, JudgeFails, Wrong, CountFailure, SetCooldown, Right, RightPaying,
           ClearLimits, MarkSolved, ShowPrice, At
  <1>2. /\ th[s].t \in Teams /\ th[s].c \in Challenges /\ Mine(s) \in Pairs
        /\ th[s].n \in Nat /\ th[s].blood \in BOOLEAN
    BY <1>1, Serving
  <1>3. AwardFor(th[s].n, th[s].blood) \in Nat /\ NextPrice(th[s].n) \in Nat
    BY <1>2, AwardType
  <1>4. CoolTicks \in 0..CoolTicks /\ 0 \in 0..CoolTicks
    BY LimitAssumption
  <1>5. CASE JudgeFails(s)
    BY <1>5, FinishType DEF JudgeFails, TypeOK
  <1>6. CASE Wrong(s)
    <2>1. Row(s, FALSE, FALSE, 0) \in SubRec
      BY <1>2 DEF Row, SubRec
    <2>2. subs' \in Seq(SubRec)
      BY <1>6, <2>1, AppendProperties DEF Wrong, TypeOK
    <2>3. th' \in [Threads -> ThreadRec]
      BY <1>1, <1>6, GotoType DEF Wrong
    <2> QED BY <1>6, <2>2, <2>3 DEF Wrong, TypeOK
  <1>7. CASE CountFailure(s)
    <2>1. Counted(fails[Mine(s)]) \in [n : Nat, left : 0..CoolTicks]
      BY <1>2, <1>4 DEF Counted, TypeOK
    <2>2. fails' \in [Pairs -> [n : Nat, left : 0..CoolTicks]]
      BY <1>7, <2>1 DEF CountFailure, TypeOK
    <2>3. th' \in [Threads -> ThreadRec]
      BY <1>1, <1>7, GotoType, FinishType DEF CountFailure
    <2> QED BY <1>7, <2>2, <2>3 DEF CountFailure, TypeOK
  <1>8. CASE SetCooldown(s)
    <2>1. cool' \in [Pairs -> 0..CoolTicks]
      BY <1>8, <1>2, <1>4 DEF SetCooldown, TypeOK
    <2>2. th' \in [Threads -> ThreadRec]
      BY <1>8, FinishType DEF SetCooldown
    <2> QED BY <1>8, <2>1, <2>2 DEF SetCooldown, TypeOK
  <1>9. CASE Right(s)
    <2> DEFINE pay == AwardFor(th[s].n, th[s].blood)
    <2>1. pay \in Nat
      BY <1>3
    <2> HIDE DEF pay
    <2>2. RightPaying(s, Row(s, TRUE, th[s].blood, pay), pay)
      BY <1>9 DEF Right, pay
    <2>3. Row(s, TRUE, th[s].blood, pay) \in SubRec
      BY <1>2, <2>1 DEF Row, SubRec
    <2>4. subs' \in Seq(SubRec)
      BY <2>2, <2>3, AppendProperties DEF RightPaying, TypeOK
    <2>5. total' \in [Teams -> Nat]
      BY <1>2, <2>1, <2>2 DEF RightPaying, TypeOK
    <2>6. Solved(item[th[s].c], s) \in [n : Nat, price : Nat, first : Teams \cup {NoTeam}]
      <3>1. item[th[s].c] \in [n : Nat, price : Nat, first : Teams \cup {NoTeam}]
        BY <1>2 DEF TypeOK
      <3> QED BY <3>1, <1>2, <1>3 DEF Solved
    <2>7. item' \in [Challenges -> [n : Nat, price : Nat, first : Teams \cup {NoTeam}]]
      BY <2>2, <2>6 DEF RightPaying, TypeOK
    <2>8. th' \in [Threads -> ThreadRec]
      BY <1>1, <2>2, GotoType DEF RightPaying
    <2> QED BY <2>2, <2>4, <2>5, <2>7, <2>8 DEF RightPaying, TypeOK
  <1>10. CASE ClearLimits(s)
    <2>1. /\ cool' \in [Pairs -> 0..CoolTicks]
          /\ fails' \in [Pairs -> [n : Nat, left : 0..CoolTicks]]
      BY <1>10, <1>2, <1>4 DEF ClearLimits, TypeOK
    <2>2. th' \in [Threads -> ThreadRec]
      BY <1>1, <1>10, GotoType DEF ClearLimits
    <2> QED BY <1>10, <2>1, <2>2 DEF ClearLimits, TypeOK
  <1>11. CASE MarkSolved(s)
    <2>1. th' \in [Threads -> ThreadRec]
      BY <1>1, <1>11, GotoType DEF MarkSolved
    <2> QED BY <1>11, <2>1 DEF MarkSolved, TypeOK
  <1>12. CASE ShowPrice(s)
    <2>1. shown' \in [Challenges -> [n : Nat, price : Nat]]
      BY <1>2, <1>3, <1>12 DEF ShowPrice, TypeOK
    <2>2. th' \in [Threads -> ThreadRec]
      BY <1>12, FinishType DEF ShowPrice
    <2> QED BY <1>12, <2>1, <2>2 DEF ShowPrice, TypeOK
  <1> QED BY <1>5, <1>6, <1>7, <1>8, <1>9, <1>10, <1>11, <1>12 DEF SubmissionStep

LEMMA OtherType ==
    ASSUME TypeOK, [Next]_vars, ~\E s \in Threads : SubmissionStep(s)
    PROVE  TypeOK'
  <1> USE DEF season, scores, limits, rest
  <1>0. CoolTicks \in Nat /\ 0 \in 0..CoolTicks
    BY LimitAssumption
  <1>1. ASSUME NEW s \in Threads, NEW t \in Teams, NEW c \in Challenges, Enter(s, t, c)
        PROVE  TypeOK'
    <2>1. rate' \in [Pairs -> Nat]
      BY <1>1 DEF Enter, TypeOK, Pairs
    <2>2. [pc |-> "judge", t |-> t, c |-> c, n |-> item[c].n, blood |-> item[c].first = NoTeam]
              \in ThreadRec
      BY DEF ThreadRec, TypeOK
    <2>3. th' \in [Threads -> ThreadRec]
      BY <1>1, <2>2 DEF Enter, TypeOK
    <2> QED BY <1>1, <2>1, <2>3 DEF Enter, TypeOK
  <1>2. ASSUME NEW c \in Challenges, SyncRead(c) PROVE TypeOK'
    <2>1. sync' \in SyncRec
      BY <1>2 DEF SyncRead, TypeOK, SyncRec
    <2> QED BY <1>2, <2>1 DEF SyncRead, TypeOK
  <1>3. CASE SyncWrite
    <2>1. sync.c \in Challenges /\ sync.n \in Nat /\ sync.price \in Nat
      BY <1>3 DEF SyncWrite, TypeOK, SyncRec, IdleSync
    <2>2. item' \in [Challenges -> [n : Nat, price : Nat, first : Teams \cup {NoTeam}]]
      BY <1>3, <2>1 DEF SyncWrite, TypeOK
    <2> QED BY <1>3, <2>2 DEF SyncWrite, TypeOK, SyncRec
  <1>4. CASE StartCompetition
    BY <1>4 DEF StartCompetition, TypeOK
  <1>5. ASSUME NEW k \in Closers, CloserStep(k) PROVE TypeOK'
    <2>1. CASE Rank(k)
      BY <2>1 DEF Rank, CloserAt, TypeOK
    <2> QED BY <1>5, <2>1 DEF CloserStep, BeginClose, FinishCommit, FinishCleanup,
               TerminateCleanup, TerminateCommit, CloserAt, TypeOK
  <1>6. CASE Archive
    BY <1>6, <1>0 DEF Archive, TypeOK
  <1>7. CASE Tick
    <2>1. cool' \in [Pairs -> 0..CoolTicks]
      BY <1>7, <1>0 DEF Tick, Less, TypeOK
    <2>2. fails' \in [Pairs -> [n : Nat, left : 0..CoolTicks]]
      <3>1. \A p \in Pairs : fails[p].n \in Nat /\ fails[p].left \in 0..CoolTicks
        BY DEF TypeOK
      <3> QED BY <1>7, <1>0, <3>1 DEF Tick
    <2>3. rate' \in [Pairs -> Nat]
      BY <1>7 DEF Tick
    <2> QED BY <1>7, <2>1, <2>2, <2>3 DEF Tick, TypeOK
  <1>8. CASE Crash
    BY <1>8, BoundAssumption DEF Crash, TypeOK, ThreadRec, SyncRec
  <1>9. CASE UNCHANGED vars
    BY <1>9 DEF vars, TypeOK
  <1> QED BY <1>1, <1>2, <1>3, <1>4, <1>5, <1>6, <1>7, <1>8, <1>9 DEF Next

(* Every reachable state is well typed: whatever is in flight, submissions *)
(* (SubmitChallenge), counters and prices keep their shape and their signs.*)
THEOREM TypeCorrect == Spec => []TypeOK
  <1>1. TypeOK /\ [Next]_vars => TypeOK'
    BY SubmissionType, OtherType
  <1> QED BY TypeInit, <1>1, PTL DEF Spec
-----------------------------------------------------------------------------
(* What a step does to a thread, and to the submissions.                   *)

Kept(r) == /\ th'[r].t = th[r].t /\ th'[r].c = th[r].c
           /\ th'[r].n = th[r].n /\ th'[r].blood = th[r].blood

LEMMA GotoStep ==
    ASSUME TypeOK, NEW s \in Threads, ~At(s, "idle"), NEW pc, Goto(s, pc)
    PROVE  Kept(s) /\ th'[s].pc = pc
  <1>1. th \in [Threads -> ThreadRec]
    BY DEF TypeOK
  <1>2. th[s] \in ThreadRec /\ th[s] # IdleThread
    BY <1>1 DEF At, IdleThread
  <1> QED BY <1>1, <1>2 DEF Goto, Kept, ThreadRec

(* A thread that moved was reset, has just loaded its item, or took one of *)
(* the steps of SubmitChallenge.                                           *)
LEMMA ThreadStep ==
    ASSUME TypeOK, [Next]_vars, NEW r \in Threads, th'[r] # th[r], th'[r] # IdleThread
    PROVE  \/ \E t \in Teams, c \in Challenges : Enter(r, t, c) /\ th'[r].pc = "judge"
           \/ /\ ~At(r, "idle") /\ Kept(r)
              /\ \/ Wrong(r) /\ th'[r].pc = "failed"
                 \/ CountFailure(r) /\ th'[r].pc = "cooldown" /\ fails[Mine(r)].n + 1 >= Threshold
                 \/ Right(r) /\ th'[r].pc = "clear"
                 \/ ClearLimits(r) /\ th'[r].pc = "mark"
                 \/ MarkSolved(r) /\ th'[r].pc = "show"
  <1> USE DEF scores, limits, season, rest
  <1>1. th \in [Threads -> ThreadRec]
    BY DEF TypeOK
  <1>2. ASSUME NEW s \in Threads, SubmissionStep(s) PROVE s = r
    BY <1>1, <1>2 DEF SubmissionStep, JudgeFails, Wrong, CountFailure, SetCooldown, Right,
       RightPaying, ClearLimits, MarkSolved, ShowPrice, Goto, Finish
  <1>3. ASSUME NEW s \in Threads, NEW t \in Teams, NEW c \in Challenges, Enter(s, t, c)
        PROVE  s = r /\ th'[r].pc = "judge"
    BY <1>1, <1>3 DEF Enter
  <1>4. ASSUME NEW pc, Goto(r, pc), ~At(r, "idle")
        PROVE  Kept(r) /\ th'[r].pc = pc
    BY <1>4, GotoStep
  <1>5. CASE SubmissionStep(r)
    <2>1. CASE JudgeFails(r) \/ SetCooldown(r) \/ ShowPrice(r)
      BY <1>1, <2>1 DEF JudgeFails, SetCooldown, ShowPrice, Finish
    <2>2. CASE Wrong(r)
      BY <1>4, <2>2 DEF Wrong, At
    <2>3. CASE CountFailure(r)
      <3>1. CASE fails[Mine(r)].n + 1 >= Threshold
        BY <1>4, <2>3, <3>1 DEF CountFailure, At
      <3>2. CASE ~(fails[Mine(r)].n + 1 >= Threshold)
        BY <1>1, <2>3, <3>2 DEF CountFailure, Finish
      <3> QED BY <3>1, <3>2
    <2>4. CASE Right(r)
      BY <1>4, <2>4 DEF Right, RightPaying, At
    <2>5. CASE ClearLimits(r)
      BY <1>4, <2>5 DEF ClearLimits, At
    <2>6. CASE MarkSolved(r)
      BY <1>4, <2>6 DEF MarkSolved, At
    <2> QED BY <1>5, <2>1, <2>2, <2>3, <2>4, <2>5, <2>6 DEF SubmissionStep
  <1>6. CASE \E c \in Challenges : SyncRead(c)
    BY <1>6 DEF SyncRead
  <1>7. CASE SyncWrite \/ StartCompetition \/ Archive \/ Tick \/ UNCHANGED vars
    BY <1>7 DEF SyncWrite, StartCompetition, Archive, Tick, vars
  <1>8. CASE Crash
    BY <1>8 DEF Crash
  <1>9. CASE \E k \in Closers : CloserStep(k)
    BY <1>9 DEF CloserStep, BeginClose, FinishCommit, FinishCleanup, TerminateCleanup,
       TerminateCommit, Rank
  <1> QED BY <1>2, <1>3, <1>5, <1>6, <1>7, <1>8, <1>9 DEF Next

(* Submissions are only ever inserted, by the two outcomes of judging.     *)
LEMMA SubsStep ==
    ASSUME TypeOK, [Next]_vars
    PROVE  \/ subs' = subs
           \/ \E s \in Threads :
                 \/ Wrong(s) /\ subs' = Append(subs, Row(s, FALSE, FALSE, 0))
                 \/ /\ Right(s)
                    /\ subs' = Append(subs, Row(s, TRUE, th[s].blood, AwardFor(th[s].n, th[s].blood)))
  <1> USE DEF scores, limits, season, rest
  <1>1. CASE \E s \in Threads : SubmissionStep(s)
    BY <1>1 DEF SubmissionStep, JudgeFails, Wrong, CountFailure, SetCooldown, Right,
       RightPaying, ClearLimits, MarkSolved, ShowPrice
  <1>2. CASE \E s \in Threads, t \in Teams, c \in Challenges : Enter(s, t, c)
    BY <1>2 DEF Enter
  <1>3. CASE (\E c \in Challenges : SyncRead(c)) \/ SyncWrite \/ StartCompetition \/ Archive
             \/ Tick \/ Crash \/ UNCHANGED vars
    BY <1>3 DEF SyncRead, SyncWrite, StartCompetition, Archive, Tick, Crash, vars
  <1>4. CASE \E k \in Closers : CloserStep(k)
    BY <1>4 DEF CloserStep, BeginClose, FinishCommit, FinishCleanup, TerminateCleanup,
       TerminateCommit, Rank
  <1> QED BY <1>1, <1>2, <1>3, <1>4 DEF Next

(* A judged submission is a row of the submissions' type.                  *)
LEMMA RowType ==
    ASSUME TypeOK, NEW s \in Threads, ~At(s, "idle")
    PROVE  /\ Row(s, FALSE, FALSE, 0) \in SubRec
           /\ Row(s, TRUE, th[s].blood, AwardFor(th[s].n, th[s].blood)) \in SubRec
  BY Serving, AwardType DEF Row, SubRec

(* So the rows that are stored stay as they are.                           *)
LEMMA SubsGrow ==
    ASSUME TypeOK, [Next]_vars
    PROVE  /\ Len(subs) \in Nat /\ Len(subs') \in Nat /\ Len(subs) <= Len(subs')
           /\ \A k \in 1..Len(subs) : subs'[k] = subs[k]
  <1>1. subs \in Seq(SubRec)
    BY DEF TypeOK
  <1>2. CASE subs' = subs
    BY <1>1, <1>2, LenProperties
  <1>3. CASE \E row \in SubRec : subs' = Append(subs, row)
    BY <1>1, <1>3, AppendProperties, LenProperties
  <1> QED
    <2>1. ASSUME NEW s \in Threads, Wrong(s) \/ Right(s) PROVE ~At(s, "idle")
      BY <2>1 DEF Wrong, Right, RightPaying, At
    <2> QED BY <1>2, <1>3, <2>1, SubsStep, RowType

LEMMA CorrectStays ==
    ASSUME TypeOK, [Next]_vars, NEW t, NEW c
    PROVE  CorrectSubs(t, c) \subseteq CorrectSubs(t, c)'
  BY SubsGrow DEF CorrectSubs

-----------------------------------------------------------------------------
(* A solved mark is backed by a stored submission.  The mark is written    *)
(* two Redis calls after the commit, so the threads between them count.    *)

Storing(s) == th[s].pc \in {"clear", "mark", "show"}

SolvedInv ==
    /\ SolvedMarkTrue
    /\ \A s \in Threads : Storing(s) => CorrectSubs(th[s].t, th[s].c) # {}

(* The thread that stored a correct submission finds it.                   *)
LEMMA RightStores ==
    ASSUME TypeOK, NEW s \in Threads, Right(s), NEW t, NEW c, t = th[s].t, c = th[s].c
    PROVE  /\ CorrectSubs(t, c)' = CorrectSubs(t, c) \cup {Len(subs) + 1}
           /\ subs'[Len(subs) + 1].blood = th[s].blood
  <1> DEFINE row == Row(s, TRUE, th[s].blood, AwardFor(th[s].n, th[s].blood))
  <1>1. subs' = Append(subs, row) /\ row \in SubRec /\ subs \in Seq(SubRec)
    <2>1. ~At(s, "idle")
      BY DEF Right, RightPaying, At
    <2> QED BY <2>1, RowType DEF Right, RightPaying, TypeOK
  <1>2. row.t = t /\ row.c = c /\ row.ok /\ row.blood = th[s].blood
    BY DEF Row
  <1> HIDE DEF row
  <1>3. /\ Len(subs) \in Nat /\ Len(subs') = Len(subs) + 1
        /\ subs'[Len(subs) + 1] = row
        /\ \A k \in 1..Len(subs) : subs'[k] = subs[k]
    BY <1>1, AppendProperties, LenProperties
  <1> QED BY <1>2, <1>3 DEF CorrectSubs

LEMMA SolvedStep ==
    ASSUME TypeOK, SolvedInv, [Next]_vars
    PROVE  SolvedInv'
  <1>1. ASSUME NEW s \in Threads, Storing(s)'
        PROVE  (CorrectSubs(th[s].t, th[s].c) # {})'
    <2>1. CASE th'[s] = th[s]
      BY <1>1, <2>1, CorrectStays DEF SolvedInv, Storing
    <2>2. CASE th'[s] # th[s]
      <3>1. ~At(s, "idle") /\ Kept(s) /\ (Right(s) \/ ClearLimits(s) \/ MarkSolved(s))
        BY <1>1, <2>2, ThreadStep DEF Storing, IdleThread
      <3>2. CASE Right(s)
        <4>1. PICK t \in Teams, c \in Challenges : t = th[s].t /\ c = th[s].c
          BY <3>1, Serving
        <4>2. CorrectSubs(t, c)' # {}
          BY <3>2, <4>1, RightStores
        <4> QED BY <3>1, <4>1, <4>2 DEF Kept, CorrectSubs
      <3>3. CASE ClearLimits(s) \/ MarkSolved(s)
        <4>1. CorrectSubs(th[s].t, th[s].c) # {}
          BY <3>3 DEF ClearLimits, MarkSolved, At, Storing, SolvedInv
        <4> QED BY <3>1, <4>1, CorrectStays DEF Kept
      <3> QED BY <3>1, <3>2, <3>3
    <2> QED BY <2>1, <2>2
  <1>2. ASSUME NEW t \in Teams, NEW c \in Challenges, solved'[<<t, c>>]
        PROVE  CorrectSubs(t, c)' # {}
    <2>1. CASE solved[<<t, c>>]
      BY <2>1, CorrectStays DEF SolvedInv, SolvedMarkTrue
    <2>2. CASE ~solved[<<t, c>>]
      <3> USE DEF scores, limits, season, rest
      <3>1. <<t, c>> \in Pairs
        BY DEF Pairs
      <3>2. solved' # solved
        BY <1>2, <2>2
      <3>3. \/ \E s \in Threads : MarkSolved(s)
            \/ Archive
        BY <3>2 DEF Next, SubmissionStep, JudgeFails, Wrong, CountFailure, SetCooldown, Right,
           RightPaying, ClearLimits, ShowPrice, Enter, SyncRead, SyncWrite, StartCompetition,
           CloserStep, BeginClose, FinishCommit, FinishCleanup, TerminateCleanup,
           TerminateCommit, Rank, Tick, Crash, vars
      <3>4. ~Archive
        BY <1>2, <3>1 DEF Archive
      <3>5. PICK s \in Threads : MarkSolved(s)
        BY <3>3, <3>4
      <3>6. Mine(s) = <<t, c>>
        BY <1>2, <2>2, <3>1, <3>5 DEF MarkSolved, TypeOK
      <3>7. th[s].t = t /\ th[s].c = c /\ Storing(s)
        BY <3>5, <3>6 DEF Mine, MarkSolved, At, Storing
      <3> QED BY <3>7, CorrectStays DEF SolvedInv
    <2> QED BY <2>1, <2>2
  <1> QED BY <1>1, <1>2 DEF SolvedInv, SolvedMarkTrue

(* However submissions overlap and crash, a team is refused as "already    *)
(* solved" only when a correct submission of it is stored.                 *)
THEOREM SolvedMarksAreTrue == Spec => []SolvedMarkTrue
  <1>1. Init => SolvedInv
    BY DEF Init, SolvedInv, SolvedMarkTrue, Storing, IdleThread, Pairs
  <1>2. TypeOK /\ SolvedInv /\ [Next]_vars => SolvedInv'
    BY SolvedStep
  <1>3. SolvedInv => SolvedMarkTrue
    BY DEF SolvedInv
  <1> QED BY <1>1, <1>2, <1>3, TypeCorrect, PTL DEF Spec

-----------------------------------------------------------------------------
(* First bloods.                                                           *)

(* MarkFirstBlood writes only where there is none, and whoever it names    *)
(* has just stored a correct submission flagged as first blood.            *)
LEMMA FirstStep ==
    ASSUME TypeOK, [Next]_vars, NEW c \in Challenges, item'[c].first # item[c].first
    PROVE  /\ item[c].first = NoTeam
           /\ \E s \in Threads : /\ Right(s) /\ th[s].c = c /\ th[s].t = item'[c].first
                                  /\ th[s].blood
  <1> USE DEF scores, limits, season, rest
  <1>1. item' # item
    OBVIOUS
  <1>2. SyncWrite \/ \E s \in Threads : Right(s)
    BY <1>1 DEF Next, SubmissionStep, JudgeFails, Wrong, CountFailure, SetCooldown,
       ClearLimits, MarkSolved, ShowPrice, Enter, SyncRead, StartCompetition,
       CloserStep, BeginClose, FinishCommit, FinishCleanup, TerminateCleanup,
       TerminateCommit, Rank, Archive, Tick, Crash, vars
  <1>3. ~SyncWrite
    <2> SUFFICES ASSUME SyncWrite PROVE item'[c].first = item[c].first
      OBVIOUS
    <2>1. item' = [item EXCEPT ![sync.c] = [n |-> sync.n, price |-> sync.price, first |-> @.first]]
      BY DEF SyncWrite
    <2>2. CASE sync.c = c
      <3>1. item'[c] = [n |-> sync.n, price |-> sync.price, first |-> item[c].first]
        BY <2>1, <2>2 DEF TypeOK
      <3> QED BY <3>1
    <2>3. CASE sync.c # c
      BY <2>1, <2>3 DEF TypeOK
    <2> QED BY <2>2, <2>3
  <1>4. PICK s \in Threads : Right(s)
    BY <1>2, <1>3
  <1>5. item' = [item EXCEPT ![th[s].c] = Solved(@, s)]
    BY <1>4 DEF Right, RightPaying
  <1>6. th[s].c = c /\ item'[c] = Solved(item[c], s)
    BY <1>5 DEF TypeOK
  <1>7. item[c].first = NoTeam /\ th[s].blood /\ item'[c].first = th[s].t
    BY <1>6 DEF Solved
  <1> QED BY <1>4, <1>6, <1>7

LEMMA EarnedStep ==
    ASSUME TypeOK, FirstBloodEarned, [Next]_vars
    PROVE  FirstBloodEarned'
  <1> SUFFICES ASSUME NEW c \in Challenges, item'[c].first # NoTeam
               PROVE  (\E k \in CorrectSubs(item[c].first, c) : subs[k].blood)'
    BY DEF FirstBloodEarned
  <1>1. CASE item'[c].first = item[c].first
    <2>1. PICK k \in CorrectSubs(item[c].first, c) : subs[k].blood
      BY <1>1 DEF FirstBloodEarned
    <2>2. k \in 1..Len(subs) /\ subs'[k] = subs[k]
      BY SubsGrow DEF CorrectSubs
    <2> QED BY <1>1, <2>1, <2>2, CorrectStays
  <1>2. CASE item'[c].first # item[c].first
    <2>1. PICK s \in Threads : Right(s) /\ th[s].c = c /\ th[s].t = item'[c].first /\ th[s].blood
      BY <1>2, FirstStep
    <2>2. PICK t \in Teams : t = th[s].t
      <3>1. ~At(s, "idle")
        BY <2>1 DEF Right, RightPaying, At
      <3> QED BY <3>1, Serving
    <2>3. Len(subs) + 1 \in CorrectSubs(t, c)' /\ subs'[Len(subs) + 1].blood
      BY <2>1, <2>2, RightStores
    <2> QED BY <2>1, <2>2, <2>3 DEF CorrectSubs
  <1> QED BY <1>1, <1>2

(* A first blood is held by a team with a correct submission stored as     *)
(* first blood.                                                            *)
THEOREM FirstBloodsAreEarned == Spec => []FirstBloodEarned
  <1>1. Init => FirstBloodEarned
    BY DEF Init, FirstBloodEarned
  <1>2. TypeOK /\ FirstBloodEarned /\ [Next]_vars => FirstBloodEarned'
    BY EarnedStep
  <1> QED BY <1>1, <1>2, TypeCorrect, PTL DEF Spec

(* No step takes a first blood away, the score synchronisation and the     *)
(* second of two concurrent "first" solvers included.                      *)
THEOREM FirstBloodsStand == Spec => FirstBloodStands
  <1>1. TypeOK /\ [Next]_vars =>
          [\A c \in Challenges : item[c].first # NoTeam => item'[c].first = item[c].first]_vars
    BY FirstStep
  <1> QED BY <1>1, TypeCorrect, PTL DEF Spec, FirstBloodStands

-----------------------------------------------------------------------------
(* The cooldown.  The failure counter and the cooldown mark are two keys   *)
(* with a life of their own: the mark has to outlive a counter that is at  *)
(* the threshold, or the very next failure would not be refused.           *)

Setting(p) == \E s \in Threads : At(s, "cooldown") /\ Mine(s) = p

CooldownInv ==
    crashes = 0 => \A p \in Pairs :
        /\ fails[p].n > 0 => fails[p].left > 0
        /\ fails[p].n >= Threshold => cool[p] >= fails[p].left \/ Setting(p)

(* The thread that is about to set a mark stays there until it sets it.    *)
LEMMA SettingStep ==
    ASSUME TypeOK, [Next]_vars, crashes' = 0, NEW p \in Pairs, Setting(p)
    PROVE  Setting(p)' \/ cool'[p] = CoolTicks
  <1>1. PICK s \in Threads : At(s, "cooldown") /\ Mine(s) = p
    BY DEF Setting
  <1>2. CASE th'[s] = th[s]
    BY <1>1, <1>2 DEF Setting, At, Mine
  <1>3. CASE th'[s] # th[s]
    <2> USE DEF scores, limits, season, rest
    <2>1. th'[s] = IdleThread
      BY <1>1, <1>3, ThreadStep DEF At, Enter, Wrong, CountFailure, Right, RightPaying,
         ClearLimits, MarkSolved
    <2>2. SetCooldown(s) => cool'[p] = CoolTicks
      BY <1>1 DEF SetCooldown, TypeOK
    <2>3. ~Crash
      BY BoundAssumption DEF Crash, TypeOK
    <2>4. \A r \in Threads : SubmissionStep(r) => r = s
      BY <1>3 DEF SubmissionStep, JudgeFails, Wrong, CountFailure, SetCooldown, Right,
         RightPaying, ClearLimits, MarkSolved, ShowPrice, Goto, Finish, TypeOK
    <2>5. SubmissionStep(s) => SetCooldown(s)
      BY <1>1 DEF SubmissionStep, JudgeFails, Wrong, CountFailure, Right, RightPaying,
         ClearLimits, MarkSolved, ShowPrice, At
    <2>6. \E r \in Threads : SubmissionStep(r)
      <3>1. ASSUME NEW r \in Threads, NEW t \in Teams, NEW c \in Challenges, Enter(r, t, c)
            PROVE  FALSE
        BY <1>1, <1>3, <3>1 DEF Enter, At, TypeOK
      <3> QED BY <1>3, <2>3, <3>1 DEF Next, SyncRead, SyncWrite, StartCompetition, CloserStep,
              BeginClose, FinishCommit, FinishCleanup, TerminateCleanup, TerminateCommit,
              Rank, Archive, Tick, vars
    <2> QED BY <2>2, <2>4, <2>5, <2>6
  <1> QED BY <1>2, <1>3

LEMMA CooldownStep ==
    ASSUME TypeOK, CooldownInv, [Next]_vars
    PROVE  CooldownInv'
  <1> USE DEF scores, limits, season, rest
  <1> SUFFICES ASSUME crashes' = 0, NEW p \in Pairs
               PROVE  /\ fails'[p].n > 0 => fails'[p].left > 0
                      /\ fails'[p].n >= Threshold => cool'[p] >= fails'[p].left \/ Setting(p)'
    BY DEF CooldownInv
  <1>1. crashes = 0
    <2>1. crashes \in Nat
      BY BoundAssumption DEF TypeOK
    <2>2. crashes' = crashes \/ crashes' = crashes + 1
      BY DEF Next, SubmissionStep, JudgeFails, Wrong, CountFailure, SetCooldown, Right,
       RightPaying, ClearLimits, MarkSolved, ShowPrice, Enter, SyncRead, SyncWrite,
       StartCompetition, CloserStep, BeginClose, FinishCommit, FinishCleanup,
       TerminateCleanup, TerminateCommit, Rank, Archive, Tick, Crash, vars
    <2> QED BY <2>1, <2>2
  <1>2. /\ fails[p].n > 0 => fails[p].left > 0
        /\ fails[p].n >= Threshold => cool[p] >= fails[p].left \/ Setting(p)
    BY <1>1 DEF CooldownInv
  <1>3. /\ fails[p].n \in Nat /\ fails[p].left \in 0..CoolTicks /\ cool[p] \in 0..CoolTicks
        /\ CoolTicks \in Nat \ {0} /\ Threshold \in Nat \ {0}
    BY LimitAssumption DEF TypeOK
  <1>4. CASE fails' = fails /\ cool' = cool
    BY <1>2, <1>3, <1>4, SettingStep
  <1>5. ASSUME NEW s \in Threads, CountFailure(s) PROVE fails'[p].n > 0 => fails'[p].left > 0
    <2>1. CASE Mine(s) = p
      <3>1. fails'[p] = Counted(fails[p])
        BY <1>5, <2>1 DEF CountFailure, TypeOK
      <3> QED BY <1>2, <1>3, <3>1 DEF Counted
    <2>2. CASE Mine(s) # p
      BY <1>2, <1>5, <2>2 DEF CountFailure, TypeOK
    <2> QED BY <2>1, <2>2
  <1>6. ASSUME NEW s \in Threads, CountFailure(s), fails'[p].n >= Threshold
        PROVE  cool'[p] >= fails'[p].left \/ Setting(p)'
    <2>1. CASE Mine(s) = p
      <3>1. fails'[p].n = fails[p].n + 1
        BY <1>6, <2>1 DEF CountFailure, Counted, TypeOK
      <3>2. Goto(s, "cooldown") /\ ~At(s, "idle")
        BY <1>3, <1>6, <2>1, <3>1 DEF CountFailure, At
      <3>3. Kept(s) /\ th'[s].pc = "cooldown"
        BY <3>2, GotoStep
      <3> QED BY <2>1, <3>3 DEF Setting, At, Mine, Kept
    <2>2. CASE Mine(s) # p
      <3>1. fails'[p] = fails[p] /\ cool' = cool
        BY <1>6, <2>2 DEF CountFailure, TypeOK
      <3> QED BY <1>2, <1>3, <1>6, <3>1, SettingStep
    <2> QED BY <2>1, <2>2
  <1>7. ASSUME NEW s \in Threads, SetCooldown(s)
        PROVE  cool'[p] >= cool[p] /\ fails' = fails
    BY <1>3, <1>7 DEF SetCooldown, TypeOK
  <1>8. ASSUME NEW s \in Threads, ClearLimits(s), Mine(s) # p
        PROVE  cool'[p] = cool[p] /\ fails'[p] = fails[p]
    BY <1>8 DEF ClearLimits, TypeOK
  <1>9. ASSUME NEW s \in Threads, ClearLimits(s), Mine(s) = p
        PROVE  fails'[p].n = 0
    BY <1>9 DEF ClearLimits, TypeOK
  <1>10. CASE Tick
    <2>1. cool'[p] = Less(cool[p]) /\ th' = th
      BY <1>10 DEF Tick
    <2>2. fails'[p] = IF fails[p].left <= 1 THEN [n |-> 0, left |-> 0]
                      ELSE [n |-> fails[p].n, left |-> fails[p].left - 1]
      BY <1>10 DEF Tick
    <2> QED BY <1>2, <1>3, <2>1, <2>2 DEF Less, Setting, At, Mine
  <1>11. CASE Archive
    BY <1>3, <1>11 DEF Archive
  <1>12. \/ fails' = fails /\ cool' = cool
         \/ \E s \in Threads : CountFailure(s) \/ SetCooldown(s) \/ ClearLimits(s)
         \/ Tick \/ Archive
    BY DEF Next, SubmissionStep, JudgeFails, Wrong, Right, RightPaying, MarkSolved, ShowPrice,
       Enter, SyncRead, SyncWrite, StartCompetition, CloserStep, BeginClose, FinishCommit,
       FinishCleanup, TerminateCleanup, TerminateCommit, Rank, Crash, vars
  <1>13. ASSUME NEW s \in Threads, SetCooldown(s)
         PROVE  fails'[p].n >= Threshold => cool'[p] >= fails'[p].left \/ Setting(p)'
    <2>1. cool'[p] \in 0..CoolTicks
      BY <1>13, SubmissionType DEF SubmissionStep, TypeOK
    <2> QED BY <1>2, <1>3, <1>7, <1>13, <2>1, SettingStep
  <1>14. ASSUME NEW s \in Threads, ClearLimits(s)
         PROVE  /\ fails'[p].n > 0 => fails'[p].left > 0
                /\ fails'[p].n >= Threshold => cool'[p] >= fails'[p].left \/ Setting(p)'
    BY <1>2, <1>3, <1>8, <1>9, <1>14, SettingStep
  <1> QED BY <1>2, <1>4, <1>5, <1>6, <1>7, <1>10, <1>11, <1>12, <1>13, <1>14

(* BR-15: as long as the backend does not crash between two Redis calls, a *)
(* failure count at the threshold has its cooldown running, or a submission*)
(* that is just about to set it, whatever order the failures and the       *)
(* expiries of the two keys come in.                                       *)
THEOREM CooldownsAreArmed == Spec => []CooldownArmed
  <1>1. Init => CooldownInv
    BY LimitAssumption DEF Init, CooldownInv
  <1>2. TypeOK /\ CooldownInv /\ [Next]_vars => CooldownInv'
    BY CooldownStep
  <1>3. TypeOK /\ CooldownInv => CooldownArmed
    <2> SUFFICES ASSUME TypeOK, CooldownInv, crashes = 0, NEW p \in Pairs, fails[p].n >= Threshold
                 PROVE  cool[p] > 0 \/ Setting(p)
      BY DEF CooldownArmed, Setting
    <2> QED BY LimitAssumption DEF CooldownInv, TypeOK
  <1> QED BY <1>1, <1>2, <1>3, TypeCorrect, PTL DEF Spec

-----------------------------------------------------------------------------
(* The end of the competition, when it does not overlap with submissions.  *)

Over == comp \in {"ended", "archived"}
Quiet == sync = IdleSync /\ \A s \in Threads : th[s] = IdleThread

(* While it is being closed nothing is in flight, and afterwards nothing   *)
(* starts: so the ranks are computed when no award can be added any more.  *)
SeasonInv ==
    /\ Closing \/ Over => Quiet
    /\ Closing => comp # "archived"
    /\ \A k \in Closers : closer[k] \in {"cleanup", "rank"} => Over
    /\ ranked # <<>> => Over /\ ranked = total

LEMMA SeasonStep ==
    ASSUME ~Overlap, TypeOK, SeasonInv, [Next]_vars
    PROVE  SeasonInv'
  <1> USE DEF scores, limits, season, rest, Over
  <1>1. ASSUME NEW s \in Threads, SubmissionStep(s) PROVE SeasonInv'
    <2>1. th[s] # IdleThread
      <3>1. th[s].pc # "idle"
        BY <1>1 DEF SubmissionStep, JudgeFails, Wrong, CountFailure, SetCooldown, Right,
           RightPaying, ClearLimits, MarkSolved, ShowPrice, At
      <3> QED BY <3>1 DEF IdleThread
    <2>2. ~Closing /\ ~Over /\ ranked = <<>>
      BY <2>1 DEF SeasonInv, Quiet
    <2>3. comp' = comp /\ closer' = closer /\ ranked' = ranked
      BY <1>1 DEF SubmissionStep, JudgeFails, Wrong, CountFailure, SetCooldown, Right,
         RightPaying, ClearLimits, MarkSolved, ShowPrice
    <2> QED BY <2>2, <2>3 DEF SeasonInv, Closing
  <1>2. ASSUME NEW s \in Threads, NEW t \in Teams, NEW c \in Challenges, Enter(s, t, c)
        PROVE  SeasonInv'
    <2>1. ~Closing /\ ~Over
      BY <1>2 DEF Enter, Open
    <2> QED BY <1>2, <2>1 DEF Enter, SeasonInv, Closing
  <1>3. ASSUME NEW c \in Challenges, SyncRead(c) PROVE SeasonInv'
    <2>1. ~Closing /\ ~Over
      BY <1>3 DEF SyncRead
    <2> QED BY <1>3, <2>1 DEF SyncRead, SeasonInv, Closing
  <1>4. CASE SyncWrite
    BY <1>4 DEF SyncWrite, SeasonInv, Closing, Quiet
  <1>5. CASE StartCompetition
    BY <1>5 DEF StartCompetition, SeasonInv, Closing, Quiet
  <1>6. ASSUME NEW k \in Closers, CloserStep(k) PROVE SeasonInv'
    <2>1. closer \in [Closers -> {"idle", "finish", "cleanup", "terminate", "commit", "rank"}]
      BY DEF TypeOK
    <2>2. CASE BeginClose(k)
      <3>1. Quiet /\ comp = "running"
        <4>1. ASSUME NEW s \in Threads, At(s, "idle") PROVE th[s] = IdleThread
          BY <4>1 DEF TypeOK, ThreadRec, At
        <4> QED BY <2>2, <4>1 DEF BeginClose, Quiet
      <3> QED BY <2>1, <2>2, <3>1 DEF BeginClose, CloserAt, SeasonInv, Quiet
    <2>3. CASE closer[k] # "idle" /\ comp' = "ended" /\ UNCHANGED <<ranked, rest>>
      BY <2>3 DEF SeasonInv, Closing, Quiet
    <2>4. CASE FinishCommit(k) \/ TerminateCommit(k)
      <3>1. closer[k] # "idle" /\ comp' = "ended" /\ UNCHANGED <<ranked, rest>>
        BY <2>4 DEF FinishCommit, TerminateCommit, CloserAt
      <3> QED BY <2>3, <3>1
    <2>5. CASE FinishCleanup(k) \/ TerminateCleanup(k)
      BY <2>1, <2>5 DEF FinishCleanup, TerminateCleanup, CloserAt, SeasonInv, Closing, Quiet
    <2>6. CASE Rank(k)
      BY <2>1, <2>6 DEF Rank, CloserAt, SeasonInv, Closing, Quiet
    <2> QED BY <1>6, <2>2, <2>4, <2>5, <2>6 DEF CloserStep
  <1>7. CASE Archive
    BY <1>7 DEF Archive, SeasonInv, Closing, Quiet
  <1>8. CASE Tick
    BY <1>8 DEF Tick, SeasonInv, Closing, Quiet
  <1>9. CASE Crash
    BY <1>9 DEF Crash, SeasonInv, Closing, Quiet
  <1>10. CASE UNCHANGED vars
    BY <1>10 DEF vars, SeasonInv, Closing, Quiet
  <1> QED BY <1>1, <1>2, <1>3, <1>4, <1>5, <1>6, <1>7, <1>8, <1>9, <1>10 DEF Next

LEMMA SeasonHolds == ASSUME ~Overlap PROVE Spec => []SeasonInv
  <1>1. Init => SeasonInv
    BY DEF Init, SeasonInv, Closing, Over, Quiet
  <1>2. TypeOK /\ SeasonInv /\ [Next]_vars => SeasonInv'
    BY SeasonStep
  <1> QED BY <1>1, <1>2, TypeCorrect, PTL DEF Spec

(* When submissions and tasks do not overlap with the end of a competition,*)
(* the final ranks stand on the totals that stand: nothing is scored after *)
(* it was closed, however its closing fails, crashes or is repeated.       *)
THEOREM RanksStand == ASSUME ~Overlap PROVE Spec => []RanksAreFinal
  <1>1. SeasonInv => RanksAreFinal
    BY DEF SeasonInv, RanksAreFinal
  <1> QED BY <1>1, SeasonHolds, PTL

-----------------------------------------------------------------------------
(* Totals.  Paid folds the submissions; what it computes is shown by       *)
(* induction over their number.                                            *)

(* upTo adds up the awards of t in the first rows of a list.               *)
SumsUp(upTo, rows, t) ==
    /\ upTo \in [0..Len(rows) -> Nat]
    /\ upTo[0] = 0
    /\ \A n \in 1..Len(rows) : upTo[n] = upTo[n - 1] + AwardIn(rows[n], t)

LEMMA SumsExist ==
    ASSUME NEW rows \in Seq(SubRec), NEW t
    PROVE  \E upTo : SumsUp(upTo, rows, t)
  <1> DEFINE zero == 0
             step == [x \in Nat \X Nat |->
                        IF x[1] < Len(rows) THEN x[2] + AwardIn(rows[x[1] + 1], t) ELSE 0]
  <1>1. \A n \in 1..Len(rows) : AwardIn(rows[n], t) \in Nat
    <2>1. \A n \in 1..Len(rows) : rows[n] \in SubRec
      OBVIOUS
    <2> QED BY <2>1 DEF SubRec, AwardIn
  <1>2. zero \in Nat /\ step \in [Nat \X Nat -> Nat] /\ Len(rows) \in Nat
    <2>1. ASSUME NEW x \in Nat \X Nat, x[1] < Len(rows)
          PROVE  x[2] + AwardIn(rows[x[1] + 1], t) \in Nat
      <3>1. x[1] \in Nat /\ x[2] \in Nat /\ x[1] + 1 \in 1..Len(rows)
        BY <2>1
      <3> QED BY <1>1, <3>1
    <2> QED BY <2>1
  <1>3. PICK f : Follows(f, Nat, zero, step)
    <2> HIDE DEF zero, step
    <2> QED BY <1>2, RecursionExists
  <1>4. /\ f \in [Nat -> Nat] /\ f[0] = 0
        /\ \A n \in Nat : f[n + 1] = step[<<n, f[n]>>]
    BY <1>3 DEF Follows
  <1>5. ASSUME NEW n \in 1..Len(rows)
        PROVE  f[n] = f[n - 1] + AwardIn(rows[n], t)
    <2>1. n - 1 \in Nat /\ (n - 1) + 1 = n /\ n - 1 < Len(rows) /\ f[n - 1] \in Nat
      BY <1>4
    <2>2. f[n] = step[<<n - 1, f[n - 1]>>]
      <3> HIDE DEF step
      <3> QED BY <1>4, <2>1
    <2> QED BY <2>1, <2>2
  <1> DEFINE g == [n \in 0..Len(rows) |-> f[n]]
  <1>6. SumsUp(g, rows, t)
    BY <1>2, <1>4, <1>5 DEF SumsUp
  <1> QED BY <1>6

(* There is only one such function, also for a longer list.                *)
LEMMA SumsAgree ==
    ASSUME NEW rows \in Seq(SubRec), NEW more \in Seq(SubRec), NEW t, NEW f, NEW g,
           SumsUp(f, rows, t), SumsUp(g, more, t), Len(rows) <= Len(more),
           \A k \in 1..Len(rows) : more[k] = rows[k]
    PROVE  \A n \in 0..Len(rows) : f[n] = g[n]
  <1> DEFINE S == {n \in Nat : n <= Len(rows) => f[n] = g[n]}
  <1>1. Len(rows) \in Nat /\ Len(more) \in Nat
    OBVIOUS
  <1>2. 0 \in S
    BY DEF SumsUp
  <1>3. ASSUME NEW n \in S PROVE n + 1 \in S
    <2> SUFFICES ASSUME n + 1 <= Len(rows) PROVE f[n + 1] = g[n + 1]
      OBVIOUS
    <2>1. /\ n + 1 \in 1..Len(rows) /\ n + 1 \in 1..Len(more)
          /\ (n + 1) - 1 = n /\ f[n] = g[n]
      BY <1>1
    <2> QED BY <2>1 DEF SumsUp
  <1>4. S = Nat
    <2>1. S \in SUBSET Nat
      OBVIOUS
    <2> HIDE DEF S
    <2> QED BY <1>2, <1>3, <2>1, Induction
  <1> QED BY <1>1, <1>4

(* Paid is the last value of that function, and an inserted submission     *)
(* adds its award.                                                         *)
LEMMA PaidSums ==
    ASSUME NEW rows \in Seq(SubRec), NEW t
    PROVE  \E f : SumsUp(f, rows, t) /\ Paid(rows, t) = f[Len(rows)]
  <1> DEFINE Equation(f) ==
                 f = [n \in 0..Len(rows) |-> IF n = 0 THEN 0 ELSE f[n - 1] + AwardIn(rows[n], t)]
             upTo == CHOOSE f : Equation(f)
  <1>1. Len(rows) \in Nat
    OBVIOUS
  <1>2. Paid(rows, t) = upTo[Len(rows)]
    BY DEF Paid
  <1>3. PICK g : SumsUp(g, rows, t)
    BY <1>1, SumsExist
  <1>4. Equation(g)
    <2>1. ASSUME NEW n \in 0..Len(rows)
          PROVE  g[n] = IF n = 0 THEN 0 ELSE g[n - 1] + AwardIn(rows[n], t)
      <3>1. CASE n = 0
        BY <1>3, <3>1 DEF SumsUp
      <3>2. CASE n # 0
        <4>1. n \in 1..Len(rows)
          BY <1>1, <3>2
        <4> QED BY <1>3, <3>2, <4>1 DEF SumsUp
      <3> QED BY <3>1, <3>2
    <2> QED BY <1>3, <2>1 DEF SumsUp
  <1>5. Equation(upTo)
    <2> HIDE DEF Equation
    <2> QED BY <1>4
  <1> HIDE DEF upTo
  <1> DEFINE S == {n \in Nat : n <= Len(rows) => upTo[n] = g[n]}
  <1>6. 0 \in S
    BY <1>1, <1>3, <1>5 DEF SumsUp
  <1>7. ASSUME NEW n \in S PROVE n + 1 \in S
    <2> SUFFICES ASSUME n + 1 <= Len(rows) PROVE upTo[n + 1] = g[n + 1]
      OBVIOUS
    <2>1. n + 1 \in 1..Len(rows) /\ n + 1 \in 0..Len(rows) /\ (n + 1) - 1 = n /\ n + 1 # 0
      BY <1>1
    <2>2. upTo[n + 1] = upTo[n] + AwardIn(rows[n + 1], t)
      BY <1>5, <2>1
    <2>3. g[n + 1] = g[n] + AwardIn(rows[n + 1], t)
      BY <1>3, <2>1 DEF SumsUp
    <2> QED BY <1>1, <2>2, <2>3
  <1>8. S = Nat
    <2>1. S \in SUBSET Nat
      OBVIOUS
    <2> HIDE DEF S
    <2> QED BY <1>6, <1>7, <2>1, Induction
  <1> QED BY <1>1, <1>2, <1>3, <1>8

(* An inserted submission adds its award.                                  *)
LEMMA PaidAppend ==
    ASSUME NEW rows \in Seq(SubRec), NEW t, NEW row \in SubRec
    PROVE  Paid(Append(rows, row), t) = Paid(rows, t) + AwardIn(row, t)
  <1> DEFINE more == Append(rows, row)
  <1>1. /\ more \in Seq(SubRec) /\ Len(rows) \in Nat /\ Len(more) = Len(rows) + 1
        /\ more[Len(rows) + 1] = row
        /\ \A k \in 1..Len(rows) : more[k] = rows[k]
    BY AppendProperties
  <1> HIDE DEF more
  <1>2. PICK f : SumsUp(f, rows, t) /\ Paid(rows, t) = f[Len(rows)]
    BY PaidSums
  <1>3. PICK g : SumsUp(g, more, t) /\ Paid(more, t) = g[Len(more)]
    BY <1>1, PaidSums
  <1>4. \A n \in 0..Len(rows) : f[n] = g[n]
    <2>1. Len(rows) <= Len(more)
      BY <1>1
    <2> QED BY <1>1, <1>2, <1>3, <2>1, SumsAgree
  <1>5. f[Len(rows)] = g[Len(rows)]
    BY <1>1, <1>4
  <1>6. g[Len(rows) + 1] = g[Len(rows)] + AwardIn(row, t)
    BY <1>1, <1>3 DEF SumsUp
  <1> QED BY <1>1, <1>2, <1>3, <1>5, <1>6 DEF more

LEMMA PaidType == ASSUME NEW rows \in Seq(SubRec), NEW t PROVE Paid(rows, t) \in Nat
  <1>1. PICK f : SumsUp(f, rows, t) /\ Paid(rows, t) = f[Len(rows)]
    BY PaidSums
  <1>2. Len(rows) \in 0..Len(rows)
    OBVIOUS
  <1> QED BY <1>1, <1>2 DEF SumsUp

LEMMA TotalsStep ==
    ASSUME TypeOK, TotalsAreAwards, [Next]_vars
    PROVE  TotalsAreAwards'
  <1> SUFFICES ASSUME NEW t \in Teams PROVE total'[t] = Paid(subs, t)'
    BY DEF TotalsAreAwards
  <1> USE DEF scores, limits, season, rest
  <1>0. subs \in Seq(SubRec) /\ total[t] = Paid(subs, t) /\ Paid(subs, t) \in Nat
    BY SubmissionType, OtherType, PaidType DEF TotalsAreAwards, TypeOK
  <1>1. CASE UNCHANGED <<subs, total>>
    BY <1>0, <1>1
  <1>2. ASSUME NEW s \in Threads, Wrong(s) PROVE total'[t] = Paid(subs, t)'
    <2>1. Row(s, FALSE, FALSE, 0) \in SubRec /\ AwardIn(Row(s, FALSE, FALSE, 0), t) = 0
      BY <1>2, RowType DEF Wrong, At, AwardIn, Row
    <2>2. Paid(subs, t)' = Paid(subs, t) + 0
      BY <1>0, <1>2, <2>1, PaidAppend DEF Wrong
    <2>3. total'[t] = total[t]
      BY <1>2 DEF Wrong
    <2> QED BY <1>0, <2>2, <2>3
  <1>3. ASSUME NEW s \in Threads, Right(s) PROVE total'[t] = Paid(subs, t)'
    <2> DEFINE pay == AwardFor(th[s].n, th[s].blood)
               row == Row(s, TRUE, th[s].blood, pay)
    <2>1. row \in SubRec /\ row.t = th[s].t /\ row.award = pay
      BY <1>3, RowType DEF Right, RightPaying, At, Row
    <2>2. subs' = Append(subs, row) /\ total' = [total EXCEPT ![th[s].t] = @ + pay]
      BY <1>3 DEF Right, RightPaying
    <2> HIDE DEF pay, row
    <2>3. Paid(subs, t)' = Paid(subs, t) + AwardIn(row, t)
      BY <1>0, <2>1, <2>2, PaidAppend
    <2>4. total'[t] = total[t] + AwardIn(row, t)
      BY <1>0, <2>1, <2>2 DEF AwardIn, TypeOK
    <2> QED BY <1>0, <2>3, <2>4
  <1>4. \/ UNCHANGED <<subs, total>>
        \/ \E s \in Threads : Wrong(s) \/ Right(s)
    BY DEF Next, SubmissionStep, JudgeFails, CountFailure, SetCooldown, ClearLimits, MarkSolved,
       ShowPrice, Enter, SyncRead, SyncWrite, StartCompetition, CloserStep, BeginClose,
       FinishCommit, FinishCleanup, TerminateCleanup, TerminateCommit, Rank, Archive, Tick,
       Crash, vars
  <1> QED BY <1>1, <1>2, <1>3, <1>4

(* A team's total is the sum of what its stored submissions say it was     *)
(* awarded, although concurrent transactions of team mates add to it.      *)
THEOREM TotalsAreTheAwards == Spec => []TotalsAreAwards
  <1>1. Init => TotalsAreAwards
    <2> SUFFICES ASSUME Init, NEW t \in Teams PROVE total[t] = Paid(subs, t)
      BY DEF TotalsAreAwards
    <2>1. subs \in Seq(SubRec) /\ Len(subs) = 0
      BY DEF Init
    <2>2. PICK f : SumsUp(f, subs, t) /\ Paid(subs, t) = f[Len(subs)]
      BY <2>1, PaidSums
    <2> QED BY <2>1, <2>2 DEF SumsUp, Init
  <1>2. TypeOK /\ TotalsAreAwards /\ [Next]_vars => TotalsAreAwards'
    BY TotalsStep
  <1> QED BY <1>1, <1>2, TypeCorrect, PTL DEF Spec

-----------------------------------------------------------------------------
(* Scores, prices and counts, when submissions to one challenge do not     *)
(* overlap.                                                                *)

Settled(c) ==
    LET n == Cardinality(Solvers(c))
    IN  IsFiniteSet(Solvers(c)) /\ item[c].n = n /\ (n > 0 => item[c].price = Price(n + 1))
Shown(c) == shown[c] = [n |-> item[c].n, price |-> item[c].price]
Untold(c) == \E s \in Threads : Storing(s) /\ th[s].c = c

(* The copy a thread loaded is still true when it uses it: nobody else is  *)
(* at its challenge, and the synchronisation stays away from it.           *)
Current(s) ==
    LET c == th[s].c
    IN  /\ At(s, "judge") => th[s].n = item[c].n /\ th[s].t \notin Solvers(c)
        /\ Storing(s) => item[c].n = th[s].n + 1 /\ item[c].price = NextPrice(th[s].n)
        /\ \A r \in Threads : th[r].c = c /\ c # NoChallenge => r = s
SyncCurrent ==
    sync # IdleSync => /\ comp = "running" /\ ~InFlight(sync.c)
                       /\ sync.n = item[sync.c].n /\ sync.price = item[sync.c].price

ScoreInv ==
    crashes = 0 =>
        /\ \A c \in Challenges : Settled(c) /\ (comp # "archived" /\ ~Untold(c) => Shown(c))
        /\ \A s \in Threads : Current(s)
        /\ SyncCurrent

(* The solvers of a challenge change by a correct submission only.         *)
LEMMA SolversStay ==
    ASSUME TypeOK, [Next]_vars, NEW c, \A s \in Threads : Right(s) => th[s].c # c
    PROVE  Solvers(c)' = Solvers(c)
  <1>1. ASSUME NEW t \in Teams, CorrectSubs(t, c)' # {} PROVE CorrectSubs(t, c) # {}
    <2>1. subs \in Seq(SubRec)
      BY DEF TypeOK
    <2>2. CASE subs' = subs
      BY <1>1, <2>2 DEF CorrectSubs
    <2>3. ASSUME NEW row \in SubRec, subs' = Append(subs, row), ~row.ok \/ row.c # c
          PROVE  CorrectSubs(t, c) # {}
      <3>1. /\ Len(subs) \in Nat /\ Len(subs') = Len(subs) + 1
            /\ subs'[Len(subs) + 1] = row
            /\ \A k \in 1..Len(subs) : subs'[k] = subs[k]
        BY <2>1, <2>3, AppendProperties
      <3>2. PICK k \in 1..Len(subs') : subs'[k].t = t /\ subs'[k].c = c /\ subs'[k].ok
        BY <1>1 DEF CorrectSubs
      <3>3. k \in 1..Len(subs)
        BY <2>3, <3>1, <3>2
      <3> QED BY <3>1, <3>2, <3>3 DEF CorrectSubs
    <2>4. ASSUME NEW s \in Threads, Wrong(s), subs' = Append(subs, Row(s, FALSE, FALSE, 0))
          PROVE  CorrectSubs(t, c) # {}
      <3>1. Row(s, FALSE, FALSE, 0) \in SubRec /\ ~Row(s, FALSE, FALSE, 0).ok
        BY <2>4, RowType DEF Wrong, At, Row
      <3> QED BY <2>3, <2>4, <3>1
    <2>5. ASSUME NEW s \in Threads, Right(s),
                 subs' = Append(subs, Row(s, TRUE, th[s].blood, AwardFor(th[s].n, th[s].blood)))
          PROVE  CorrectSubs(t, c) # {}
      <3>1. /\ Row(s, TRUE, th[s].blood, AwardFor(th[s].n, th[s].blood)) \in SubRec
            /\ Row(s, TRUE, th[s].blood, AwardFor(th[s].n, th[s].blood)).c # c
        BY <2>5, RowType DEF Right, RightPaying, At, Row
      <3> QED BY <2>3, <2>5, <3>1
    <2> QED BY <2>2, <2>4, <2>5, SubsStep
  <1> QED BY <1>1, CorrectStays DEF Solvers

LEMMA SolversGrow ==
    ASSUME TypeOK, [Next]_vars, NEW s \in Threads, Right(s), NEW t, NEW c,
           t = th[s].t, c = th[s].c
    PROVE  Solvers(c)' = Solvers(c) \cup {t}
  <1>1. t \in Teams
    BY Serving DEF Right, RightPaying, At
  <1>2. CorrectSubs(t, c)' # {}
    BY RightStores
  <1>3. ASSUME NEW u \in Teams, u # t PROVE CorrectSubs(u, c)' = CorrectSubs(u, c)
    <2> DEFINE row == Row(s, TRUE, th[s].blood, AwardFor(th[s].n, th[s].blood))
    <2>1. subs' = Append(subs, row) /\ row \in SubRec /\ row.t = t
      <3>1. ~At(s, "idle") /\ subs' = Append(subs, row)
        BY DEF Right, RightPaying, At
      <3>2. row.t = t
        BY DEF Row
      <3> QED BY <3>1, <3>2, RowType
    <2> HIDE DEF row
    <2>2. /\ Len(subs) \in Nat /\ Len(subs') = Len(subs) + 1
          /\ subs'[Len(subs) + 1] = row
          /\ \A k \in 1..Len(subs) : subs'[k] = subs[k]
      BY <2>1, AppendProperties DEF TypeOK
    <2> QED BY <1>3, <2>1, <2>2 DEF CorrectSubs
  <1> QED BY <1>1, <1>2, <1>3 DEF Solvers

(* Steps that change neither the scores nor what is shown of them, and     *)
(* neither load a copy nor store a solve.                                  *)
LEMMA QuietStep ==
    ASSUME TypeOK, ScoreInv, crashes = 0, [Next]_vars, UNCHANGED <<item, shown, sync>>,
           comp' = comp \/ (sync = IdleSync /\ comp # "archived"),
           \A s \in Threads : ~Right(s),
           \A s \in Threads :
                \/ th'[s] = th[s]
                \/ th'[s] = IdleThread /\ ~Storing(s)
                \/ Kept(s) /\ Storing(s)' = Storing(s) /\ ~At(s, "judge")'
    PROVE  ScoreInv'
  <1>1. ASSUME NEW c PROVE Solvers(c)' = Solvers(c)
    BY SolversStay
  <1>2. \A s \in Threads : Storing(s)' => Storing(s) /\ th'[s].c = th[s].c /\ th'[s].n = th[s].n
    BY DEF Storing, IdleThread, Kept
  <1>3. \A s \in Threads : Storing(s) => Storing(s)' /\ th'[s].c = th[s].c
    BY DEF Storing, IdleThread, Kept
  <1>4. \A s \in Threads : At(s, "judge")' => At(s, "judge") /\ th'[s] = th[s]
    BY DEF At, IdleThread
  <1>5. \A s \in Threads : th'[s].c # NoChallenge => th'[s].c = th[s].c
    BY DEF IdleThread, Kept
  <1>6. ASSUME NEW c \in Challenges
        PROVE  Settled(c)' /\ (comp' # "archived" /\ ~Untold(c)' => Shown(c)')
    <2>1. Settled(c) /\ (comp # "archived" /\ ~Untold(c) => Shown(c))
      BY DEF ScoreInv
    <2>2. Settled(c)'
      BY <1>1, <2>1 DEF Settled
    <2>3. Untold(c)' <=> Untold(c)
      BY <1>2, <1>3 DEF Untold
    <2> QED BY <2>1, <2>2, <2>3 DEF Shown
  <1>7. ASSUME NEW s \in Threads PROVE Current(s)'
    <2>1. Current(s)
      BY DEF ScoreInv
    <2>2. ASSUME At(s, "judge")'
          PROVE  (th[s].n = item[th[s].c].n /\ th[s].t \notin Solvers(th[s].c))'
      <3>1. PICK c : c = th[s].c
        OBVIOUS
      <3>2. th[s].n = item[c].n /\ th[s].t \notin Solvers(c)'
        BY <1>1, <1>4, <2>1, <2>2, <3>1 DEF Current
      <3> QED BY <1>4, <2>2, <3>1, <3>2 DEF Solvers, CorrectSubs
    <2>3. ASSUME Storing(s)'
          PROVE  (item[th[s].c].n = th[s].n + 1 /\ item[th[s].c].price = NextPrice(th[s].n))'
      BY <1>2, <2>1, <2>3 DEF Current
    <2>4. ASSUME NEW r \in Threads, th'[r].c = th'[s].c, th'[s].c # NoChallenge
          PROVE  r = s
      BY <1>5, <2>1, <2>4 DEF Current
    <2> QED BY <2>2, <2>3, <2>4 DEF Current
  <1>8. SyncCurrent'
    <2> SUFFICES ASSUME sync # IdleSync
                 PROVE  /\ comp' = "running" /\ ~InFlight(sync.c)'
                        /\ sync.n = item[sync.c].n /\ sync.price = item[sync.c].price
      BY DEF SyncCurrent
    <2>1. SyncCurrent /\ sync.c \in Challenges
      BY DEF ScoreInv, TypeOK, SyncRec
    <2> QED BY <1>5, <2>1, NamesAssumption DEF SyncCurrent, InFlight
  <1> QED BY <1>6, <1>7, <1>8 DEF ScoreInv

(* A stored solve raises the count and the price by the copy, which is     *)
(* current: the item stays the count of the solvers.                       *)
LEMMA RightStep ==
    ASSUME TypeOK, ScoreInv, crashes = 0, [Next]_vars, NEW s \in Threads, Right(s)
    PROVE  ScoreInv'
  <1> USE DEF scores, limits, season
  <1>1. ~At(s, "idle") /\ At(s, "judge")
    BY DEF Right, RightPaying, At
  <1>2. PICK t \in Teams, c \in Challenges : t = th[s].t /\ c = th[s].c
    BY <1>1, Serving
  <1>3. /\ UNCHANGED <<comp, shown, sync>>
        /\ item' = [item EXCEPT ![c] = Solved(@, s)] /\ Goto(s, "clear")
    BY <1>2 DEF Right, RightPaying
  <1>4. Kept(s) /\ th'[s].pc = "clear" /\ \A r \in Threads : r # s => th'[r] = th[r]
    BY <1>1, <1>3, GotoStep DEF Goto, TypeOK
  <1>5. /\ Current(s) /\ Settled(c) /\ th[s].n = item[c].n /\ t \notin Solvers(c)
        /\ \A r \in Threads : r # s => th[r].c # c
    BY <1>1, <1>2, NamesAssumption DEF ScoreInv, Current
  <1>6. Solvers(c)' = Solvers(c) \cup {t}
    BY <1>2, SolversGrow
  <1>7. ASSUME NEW d, d # c PROVE Solvers(d)' = Solvers(d)
    <2>1. \A r \in Threads : Right(r) => r = s
      BY <1>1, <1>3, <1>4 DEF Right, RightPaying, Goto, At, TypeOK
    <2> QED BY <1>2, <1>7, <2>1, SolversStay
  <1>8. item'[c].n = item[c].n + 1 /\ item'[c].price = NextPrice(item[c].n)
    BY <1>3, <1>5 DEF Solved, TypeOK
  <1>9. \A d \in Challenges : d # c => item'[d] = item[d]
    BY <1>3 DEF TypeOK
  <1>10. Settled(c)'
    <2>1. /\ IsFiniteSet(Solvers(c)) /\ Cardinality(Solvers(c)) = item[c].n /\ item[c].n \in Nat
      BY <1>5 DEF Settled, TypeOK
    <2>2. /\ IsFiniteSet(Solvers(c)') /\ Cardinality(Solvers(c)') = item[c].n + 1
      BY <1>5, <1>6, <2>1, FS_AddElement
    <2>3. NextPrice(item[c].n) = Price(item[c].n + 1 + 1)
      BY <2>1 DEF NextPrice
    <2> QED BY <1>8, <2>1, <2>2, <2>3 DEF Settled
  <1>11. Untold(c)'
    BY <1>2, <1>4 DEF Untold, Storing, Kept
  <1>12. ASSUME NEW d \in Challenges, d # c
         PROVE  Settled(d)' /\ (comp' # "archived" /\ ~Untold(d)' => Shown(d)')
    <2>1. Settled(d) /\ (comp # "archived" /\ ~Untold(d) => Shown(d))
      BY DEF ScoreInv
    <2>2. Settled(d)'
      BY <1>7, <1>9, <1>12, <2>1 DEF Settled
    <2>3. Untold(d)' <=> Untold(d)
      BY <1>2, <1>4, <1>12 DEF Untold, Storing, Kept
    <2> QED BY <1>3, <1>9, <1>12, <2>1, <2>2, <2>3 DEF Shown
  <1>13. ASSUME NEW r \in Threads PROVE Current(r)'
    <2>1. CASE r = s
      BY <1>2, <1>3, <1>4, <1>5, <1>8, <2>1 DEF Current, Kept, At, Storing
    <2>2. CASE r # s
      <3>1. Current(r) /\ th'[r] = th[r] /\ th[r].c # c
        BY <1>4, <1>5, <2>2 DEF ScoreInv
      <3>2. PICK d : d = th[r].c
        OBVIOUS
      <3>3. ~At(r, "idle") => d \in Challenges /\ item'[d] = item[d] /\ Solvers(d)' = Solvers(d)
        BY <1>7, <1>9, <3>1, <3>2, Serving
      <3>4. (At(r, "judge") \/ Storing(r)) => ~At(r, "idle")
        BY DEF At, Storing
      <3>5. At(r, "judge")' => (th[r].n = item[th[r].c].n /\ th[r].t \notin Solvers(th[r].c))'
        <4> SUFFICES ASSUME At(r, "judge")
                     PROVE  th[r].n = item'[d].n /\ th[r].t \notin Solvers(d)'
          BY <3>1, <3>2 DEF At, Solvers, CorrectSubs
        <4> QED BY <3>1, <3>2, <3>3, <3>4 DEF Current
      <3>6. Storing(r)' =>
              (item[th[r].c].n = th[r].n + 1 /\ item[th[r].c].price = NextPrice(th[r].n))'
        BY <3>1, <3>2, <3>3, <3>4 DEF Current, Storing
      <3>7. \A q \in Threads : th'[q].c = th'[r].c /\ th'[r].c # NoChallenge => q = r
        BY <1>2, <1>4, <3>1 DEF Current, Kept
      <3> QED BY <3>5, <3>6, <3>7 DEF Current
    <2> QED BY <2>1, <2>2
  <1>14. SyncCurrent'
    <2> SUFFICES ASSUME sync # IdleSync
                 PROVE  /\ comp' = "running" /\ ~InFlight(sync.c)'
                        /\ sync.n = item'[sync.c].n /\ sync.price = item'[sync.c].price
      BY <1>3 DEF SyncCurrent
    <2>1. SyncCurrent /\ sync.c \in Challenges
      BY DEF ScoreInv, TypeOK, SyncRec
    <2>2. sync.c # c
      BY <1>2, <2>1 DEF SyncCurrent, InFlight
    <2> QED BY <1>2, <1>3, <1>4, <1>9, <2>1, <2>2 DEF SyncCurrent, InFlight, Kept
  <1> QED BY <1>10, <1>11, <1>12, <1>13, <1>14 DEF ScoreInv

(* A solve always moves the thread that stores it.                         *)
LEMMA RightMoves ==
    ASSUME TypeOK, NEW s \in Threads, Right(s)
    PROVE  th'[s] # th[s] /\ th'[s].pc = "clear" /\ th[s].pc = "judge" /\ subs' # subs
  <1>1. ~At(s, "idle") /\ Goto(s, "clear") /\ th[s].pc = "judge"
    BY DEF Right, RightPaying, At
  <1>2. th'[s].pc = "clear"
    BY <1>1, GotoStep
  <1>3. subs' # subs
    <2>1. subs \in Seq(SubRec) /\ \E row \in SubRec : subs' = Append(subs, row)
      BY <1>1, RowType DEF TypeOK, Right, RightPaying
    <2>2. Len(subs') = Len(subs) + 1 /\ Len(subs) \in Nat
      BY <2>1, AppendProperties
    <2> QED BY <2>2
  <1> QED BY <1>1, <1>2, <1>3

(* Loading: nobody is at the challenge, and the team has not solved it.    *)
LEMMA EnterStep ==
    ASSUME ~Overlap, TypeOK, ScoreInv, crashes = 0, [Next]_vars,
           NEW s \in Threads, NEW t \in Teams, NEW c \in Challenges, Enter(s, t, c)
    PROVE  ScoreInv'
  <1> USE DEF scores, season
  <1> DEFINE load == [pc |-> "judge", t |-> t, c |-> c, n |-> item[c].n,
                      blood |-> item[c].first = NoTeam]
  <1>1. /\ UNCHANGED <<comp, item, shown, sync, subs>>
        /\ ~InFlight(c) /\ sync.c # c /\ ~HasSolved(t, c) /\ At(s, "idle")
    BY DEF Enter, Open
  <1>2. \A d : Solvers(d)' = Solvers(d)
    BY <1>1 DEF Solvers, CorrectSubs
  <1>3. CASE th' = th
    <2>1. \A r \in Threads : ~Right(r)
      BY <1>1, RightMoves
    <2>2. UNCHANGED <<item, shown, sync>> /\ comp' = comp /\ \A r \in Threads : th'[r] = th[r]
      BY <1>1, <1>3
    <2> QED BY <2>1, <2>2, QuietStep
  <1>4. CASE th' # th
    <2>1. th' = [th EXCEPT ![s] = load]
      BY <1>4 DEF Enter
    <2>2. th'[s] = load /\ \A r \in Threads : r # s => th'[r] = th[r] /\ th[r].c # c
      BY <1>1, <2>1 DEF TypeOK, InFlight
    <2>3. th[s].c = NoChallenge /\ ~Storing(s)
      <3>1. th[s] = IdleThread
        BY <1>1 DEF At, TypeOK, ThreadRec
      <3> QED BY <3>1 DEF IdleThread, Storing
    <2>4. /\ load.pc = "judge" /\ load.t = t /\ load.c = c /\ load.n = item[c].n
      OBVIOUS
    <2> HIDE DEF load
    <2>5. ASSUME NEW d \in Challenges
          PROVE  Settled(d)' /\ (comp' # "archived" /\ ~Untold(d)' => Shown(d)')
      <3>1. Settled(d) /\ (comp # "archived" /\ ~Untold(d) => Shown(d))
        BY DEF ScoreInv
      <3>2. Untold(d)' <=> Untold(d)
        BY <2>2, <2>3, <2>4 DEF Untold, Storing
      <3> QED BY <1>1, <1>2, <3>1, <3>2 DEF Settled, Shown
    <2>6. Current(s)'
      <3>1. t \notin Solvers(c)'
        BY <1>1, <1>2 DEF HasSolved, Solvers
      <3>2. At(s, "judge")' => (th[s].n = item[th[s].c].n /\ th[s].t \notin Solvers(th[s].c))'
        BY <1>1, <2>2, <2>4, <3>1 DEF Solvers, CorrectSubs
      <3> QED BY <2>2, <2>4, <3>2 DEF Current, Storing
    <2>7. ASSUME NEW r \in Threads, r # s PROVE Current(r)'
      <3>1. Current(r) /\ th'[r] = th[r] /\ th[r].c # c
        BY <2>2, <2>7 DEF ScoreInv
      <3>2. At(r, "judge")' => (th[r].n = item[th[r].c].n /\ th[r].t \notin Solvers(th[r].c))'
        BY <1>1, <3>1 DEF Current, At, Solvers, CorrectSubs
      <3> QED BY <1>1, <2>2, <2>4, <3>1, <3>2 DEF Current, Storing
    <2>8. SyncCurrent'
      <3>1. SyncCurrent
        BY DEF ScoreInv
      <3> QED BY <1>1, <2>2, <2>4, <3>1 DEF SyncCurrent, InFlight
    <2> QED BY <2>5, <2>6, <2>7, <2>8 DEF ScoreInv
  <1> QED BY <1>3, <1>4

(* What a thread writes to Redis after its commit is what the commit left. *)
LEMMA ShowStep ==
    ASSUME TypeOK, ScoreInv, crashes = 0, [Next]_vars, NEW s \in Threads, ShowPrice(s)
    PROVE  ScoreInv'
  <1> USE DEF scores, season, limits
  <1>1. PICK c \in Challenges : c = th[s].c
    BY Serving DEF ShowPrice, At
  <1>2. /\ UNCHANGED <<comp, item, subs, sync>> /\ Storing(s)
        /\ shown' = [shown EXCEPT ![c] = [n |-> th[s].n + 1, price |-> NextPrice(th[s].n)]]
        /\ th'[s] = IdleThread /\ \A r \in Threads : r # s => th'[r] = th[r]
    BY <1>1 DEF ShowPrice, At, Storing, Finish, TypeOK
  <1>3. \A d : Solvers(d)' = Solvers(d)
    BY <1>2 DEF Solvers, CorrectSubs
  <1>4. /\ item[c].n = th[s].n + 1 /\ item[c].price = NextPrice(th[s].n)
        /\ \A r \in Threads : r # s => th[r].c # c
    BY <1>1, <1>2, NamesAssumption DEF ScoreInv, Current
  <1>5. Shown(c)'
    BY <1>2, <1>4 DEF Shown, TypeOK
  <1>6. ASSUME NEW d \in Challenges
        PROVE  Settled(d)' /\ (comp' # "archived" /\ ~Untold(d)' => Shown(d)')
    <2>1. Settled(d) /\ (comp # "archived" /\ ~Untold(d) => Shown(d))
      BY DEF ScoreInv
    <2>2. Settled(d)'
      BY <1>2, <1>3, <2>1 DEF Settled
    <2>3. CASE d # c
      <3>1. shown'[d] = shown[d]
        BY <1>2, <2>3 DEF TypeOK
      <3>2. \A r \in Threads : Storing(r) /\ th[r].c = d => r # s /\ th'[r] = th[r]
        BY <1>1, <1>2, <2>3
      <3>3. Untold(d) => Untold(d)'
        BY <3>2 DEF Untold, Storing
      <3> QED BY <1>2, <2>1, <2>2, <3>1, <3>3 DEF Shown
    <2> QED BY <1>5, <2>2, <2>3
  <1>7. ASSUME NEW r \in Threads PROVE Current(r)'
    <2>1. Current(r)
      BY DEF ScoreInv
    <2>2. CASE r = s
      BY <1>2, <2>2 DEF Current, At, Storing, IdleThread
    <2>3. CASE r # s
      <3>1. th'[r] = th[r]
        BY <1>2, <2>3
      <3>2. At(r, "judge")' => (th[r].n = item[th[r].c].n /\ th[r].t \notin Solvers(th[r].c))'
        BY <1>2, <2>1, <3>1 DEF Current, At, Solvers, CorrectSubs
      <3> QED BY <1>2, <2>1, <3>1, <3>2 DEF Current, Storing, IdleThread
    <2> QED BY <2>2, <2>3
  <1>8. SyncCurrent'
    <2> SUFFICES ASSUME sync # IdleSync
                 PROVE  /\ comp' = "running" /\ ~InFlight(sync.c)'
                        /\ sync.n = item[sync.c].n /\ sync.price = item[sync.c].price
      BY <1>2 DEF SyncCurrent
    <2>1. SyncCurrent /\ sync.c \in Challenges
      BY DEF ScoreInv, TypeOK, SyncRec
    <2> QED BY <1>2, <2>1, NamesAssumption DEF SyncCurrent, InFlight, IdleThread
  <1> QED BY <1>6, <1>7, <1>8 DEF ScoreInv

(* A failed or refused attempt stores no solve; a finished one leaves the  *)
(* item, and only the last step of a solve writes what is shown of it.     *)
LEMMA ServeStep ==
    ASSUME TypeOK, ScoreInv, crashes = 0, [Next]_vars, NEW s \in Threads,
           \/ JudgeFails(s) \/ Wrong(s) \/ CountFailure(s) \/ SetCooldown(s)
           \/ ClearLimits(s) \/ MarkSolved(s)
    PROVE  ScoreInv'
  <1> USE DEF scores, season, limits
  <1>1. ~At(s, "idle") /\ UNCHANGED <<item, shown, sync, comp>>
    BY DEF JudgeFails, Wrong, CountFailure, SetCooldown, ClearLimits, MarkSolved, At
  <1>2. \/ Finish(s) /\ ~Storing(s)
        \/ Goto(s, "failed") /\ ~Storing(s)
        \/ Goto(s, "cooldown") /\ ~Storing(s)
        \/ Goto(s, "mark") /\ Storing(s)
        \/ Goto(s, "show") /\ Storing(s)
    BY DEF JudgeFails, Wrong, CountFailure, SetCooldown, ClearLimits, MarkSolved, At, Storing
  <1>3. \A r \in Threads : r # s => th'[r] = th[r]
    BY <1>2 DEF Finish, Goto, TypeOK
  <1>4. \/ th'[s] = IdleThread /\ ~Storing(s)
        \/ Kept(s) /\ Storing(s)' = Storing(s) /\ ~At(s, "judge")'
    <2>1. CASE Finish(s) /\ ~Storing(s)
      BY <2>1 DEF Finish, TypeOK
    <2>2. ASSUME NEW pc \in {"failed", "cooldown", "mark", "show"}, Goto(s, pc),
                 Storing(s) <=> pc \in {"mark", "show"}
          PROVE  Kept(s) /\ Storing(s)' = Storing(s) /\ ~At(s, "judge")'
      <3>1. Kept(s) /\ th'[s].pc = pc
        BY <1>1, <2>2, GotoStep
      <3> QED BY <2>2, <3>1 DEF Storing, At
    <2> QED BY <1>2, <2>1, <2>2
  <1>5. \A r \in Threads : ~Right(r)
    <2>1. ASSUME NEW r \in Threads, Right(r) PROVE FALSE
      <3>1. th'[r] # th[r] /\ th'[r].pc = "clear" /\ th[r].pc = "judge"
        BY <2>1, RightMoves
      <3>2. r = s
        BY <1>3, <3>1
      <3>3. ~Storing(s) /\ th'[s].pc = "clear"
        BY <3>1, <3>2 DEF Storing
      <3>4. Storing(s)'
        BY <3>3 DEF Storing
      <3>5. th'[s] # IdleThread
        BY <3>1, <3>2 DEF IdleThread
      <3> QED BY <1>4, <3>3, <3>4, <3>5
    <2> QED BY <2>1
  <1>6. \A r \in Threads :
          \/ th'[r] = th[r]
          \/ th'[r] = IdleThread /\ ~Storing(r)
          \/ Kept(r) /\ Storing(r)' = Storing(r) /\ ~At(r, "judge")'
    BY <1>3, <1>4
  <1> QED BY <1>1, <1>5, <1>6, QuietStep

(* The synchronisation reads and writes a challenge nobody is at, so what  *)
(* it reads is what the item holds, and writing it back changes nothing.   *)
LEMMA SyncReadStep ==
    ASSUME ~Overlap, TypeOK, ScoreInv, crashes = 0, [Next]_vars,
           NEW c \in Challenges, SyncRead(c)
    PROVE  ScoreInv'
  <1> USE DEF scores, season
  <1>1. /\ UNCHANGED <<comp, item, shown, th, subs>> /\ comp = "running" /\ ~InFlight(c)
        /\ sync' = [c |-> c, n |-> shown[c].n, price |-> shown[c].price]
    BY DEF SyncRead
  <1>2. ~Untold(c)
    BY <1>1 DEF Untold, InFlight
  <1>3. Shown(c)
    BY <1>1, <1>2 DEF ScoreInv
  <1>4. SyncCurrent'
    <2>1. sync'.c = c /\ sync'.n = item[c].n /\ sync'.price = item[c].price
      BY <1>1, <1>3 DEF Shown
    <2>2. \A s \in Threads : th[s].c # c
      BY <1>1 DEF InFlight
    <2> QED BY <1>1, <2>1, <2>2 DEF SyncCurrent, InFlight
  <1>5. \A d \in Challenges : Settled(d)' = Settled(d) /\ Shown(d)' = Shown(d) /\ Untold(d)' = Untold(d)
    BY <1>1 DEF Settled, Solvers, CorrectSubs, Shown, Untold, Storing
  <1>6. \A s \in Threads : Current(s)' = Current(s)
    BY <1>1 DEF Current, Solvers, CorrectSubs, Storing, At
  <1> QED BY <1>1, <1>4, <1>5, <1>6 DEF ScoreInv

LEMMA SyncWriteStep ==
    ASSUME TypeOK, ScoreInv, crashes = 0, [Next]_vars, SyncWrite
    PROVE  ScoreInv'
  <1> USE DEF scores, season
  <1>1. PICK c \in Challenges : c = sync.c
    BY DEF SyncWrite, TypeOK, SyncRec, IdleSync
  <1>2. sync # IdleSync
    BY DEF SyncWrite, IdleSync
  <1>3. /\ UNCHANGED <<comp, shown, th, subs>> /\ sync' = IdleSync
        /\ item' = [item EXCEPT ![c] = [n |-> sync.n, price |-> sync.price, first |-> @.first]]
    BY <1>1 DEF SyncWrite
  <1>4. sync.n = item[c].n /\ sync.price = item[c].price
    BY <1>1, <1>2 DEF ScoreInv, SyncCurrent
  <1>5. item'[c] = [n |-> item[c].n, price |-> item[c].price, first |-> item[c].first]
    BY <1>3, <1>4 DEF TypeOK
  <1>6. \A d \in Challenges : item'[d].n = item[d].n /\ item'[d].price = item[d].price
    BY <1>3, <1>5 DEF TypeOK
  <1>7. ASSUME NEW d \in Challenges
        PROVE  Settled(d)' /\ (comp' # "archived" /\ ~Untold(d)' => Shown(d)')
    <2>1. Settled(d) /\ (comp # "archived" /\ ~Untold(d) => Shown(d))
      BY DEF ScoreInv
    <2> QED BY <1>3, <1>6, <2>1 DEF Settled, Solvers, CorrectSubs, Shown, Untold, Storing
  <1>8. ASSUME NEW s \in Threads PROVE Current(s)'
    <2>1. Current(s)
      BY DEF ScoreInv
    <2>2. At(s, "judge") \/ Storing(s) => th[s].c \in Challenges
      BY Serving DEF At, Storing
    <2> QED BY <1>3, <1>6, <2>1, <2>2 DEF Current, Solvers, CorrectSubs, Storing, At
  <1>9. SyncCurrent'
    BY <1>3 DEF SyncCurrent
  <1> QED BY <1>7, <1>8, <1>9 DEF ScoreInv

LEMMA ScoreStep ==
    ASSUME ~Overlap, TypeOK, SeasonInv, ScoreInv, [Next]_vars
    PROVE  ScoreInv'
  <1> USE DEF scores, limits, season, rest
  <1>0. CASE crashes' # 0
    BY <1>0 DEF ScoreInv
  <1> SUFFICES ASSUME crashes' = 0 PROVE ScoreInv'
    BY <1>0
  <1>1. crashes = 0
    <2>1. crashes' = crashes \/ crashes' = crashes + 1
      BY DEF Next, SubmissionStep, JudgeFails, Wrong, CountFailure, SetCooldown, ClearLimits,
         MarkSolved, ShowPrice, Right, RightPaying, Enter, SyncRead, SyncWrite,
         StartCompetition, CloserStep, BeginClose, FinishCommit, FinishCleanup,
         TerminateCleanup, TerminateCommit, Rank, Archive, Tick, Crash, vars
    <2> QED BY <2>1 DEF TypeOK
  <1>2. ASSUME UNCHANGED <<item, shown, sync, subs, th>>,
               comp' = comp \/ (sync = IdleSync /\ comp # "archived")
        PROVE  ScoreInv'
    <2>1. \A s \in Threads : ~Right(s) /\ th'[s] = th[s]
      BY <1>2, RightMoves
    <2> QED BY <1>1, <1>2, <2>1, QuietStep
  <1>3. ASSUME NEW s \in Threads, SubmissionStep(s) PROVE ScoreInv'
    BY <1>1, <1>3, RightStep, ShowStep, ServeStep DEF SubmissionStep
  <1>4. ASSUME NEW s \in Threads, NEW t \in Teams, NEW c \in Challenges, Enter(s, t, c)
        PROVE  ScoreInv'
    BY <1>1, <1>4, EnterStep
  <1>5. ASSUME NEW c \in Challenges, SyncRead(c) PROVE ScoreInv'
    BY <1>1, <1>5, SyncReadStep
  <1>6. CASE SyncWrite
    BY <1>1, <1>6, SyncWriteStep
  <1>7. CASE StartCompetition
    <2>1. comp = "registration" /\ UNCHANGED <<item, shown, sync, subs, th>>
      BY <1>7 DEF StartCompetition
    <2>2. sync = IdleSync
      BY <1>1, <2>1 DEF ScoreInv, SyncCurrent
    <2> QED BY <1>2, <2>1, <2>2
  <1>8. ASSUME NEW k \in Closers, CloserStep(k) PROVE ScoreInv'
    <2>1. UNCHANGED <<item, shown, sync, subs, th>>
      BY <1>8 DEF CloserStep, BeginClose, FinishCommit, FinishCleanup, TerminateCleanup,
         TerminateCommit, Rank
    <2>2. comp' = comp \/ closer[k] # "idle"
      BY <1>8 DEF CloserStep, BeginClose, FinishCommit, FinishCleanup, TerminateCleanup,
         TerminateCommit, Rank, CloserAt
    <2>3. closer[k] # "idle" => sync = IdleSync /\ comp # "archived"
      BY DEF SeasonInv, Closing, Quiet
    <2> QED BY <1>2, <2>1, <2>2, <2>3
  <1>9. CASE Archive
    <2>1. Quiet /\ comp' = "archived" /\ UNCHANGED <<item, sync, subs, th>>
      BY <1>9 DEF Archive, SeasonInv, Over
    <2>2. \A d \in Challenges : Settled(d)' = Settled(d)
      BY <2>1 DEF Settled, Solvers, CorrectSubs
    <2>3. \A s \in Threads : Current(s)' = Current(s)
      BY <2>1 DEF Current, Solvers, CorrectSubs, Storing, At
    <2>4. SyncCurrent'
      BY <2>1 DEF Quiet, SyncCurrent
    <2> QED BY <1>1, <2>1, <2>2, <2>3, <2>4 DEF ScoreInv
  <1>10. CASE Tick
    <2>1. UNCHANGED <<item, shown, sync, subs, th, comp>>
      BY <1>10 DEF Tick
    <2> QED BY <1>2, <2>1
  <1>11. CASE Crash
    <2>1. crashes' = 1
      BY <1>1, <1>11 DEF Crash
    <2> QED BY <2>1
  <1>12. CASE UNCHANGED vars
    <2>1. UNCHANGED <<item, shown, sync, subs, th, comp>>
      BY <1>12 DEF vars
    <2> QED BY <1>2, <2>1
  <1> QED BY <1>3, <1>4, <1>5, <1>6, <1>7, <1>8, <1>9, <1>10, <1>11, <1>12 DEF Next

LEMMA ScoreHolds == ASSUME ~Overlap PROVE Spec => []ScoreInv
  <1>1. Init => ScoreInv
    <2> SUFFICES ASSUME Init PROVE ScoreInv
      OBVIOUS
    <2>1. \A c : Solvers(c) = {}
      BY DEF Init, Solvers, CorrectSubs
    <2>2. IsFiniteSet({}) /\ Cardinality({}) = 0
      BY FS_EmptySet
    <2>3. \A c \in Challenges : Settled(c)
      <3>1. \A c : IsFiniteSet(Solvers(c)) /\ Cardinality(Solvers(c)) = 0
        BY <2>1, <2>2
      <3>2. \A c \in Challenges : item[c].n = 0
        BY DEF Init
      <3> QED BY <3>1, <3>2 DEF Settled
    <2>4. \A c \in Challenges : Shown(c)
      BY DEF Init, Shown
    <2>5. \A s \in Threads : Current(s)
      BY DEF Init, Current, IdleThread, Storing, At
    <2>6. SyncCurrent
      BY DEF Init, SyncCurrent
    <2> QED BY <2>3, <2>4, <2>5, <2>6 DEF ScoreInv
  <1>2. TypeOK /\ SeasonInv /\ ScoreInv /\ [Next]_vars => ScoreInv'
    BY ScoreStep
  <1> QED BY <1>1, <1>2, TypeCorrect, SeasonHolds, PTL DEF Spec

(* Redis, the challenge item and the submissions agree on every challenge  *)
(* nobody is submitting to: the solve count is the number of solvers and   *)
(* the price follows it, when submissions to one challenge, the score      *)
(* synchronisation and the end do not overlap.                             *)
THEOREM ScoresFollowSolves == ASSUME ~Overlap PROVE Spec => []ScoresAgree
  <1>1. ScoreInv => ScoresAgree
    <2> SUFFICES ASSUME ScoreInv, NEW c \in Challenges, ~InFlight(c), crashes = 0
                 PROVE  LET n == Cardinality(Solvers(c))
                        IN  /\ item[c].n = n
                            /\ n > 0 => item[c].price = Price(n + 1)
                            /\ comp # "archived" => shown[c] = [n |-> n, price |-> item[c].price]
      BY DEF ScoresAgree
    <2>1. ~Untold(c)
      BY DEF Untold, InFlight
    <2> QED BY <2>1 DEF ScoreInv, Settled, Shown
  <1> QED BY <1>1, ScoreHolds, PTL

-----------------------------------------------------------------------------
(* The scoreboard.  Order folds the submissions, like Paid.                *)

(* upTo lists the teams that solved c in the first rows of a list.         *)
ListsUp(upTo, rows, c) ==
    /\ upTo \in [0..Len(rows) -> Seq(Teams)]
    /\ upTo[0] = <<>>
    /\ \A n \in 1..Len(rows) : upTo[n] = Noted(upTo[n - 1], rows[n], c)

LEMMA NotedType ==
    ASSUME NEW order \in Seq(Teams), NEW row \in SubRec, NEW c
    PROVE  Noted(order, row, c) \in Seq(Teams)
  <1>1. row.t \in Teams
    BY DEF SubRec
  <1> QED BY <1>1 DEF Noted

LEMMA ListsExist ==
    ASSUME NEW rows \in Seq(SubRec), NEW c
    PROVE  \E upTo : ListsUp(upTo, rows, c)
  <1> DEFINE V == Seq(Teams)
             none == <<>>
             step == [x \in Nat \X V |->
                        IF x[1] < Len(rows) THEN Noted(x[2], rows[x[1] + 1], c) ELSE none]
  <1>1. none \in V /\ step \in [Nat \X V -> V] /\ Len(rows) \in Nat
    <2>1. ASSUME NEW x \in Nat \X V, x[1] < Len(rows)
          PROVE  Noted(x[2], rows[x[1] + 1], c) \in V
      <3>1. x[1] \in Nat /\ x[2] \in Seq(Teams) /\ rows[x[1] + 1] \in SubRec
        BY <2>1
      <3> QED BY <3>1, NotedType
    <2>2. none \in V
      OBVIOUS
    <2> HIDE DEF none, V
    <2> QED BY <2>1, <2>2
  <1>2. PICK f : Follows(f, V, none, step)
    <2> HIDE DEF V, none, step
    <2> QED BY <1>1, RecursionExists
  <1>3. /\ f \in [Nat -> V] /\ f[0] = none
        /\ \A n \in Nat : f[n + 1] = step[<<n, f[n]>>]
    BY <1>2 DEF Follows
  <1>4. ASSUME NEW n \in 1..Len(rows)
        PROVE  f[n] = Noted(f[n - 1], rows[n], c)
    <2>1. n - 1 \in Nat /\ (n - 1) + 1 = n /\ n - 1 < Len(rows) /\ f[n - 1] \in V
      <3> HIDE DEF V, none, step
      <3>1. n - 1 \in Nat /\ (n - 1) + 1 = n /\ n - 1 < Len(rows)
        BY <1>1
      <3> QED BY <1>3, <3>1
    <2>2. f[n] = step[<<n - 1, f[n - 1]>>]
      <3> HIDE DEF step
      <3> QED BY <1>3, <2>1
    <2> HIDE DEF V
    <2> QED BY <2>1, <2>2
  <1> DEFINE g == [n \in 0..Len(rows) |-> f[n]]
  <1>5. ListsUp(g, rows, c)
    <2>1. g \in [0..Len(rows) -> Seq(Teams)] /\ g[0] = <<>>
      BY <1>1, <1>3
    <2>2. \A n \in 1..Len(rows) : g[n] = f[n] /\ g[n - 1] = f[n - 1]
      BY <1>1
    <2> HIDE DEF g
    <2> QED BY <1>4, <2>1, <2>2 DEF ListsUp
  <1> QED BY <1>5

(* There is only one such function, also for a longer list.                *)
LEMMA ListsAgree ==
    ASSUME NEW rows \in Seq(SubRec), NEW more \in Seq(SubRec), NEW c, NEW f, NEW g,
           Len(rows) <= Len(more), \A k \in 1..Len(rows) : more[k] = rows[k],
           ListsUp(f, rows, c), ListsUp(g, more, c)
    PROVE  \A n \in 0..Len(rows) : f[n] = g[n]
  <1> DEFINE S == {n \in Nat : n <= Len(rows) => f[n] = g[n]}
  <1>1. 0 \in S
    BY DEF ListsUp
  <1>2. ASSUME NEW n \in S PROVE n + 1 \in S
    <2> SUFFICES ASSUME n + 1 <= Len(rows) PROVE f[n + 1] = g[n + 1]
      OBVIOUS
    <2>1. n + 1 \in 1..Len(rows) /\ n + 1 \in 1..Len(more) /\ (n + 1) - 1 = n
      OBVIOUS
    <2>2. f[n] = g[n] /\ more[n + 1] = rows[n + 1]
      BY <2>1
    <2> QED BY <2>1, <2>2 DEF ListsUp
  <1>3. S = Nat
    <2>1. S \in SUBSET Nat
      OBVIOUS
    <2> HIDE DEF S
    <2> QED BY <1>1, <1>2, <2>1, Induction
  <1> QED BY <1>3

LEMMA OrderLists ==
    ASSUME NEW rows \in Seq(SubRec), NEW c
    PROVE  \E f : ListsUp(f, rows, c) /\ Order(rows, c) = f[Len(rows)]
  <1> DEFINE Equation(f) ==
                 f = [n \in 0..Len(rows) |-> IF n = 0 THEN <<>> ELSE Noted(f[n - 1], rows[n], c)]
             upTo == CHOOSE f : Equation(f)
  <1>1. Len(rows) \in Nat
    OBVIOUS
  <1>2. Order(rows, c) = upTo[Len(rows)]
    BY DEF Order
  <1>3. PICK g : ListsUp(g, rows, c)
    BY ListsExist
  <1>4. Equation(g)
    <2>1. ASSUME NEW n \in 0..Len(rows)
          PROVE  g[n] = IF n = 0 THEN <<>> ELSE Noted(g[n - 1], rows[n], c)
      <3>1. CASE n = 0
        BY <1>3, <3>1 DEF ListsUp
      <3>2. CASE n # 0
        <4>1. n \in 1..Len(rows)
          BY <1>1, <3>2
        <4> QED BY <1>3, <3>2, <4>1 DEF ListsUp
      <3> QED BY <3>1, <3>2
    <2> QED BY <1>3, <2>1 DEF ListsUp
  <1>5. Equation(upTo)
    <2> HIDE DEF Equation
    <2> QED BY <1>4
  <1> HIDE DEF upTo
  <1> DEFINE S == {n \in Nat : n <= Len(rows) => upTo[n] = g[n]}
  <1>6. 0 \in S
    BY <1>1, <1>3, <1>5 DEF ListsUp
  <1>7. ASSUME NEW n \in S PROVE n + 1 \in S
    <2> SUFFICES ASSUME n + 1 <= Len(rows) PROVE upTo[n + 1] = g[n + 1]
      OBVIOUS
    <2>1. n + 1 \in 1..Len(rows) /\ n + 1 \in 0..Len(rows) /\ (n + 1) - 1 = n /\ n + 1 # 0
      BY <1>1
    <2>2. upTo[n + 1] = Noted(upTo[n], rows[n + 1], c)
      BY <1>5, <2>1
    <2>3. g[n + 1] = Noted(g[n], rows[n + 1], c)
      BY <1>3, <2>1 DEF ListsUp
    <2> QED BY <1>1, <2>2, <2>3
  <1>8. S = Nat
    <2>1. S \in SUBSET Nat
      OBVIOUS
    <2> HIDE DEF S
    <2> QED BY <1>6, <1>7, <2>1, Induction
  <1> QED BY <1>1, <1>2, <1>3, <1>8

(* An inserted correct submission adds its team to the order.              *)
LEMMA OrderAppend ==
    ASSUME NEW rows \in Seq(SubRec), NEW c, NEW row \in SubRec
    PROVE  /\ Order(rows, c) \in Seq(Teams)
           /\ Order(Append(rows, row), c) = Noted(Order(rows, c), row, c)
  <1> DEFINE more == Append(rows, row)
  <1>1. /\ more \in Seq(SubRec) /\ Len(rows) \in Nat /\ Len(more) = Len(rows) + 1
        /\ more[Len(rows) + 1] = row
        /\ \A k \in 1..Len(rows) : more[k] = rows[k]
    BY AppendProperties
  <1> HIDE DEF more
  <1>2. PICK f : ListsUp(f, rows, c) /\ Order(rows, c) = f[Len(rows)]
    BY OrderLists
  <1>3. PICK g : ListsUp(g, more, c) /\ Order(more, c) = g[Len(more)]
    BY <1>1, OrderLists
  <1>4. \A n \in 0..Len(rows) : f[n] = g[n]
    <2>1. Len(rows) <= Len(more)
      BY <1>1
    <2> QED BY <1>1, <1>2, <1>3, <2>1, ListsAgree
  <1>5. f[Len(rows)] = g[Len(rows)] /\ f[Len(rows)] \in Seq(Teams)
    BY <1>1, <1>2, <1>4 DEF ListsUp
  <1>6. g[Len(rows) + 1] = Noted(g[Len(rows)], row, c)
    BY <1>1, <1>3 DEF ListsUp
  <1> QED BY <1>1, <1>2, <1>3, <1>5, <1>6 DEF more

(* The order lists each solver, as often as the item counts solves; there  *)
(* is a first blood once there is a solve, and a loaded copy knows it.     *)
Listed(t, c) == \E k \in 1..Len(Order(subs, c)) : Order(subs, c)[k] = t
OrderInv ==
    /\ \A c \in Challenges : /\ Len(Order(subs, c)) = item[c].n
                             /\ \A t \in Teams : t \in Solvers(c) <=> Listed(t, c)
                             /\ item[c].first = NoTeam <=> item[c].n = 0
    /\ \A s \in Threads : At(s, "judge") => th[s].blood = (item[th[s].c].first = NoTeam)

(* Without a solve, neither the counts and first bloods nor the order move.*)
LEMMA CountStays ==
    ASSUME TypeOK, ScoreInv, crashes = 0, [Next]_vars, \A s \in Threads : ~Right(s),
           NEW c \in Challenges
    PROVE  /\ item'[c].n = item[c].n /\ item'[c].first = item[c].first
           /\ Order(subs', c) = Order(subs, c) /\ Solvers(c)' = Solvers(c)
  <1> USE DEF scores, limits, season, rest
  <1>1. item'[c].first = item[c].first
    BY FirstStep
  <1>2. item' = item \/ SyncWrite \/ \E s \in Threads : Right(s)
    BY DEF Next, SubmissionStep, JudgeFails, Wrong, CountFailure, SetCooldown, ClearLimits,
       MarkSolved, ShowPrice, Enter, SyncRead, StartCompetition, CloserStep, BeginClose,
       FinishCommit, FinishCleanup, TerminateCleanup, TerminateCommit, Rank, Archive, Tick,
       Crash, vars
  <1>4. item'[c].n = item[c].n
    <2>1. CASE SyncWrite
      <3>1. /\ sync # IdleSync
            /\ item' = [item EXCEPT ![sync.c] =
                          [n |-> sync.n, price |-> sync.price, first |-> @.first]]
        BY <2>1 DEF SyncWrite, IdleSync
      <3>2. sync.n = item[sync.c].n
        BY <3>1 DEF ScoreInv, SyncCurrent
      <3>3. CASE sync.c = c
        <4>1. item'[c] = [n |-> sync.n, price |-> sync.price, first |-> item[c].first]
          BY <3>1, <3>3 DEF TypeOK
        <4> QED BY <3>1, <3>2, <3>3, <4>1
      <3>4. CASE sync.c # c
        BY <3>1, <3>4 DEF TypeOK
      <3> QED BY <3>3, <3>4
    <2> QED BY <1>2, <2>1
  <1>5. Solvers(c)' = Solvers(c)
    BY SolversStay
  <1>6. Order(subs', c) = Order(subs, c)
    <2>1. CASE subs' = subs
      BY <2>1
    <2>2. ASSUME NEW s \in Threads, Wrong(s), subs' = Append(subs, Row(s, FALSE, FALSE, 0))
          PROVE  Order(subs', c) = Order(subs, c)
      <3>1. Row(s, FALSE, FALSE, 0) \in SubRec /\ ~Row(s, FALSE, FALSE, 0).ok
        BY <2>2, RowType DEF Wrong, At, Row
      <3>2. subs \in Seq(SubRec)
        BY DEF TypeOK
      <3> QED BY <2>2, <3>1, <3>2, OrderAppend DEF Noted
    <2> QED BY <2>1, <2>2, SubsStep
  <1> QED BY <1>1, <1>4, <1>5, <1>6

LEMMA OrderKept ==
    ASSUME TypeOK, ScoreInv, OrderInv, crashes = 0, [Next]_vars, \A s \in Threads : ~Right(s)
    PROVE  OrderInv' /\ UNCHANGED Board!vars
  <1> USE DEF scores, limits, season, rest
  <1>1. \A c \in Challenges :
           /\ item'[c].n = item[c].n /\ item'[c].first = item[c].first
           /\ Order(subs', c) = Order(subs, c) /\ Solvers(c)' = Solvers(c)
    BY CountStays
  <1>2. total' = total
    BY DEF Next, SubmissionStep, JudgeFails, Wrong, CountFailure, SetCooldown, ClearLimits,
       MarkSolved, ShowPrice, Enter, SyncRead, SyncWrite, StartCompetition, CloserStep,
       BeginClose, FinishCommit, FinishCleanup, TerminateCleanup, TerminateCommit, Rank,
       Archive, Tick, Crash, vars
  <1>3. ASSUME NEW c \in Challenges
        PROVE  /\ Len(Order(subs', c)) = item'[c].n
               /\ \A t \in Teams : t \in Solvers(c)' <=> Listed(t, c)'
               /\ item'[c].first = NoTeam <=> item'[c].n = 0
    BY <1>1 DEF OrderInv, Listed
  <1>4. ASSUME NEW s \in Threads, At(s, "judge")'
        PROVE  th'[s].blood = (item'[th'[s].c].first = NoTeam)
    <2>1. CASE th'[s] = th[s]
      <3>1. At(s, "judge")
        BY <1>4, <2>1 DEF At
      <3>2. th[s].c \in Challenges
        BY <3>1, Serving DEF At
      <3> QED BY <1>1, <2>1, <3>1, <3>2 DEF OrderInv
    <2>2. CASE th'[s] # th[s]
      <3>1. PICK t \in Teams, c \in Challenges : Enter(s, t, c)
        <4>1. th'[s] # IdleThread /\ th'[s].pc = "judge"
          BY <1>4 DEF At, IdleThread
        <4> QED BY <2>2, <4>1, ThreadStep
      <3>2. th'[s] = [pc |-> "judge", t |-> t, c |-> c, n |-> item[c].n,
                      blood |-> item[c].first = NoTeam]
        BY <2>2, <3>1 DEF Enter, TypeOK
      <3>3. th'[s].c = c /\ th'[s].blood = (item[c].first = NoTeam)
        BY <3>2
      <3> QED BY <1>1, <3>3
    <2> QED BY <2>1, <2>2
  <1>5. OrderInv'
    BY <1>3, <1>4 DEF OrderInv
  <1> QED BY <1>1, <1>2, <1>5 DEF Board!vars

(* A correct submission is a solve of the scoreboard: by a team that has   *)
(* none, at the next place, paid the award of that place.                  *)
LEMMA OrderStep ==
    ASSUME TypeOK, ScoreInv, OrderInv, crashes = 0, [Next]_vars, NEW s \in Threads, Right(s)
    PROVE  OrderInv' /\ Board!Next
  <1> USE DEF scores, season, limits
  <1>1. ~At(s, "idle") /\ At(s, "judge")
    BY DEF Right, RightPaying, At
  <1>2. PICK t \in Teams, c \in Challenges : t = th[s].t /\ c = th[s].c
    BY <1>1, Serving
  <1> DEFINE n == item[c].n
             pay == AwardFor(th[s].n, th[s].blood)
             row == Row(s, TRUE, th[s].blood, pay)
  <1>3. /\ subs' = Append(subs, row) /\ total' = [total EXCEPT ![t] = @ + pay]
        /\ item' = [item EXCEPT ![c] = Solved(@, s)] /\ Goto(s, "clear")
    BY <1>2 DEF Right, RightPaying
  <1>4. row \in SubRec /\ row.t = t /\ row.c = c /\ row.ok
    BY <1>1, <1>2, RowType DEF Row
  <1>5. /\ th[s].n = n /\ t \notin Solvers(c) /\ n \in Nat /\ th[s].blood \in BOOLEAN
        /\ th[s].blood = (item[c].first = NoTeam) /\ (item[c].first = NoTeam <=> n = 0)
        /\ Len(Order(subs, c)) = n
        /\ \A r \in Threads : r # s => th[r].c # c
    BY <1>1, <1>2, NamesAssumption, Serving DEF ScoreInv, OrderInv, Current, TypeOK
  <1> HIDE DEF row
  <1>6. /\ Order(subs, c) \in Seq(Teams)
        /\ Order(subs', c) = Append(Order(subs, c), t)
        /\ \A d \in Challenges : d # c => Order(subs', d) = Order(subs, d)
    <2>1. subs \in Seq(SubRec)
      BY DEF TypeOK
    <2> QED BY <1>3, <1>4, <2>1, OrderAppend DEF Noted
  <1>7. item'[c].n = n + 1 /\ item'[c].first # NoTeam
    <2>1. item'[c] = Solved(item[c], s)
      BY <1>3 DEF TypeOK
    <2>2. t # NoTeam
      BY NamesAssumption
    <2>3. item'[c].n = n + 1
      BY <2>1 DEF Solved
    <2>4. item'[c].first = IF th[s].blood /\ item[c].first = NoTeam THEN t ELSE item[c].first
      BY <1>2, <2>1 DEF Solved
    <2> QED BY <1>5, <2>2, <2>3, <2>4
  <1>8. \A d \in Challenges : d # c => item'[d] = item[d]
    BY <1>3 DEF TypeOK
  <1>9. \A r \in Threads : r # s => th'[r] = th[r]
    BY <1>3 DEF Goto, TypeOK
  <1>10. Solvers(c)' = Solvers(c) \cup {t}
    BY <1>2, SolversGrow
  <1>11. ASSUME NEW d \in Challenges, d # c PROVE Solvers(d)' = Solvers(d)
    <2>1. \A r \in Threads : Right(r) => r = s
      BY <1>9, RightMoves
    <2> QED BY <1>2, <1>11, <2>1, SolversStay
  <1>12. ASSUME NEW d \in Challenges
         PROVE  /\ Len(Order(subs', d)) = item'[d].n
                /\ \A u \in Teams : u \in Solvers(d)' <=> Listed(u, d)'
                /\ item'[d].first = NoTeam <=> item'[d].n = 0
    <2>1. CASE d = c
      <3>1. /\ Len(Order(subs', c)) = n + 1
            /\ \A u : Listed(u, c)' <=> Listed(u, c) \/ u = t
        <4>1. /\ Len(Append(Order(subs, c), t)) = n + 1
              /\ Append(Order(subs, c), t)[n + 1] = t
              /\ \A k \in 1..n : Append(Order(subs, c), t)[k] = Order(subs, c)[k]
          BY <1>5, <1>6, AppendProperties
        <4> QED BY <1>5, <1>6, <4>1 DEF Listed
      <3>2. \A u \in Teams : u \in Solvers(c) <=> Listed(u, c)
        BY DEF OrderInv
      <3> QED BY <1>5, <1>7, <1>10, <2>1, <3>1, <3>2
    <2>2. CASE d # c
      BY <1>6, <1>8, <1>11, <2>2 DEF OrderInv, Listed
    <2> QED BY <2>1, <2>2
  <1>13. ASSUME NEW r \in Threads, At(r, "judge")'
         PROVE  th'[r].blood = (item'[th'[r].c].first = NoTeam)
    <2>1. r # s
      BY <1>13, RightMoves DEF At
    <2>2. th'[r] = th[r] /\ th[r].c # c /\ At(r, "judge")
      BY <1>5, <1>9, <1>13, <2>1 DEF At
    <2>3. th[r].c \in Challenges
      BY <2>2, Serving DEF At
    <2> QED BY <1>8, <2>2, <2>3 DEF OrderInv
  <1>14. OrderInv'
    BY <1>12, <1>13 DEF OrderInv
  <1>15. Board!Solve(t, c)
    <2> DEFINE old == [d \in Challenges |-> Order(subs, d)]
               new == [d \in Challenges |-> Order(subs', d)]
    <2>1. new = [old EXCEPT ![c] = Append(@, t)]
      BY <1>6
    <2>2. ~Board!Solved(t, c)
      BY <1>5 DEF OrderInv, Listed, Board!Solved
    <2>3. pay = AwardFor((Len(old[c]) + 1) - 1, Len(old[c]) + 1 = 1)
      <3>1. Len(old[c]) = n /\ (n + 1) - 1 = n /\ (n + 1 = 1 <=> n = 0)
        BY <1>5
      <3> QED BY <1>5, <3>1 DEF AwardFor
    <2> QED BY <1>3, <2>1, <2>2, <2>3 DEF Board!Solve
  <1> QED BY <1>14, <1>15 DEF Board!Next

(* What a team sees of a competition is the promised scoreboard: each team *)
(* solves a challenge once and is paid by its place in the order of solves,*)
(* when nothing overlaps on a challenge and the backend does not crash.    *)
THEOREM CompetitionKeepsBoard ==
    ASSUME ~Overlap, MaxCrashes = 0
    PROVE  Spec => ImplementsBoard
  <1>1. Init => OrderInv /\ Board!Init
    <2> SUFFICES ASSUME Init PROVE OrderInv /\ Board!Init
      OBVIOUS
    <2>1. ASSUME NEW c PROVE Order(subs, c) = <<>>
      <3>1. subs \in Seq(SubRec) /\ Len(subs) = 0
        BY DEF Init
      <3>2. PICK f : ListsUp(f, subs, c) /\ Order(subs, c) = f[Len(subs)]
        BY <3>1, OrderLists
      <3> QED BY <3>1, <3>2 DEF ListsUp
    <2>2. \A c : Solvers(c) = {}
      BY DEF Init, Solvers, CorrectSubs
    <2>3. \A c \in Challenges : item[c].n = 0 /\ item[c].first = NoTeam
      BY DEF Init
    <2>4. \A s \in Threads : ~At(s, "judge")
      BY DEF Init, IdleThread, At
    <2>5. OrderInv
      BY <2>1, <2>2, <2>3, <2>4 DEF OrderInv, Listed
    <2>6. total = [t \in Teams |-> 0]
      BY DEF Init
    <2> QED BY <2>1, <2>5, <2>6 DEF Board!Init
  <1>2. TypeOK /\ ScoreInv /\ OrderInv /\ [Next]_vars => OrderInv' /\ [Board!Next]_(Board!vars)
    <2> SUFFICES ASSUME TypeOK, ScoreInv, OrderInv, [Next]_vars
                 PROVE  OrderInv' /\ [Board!Next]_(Board!vars)
      OBVIOUS
    <2>1. crashes = 0
      BY DEF TypeOK
    <2> QED BY <2>1, OrderKept, OrderStep
  <1> QED BY <1>1, <1>2, TypeCorrect, ScoreHolds, PTL DEF Spec, ImplementsBoard, Board!Spec
=============================================================================
