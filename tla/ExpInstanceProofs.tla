-------------------------- MODULE ExpInstanceProofs --------------------------
(***************************************************************************)
(* Theorems about ExpInstance, for any number of students, goroutines,     *)
(* rows and jobs: first the ones that hold through any number of crashes   *)
(* and with operations overlapping freely, then the ones of operations     *)
(* that do not overlap on one student's rows.                              *)
(***************************************************************************)
EXTENDS ExpInstance, TLAPS

(* Nothing is ever pushed to the list that activation pops.                *)
PopListEmpty == queue[PopKey] = <<>>

(* Every student has a largest attempt number.                             *)
AttemptsHaveMax ==
    \A s \in Students : \E m \in AttemptsOf(s) : \A k \in AttemptsOf(s) : k <= m

LEMMA IdleType == IdleThread \in ThreadRec
BY DEF IdleThread, ThreadRec, Ops, ThreadPcs

LEMMA FinishType ==
    ASSUME TypeOK, NEW t \in Threads, Finish(t)
    PROVE  th' \in [Threads -> ThreadRec]
BY IdleType DEF TypeOK, Finish

LEMMA GotoType ==
    ASSUME TypeOK, NEW t \in Threads, NEW pc \in ThreadPcs, Goto(t, pc)
    PROVE  th' \in [Threads -> ThreadRec]
<1>1. [th[t] EXCEPT !.pc = pc] \in ThreadRec
  BY DEF TypeOK, ThreadRec
<1>2. th' = [th EXCEPT ![t] = [th[t] EXCEPT !.pc = pc]]
  BY DEF TypeOK, Goto
<1> QED BY <1>1, <1>2 DEF TypeOK

LEMMA PlanType ==
    ASSUME NEW r \in ThreadRec, NEW pc \in ThreadPcs, NEW n \in Nat
    PROVE  [r EXCEPT !.pc = pc, !.n = n] \in ThreadRec
BY DEF ThreadRec

LEMMA BeginType ==
    ASSUME TypeOK, NEW t \in Threads, NEW op \in Ops, NEW pc \in ThreadPcs,
           NEW i \in Insts, Begin(t, op, pc, i)
    PROVE  th' \in [Threads -> ThreadRec]
BY DEF TypeOK, Begin, ThreadRec

LEMMA SpawnType ==
    ASSUME TypeOK, NEW i \in Insts, NEW restore \in BOOLEAN, NEW ns1 \in BOOLEAN,
           NEW rel \in BOOLEAN, Spawn(i, restore, ns1, rel)
    PROVE  jobs' \in 0..MaxJobs /\ job' \in [Jobs -> JobRec] /\ jobs + 1 \in Jobs
BY BoundsAssumption DEF TypeOK, Spawn, NewJob, JobRec, JobPcs, Jobs

LEMMA MaxType ==
    ASSUME TypeOK, AttemptsHaveMax, NEW s \in Students
    PROVE  MaxAttemptNo(s) \in Nat
<1>1. AttemptsOf(s) \subseteq Nat
  BY BoundsAssumption DEF TypeOK, AttemptsOf, RowsOf, Rows, Insts
<1> QED BY <1>1 DEF AttemptsHaveMax, MaxAttemptNo

LEMMA ActivateNone ==
    ASSUME TypeOK, PopListEmpty, NEW st, NEW jb, Activate(st, jb)
    PROVE  status' = st /\ job' = jb /\ queue' = queue /\ jobs' = jobs
BY DEF PopListEmpty, Activate

CreatePcs == {"find", "limits", "insert", "enqueue"}
ReclaimOps == {"reclaim", "timeout", "retain"}

(* What a thread knows: a working thread serves a student; outside Create  *)
(* it holds a row; only an operation that destroys reaches the destroying  *)
(* steps.                                                                  *)
ThreadKnows(t) ==
    /\ th[t].pc = "idle" <=> th[t].op = "idle"
    /\ th[t].pc # "idle" => th[t].s \in Students
    /\ th[t].pc \notin CreatePcs \cup {"idle"} => th[t].i \in Insts
    /\ th[t].pc \in {"delete", "mark"} =>
          th[t].op \in ReclaimOps \cup {"destroy", "restart", "heal"}
    /\ th[t].pc = "final" => th[t].op \in ReclaimOps
    /\ th[t].pc \in {"archive", "settle"} => th[t].op \in ReclaimOps
    /\ th[t].pc = "inspect" => th[t].op = "heal"

RowsOwned == \A i \in Rows : owner[i] \in Students
FreshJobs == \A j \in Jobs : j > jobs => job[j].pc = "done"

Base == /\ TypeOK
        /\ PopListEmpty
        /\ AttemptsHaveMax
        /\ RowsOwned
        /\ FreshJobs
        /\ \A t \in Threads : ThreadKnows(t)

LEMMA CreateStepsType ==
    ASSUME Base, NEW t \in Threads,
           \/ \E s \in Students : StartCreate(t, s)
           \/ FindReusable(t) \/ CheckLimits(t)
           \/ \E restore \in BOOLEAN : InsertCreating(t, restore)
           \/ InsertQueued(t)
    PROVE  TypeOK'
<1> USE DEF Base
<1>1. ASSUME NEW s \in Students, StartCreate(t, s) PROVE TypeOK'
  BY <1>1, IdleType DEF StartCreate, TypeOK, ThreadRec, IdleThread, Ops, ThreadPcs, rowKey, results, work
<1>2. CASE FindReusable(t)
  <2>1. "limits" \in ThreadPcs
    BY DEF ThreadPcs
  <2>2. th' \in [Threads -> ThreadRec]
    BY <1>2, <2>1, FinishType, GotoType DEF FindReusable
  <2> QED BY <1>2, <2>2 DEF FindReusable, TypeOK, rowKey, results, work
<1>3. CASE CheckLimits(t)
  <2>1. th[t].s \in Students
    BY <1>3 DEF CheckLimits, At, ThreadKnows
  <2>2. MaxAttemptNo(th[t].s) + 1 \in Nat
    BY <2>1, MaxType
  <2>3. th' \in [Threads -> ThreadRec]
    <3>1. CASE Finish(t)
      BY <3>1, FinishType
    <3>2. ASSUME NEW pc \in {"enqueue", "insert"},
                 th' = [th EXCEPT ![t] = [@ EXCEPT !.pc = pc, !.n = MaxAttemptNo(th[t].s) + 1]]
          PROVE  th' \in [Threads -> ThreadRec]
      <4>1. [th[t] EXCEPT !.pc = pc, !.n = MaxAttemptNo(th[t].s) + 1] \in ThreadRec
        <5>1. th[t] \in ThreadRec /\ pc \in ThreadPcs
          BY DEF TypeOK, ThreadPcs
        <5> QED BY <2>2, <5>1, PlanType
      <4> QED BY <3>2, <4>1 DEF TypeOK
    <3> QED BY <1>3, <3>1, <3>2 DEF CheckLimits
  <2> QED BY <1>3, <2>3 DEF CheckLimits, TypeOK, rowKey, results, work
<1>4. ASSUME NEW restore \in BOOLEAN, InsertCreating(t, restore) PROVE TypeOK'
  <2>1. rows + 1 \in Insts /\ rows' \in 0..MaxRows
    BY <1>4, BoundsAssumption DEF InsertCreating, InsertRow, TypeOK, Insts
  <2>2. jobs' \in 0..MaxJobs /\ job' \in [Jobs -> JobRec]
    BY <1>4, <2>1, SpawnType DEF InsertCreating
  <2>3. th' \in [Threads -> ThreadRec]
    BY <1>4, FinishType DEF InsertCreating, InsertRow
  <2>4. th[t].s \in Students /\ th[t].n \in Nat
    BY <1>4 DEF InsertCreating, At, ThreadKnows, TypeOK, ThreadRec
  <2> QED BY <1>4, <2>1, <2>2, <2>3, <2>4 DEF InsertCreating, InsertRow, TypeOK, Statuses, results
<1>5. CASE InsertQueued(t)
  <2>1. rows + 1 \in Insts /\ rows' \in 0..MaxRows
    BY <1>5, BoundsAssumption DEF InsertQueued, InsertRow, TypeOK, Insts
  <2>2. queue' \in [{PushKey, PopKey} -> Seq(Insts)]
    BY <1>5, <2>1 DEF InsertQueued, TypeOK
  <2>3. th' \in [Threads -> ThreadRec]
    BY <1>5, FinishType DEF InsertQueued, InsertRow
  <2>4. th[t].s \in Students /\ th[t].n \in Nat
    BY <1>5 DEF InsertQueued, At, ThreadKnows, TypeOK, ThreadRec
  <2> QED BY <1>5, <2>1, <2>2, <2>3, <2>4 DEF InsertQueued, InsertRow, TypeOK, Statuses, results, work
<1> QED BY <1>1, <1>2, <1>3, <1>4, <1>5

LEMMA JobFailsType ==
    ASSUME TypeOK, NEW j \in Jobs, JobFails(j)
    PROVE  job' \in [Jobs -> JobRec]
<1>1. [job[j] EXCEPT !.pc = "settle", !.ok = FALSE] \in JobRec
  <2>1. job[j] \in JobRec
    BY DEF TypeOK
  <2>2. ASSUME NEW r \in JobRec PROVE [r EXCEPT !.pc = "settle", !.ok = FALSE] \in JobRec
    BY DEF JobRec, JobPcs
  <2> QED BY <2>1, <2>2
<1> QED BY <1>1 DEF TypeOK, JobFails

LEMMA JobMoveType ==
    ASSUME TypeOK, NEW j \in Jobs, NEW pc \in JobPcs,
           JobMoves(j, pc)
    PROVE  job' \in [Jobs -> JobRec]
<1>1. [job[j] EXCEPT !.pc = pc] \in JobRec
  <2>1. job[j] \in JobRec
    BY DEF TypeOK
  <2>2. ASSUME NEW r \in JobRec PROVE [r EXCEPT !.pc = pc] \in JobRec
    BY DEF JobRec
  <2> QED BY <2>1, <2>2
<1>2. job' = [job EXCEPT ![j] = [job[j] EXCEPT !.pc = pc]]
  BY DEF TypeOK, JobMoves
<1> QED BY <1>1, <1>2 DEF TypeOK

LEMMA NoJobType == NoJob \in JobRec
BY DEF NoJob, JobRec, JobPcs

LEMMA JobStepsType ==
    ASSUME Base, NEW j \in Jobs, JobStep(j)
    PROVE  TypeOK'
<1> USE DEF Base
<1>0. /\ "create" \in JobPcs /\ "deploy" \in JobPcs /\ "settle" \in JobPcs
  BY DEF JobPcs
<1>1. CASE JobRefused(j)
  <2>1. job' \in [Jobs -> JobRec]
    BY <1>1, JobFailsType DEF JobRefused
  <2> QED BY <1>1, <2>1 DEF JobRefused, TypeOK, rowKey, results
<1>2. CASE JobRecord(j)
  <2>1. job' \in [Jobs -> JobRec]
    BY <1>2, <1>0, JobMoveType DEF JobRecord
  <2> QED BY <1>2, <2>1 DEF JobRecord, TypeOK, rowKey, results
<1>3. CASE JobCreateNs(j)
  <2>1. job' \in [Jobs -> JobRec]
    BY <1>3, <1>0, JobMoveType, JobFailsType DEF JobCreateNs
  <2> QED BY <1>3, <2>1 DEF JobCreateNs, TypeOK, rowKey, results
<1>4. CASE JobDeploy(j)
  <2>1. job' \in [Jobs -> JobRec]
    BY <1>4, <1>0, JobMoveType, JobFailsType DEF JobDeploy
  <2> QED BY <1>4, <2>1 DEF JobDeploy, TypeOK, rowKey, results
<1>5. CASE JobSettle(j)
  <2>1. /\ status' = [status EXCEPT ![job[j].i] = IF job[j].ok THEN "running" ELSE "error"]
        /\ job' = [job EXCEPT ![j] = NoJob]
        /\ queue' = queue /\ jobs' = jobs
    BY <1>5, ActivateNone DEF JobSettle
  <2>2. job' \in [Jobs -> JobRec]
    BY <2>1, NoJobType DEF TypeOK
  <2>3. status' \in [Insts -> Statuses]
    BY <2>1 DEF TypeOK, Statuses
  <2> QED BY <1>5, <2>1, <2>2, <2>3 DEF JobSettle, TypeOK, rowKey, results
<1> QED BY <1>1, <1>2, <1>3, <1>4, <1>5 DEF JobStep

LEMMA StartsType ==
    ASSUME Base, NEW t \in Threads, NEW i \in Insts,
           \/ StartDestroy(t, i) \/ StartRestart(t, i)
           \/ StartPause(t, i) \/ StartResume(t, i)
           \/ StartRestore(t, i) \/ StartSubmit(t, i)
           \/ StartReclaim(t, i) \/ StartHealth(t, i)
    PROVE  TypeOK'
<1>1. \E op \in Ops, pc \in ThreadPcs : Begin(t, op, pc, i)
  BY DEF StartDestroy, StartRestart, StartPause, StartResume, StartRestore,
         StartSubmit, StartReclaim, StartHealth, Ops, ThreadPcs
<1>2. th' \in [Threads -> ThreadRec]
  BY <1>1, BeginType DEF Base
<1>3. UNCHANGED <<rowKey, status, ns, results, snap, k8s, queue, work, crashes>>
  BY DEF StartDestroy, StartRestart, StartPause, StartResume, StartRestore,
         StartSubmit, StartReclaim, StartHealth
<1> QED BY <1>2, <1>3 DEF Base, TypeOK, rowKey, results, work

LEMMA ThreadStepsType ==
    ASSUME Base, NEW t \in Threads,
           \/ DeleteNs(t) \/ DeleteNsFails(t) \/ MarkDestroyed(t)
           \/ PauseSnapshot(t) \/ PauseStop(t) \/ PauseCommit(t) \/ ResumeCommit(t)
           \/ RestoreDrop(t) \/ RestoreReset(t) \/ SubmitCommit(t)
           \/ SettleTimeout(t) \/ ReclaimSnapshot(t) \/ ReclaimFinal(t)
           \/ HealthOk(t) \/ HealthFailed(t) \/ HealRebuild(t)
    PROVE  TypeOK'
<1> USE DEF Base
<1>1. ASSUME \/ Finish(t)
             \/ \E pc \in {"find", "mark", "final", "reinit", "stop", "paused", "reset",
                           "archive", "delete"} : Goto(t, pc)
      PROVE  th' \in [Threads -> ThreadRec]
  <2>1. {"find", "mark", "final", "reinit", "stop", "paused", "reset", "archive", "delete"}
          \subseteq ThreadPcs
    BY DEF ThreadPcs
  <2> QED BY <1>1, <2>1, FinishType, GotoType
<1>2. th[t] \in ThreadRec
  BY DEF TypeOK
<1>3. CASE DeleteNs(t)
  BY <1>1, <1>3 DEF DeleteNs, TypeOK, rowKey, results, work
<1>4. CASE DeleteNsFails(t)
  BY <1>1, <1>4 DEF DeleteNsFails, TypeOK, rowKey, results, work
<1>5. CASE MarkDestroyed(t)
  <2>1. /\ status' = [status EXCEPT ![th[t].i] = "destroyed"]
        /\ job' = job /\ queue' = queue /\ jobs' = jobs
    BY <1>5, ActivateNone DEF MarkDestroyed
  <2>2. th' \in [Threads -> ThreadRec]
    BY <1>1, <1>5 DEF MarkDestroyed
  <2>3. status' \in [Insts -> Statuses]
    BY <2>1 DEF TypeOK, Statuses
  <2> QED BY <1>5, <2>1, <2>2, <2>3 DEF MarkDestroyed, TypeOK, rowKey, results
<1>6. CASE PauseSnapshot(t)
  BY <1>1, <1>6 DEF PauseSnapshot, TypeOK, rowKey, results, work
<1>7. CASE PauseStop(t)
  BY <1>1, <1>7 DEF PauseStop, TypeOK, rowKey, results, work
<1>8. CASE PauseCommit(t)
  <2>1. /\ status' = [status EXCEPT ![th[t].i] = "paused"]
        /\ job' = job /\ queue' = queue /\ jobs' = jobs
    BY <1>8, ActivateNone DEF PauseCommit
  <2>2. status' \in [Insts -> Statuses]
    BY <2>1 DEF TypeOK, Statuses
  <2> QED BY <1>1, <1>8, <2>1, <2>2 DEF PauseCommit, TypeOK, rowKey, results
<1>9. CASE ResumeCommit(t)
  <2>1. th[t].i \in Insts /\ th[t].ns \in BOOLEAN
    BY <1>9, <1>2 DEF ResumeCommit, At, ThreadKnows, CreatePcs, ThreadRec
  <2>2. jobs' \in 0..MaxJobs /\ job' \in [Jobs -> JobRec]
    BY <1>9, <2>1, SpawnType DEF ResumeCommit
  <2> QED BY <1>1, <1>9, <2>2 DEF ResumeCommit, TypeOK, Statuses, rowKey, results
<1>10. CASE RestoreDrop(t)
  BY <1>1, <1>10 DEF RestoreDrop, TypeOK, rowKey, results, work
<1>11. CASE RestoreReset(t)
  <2>1. th[t].i \in Insts /\ th[t].ns \in BOOLEAN
    BY <1>11, <1>2 DEF RestoreReset, At, ThreadKnows, CreatePcs, ThreadRec
  <2>2. (th[t].op = "reopen") \in BOOLEAN
    OBVIOUS
  <2>3. jobs' \in 0..MaxJobs /\ job' \in [Jobs -> JobRec]
    BY <1>11, <2>1, <2>2, SpawnType DEF RestoreReset, TypeOK, work
  <2> QED BY <1>1, <1>11, <2>3 DEF RestoreReset, TypeOK, Statuses, rowKey, results
<1>12. CASE SubmitCommit(t)
  <2>1. total' \in [Insts -> BOOLEAN]
    BY <1>12 DEF SubmitCommit, TypeOK
  <2> QED BY <1>1, <1>12, <2>1 DEF SubmitCommit, TypeOK, Statuses, rowKey, work
<1>13. CASE SettleTimeout(t)
  <2>1. scored' \in [Insts -> BOOLEAN]
    BY <1>13 DEF SettleTimeout, TypeOK, results
  <2>2. total' \in [Insts -> BOOLEAN]
    BY <1>13 DEF SettleTimeout, TypeOK, results
  <2> QED BY <1>1, <1>13, <2>1, <2>2 DEF SettleTimeout, TypeOK, rowKey, work
<1>14. CASE ReclaimSnapshot(t)
  BY <1>1, <1>14 DEF ReclaimSnapshot, TypeOK, rowKey, results, work
<1>15. CASE ReclaimFinal(t)
  BY <1>1, <1>15 DEF ReclaimFinal, TypeOK, Statuses, rowKey, results, work
<1>16. CASE HealthOk(t)
  BY <1>1, <1>16 DEF HealthOk, TypeOK, rowKey, results, work
<1>17. CASE HealthFailed(t)
  BY <1>1, <1>17 DEF HealthFailed, TypeOK, Statuses, rowKey, results, work
<1>18. CASE HealRebuild(t)
  <2>1. th[t].i \in Insts /\ th[t].ns \in BOOLEAN
    BY <1>18, <1>2 DEF HealRebuild, At, ThreadKnows, CreatePcs, ThreadRec
  <2>2. jobs' \in 0..MaxJobs /\ job' \in [Jobs -> JobRec]
    BY <1>18, <2>1, SpawnType DEF HealRebuild
  <2> QED BY <1>1, <1>18, <2>2 DEF HealRebuild, TypeOK, Statuses, rowKey, results
<1> QED BY <1>3, <1>4, <1>5, <1>6, <1>7, <1>8, <1>9, <1>10, <1>11, <1>12, <1>13,
           <1>14, <1>15, <1>16, <1>17, <1>18

LEMMA EnvStepsType ==
    ASSUME Base,
           \/ \E i \in Insts : ManualGrade(i) \/ TakeSnapshot(i) \/ DropSnapshots(i) \/ Reap(i)
           \/ Crash
    PROVE  TypeOK'
<1> USE DEF Base
<1>1. ASSUME NEW i \in Insts, ManualGrade(i) \/ TakeSnapshot(i) \/ DropSnapshots(i) \/ Reap(i)
      PROVE  TypeOK'
  BY <1>1 DEF ManualGrade, TakeSnapshot, DropSnapshots, Reap, TypeOK, rowKey, results, work
<1>2. CASE Crash
  BY <1>2, IdleType, NoJobType, BoundsAssumption DEF Crash, TypeOK, rowKey, results
<1> QED BY <1>1, <1>2

-----------------------------------------------------------------------------
(* Base is inductive.                                                      *)

LEMMA InitBase == Init => Base
<1> SUFFICES ASSUME Init PROVE Base
  OBVIOUS
<1> USE DEF Init
<1>1. TypeOK
  <2>1. rows \in 0..MaxRows /\ jobs \in 0..MaxJobs /\ crashes \in 0..MaxCrashes
    BY BoundsAssumption
  <2>2. queue \in [{PushKey, PopKey} -> Seq(Insts)]
    OBVIOUS
  <2> QED BY <2>1, <2>2, IdleType, NoJobType DEF TypeOK, Statuses
<1>2. PopListEmpty
  BY DEF PopListEmpty
<1>3. RowsOwned
  BY DEF RowsOwned, Rows
<1>4. AttemptsHaveMax
  BY DEF AttemptsHaveMax, AttemptsOf, RowsOf, Rows
<1>5. FreshJobs
  BY DEF FreshJobs, NoJob
<1>6. ASSUME NEW t \in Threads PROVE ThreadKnows(t)
  BY DEF ThreadKnows, IdleThread, CreatePcs
<1> QED BY <1>1, <1>2, <1>3, <1>4, <1>5, <1>6 DEF Base

(* A step that inserts no row keeps the rows' owners and attempts.         *)
LEMMA SameRows ==
    ASSUME Base, UNCHANGED rowKey
    PROVE  RowsOwned' /\ AttemptsHaveMax'
BY DEF Base, rowKey, RowsOwned, AttemptsHaveMax, AttemptsOf, RowsOf, Rows

(* An inserted row: the student's largest attempt number is the new one or *)
(* the old largest.                                                        *)
LEMMA InsertKeepsRows ==
    ASSUME Base, NEW t \in Threads, NEW st, InsertRow(t, st), th[t].s \in Students
    PROVE  RowsOwned' /\ AttemptsHaveMax'
<1> USE DEF Base
<1>1. /\ rows \in Nat /\ rows' = rows + 1 /\ rows + 1 \in Insts
      /\ owner' = [owner EXCEPT ![rows + 1] = th[t].s]
      /\ attempt' = [attempt EXCEPT ![rows + 1] = th[t].n]
      /\ th[t].n \in Nat
  BY BoundsAssumption DEF InsertRow, TypeOK, Insts, ThreadRec
<1>2. Rows' = Rows \cup {rows + 1} /\ rows + 1 \notin Rows /\ Rows \subseteq Insts
  BY <1>1, BoundsAssumption DEF Rows, Insts, TypeOK
<1>3. \A i \in Rows : owner'[i] = owner[i] /\ attempt'[i] = attempt[i]
  BY <1>1, <1>2 DEF TypeOK
<1>4. owner'[rows + 1] = th[t].s /\ attempt'[rows + 1] = th[t].n
  BY <1>1 DEF TypeOK
<1>5. RowsOwned'
  BY <1>2, <1>3, <1>4 DEF RowsOwned
<1>6. ASSUME NEW s \in Students
      PROVE  \E m \in AttemptsOf(s)' : \A k \in AttemptsOf(s)' : k <= m
  <2>1. PICK m \in AttemptsOf(s) : \A k \in AttemptsOf(s) : k <= m
    BY DEF AttemptsHaveMax
  <2>2. AttemptsOf(s) \subseteq Nat
    BY <1>2 DEF TypeOK, AttemptsOf, RowsOf
  <2>3. AttemptsOf(s)' = IF s = th[t].s THEN AttemptsOf(s) \cup {th[t].n} ELSE AttemptsOf(s)
    <3>1. RowsOf(s)' = IF s = th[t].s THEN RowsOf(s) \cup {rows + 1} ELSE RowsOf(s)
      BY <1>2, <1>3, <1>4 DEF RowsOf
    <3>2. \A i \in RowsOf(s) : attempt'[i] = attempt[i]
      BY <1>3 DEF RowsOf
    <3> QED BY <1>4, <3>1, <3>2 DEF AttemptsOf
  <2>4. CASE s = th[t].s /\ th[t].n > m
    BY <1>1, <2>1, <2>2, <2>3, <2>4
  <2>5. CASE ~(s = th[t].s /\ th[t].n > m)
    BY <1>1, <2>1, <2>2, <2>3, <2>5
  <2> QED BY <2>4, <2>5
<1> QED BY <1>5, <1>6 DEF AttemptsHaveMax

(* The three ways a step changes what a thread is doing.                   *)
LEMMA FinishKnows ==
    ASSUME Base, NEW t \in Threads, Finish(t), NEW u \in Threads
    PROVE  ThreadKnows(u)'
BY DEF Base, TypeOK, Finish, ThreadKnows, IdleThread, CreatePcs

LEMMA GotoKnows ==
    ASSUME Base, NEW t \in Threads, NEW pc, Goto(t, pc), NEW u \in Threads,
           th[t].pc # "idle", pc # "idle",
           pc \in CreatePcs \/ th[t].pc \notin CreatePcs,
           pc \in {"delete", "mark"} =>
               th[t].op \in ReclaimOps \cup {"destroy", "restart", "heal"},
           pc \in {"archive", "settle", "final"} => th[t].op \in ReclaimOps,
           pc = "inspect" => th[t].op = "heal"
    PROVE  ThreadKnows(u)'
<1>1. CASE u = t
  <2>1. th'[t] = [th[t] EXCEPT !.pc = pc]
    BY DEF Base, TypeOK, Goto
  <2>2. th[t] \in ThreadRec
    BY DEF Base, TypeOK
  <2>3. /\ th'[t].pc = pc /\ th'[t].op = th[t].op
        /\ th'[t].i = th[t].i /\ th'[t].s = th[t].s
    BY <2>1, <2>2 DEF ThreadRec
  <2> QED BY <1>1, <2>3 DEF Base, ThreadKnows
<1>2. CASE u # t
  BY <1>2 DEF Base, TypeOK, Goto, ThreadKnows
<1> QED BY <1>1, <1>2

LEMMA BeginKnows ==
    ASSUME Base, NEW t \in Threads, NEW op, NEW pc, NEW i \in Insts, Begin(t, op, pc, i),
           NEW u \in Threads, i \in Rows,
           op # "idle", pc # "idle",
           pc \in {"delete", "mark"} => op \in ReclaimOps \cup {"destroy", "restart", "heal"},
           pc \in {"archive", "settle", "final"} => op \in ReclaimOps,
           pc = "inspect" => op = "heal"
    PROVE  ThreadKnows(u)'
<1>1. CASE u = t
  <2>1. /\ th'[t].pc = pc /\ th'[t].op = op
        /\ th'[t].i = i /\ th'[t].s = owner[i]
    BY DEF Base, TypeOK, Begin
  <2> QED BY <1>1, <2>1 DEF Base, ThreadKnows, RowsOwned
<1>2. CASE u # t
  BY <1>2 DEF Base, TypeOK, Begin, ThreadKnows
<1> QED BY <1>1, <1>2

(* A spawned goroutine takes the first job number never used.              *)
LEMMA SpawnFresh ==
    ASSUME Base, NEW i \in Insts, NEW restore \in BOOLEAN, NEW ns1 \in BOOLEAN,
           NEW rel \in BOOLEAN, Spawn(i, restore, ns1, rel)
    PROVE  FreshJobs'
<1>1. /\ jobs \in Nat /\ jobs' = jobs + 1
      /\ job' = [job EXCEPT ![jobs + 1] = NewJob(i, restore, ns1, rel)]
  BY DEF Base, TypeOK, Spawn
<1> QED BY <1>1 DEF Base, TypeOK, FreshJobs, Jobs

LEMMA SameJobs ==
    ASSUME Base, UNCHANGED work
    PROVE  FreshJobs'
BY DEF Base, work, FreshJobs

LEMMA CreateStepsBase ==
    ASSUME Base, NEW t \in Threads,
           \/ \E s \in Students : StartCreate(t, s)
           \/ FindReusable(t) \/ CheckLimits(t)
           \/ \E restore \in BOOLEAN : InsertCreating(t, restore)
           \/ InsertQueued(t)
    PROVE  Base'
<1> DEFINE Rest == PopListEmpty' /\ AttemptsHaveMax' /\ RowsOwned' /\ FreshJobs'
                     /\ \A u \in Threads : ThreadKnows(u)'
<1>7. TypeOK'
  BY CreateStepsType
<1> SUFFICES Rest
  BY <1>7 DEF Base
<1>0. PopListEmpty /\ TypeOK /\ ThreadKnows(t)
  BY DEF Base
<1>1. ASSUME NEW s \in Students, StartCreate(t, s) PROVE Rest
  <2>1. ASSUME NEW u \in Threads PROVE ThreadKnows(u)'
    BY <1>1 DEF Base, TypeOK, StartCreate, ThreadKnows, IdleThread, CreatePcs
  <2> QED BY <1>0, <1>1, <2>1, SameRows, SameJobs DEF StartCreate, PopListEmpty
<1>2. CASE FindReusable(t)
  <2>1. ASSUME NEW u \in Threads PROVE ThreadKnows(u)'
    <3>1. CASE Finish(t)
      BY <3>1, FinishKnows
    <3>2. CASE Goto(t, "limits")
      BY <1>2, <3>2, GotoKnows DEF FindReusable, At, CreatePcs
    <3> QED BY <1>2, <3>1, <3>2 DEF FindReusable
  <2> QED BY <1>0, <1>2, <2>1, SameRows, SameJobs DEF FindReusable, PopListEmpty
<1>3. CASE CheckLimits(t)
  <2>1. ASSUME NEW u \in Threads PROVE ThreadKnows(u)'
    <3>1. CASE Finish(t)
      BY <3>1, FinishKnows
    <3>2. ASSUME NEW pc \in {"enqueue", "insert"}, NEW n,
                 th' = [th EXCEPT ![t] = [@ EXCEPT !.pc = pc, !.n = n]]
          PROVE  ThreadKnows(u)'
      <4>1. CASE u = t
        <5>1. th[t] \in ThreadRec /\ th'[t] = [th[t] EXCEPT !.pc = pc, !.n = n]
          BY <1>0, <3>2 DEF TypeOK
        <5>2. th'[t].pc = pc /\ th'[t].op = th[t].op /\ th'[t].s = th[t].s
          BY <5>1 DEF ThreadRec
        <5>3. th[t].op # "idle" /\ th[t].s \in Students
          BY <1>0, <1>3 DEF CheckLimits, At, ThreadKnows
        <5> QED BY <4>1, <5>2, <5>3 DEF ThreadKnows, CreatePcs
      <4>2. CASE u # t
        BY <3>2, <4>2 DEF Base, TypeOK, ThreadKnows
      <4> QED BY <4>1, <4>2
    <3>3. \/ Finish(t)
          \/ \E pc \in {"enqueue", "insert"}, n \in {MaxAttemptNo(th[t].s) + 1} :
                th' = [th EXCEPT ![t] = [@ EXCEPT !.pc = pc, !.n = n]]
      BY <1>3 DEF CheckLimits
    <3> QED BY <3>1, <3>2, <3>3
  <2> QED BY <1>0, <1>3, <2>1, SameRows, SameJobs DEF CheckLimits, PopListEmpty
<1>4. ASSUME NEW restore \in BOOLEAN, InsertCreating(t, restore) PROVE Rest
  <2>1. rows + 1 \in Insts
    BY <1>0, <1>4, BoundsAssumption DEF InsertCreating, InsertRow, TypeOK, Insts
  <2>2. th[t].s \in Students
    BY <1>0, <1>4 DEF InsertCreating, At, ThreadKnows
  <2>3. RowsOwned' /\ AttemptsHaveMax'
    BY <1>4, <2>2, InsertKeepsRows DEF InsertCreating
  <2>4. FreshJobs'
    BY <1>4, <2>1, SpawnFresh DEF InsertCreating
  <2>5. \A u \in Threads : ThreadKnows(u)'
    BY <1>4, FinishKnows DEF InsertCreating, InsertRow
  <2> QED BY <1>0, <1>4, <2>3, <2>4, <2>5 DEF InsertCreating, PopListEmpty
<1>5. CASE InsertQueued(t)
  <2>1. th[t].s \in Students
    BY <1>0, <1>5 DEF InsertQueued, At, ThreadKnows
  <2>2. RowsOwned' /\ AttemptsHaveMax'
    BY <1>5, <2>1, InsertKeepsRows DEF InsertQueued
  <2>3. PopListEmpty'
    BY <1>0, <1>5 DEF InsertQueued, PopListEmpty, TypeOK, PushKey, PopKey
  <2>4. \A u \in Threads : ThreadKnows(u)'
    BY <1>5, FinishKnows DEF InsertQueued, InsertRow
  <2>5. FreshJobs'
    BY <1>5, SameJobs DEF InsertQueued
  <2> QED BY <2>2, <2>3, <2>4, <2>5
<1> QED BY <1>1, <1>2, <1>3, <1>4, <1>5

(* What a step of a provisioning goroutine does to the job table: it moves *)
(* the goroutine on, or ends it.                                           *)
LEMMA JobStepMoves ==
    ASSUME Base, NEW j \in Jobs, JobStep(j)
    PROVE  /\ UNCHANGED <<rowKey, results, snap, queue, th, jobs, crashes>>
           /\ job[j].pc # "done"
           /\ \/ job' = [job EXCEPT ![j] = NoJob]
                   /\ status' = [status EXCEPT ![job[j].i] =
                                    IF job[j].ok THEN "running" ELSE "error"]
              \/ /\ UNCHANGED status
                 /\ \A k \in Jobs : job'[k].i = job[k].i /\ (LiveJob(k) => LiveJob(k)')
                 /\ \A k \in Jobs : k # j => job'[k] = job[k]
<1> DEFINE Moved == /\ \A k \in Jobs : job'[k].i = job[k].i /\ (LiveJob(k) => LiveJob(k)')
                    /\ \A k \in Jobs : k # j => job'[k] = job[k]
<1>0. job[j] \in JobRec /\ job \in [Jobs -> JobRec]
  BY DEF Base, TypeOK
<1>1. ASSUME NEW pc \in {"create", "deploy", "settle"}, JobMoves(j, pc) PROVE Moved
  <2>1. /\ job'[j] = [job[j] EXCEPT !.pc = pc]
        /\ \A k \in Jobs : k # j => job'[k] = job[k]
    BY <1>0, <1>1 DEF JobMoves
  <2>2. job'[j].i = job[j].i /\ job'[j].pc = pc
    BY <1>0, <2>1 DEF JobRec
  <2> QED BY <2>1, <2>2 DEF LiveJob
<1>2. ASSUME JobFails(j) PROVE Moved
  <2>1. /\ job'[j] = [job[j] EXCEPT !.pc = "settle", !.ok = FALSE]
        /\ \A k \in Jobs : k # j => job'[k] = job[k]
    BY <1>0, <1>2 DEF JobFails
  <2>2. job'[j].i = job[j].i /\ job'[j].pc = "settle"
    BY <1>0, <2>1 DEF JobRec
  <2> QED BY <2>1, <2>2 DEF LiveJob
<1>3. CASE JobRefused(j) \/ JobRecord(j) \/ JobCreateNs(j) \/ JobDeploy(j)
  <2>1. UNCHANGED <<rowKey, status, results, snap, queue, th, jobs, crashes>>
          /\ job[j].pc # "done"
    BY <1>3 DEF JobRefused, JobRecord, JobCreateNs, JobDeploy
  <2>2. Moved
    BY <1>1, <1>2, <1>3 DEF JobRefused, JobRecord, JobCreateNs, JobDeploy
  <2> QED BY <2>1, <2>2
<1>4. CASE JobSettle(j)
  BY <1>4, ActivateNone DEF JobSettle, Base
<1> QED BY <1>3, <1>4 DEF JobStep

LEMMA JobStepsBase ==
    ASSUME Base, NEW j \in Jobs, JobStep(j)
    PROVE  Base'
<1>1. TypeOK'
  BY JobStepsType
<1>2. UNCHANGED <<rowKey, queue, th, jobs>>
  BY JobStepMoves
<1>3. RowsOwned' /\ AttemptsHaveMax' /\ PopListEmpty'
  BY <1>2, SameRows DEF Base, PopListEmpty
<1>4. \A u \in Threads : ThreadKnows(u)'
  BY <1>2 DEF Base, ThreadKnows
<1>5. FreshJobs'
  <2>1. ASSUME NEW k \in Jobs, k > jobs PROVE job'[k].pc = "done"
    <3>1. job[k].pc = "done" /\ k # j
      BY <2>1, JobStepMoves DEF Base, FreshJobs
    <3>2. job'[k] = job[k]
      BY <3>1, JobStepMoves DEF Base, TypeOK
    <3> QED BY <3>1, <3>2
  <2> QED BY <1>2, <2>1 DEF FreshJobs
<1> QED BY <1>1, <1>3, <1>4, <1>5 DEF Base

LEMMA StartsBase ==
    ASSUME Base, NEW t \in Threads, NEW i \in Insts,
           \/ StartDestroy(t, i) \/ StartRestart(t, i)
           \/ StartPause(t, i) \/ StartResume(t, i)
           \/ StartRestore(t, i) \/ StartSubmit(t, i)
           \/ StartReclaim(t, i) \/ StartHealth(t, i)
    PROVE  Base'
<1>1. TypeOK'
  BY StartsType
<1>2. UNCHANGED <<rowKey, queue, work>> /\ i \in Rows
  BY DEF StartDestroy, StartRestart, StartPause, StartResume, StartRestore,
         StartSubmit, StartReclaim, StartHealth
<1>3. \E op, pc : /\ Begin(t, op, pc, i)
                  /\ op # "idle" /\ pc # "idle"
                  /\ pc \in {"delete", "mark"} => op \in ReclaimOps \cup {"destroy", "restart", "heal"}
                  /\ pc \in {"archive", "settle", "final"} => op \in ReclaimOps
                  /\ pc = "inspect" => op = "heal"
  BY DEF StartDestroy, StartRestart, StartPause, StartResume, StartRestore,
         StartSubmit, StartReclaim, StartHealth, ReclaimOps
<1>4. \A u \in Threads : ThreadKnows(u)'
  BY <1>2, <1>3, BeginKnows
<1> QED BY <1>1, <1>2, <1>4, SameRows, SameJobs DEF Base, PopListEmpty

(* The steps of an operation after its start, and what they do to the      *)
(* tables every one of them shares.                                        *)
LaterStep(t) ==
    \/ DeleteNs(t) \/ DeleteNsFails(t) \/ MarkDestroyed(t)
    \/ PauseSnapshot(t) \/ PauseStop(t) \/ PauseCommit(t) \/ ResumeCommit(t)
    \/ RestoreDrop(t) \/ RestoreReset(t) \/ SubmitCommit(t)
    \/ SettleTimeout(t) \/ ReclaimSnapshot(t) \/ ReclaimFinal(t)
    \/ HealthOk(t) \/ HealthFailed(t) \/ HealRebuild(t)

LEMMA LaterStepJobs ==
    ASSUME Base, NEW t \in Threads, LaterStep(t)
    PROVE  /\ UNCHANGED <<rowKey, queue, crashes>>
           /\ \/ UNCHANGED work
              \/ \E restore, rel \in BOOLEAN : Spawn(th[t].i, restore, th[t].ns, rel)
           /\ th[t].pc # "idle"
<1>1. ASSUME NEW st, Activate(st, job) PROVE UNCHANGED <<queue, work>>
  BY <1>1, ActivateNone DEF Base, work
<1>2. CASE MarkDestroyed(t) \/ PauseCommit(t)
  BY <1>1, <1>2 DEF MarkDestroyed, PauseCommit, At
<1>3. CASE ResumeCommit(t) \/ RestoreReset(t) \/ HealRebuild(t)
  <2>1. (th[t].op = "reopen") \in BOOLEAN
    OBVIOUS
  <2> QED BY <1>3, <2>1 DEF ResumeCommit, RestoreReset, HealRebuild, At
<1>4. CASE \/ DeleteNs(t) \/ DeleteNsFails(t) \/ PauseSnapshot(t) \/ PauseStop(t)
           \/ RestoreDrop(t) \/ SubmitCommit(t) \/ SettleTimeout(t)
           \/ ReclaimSnapshot(t) \/ ReclaimFinal(t)
           \/ HealthOk(t) \/ HealthFailed(t)
  BY <1>4 DEF DeleteNs, DeleteNsFails, PauseSnapshot, PauseStop, RestoreDrop, SubmitCommit,
              SettleTimeout, ReclaimSnapshot, ReclaimFinal, HealthOk, HealthFailed, At
<1> QED BY <1>2, <1>3, <1>4 DEF LaterStep

LEMMA LaterStepKnows ==
    ASSUME Base, NEW t \in Threads, LaterStep(t), NEW u \in Threads
    PROVE  ThreadKnows(u)'
<1> DEFINE Allowed(pc) ==
      /\ pc \notin {"idle", "inspect"}
      /\ pc \in CreatePcs \/ th[t].pc \notin CreatePcs
      /\ pc \in {"delete", "mark"} => th[t].op \in ReclaimOps \cup {"destroy", "restart", "heal"}
      /\ pc \in {"archive", "settle", "final"} => th[t].op \in ReclaimOps
<1>0. ThreadKnows(t)
  BY DEF Base
<1>1. CASE DeleteNs(t) \/ DeleteNsFails(t) \/ MarkDestroyed(t)
  <2>1. th[t].pc \in {"delete", "mark"}
    BY <1>1 DEF DeleteNs, DeleteNsFails, MarkDestroyed, At
  <2>2. Allowed("find") /\ Allowed("mark") /\ Allowed("reinit")
    BY <1>0, <2>1 DEF ThreadKnows, CreatePcs
  <2>3. th[t].op \notin {"destroy", "restart", "heal"} => Allowed("final")
    BY <1>0, <2>1 DEF ThreadKnows, CreatePcs
  <2>4. Finish(t) \/ \E pc : Goto(t, pc) /\ Allowed(pc)
    <3>1. CASE DeleteNs(t) \/ DeleteNsFails(t)
      BY <2>2, <3>1 DEF DeleteNs, DeleteNsFails
    <3>2. CASE MarkDestroyed(t)
      <4>1. \/ Finish(t) \/ Goto(t, "find") \/ Goto(t, "reinit")
            \/ Goto(t, "final") /\ th[t].op \notin {"destroy", "restart", "heal"}
        BY <3>2 DEF MarkDestroyed
      <4> QED BY <2>2, <2>3, <4>1
    <3> QED BY <1>1, <3>1, <3>2
  <2> QED BY <2>4, LaterStepJobs, FinishKnows, GotoKnows
<1>2. CASE SettleTimeout(t) \/ ReclaimSnapshot(t) \/ ReclaimFinal(t)
           \/ HealthOk(t) \/ HealthFailed(t) \/ HealRebuild(t)
  <2>1. th[t].pc \in {"settle", "archive"} => Allowed("archive") /\ Allowed("delete")
    BY <1>0 DEF ThreadKnows, CreatePcs
  <2>2. th[t].pc = "inspect" => Allowed("delete")
    BY <1>0 DEF ThreadKnows, CreatePcs
  <2>3. Finish(t) \/ \E pc : Goto(t, pc) /\ Allowed(pc)
    <3>1. CASE SettleTimeout(t) \/ ReclaimSnapshot(t)
      BY <2>1, <3>1 DEF SettleTimeout, ReclaimSnapshot, At
    <3>2. CASE HealthFailed(t)
      BY <2>2, <3>2 DEF HealthFailed, At
    <3>3. CASE ReclaimFinal(t) \/ HealthOk(t) \/ HealRebuild(t)
      BY <3>3 DEF ReclaimFinal, HealthOk, HealRebuild
    <3> QED BY <1>2, <3>1, <3>2, <3>3
  <2> QED BY <2>3, LaterStepJobs, FinishKnows, GotoKnows
<1>3. CASE PauseSnapshot(t) \/ PauseStop(t) \/ PauseCommit(t) \/ ResumeCommit(t)
           \/ RestoreDrop(t) \/ RestoreReset(t) \/ SubmitCommit(t)
  <2>0. th[t].pc \notin CreatePcs =>
          Allowed("stop") /\ Allowed("paused") /\ Allowed("reset")
    BY DEF CreatePcs
  <2>1. Finish(t) \/ \E pc : Goto(t, pc) /\ Allowed(pc)
    BY <2>0, <1>3 DEF PauseSnapshot, PauseStop, PauseCommit, ResumeCommit, RestoreDrop,
                      RestoreReset, SubmitCommit, At, CreatePcs
  <2> QED BY <2>1, LaterStepJobs, FinishKnows, GotoKnows
<1> QED BY <1>1, <1>2, <1>3 DEF LaterStep

LEMMA LaterStepsBase ==
    ASSUME Base, NEW t \in Threads, LaterStep(t)
    PROVE  Base'
<1>1. TypeOK'
  BY ThreadStepsType DEF LaterStep
<1>2. FreshJobs'
  <2>1. CASE UNCHANGED work
    BY <2>1, SameJobs
  <2>2. ASSUME NEW restore \in BOOLEAN, NEW rel \in BOOLEAN,
               Spawn(th[t].i, restore, th[t].ns, rel)
        PROVE  FreshJobs'
    <3>1. th[t].ns \in BOOLEAN
      BY DEF Base, TypeOK, ThreadRec
    <3>2. /\ jobs \in Nat /\ jobs' = jobs + 1
          /\ job' = [job EXCEPT ![jobs + 1] = NewJob(th[t].i, restore, th[t].ns, rel)]
      BY <2>2 DEF Base, TypeOK, Spawn
    <3> QED BY <3>1, <3>2 DEF Base, TypeOK, FreshJobs, Jobs
  <2> QED BY <2>1, <2>2, LaterStepJobs
<1>3. UNCHANGED <<rowKey, queue>>
  BY LaterStepJobs
<1> QED BY <1>1, <1>2, <1>3, LaterStepKnows, SameRows DEF Base, PopListEmpty

LEMMA EnvStepsBase ==
    ASSUME Base,
           \/ \E i \in Insts : ManualGrade(i) \/ TakeSnapshot(i) \/ DropSnapshots(i) \/ Reap(i)
           \/ Crash
    PROVE  Base'
<1>1. TypeOK'
  BY EnvStepsType
<1>2. UNCHANGED <<rowKey, queue>>
  BY DEF ManualGrade, TakeSnapshot, DropSnapshots, Reap, Crash
<1>3. FreshJobs' /\ \A u \in Threads : ThreadKnows(u)'
  <2>1. CASE Crash
    BY <2>1 DEF Crash, FreshJobs, NoJob, ThreadKnows, IdleThread, CreatePcs
  <2>2. CASE UNCHANGED <<th, work>>
    BY <2>2, SameJobs DEF Base, ThreadKnows
  <2> QED BY <2>1, <2>2 DEF ManualGrade, TakeSnapshot, DropSnapshots, Reap
<1> QED BY <1>1, <1>2, <1>3, SameRows DEF Base, PopListEmpty

LEMMA NextBase == Base /\ [Next]_vars => Base'
<1> SUFFICES ASSUME Base, [Next]_vars PROVE Base'
  OBVIOUS
<1>1. ASSUME NEW t \in Threads, Request(t) PROVE Base'
  BY <1>1, CreateStepsBase, StartsBase DEF Request
<1>2. ASSUME NEW t \in Threads, ThreadStep(t) PROVE Base'
  BY <1>2, CreateStepsBase, LaterStepsBase DEF ThreadStep, LaterStep
<1>3. ASSUME NEW j \in Jobs, JobStep(j) PROVE Base'
  BY <1>3, JobStepsBase
<1>4. CASE Crash \/ \E i \in Insts : ManualGrade(i) \/ TakeSnapshot(i)
                                     \/ DropSnapshots(i) \/ Reap(i)
  BY <1>4, EnvStepsBase
<1>5. CASE UNCHANGED vars
  <2> USE <1>5 DEF vars
  <2>1. TypeOK'
    BY DEF Base, TypeOK
  <2>2. FreshJobs' /\ PopListEmpty' /\ RowsOwned' /\ AttemptsHaveMax'
    BY SameRows, SameJobs DEF Base, PopListEmpty, rowKey, work
  <2>3. \A u \in Threads : ThreadKnows(u)'
    BY DEF Base, ThreadKnows
  <2> QED BY <2>1, <2>2, <2>3 DEF Base
<1> QED BY <1>1, <1>2, <1>3, <1>4, <1>5 DEF Next

LEMMA AlwaysBase == Spec => []Base
BY InitBase, NextBase, PTL DEF Spec

(* Every variable keeps its type, however many threads, rows and crashes.  *)
THEOREM TypeCorrect == Spec => []TypeOK
<1>1. Base => TypeOK
  BY DEF Base
<1> QED BY <1>1, AlwaysBase, PTL

-----------------------------------------------------------------------------
(* Completed and released rows.  The invariant says what each running      *)
(* operation has already secured for the row it is about to write: a row   *)
(* is graded, or its environment saved, before the thread reaches the      *)
(* write that needs it, and no other thread can take a grade or the fact   *)
(* of a saved snapshot away meanwhile.                                     *)

Graded(i) == scored[i] /\ (HasManual \/ total[i])
Saved(i) == snap[i] # "never"

Promise(t) ==
    th[t].i \in Insts =>
        /\ th[t].op = "retain" => Graded(th[t].i)
        /\ th[t].pc \in {"stop", "paused"} => Saved(th[t].i)
        /\ th[t].op \in ReclaimOps /\ th[t].pc \in {"delete", "mark", "final"}
              => Saved(th[t].i)

Inv == /\ Base
       /\ \A t \in Threads : Promise(t)
       /\ CompletedIsScored
       /\ SnapshotBeforeRelease

(* A step never takes back a grade, nor the fact of a snapshot ...         *)
Keeps == \A i \in Insts : (Graded(i) => Graded(i)') /\ (Saved(i) => Saved(i)')

(* ... and completes or releases a row only when that is covered.          *)
Covered ==
    \A i \in Insts :
        /\ status'[i] = "completed" => status[i] = "completed" \/ Graded(i)'
        /\ status'[i] \in {"paused", "expired"} =>
              status[i] \in {"paused", "expired"} \/ Saved(i)'

LEMMA CoveredKeeps ==
    ASSUME Inv, Keeps, Covered
    PROVE  CompletedIsScored' /\ SnapshotBeforeRelease'
BY DEF Inv, Keeps, Covered, CompletedIsScored, SnapshotBeforeRelease, Graded, Saved

(* A promise carries over a step that leaves the thread alone.             *)
LEMMA PromiseSame ==
    ASSUME Keeps, NEW u \in Threads, Promise(u), th'[u] = th[u]
    PROVE  Promise(u)'
BY DEF Keeps, Promise, Graded, Saved

LEMMA PromiseFinish ==
    ASSUME Inv, Keeps, NEW t \in Threads, Finish(t), NEW u \in Threads
    PROVE  Promise(u)'
<1>1. CASE u = t
  BY <1>1 DEF Inv, Base, TypeOK, Finish, Promise, IdleThread, ReclaimOps, Insts
<1>2. CASE u # t
  BY <1>2, PromiseSame DEF Inv, Base, TypeOK, Finish
<1> QED BY <1>1, <1>2

LEMMA PromiseGoto ==
    ASSUME Inv, Keeps, NEW t \in Threads, NEW pc, Goto(t, pc), NEW u \in Threads,
           \A i \in Insts : i = th[t].i =>
               /\ pc \in {"stop", "paused"} => Saved(i)'
               /\ th[t].op \in ReclaimOps /\ pc \in {"delete", "mark", "final"}
                     => Saved(i)'
    PROVE  Promise(u)'
<1>1. CASE u = t
  <2>1. th'[t] = [th[t] EXCEPT !.pc = pc]
    BY DEF Inv, Base, TypeOK, Goto
  <2>2. th[t] \in ThreadRec
    BY DEF Inv, Base, TypeOK
  <2>3. /\ th'[t].pc = pc /\ th'[t].op = th[t].op /\ th'[t].i = th[t].i
    BY <2>1, <2>2 DEF ThreadRec
  <2>4. Promise(t)
    BY DEF Inv
  <2> QED BY <1>1, <2>3, <2>4 DEF Keeps, Promise, Graded, Saved
<1>2. CASE u # t
  BY <1>2, PromiseSame DEF Inv, Base, TypeOK, Goto
<1> QED BY <1>1, <1>2

LEMMA PromiseBegin ==
    ASSUME Inv, Keeps, NEW t \in Threads, NEW op, NEW pc, NEW i \in Insts,
           Begin(t, op, pc, i), NEW u \in Threads,
           op = "retain" => Graded(i),
           pc \notin {"stop", "paused", "mark", "final"},
           pc = "delete" => op \notin ReclaimOps
    PROVE  Promise(u)'
<1>1. CASE u = t
  <2>1. th'[t].pc = pc /\ th'[t].op = op /\ th'[t].i = i
    BY DEF Inv, Base, TypeOK, Begin
  <2> QED BY <1>1, <2>1 DEF Keeps, Promise, Graded, Saved
<1>2. CASE u # t
  BY <1>2, PromiseSame DEF Inv, Base, TypeOK, Begin
<1> QED BY <1>1, <1>2

-----------------------------------------------------------------------------
(* The steps, in the groups of ExpInstanceProofs.                          *)

LEMMA StartsSafe ==
    ASSUME Inv, NEW t \in Threads, NEW i \in Insts,
           \/ StartDestroy(t, i) \/ StartRestart(t, i)
           \/ StartPause(t, i) \/ StartResume(t, i)
           \/ StartRestore(t, i) \/ StartSubmit(t, i)
           \/ StartReclaim(t, i) \/ StartHealth(t, i)
    PROVE  Keeps /\ Covered /\ \A u \in Threads : Promise(u)'
<1>1. UNCHANGED <<status, results, snap>>
  BY DEF StartDestroy, StartRestart, StartPause, StartResume, StartRestore,
         StartSubmit, StartReclaim, StartHealth
<1>2. Keeps /\ Covered
  BY <1>1 DEF Keeps, Covered, Graded, Saved, results
<1>3. \E op, pc : /\ Begin(t, op, pc, i)
                  /\ op = "retain" => Graded(i)
                  /\ pc \notin {"stop", "paused", "mark", "final"}
                  /\ pc = "delete" => op \notin ReclaimOps
  BY DEF Inv, CompletedIsScored, Graded, StartDestroy, StartRestart, StartPause, StartResume,
         StartRestore, StartSubmit, StartReclaim, StartHealth, ReclaimOps
<1> QED BY <1>2, <1>3, PromiseBegin

LEMMA CreateStepsSafe ==
    ASSUME Inv, NEW t \in Threads,
           \/ \E s \in Students : StartCreate(t, s)
           \/ FindReusable(t) \/ CheckLimits(t)
           \/ \E restore \in BOOLEAN : InsertCreating(t, restore)
           \/ InsertQueued(t)
    PROVE  Keeps /\ Covered /\ \A u \in Threads : Promise(u)'
<1>1. UNCHANGED <<results, snap>>
  BY DEF StartCreate, FindReusable, CheckLimits, InsertCreating, InsertQueued
<1>2. \/ UNCHANGED status
      \/ \E st \in {"creating", "queued"} : status' = [status EXCEPT ![rows + 1] = st]
  BY DEF StartCreate, FindReusable, CheckLimits, InsertCreating, InsertQueued, InsertRow
<1>3. Keeps /\ Covered
  BY <1>1, <1>2 DEF Inv, Base, TypeOK, Keeps, Covered, Graded, Saved, results
<1>4. ASSUME NEW s \in Students, StartCreate(t, s), NEW u \in Threads PROVE Promise(u)'
  <2>1. CASE u = t
    BY <1>4, <2>1 DEF Inv, Base, TypeOK, StartCreate, Promise, IdleThread, Insts
  <2>2. CASE u # t
    BY <1>3, <1>4, <2>2, PromiseSame DEF Inv, Base, TypeOK, StartCreate
  <2> QED BY <2>1, <2>2
<1>5. ASSUME FindReusable(t), NEW u \in Threads PROVE Promise(u)'
  <2>1. Finish(t) \/ Goto(t, "limits")
    BY <1>5 DEF FindReusable
  <2> QED BY <1>3, <2>1, PromiseFinish, PromiseGoto
<1>6. ASSUME CheckLimits(t), NEW u \in Threads PROVE Promise(u)'
  <2>1. CASE Finish(t)
    BY <1>3, <2>1, PromiseFinish
  <2>2. ASSUME NEW pc \in {"enqueue", "insert"}, NEW n,
               th' = [th EXCEPT ![t] = [@ EXCEPT !.pc = pc, !.n = n]]
        PROVE  Promise(u)'
    <3>1. CASE u = t
      <4>1. th[t] \in ThreadRec /\ th'[t] = [th[t] EXCEPT !.pc = pc, !.n = n]
        BY <2>2 DEF Inv, Base, TypeOK
      <4>2. th'[t].pc = pc /\ th'[t].op = th[t].op /\ th'[t].i = th[t].i
        BY <4>1 DEF ThreadRec
      <4>3. Promise(t)
        BY DEF Inv
      <4> QED BY <1>3, <3>1, <4>2, <4>3 DEF Keeps, Promise, Graded
    <3>2. CASE u # t
      BY <1>3, <2>2, <3>2, PromiseSame DEF Inv, Base, TypeOK
    <3> QED BY <3>1, <3>2
  <2>3. \/ Finish(t)
        \/ \E pc \in {"enqueue", "insert"}, n \in {MaxAttemptNo(th[t].s) + 1} :
              th' = [th EXCEPT ![t] = [@ EXCEPT !.pc = pc, !.n = n]]
    BY <1>6 DEF CheckLimits
  <2> QED BY <2>1, <2>2, <2>3
<1>7. ASSUME InsertQueued(t) \/ \E restore \in BOOLEAN : InsertCreating(t, restore),
             NEW u \in Threads
      PROVE  Promise(u)'
  BY <1>3, <1>7, PromiseFinish DEF InsertQueued, InsertCreating, InsertRow
<1> QED BY <1>3, <1>4, <1>5, <1>6, <1>7

LEMMA JobStepsSafe ==
    ASSUME Inv, NEW j \in Jobs, JobStep(j)
    PROVE  Keeps /\ Covered /\ \A u \in Threads : Promise(u)'
<1>1. UNCHANGED <<results, snap, th>>
  BY JobStepMoves DEF Inv
<1>2. \/ UNCHANGED status
      \/ \E st \in {"running", "error"} : status' = [status EXCEPT ![job[j].i] = st]
  BY JobStepMoves DEF Inv
<1>3. Keeps /\ Covered
  BY <1>1, <1>2 DEF Inv, Base, TypeOK, Keeps, Covered, Graded, Saved, results
<1> QED BY <1>1, <1>3, PromiseSame DEF Inv

(* Submit and the timeout settlement grade the row they hold.              *)
LEMMA GradingSafe ==
    ASSUME Inv, NEW t \in Threads, SubmitCommit(t) \/ SettleTimeout(t)
    PROVE  Keeps /\ Covered /\ \A u \in Threads : Promise(u)'
<1> DEFINE Grades == /\ scored' = [scored EXCEPT ![th[t].i] = TRUE]
                      /\ total' = [total EXCEPT ![th[t].i] = @ \/ ~HasManual]
<1>1. /\ Grades \/ (SettleTimeout(t) /\ UNCHANGED results)
      /\ snap' = snap
  BY DEF SubmitCommit, SettleTimeout
<1>2. ASSUME SettleTimeout(t), UNCHANGED results PROVE Keeps /\ Covered
  BY <1>1, <1>2 DEF SettleTimeout, results, Keeps, Covered, Graded, Saved
<1>3. ASSUME Grades PROVE Keeps /\ Covered
  <2>1. \A i \in Insts : i # th[t].i => scored'[i] = scored[i] /\ total'[i] = total[i]
    BY <1>3 DEF Inv, Base, TypeOK
  <2>2. ASSUME NEW i \in Insts, i = th[t].i PROVE scored'[i] /\ (HasManual \/ total'[i])
    <3>1. scored'[i] = TRUE
      BY <1>3, <2>2 DEF Inv, Base, TypeOK
    <3>2. total'[i] = (total[i] \/ ~HasManual)
      BY <1>3, <2>2 DEF Inv, Base, TypeOK
    <3> QED BY <3>1, <3>2
  <2>3. \A i \in Insts : i = th[t].i => Graded(i)'
    BY <2>2 DEF Graded
  <2>4. Keeps
    BY <1>1, <2>1, <2>3 DEF Keeps, Graded, Saved
  <2>5. \/ status' = [status EXCEPT ![th[t].i] = "completed"]
        \/ status' = status
    BY DEF SubmitCommit, SettleTimeout
  <2>6. Covered
    BY <2>3, <2>5 DEF Covered, Inv, Base, TypeOK
  <2> QED BY <2>4, <2>6
<1>5. Keeps /\ Covered
  BY <1>1, <1>2, <1>3
<1>6. Finish(t) \/ Goto(t, "archive")
  BY DEF SubmitCommit, SettleTimeout
<1> QED BY <1>5, <1>6, PromiseFinish, PromiseGoto

(* A snapshot is saved before the thread goes on to the pods.              *)
LEMMA SavingSafe ==
    ASSUME Inv, NEW t \in Threads, PauseSnapshot(t) \/ ReclaimSnapshot(t)
    PROVE  Keeps /\ Covered /\ \A u \in Threads : Promise(u)'
<1>1. UNCHANGED <<status, results>>
  BY DEF PauseSnapshot, ReclaimSnapshot
<1>2. \/ snap' = snap /\ Finish(t)
      \/ /\ snap' = [snap EXCEPT ![th[t].i] = "some"]
         /\ Goto(t, "stop") \/ Goto(t, "delete")
  BY DEF PauseSnapshot, ReclaimSnapshot
<1>3. Keeps /\ Covered
  BY <1>1, <1>2 DEF Inv, Base, TypeOK, Keeps, Covered, Graded, Saved, results
<1>4. CASE snap' = snap /\ Finish(t)
  BY <1>3, <1>4, PromiseFinish
<1>5. CASE /\ snap' = [snap EXCEPT ![th[t].i] = "some"]
           /\ Goto(t, "stop") \/ Goto(t, "delete")
  <2>1. \A i \in Insts : i = th[t].i => Saved(i)'
    BY <1>5 DEF Inv, Base, TypeOK, Saved
  <2> QED BY <1>3, <1>5, <2>1, PromiseGoto
<1> QED BY <1>2, <1>3, <1>4, <1>5

(* The writes that complete, pause or expire a row rely on the promise.    *)
LEMMA ReleasingSafe ==
    ASSUME Inv, NEW t \in Threads, PauseCommit(t) \/ ReclaimFinal(t)
    PROVE  Keeps /\ Covered /\ \A u \in Threads : Promise(u)'
<1>1. UNCHANGED <<results, snap>> /\ Finish(t)
  BY DEF PauseCommit, ReclaimFinal
<1>2. Keeps
  BY <1>1 DEF Keeps, Graded, Saved, results
<1>3. Covered
  <2>1. Promise(t) /\ ThreadKnows(t)
    BY DEF Inv, Base
  <2>2. CASE PauseCommit(t)
    <3>1. status' = [status EXCEPT ![th[t].i] = "paused"] /\ th[t].pc = "paused"
      BY <2>2, ActivateNone DEF PauseCommit, At, Inv, Base
    <3>2. th[t].i \in Insts => Saved(th[t].i)
      BY <2>1, <3>1 DEF Promise
    <3> QED BY <1>1, <3>1, <3>2 DEF Covered, Saved, Inv, Base, TypeOK
  <2>3. CASE ReclaimFinal(t)
    <3>1. /\ status' = [status EXCEPT ![th[t].i] =
                            IF th[t].op = "retain" THEN "completed" ELSE "expired"]
          /\ th[t].pc = "final"
      BY <2>3 DEF ReclaimFinal, At
    <3>2. th[t].i \in Insts => /\ Saved(th[t].i)
                               /\ th[t].op = "retain" => Graded(th[t].i)
      BY <2>1, <3>1 DEF Promise, ThreadKnows
    <3> QED BY <1>1, <3>1, <3>2 DEF Covered, Saved, Graded, results, Inv, Base, TypeOK
  <2> QED BY <2>2, <2>3
<1> QED BY <1>1, <1>2, <1>3, PromiseFinish

(* The remaining steps neither grade nor save nor release.                 *)
LEMMA OtherStepsSafe ==
    ASSUME Inv, NEW t \in Threads,
           \/ DeleteNs(t) \/ DeleteNsFails(t) \/ MarkDestroyed(t)
           \/ PauseStop(t) \/ ResumeCommit(t) \/ RestoreDrop(t) \/ RestoreReset(t)
           \/ HealthOk(t) \/ HealthFailed(t) \/ HealRebuild(t)
    PROVE  Keeps /\ Covered /\ \A u \in Threads : Promise(u)'
<1>1. UNCHANGED <<results, snap>>
  BY DEF DeleteNs, DeleteNsFails, MarkDestroyed, PauseStop, ResumeCommit, RestoreDrop,
         RestoreReset, HealthOk, HealthFailed, HealRebuild
<1>2. Keeps
  BY <1>1 DEF Keeps, Graded, Saved, results
<1>3. \/ UNCHANGED status
      \/ \E st \in {"destroyed", "initializing", "error"} :
            status' = [status EXCEPT ![th[t].i] = st]
  <2>1. CASE MarkDestroyed(t)
    BY <2>1, ActivateNone DEF MarkDestroyed, Inv, Base
  <2> QED BY <2>1 DEF DeleteNs, DeleteNsFails, PauseStop, ResumeCommit, RestoreDrop,
                      RestoreReset, HealthOk, HealthFailed, HealRebuild
<1>4. Covered
  BY <1>3 DEF Covered, Inv, Base, TypeOK
<1>5. Promise(t) /\ ThreadKnows(t)
  BY DEF Inv, Base
<1>6. \/ Finish(t) \/ Goto(t, "find") \/ Goto(t, "reinit") \/ Goto(t, "reset")
      \/ Goto(t, "paused") /\ th[t].pc = "stop"
      \/ Goto(t, "mark") /\ th[t].pc = "delete"
      \/ Goto(t, "final") /\ th[t].pc = "mark"
      \/ Goto(t, "delete") /\ th[t].pc = "inspect"
  BY DEF DeleteNs, DeleteNsFails, MarkDestroyed, PauseStop, ResumeCommit, RestoreDrop,
         RestoreReset, HealthOk, HealthFailed, HealRebuild, At
<1>7. th[t].pc = "inspect" => th[t].op \notin ReclaimOps
  BY <1>5 DEF ThreadKnows, ReclaimOps
<1>8. \A i \in Insts : i = th[t].i =>
          /\ th[t].pc = "stop" => Saved(i)'
          /\ th[t].op \in ReclaimOps /\ th[t].pc \in {"delete", "mark"} => Saved(i)'
  BY <1>1, <1>5 DEF Promise, Saved
<1> QED BY <1>2, <1>4, <1>6, <1>7, <1>8, PromiseFinish, PromiseGoto

LEMMA EnvStepsSafe ==
    ASSUME Inv,
           \/ \E i \in Insts : ManualGrade(i) \/ TakeSnapshot(i) \/ DropSnapshots(i) \/ Reap(i)
           \/ Crash
    PROVE  Keeps /\ Covered /\ \A u \in Threads : Promise(u)'
<1>1. /\ UNCHANGED <<status, scored>>
      /\ total' = total \/ \E i \in Insts : total' = [total EXCEPT ![i] = TRUE]
      /\ \/ snap' = snap
         \/ \E i \in Insts, x \in {"some", "gone"} : snap' = [snap EXCEPT ![i] = x]
  BY DEF ManualGrade, TakeSnapshot, DropSnapshots, Reap, Crash, results
<1>2. Keeps /\ Covered
  <2>1. \A i \in Insts : total[i] => total'[i]
    BY <1>1 DEF Inv, Base, TypeOK
  <2>2. \A i \in Insts : Saved(i) => Saved(i)'
    BY <1>1 DEF Inv, Base, TypeOK, Saved
  <2> QED BY <1>1, <2>1, <2>2 DEF Keeps, Covered, Graded
<1>3. CASE th' = th
  BY <1>2, <1>3, PromiseSame DEF Inv
<1>4. CASE Crash
  BY <1>2, <1>4 DEF Crash, Promise, IdleThread, Insts, ReclaimOps
<1> QED BY <1>2, <1>3, <1>4 DEF ManualGrade, TakeSnapshot, DropSnapshots, Reap

LEMMA InitInv == Init => Inv
<1> SUFFICES ASSUME Init PROVE Inv
  OBVIOUS
<1>1. Base
  BY InitBase
<1>2. CompletedIsScored /\ SnapshotBeforeRelease
  BY DEF Init, CompletedIsScored, SnapshotBeforeRelease
<1>3. \A t \in Threads : Promise(t)
  BY DEF Init, Promise, IdleThread, Insts
<1> QED BY <1>1, <1>2, <1>3 DEF Inv

LEMMA NextInv == Inv /\ [Next]_vars => Inv'
<1> SUFFICES ASSUME Inv, [Next]_vars PROVE Inv'
  OBVIOUS
<1>0. Base'
  BY NextBase DEF Inv
<1> SUFFICES Keeps /\ Covered /\ \A u \in Threads : Promise(u)'
  BY <1>0, CoveredKeeps DEF Inv
<1> DEFINE Goal == Keeps /\ Covered /\ \A u \in Threads : Promise(u)'
<1>1. ASSUME NEW t \in Threads, Request(t) PROVE Goal
  BY <1>1, CreateStepsSafe, StartsSafe DEF Request
<1>2. ASSUME NEW t \in Threads, ThreadStep(t) PROVE Goal
  BY <1>2, CreateStepsSafe, GradingSafe, SavingSafe, ReleasingSafe, OtherStepsSafe
     DEF ThreadStep
<1>3. ASSUME NEW j \in Jobs, JobStep(j) PROVE Goal
  BY <1>3, JobStepsSafe
<1>4. CASE Crash \/ \E i \in Insts : ManualGrade(i) \/ TakeSnapshot(i)
                                     \/ DropSnapshots(i) \/ Reap(i)
  BY <1>4, EnvStepsSafe
<1>5. CASE UNCHANGED vars
  <2>1. Keeps /\ Covered
    BY <1>5 DEF vars, Keeps, Covered, Graded, Saved
  <2> QED BY <1>5, <2>1, PromiseSame DEF vars, Inv
<1> QED BY <1>1, <1>2, <1>3, <1>4, <1>5 DEF Next

(* A completed row carries its result, whatever Submit, the timeout        *)
(* settlement and the retention reclaim do to it at the same time.         *)
THEOREM CompletedRowsAreScored == Spec => []CompletedIsScored
<1>1. Inv => CompletedIsScored
  BY DEF Inv
<1> QED BY <1>1, InitInv, NextInv, PTL DEF Spec

(* A row is paused or expired only after a snapshot of it was saved.       *)
THEOREM ReleasesAreSaved == Spec => []SnapshotBeforeRelease
<1>1. Inv => SnapshotBeforeRelease
  BY DEF Inv
<1> QED BY <1>1, InitInv, NextInv, PTL DEF Spec

-----------------------------------------------------------------------------
(* StartingHasWorker is inductive on top of Base.                          *)

LEMMA SpawnWorks ==
    ASSUME Base, NEW i \in Insts, NEW restore \in BOOLEAN, NEW ns1 \in BOOLEAN,
           NEW rel \in BOOLEAN, Spawn(i, restore, ns1, rel)
    PROVE  /\ \E j \in Jobs : LiveJob(j)' /\ job'[j].i = i
           /\ \A k \in Jobs : LiveJob(k) => LiveJob(k)' /\ job'[k].i = job[k].i
<1>1. /\ jobs + 1 \in Jobs /\ jobs \in Nat
      /\ job' = [job EXCEPT ![jobs + 1] = NewJob(i, restore, ns1, rel)]
  BY BoundsAssumption DEF Base, Spawn, TypeOK, Jobs
<1>2. ~LiveJob(jobs + 1)
  BY <1>1 DEF Base, FreshJobs, LiveJob
<1>3. job'[jobs + 1].i = i /\ job'[jobs + 1].pc = "record"
  BY <1>1 DEF Base, TypeOK, NewJob
<1>4. \A k \in Jobs : k # jobs + 1 => job'[k] = job[k]
  BY <1>1 DEF Base, TypeOK
<1> QED BY <1>1, <1>2, <1>3, <1>4 DEF LiveJob

Starting == {"creating", "initializing"}

(* A step that makes no row start and ends no goroutine.                   *)
LEMMA WorkersStay ==
    ASSUME Base, StartingHasWorker,
           crashes' = crashes,
           \A i \in Insts : status'[i] \in Starting =>
               \/ status[i] \in Starting
               \/ \E j \in Jobs : LiveJob(j)' /\ job'[j].i = i,
           \A k \in Jobs : LiveJob(k) => LiveJob(k)' /\ job'[k].i = job[k].i
    PROVE  StartingHasWorker'
BY DEF StartingHasWorker, Starting

LEMMA NextWorker == Base /\ StartingHasWorker /\ [Next]_vars => StartingHasWorker'
<1> SUFFICES ASSUME Base, StartingHasWorker, [Next]_vars PROVE StartingHasWorker'
  OBVIOUS
<1> USE DEF Base
<1>1. ASSUME UNCHANGED <<work, crashes>>,
             \A i \in Insts : status'[i] \in Starting => status[i] \in Starting
      PROVE  StartingHasWorker'
  BY <1>1, WorkersStay DEF work, LiveJob
<1>2. ASSUME UNCHANGED <<work, crashes, status>> PROVE StartingHasWorker'
  BY <1>1, <1>2
<1>3. ASSUME NEW t \in Threads, Request(t) PROVE StartingHasWorker'
  BY <1>2, <1>3 DEF Request, StartCreate, StartDestroy, StartRestart, StartPause, StartResume,
                    StartRestore, StartSubmit, StartReclaim, StartHealth
<1>4. ASSUME NEW t \in Threads, FindReusable(t) \/ CheckLimits(t) PROVE StartingHasWorker'
  BY <1>2, <1>4 DEF FindReusable, CheckLimits
<1>5. ASSUME NEW t \in Threads, InsertQueued(t) PROVE StartingHasWorker'
  <2>1. status' = [status EXCEPT ![rows + 1] = "queued"] /\ UNCHANGED <<work, crashes>>
    BY <1>5 DEF InsertQueued, InsertRow
  <2> QED BY <1>1, <2>1 DEF TypeOK, Starting
<1>6. ASSUME NEW t \in Threads, NEW restore \in BOOLEAN, InsertCreating(t, restore)
      PROVE  StartingHasWorker'
  <2>1. rows + 1 \in Insts
    BY <1>6, BoundsAssumption DEF InsertCreating, InsertRow, TypeOK, Insts
  <2>2. /\ status' = [status EXCEPT ![rows + 1] = "creating"] /\ crashes' = crashes
        /\ Spawn(rows + 1, restore, FALSE, TRUE)
    BY <1>6 DEF InsertCreating, InsertRow
  <2>3. \A i \in Insts : i # rows + 1 => status'[i] = status[i]
    BY <2>2 DEF TypeOK
  <2> HIDE DEF Base
  <2> QED BY <2>1, <2>2, <2>3, SpawnWorks, WorkersStay
<1>7. ASSUME NEW t \in Threads, LaterStep(t) PROVE StartingHasWorker'
  <2>1. crashes' = crashes
    BY <1>7, LaterStepJobs
  <2>2. CASE ResumeCommit(t) \/ HealRebuild(t) \/ RestoreReset(t)
    <3>1. th[t].i \in Insts /\ th[t].ns \in BOOLEAN
      BY <2>2 DEF TypeOK, ThreadRec, ThreadKnows, CreatePcs, ResumeCommit, HealRebuild,
                  RestoreReset, At
    <3>2. status' = [status EXCEPT ![th[t].i] = "initializing"]
      BY <2>2 DEF ResumeCommit, HealRebuild, RestoreReset
    <3>3. \A i \in Insts : i # th[t].i => status'[i] = status[i]
      BY <3>2 DEF TypeOK
    <3>4. ReadFaults \/ \E restore, rel \in BOOLEAN : Spawn(th[t].i, restore, th[t].ns, rel)
      <4>1. (th[t].op = "reopen") \in BOOLEAN
        OBVIOUS
      <4> QED BY <2>2, <4>1 DEF ResumeCommit, HealRebuild, RestoreReset
    <3>5. CASE ReadFaults
      BY <3>5 DEF StartingHasWorker
    <3>6. ASSUME NEW restore \in BOOLEAN, NEW rel \in BOOLEAN,
                 Spawn(th[t].i, restore, th[t].ns, rel)
          PROVE  StartingHasWorker'
      <4> HIDE DEF Base
      <4> QED BY <2>1, <3>1, <3>3, <3>6, SpawnWorks, WorkersStay
    <3> QED BY <3>4, <3>5, <3>6
  <2>3. CASE MarkDestroyed(t) \/ PauseCommit(t)
    <3>1. /\ UNCHANGED work
          /\ \E st \in {"destroyed", "paused"} : status' = [status EXCEPT ![th[t].i] = st]
      BY <2>3, ActivateNone DEF MarkDestroyed, PauseCommit, work
    <3> QED BY <1>1, <2>1, <3>1 DEF TypeOK, Starting
  <2>4. CASE SubmitCommit(t) \/ ReclaimFinal(t) \/ HealthFailed(t)
    <3>1. /\ UNCHANGED work
          /\ \E st \in {"completed", "expired", "error"} :
                status' = [status EXCEPT ![th[t].i] = st]
      BY <2>4 DEF SubmitCommit, ReclaimFinal, HealthFailed
    <3> QED BY <1>1, <2>1, <3>1 DEF TypeOK, Starting
  <2>5. CASE DeleteNs(t) \/ DeleteNsFails(t) \/ PauseSnapshot(t) \/ PauseStop(t)
             \/ RestoreDrop(t) \/ SettleTimeout(t) \/ ReclaimSnapshot(t) \/ HealthOk(t)
    BY <1>2, <2>5 DEF DeleteNs, DeleteNsFails, PauseSnapshot, PauseStop, RestoreDrop,
                      SettleTimeout, ReclaimSnapshot, HealthOk
  <2> QED BY <1>7, <2>2, <2>3, <2>4, <2>5 DEF LaterStep
<1>8. ASSUME NEW j \in Jobs, JobStep(j) PROVE StartingHasWorker'
  <2>1. CASE /\ job' = [job EXCEPT ![j] = NoJob]
             /\ status' = [status EXCEPT ![job[j].i] =
                              IF job[j].ok THEN "running" ELSE "error"]
    <3>1. \A k \in Jobs : k # j => job'[k] = job[k]
      BY <2>1 DEF TypeOK
    <3>2. \A i \in Insts : i # job[j].i => status'[i] = status[i]
      BY <2>1 DEF TypeOK
    <3>3. \A i \in Insts : i = job[j].i => status'[i] \notin Starting
      BY <2>1 DEF TypeOK, Starting
    <3>4. crashes' = crashes
      BY <1>8, JobStepMoves
    <3> QED BY <3>1, <3>2, <3>3, <3>4 DEF StartingHasWorker, Starting, LiveJob
  <2>2. CASE /\ UNCHANGED status
             /\ \A k \in Jobs : job'[k].i = job[k].i /\ (LiveJob(k) => LiveJob(k)')
    BY <1>8, <2>2, JobStepMoves, WorkersStay
  <2> QED BY <1>8, <2>1, <2>2, JobStepMoves
<1>9. CASE Crash
  BY <1>9 DEF Crash, StartingHasWorker, TypeOK
<1>10. CASE \E i \in Insts : ManualGrade(i) \/ TakeSnapshot(i)
                               \/ DropSnapshots(i) \/ Reap(i)
  BY <1>2, <1>10 DEF ManualGrade, TakeSnapshot, DropSnapshots, Reap
<1>11. CASE UNCHANGED vars
  BY <1>2, <1>11 DEF vars, work
<1> QED BY <1>3, <1>4, <1>5, <1>6, <1>7, <1>8, <1>9, <1>10, <1>11
    DEF Next, ThreadStep, LaterStep

(* Until the process dies or a template read fails, every row that says it *)
(* is starting has a live goroutine of its own: no goroutine's entry is    *)
(* ever reused while it runs, and none ends without settling its row.      *)
THEOREM StartingRowsAreWorkedOn == Spec => []StartingHasWorker
<1>1. Init => StartingHasWorker
  BY DEF Init, StartingHasWorker
<1> QED BY <1>1, NextWorker, AlwaysBase, PTL DEF Spec

-----------------------------------------------------------------------------
(* Operations that do not overlap on one student's rows, in a process that *)
(* does not die.  At most one thread or goroutine serves a student, and it *)
(* is alone on the rows of that student.                                   *)

AtWork(t) == th[t].pc # "idle"
Holds(t) == th[t].pc \notin CreatePcs \cup {"idle"}

Alone ==
    /\ \A t \in Threads : ~AtWork(t) => th[t].s = NoStudent
    /\ \A t, u \in Threads : AtWork(t) /\ th[u].s = th[t].s => u = t
    /\ \A t \in Threads, j \in Jobs : AtWork(t) /\ LiveJob(j) => owner[job[j].i] # th[t].s
    /\ \A j, k \in Jobs : LiveJob(j) /\ LiveJob(k) /\ owner[job[j].i] = owner[job[k].i] => j = k
    /\ \A t \in Threads : Holds(t) => th[t].i \in Rows /\ owner[th[t].i] = th[t].s
    /\ \A j \in Jobs : LiveJob(j) => job[j].i \in Rows

(* What the row and the namespace of a row say of each other when nobody   *)
(* is between writing the one and the other.                               *)
Matches(i) ==
    /\ status[i] = "running" => ns[i] /\ k8s[i] = "pods"
    /\ status[i] = "paused" => ns[i] /\ k8s[i] = "bare"

(* What a thread that serves a row knows of it, from the check that it     *)
(* started with.                                                           *)
ThreadSees(t) ==
    LET i == th[t].i
    IN  /\ th[t].pc \in {"snapshot", "stop"} => th[t].ns = ns[i]
        /\ th[t].pc \in {"snapshot", "stop", "grade", "paused"} => status[i] = "running"
        /\ th[t].pc = "paused" => ns[i] /\ k8s[i] = "bare"
        /\ th[t].pc = "resume" => status[i] = "paused"
        /\ th[t].pc \in {"archive", "settle", "delete", "mark"} /\ th[t].op \in {"reclaim", "timeout"} =>
             status[i] \in {"initializing", "running", "paused", "completed"}
        /\ th[t].pc \in {"archive", "settle", "delete", "mark"} /\ th[t].op = "retain" => status[i] = "completed"
        /\ th[t].pc = "inspect" => status[i] \in {"running", "initializing"}
        /\ th[t].pc \in {"delete", "mark"} /\ th[t].op = "heal" => status[i] = "error"
        /\ th[t].pc \in {"final", "reinit"} => status[i] = "destroyed"
        /\ th[t].pc = "reinit" => th[t].op = "heal"

(* And a goroutine: what it has written so far.                            *)
JobSees(j) ==
    LET i == job[j].i
    IN  LiveJob(j) =>
        /\ status[i] \in {"creating", "initializing"}
        /\ job[j].pc \in {"create", "deploy"} => ns[i]
        /\ job[j].pc = "settle" /\ job[j].ok => ns[i] /\ k8s[i] = "pods"

Writing(t, i) == th[t].i = i /\ th[t].pc \in {"mark", "paused", "reset"}
Kept(i) == Matches(i) \/ \E t \in Threads : Writing(t, i)
Inserted == \A i \in Insts : i \in Rows <=> status[i] # "none"

Sees == /\ Inserted
        /\ \A t \in Threads : ThreadSees(t)
        /\ \A j \in Jobs : JobSees(j)
        /\ \A i \in Insts : Kept(i)
RowInv == Base /\ Alone /\ Sees

LEMMA RowFacts ==
    ASSUME Base
    PROVE  /\ rows \in 0..MaxRows /\ Rows \subseteq Insts
           /\ owner \in [Insts -> Students \cup {NoStudent}] /\ status \in [Insts -> Statuses]
           /\ ns \in [Insts -> BOOLEAN] /\ k8s \in [Insts -> {"absent", "bare", "pods", "terminating"}]
           /\ th \in [Threads -> ThreadRec] /\ job \in [Jobs -> JobRec] /\ jobs \in 0..MaxJobs
           /\ \A t \in Threads : AtWork(t) => th[t].s \in Students
           /\ \A i \in Rows : owner[i] \in Students
BY BoundsAssumption DEF Base, TypeOK, Rows, Insts, AtWork, ThreadKnows, RowsOwned

(* The ways a step moves a thread.                                         *)
Others(t) == \A u \in Threads : u # t => th'[u] = th[u]
Moves(t, pc) ==
    /\ th'[t].pc = pc /\ th'[t].op = th[t].op /\ th'[t].i = th[t].i /\ th'[t].s = th[t].s
    /\ th'[t].ns = th[t].ns
LEMMA GotoMoves ==
    ASSUME Base, NEW t \in Threads, NEW pc, Goto(t, pc)
    PROVE  Others(t) /\ Moves(t, pc)
<1>1. th \in [Threads -> ThreadRec] /\ th' = [th EXCEPT ![t].pc = pc]
  BY DEF Base, TypeOK, Goto
<1>2. th'[t] = [th[t] EXCEPT !.pc = pc] /\ th[t] \in ThreadRec
  BY <1>1
<1>3. th'[t].pc = pc /\ th'[t].op = th[t].op /\ th'[t].i = th[t].i /\ th'[t].s = th[t].s /\ th'[t].ns = th[t].ns
  BY <1>2 DEF ThreadRec
<1> QED BY <1>1, <1>3 DEF Others, Moves

LEMMA FinishMoves ==
    ASSUME Base, NEW t \in Threads, Finish(t)
    PROVE  Others(t) /\ th'[t] = IdleThread /\ ~AtWork(t)' /\ th'[t].s = NoStudent
BY DEF Base, TypeOK, Finish, Others, IdleThread, AtWork

LEMMA BeginMoves ==
    ASSUME Base, NEW t \in Threads, NEW op, NEW pc, NEW i, Begin(t, op, pc, i)
    PROVE  /\ Others(t) /\ th'[t].pc = pc /\ th'[t].op = op /\ th'[t].i = i /\ th'[t].s = owner[i]
           /\ th'[t].ns = ns[i]
BY DEF Base, TypeOK, Begin, Others

(* Rows are inserted and never leave their owner.                          *)
RowsStay == Rows \subseteq Rows' /\ \A i \in Rows : owner'[i] = owner[i]
JobsStay == \A j \in Jobs : LiveJob(j) => job'[j] = job[j]

LEMMA AloneBegins ==
    ASSUME RowInv, NEW t \in Threads, NEW s \in Students, Quiet(s), ~AtWork(t), Others(t),
           th'[t].s = s, AtWork(t)', Holds(t)' => th'[t].i \in Rows /\ owner[th'[t].i] = s,
           UNCHANGED <<rowKey, work>>
    PROVE  Alone'
<1>1. UNCHANGED <<rows, owner, job>> /\ Rows' = Rows
  BY DEF rowKey, work, Rows
<1>2. \A u \in Threads : u # t => (AtWork(u)' <=> AtWork(u)) /\ (Holds(u)' <=> Holds(u)) /\ th'[u] = th[u]
  BY DEF Others, AtWork, Holds
<1>3. \A u \in Threads : th[u].s # s
  BY DEF Quiet
<1>4. \A j \in Jobs : (LiveJob(j)' <=> LiveJob(j)) /\ (LiveJob(j) => owner[job[j].i] # s)
  BY <1>1 DEF LiveJob, Quiet
<1> QED BY <1>1, <1>2, <1>3, <1>4 DEF RowInv, Alone

LEMMA AloneGoes ==
    ASSUME RowInv, NEW t \in Threads, AtWork(t), AtWork(t)', Others(t), th'[t].s = th[t].s, th'[t].i = th[t].i,
           Holds(t)' => Holds(t), UNCHANGED <<rowKey, work>>
    PROVE  Alone'
<1>1. UNCHANGED <<rows, owner, job>> /\ Rows' = Rows
  BY DEF rowKey, work, Rows
<1>2. \A u \in Threads : (AtWork(u)' <=> AtWork(u)) /\ (Holds(u)' => Holds(u)) /\ th'[u].s = th[u].s /\ th'[u].i = th[u].i
  BY DEF Others, AtWork, Holds
<1>4. \A j \in Jobs : LiveJob(j)' <=> LiveJob(j)
  BY <1>1 DEF LiveJob
<1> QED BY <1>1, <1>2, <1>4 DEF RowInv, Alone

(* A thread that ends; the goroutine it leaves is alone as it was.         *)
LEMMA AloneEnds ==
    ASSUME RowInv, NEW t \in Threads, AtWork(t), Finish(t), RowsStay,
           \/ job' = job
           \/ \E i, restore, n, rel : i \in Rows' /\ owner'[i] = th[t].s /\ Spawn(i, restore, n, rel)
    PROVE  Alone'
<1>0. Base /\ Alone
  BY DEF RowInv
<1>1. Others(t) /\ ~AtWork(t)' /\ th'[t].s = NoStudent /\ ~Holds(t)'
  BY <1>0, FinishMoves DEF AtWork, Holds
<1>2. \A u \in Threads : u # t => (AtWork(u)' <=> AtWork(u)) /\ (Holds(u)' <=> Holds(u)) /\ th'[u] = th[u]
  BY <1>1 DEF Others, AtWork, Holds
<1>3. \A u \in Threads : AtWork(u)' => th'[u].s # th[t].s /\ th'[u].s # NoStudent
  BY <1>0, <1>1, <1>2, RowFacts, StudentsAssumption DEF Alone
<1>4. \A j \in Jobs : LiveJob(j) => owner[job[j].i] # th[t].s /\ job[j].i \in Rows /\ owner'[job[j].i] = owner[job[j].i]
  BY <1>0 DEF Alone, RowsStay
<1>5. CASE job' = job
  <2>1. \A j \in Jobs : LiveJob(j)' <=> LiveJob(j)
    BY <1>5 DEF LiveJob
  <2> QED BY <1>0, <1>1, <1>2, <1>3, <1>4, <1>5, <2>1 DEF Alone, RowsStay
<1>6. ASSUME NEW i, NEW restore, NEW n, NEW rel, i \in Rows', owner'[i] = th[t].s, Spawn(i, restore, n, rel)
      PROVE  Alone'
  <2>1. /\ jobs + 1 \in Jobs /\ job'[jobs + 1].i = i /\ ~LiveJob(jobs + 1)
        /\ \A j \in Jobs : j # jobs + 1 => job'[j] = job[j]
    BY <1>0, <1>6, BoundsAssumption DEF Spawn, NewJob, Base, TypeOK, Jobs, FreshJobs, LiveJob
  <2>2. \A j \in Jobs : j # jobs + 1 => (LiveJob(j)' <=> LiveJob(j))
    BY <2>1 DEF LiveJob
  <2> QED BY <1>0, <1>1, <1>2, <1>3, <1>4, <1>6, <2>1, <2>2 DEF Alone, RowsStay
<1> QED BY <1>5, <1>6

LEMMA AloneJob ==
    ASSUME RowInv, NEW j \in Jobs, LiveJob(j), UNCHANGED <<rowKey, th>>,
           \A k \in Jobs : k # j => job'[k] = job[k],
           job'[j].pc = "done" \/ job'[j].i = job[j].i
    PROVE  Alone'
<1>1. UNCHANGED <<rows, owner, th>> /\ Rows' = Rows
  BY DEF rowKey, Rows
<1>2. \A u \in Threads : (AtWork(u)' <=> AtWork(u)) /\ (Holds(u)' <=> Holds(u))
  BY <1>1 DEF AtWork, Holds
<1>3. \A k \in Jobs : LiveJob(k)' => LiveJob(k) /\ job'[k].i = job[k].i
  BY DEF LiveJob
<1> QED BY <1>1, <1>2, <1>3 DEF RowInv, Alone

-----------------------------------------------------------------------------
(* A step of a thread that holds i0, or writes no row but a new one: what  *)
(* the others see of their rows stays.                                     *)
ActsOn(t, i0) == \/ Holds(t) /\ i0 = th[t].i
                 \/ ~Holds(t) /\ i0 \notin Rows
ElseSame(i0) ==
    \A i \in Insts : i # i0 => status'[i] = status[i] /\ ns'[i] = ns[i] /\ k8s'[i] = k8s[i]

LEMMA SameSees ==
    ASSUME NEW u, th[u].i \in Insts \/ ~Holds(u), th'[u] = th[u],
           Holds(u) => LET i == th[u].i IN status'[i] = status[i] /\ ns'[i] = ns[i] /\ k8s'[i] = k8s[i],
           ThreadSees(u)
    PROVE  ThreadSees(u)'
<1>1. CASE Holds(u)
  BY <1>1 DEF ThreadSees
<1>2. CASE ~Holds(u)
  BY <1>2 DEF ThreadSees, Holds, CreatePcs
<1> QED BY <1>1, <1>2

LEMMA Elsewhere ==
    ASSUME RowInv, NEW t \in Threads, NEW i0, ActsOn(t, i0), ElseSame(i0), Others(t), JobsStay
    PROVE  /\ \A u \in Threads : u # t => ThreadSees(u)'
           /\ \A j \in Jobs : LiveJob(j) => JobSees(j)'
           /\ \A i \in Insts : i # i0 => Kept(i)'
<1>0. Base /\ Alone /\ Sees
  BY DEF RowInv
<1>1. /\ \A u \in Threads : Holds(u) => th[u].i \in Rows /\ owner[th[u].i] = th[u].s
      /\ \A j \in Jobs : LiveJob(j) => job[j].i \in Rows
      /\ Rows \subseteq Insts
      /\ \A u \in Threads : Holds(u) => AtWork(u)
  BY <1>0, RowFacts DEF Alone, Holds, AtWork
<1>2. ASSUME NEW u \in Threads, u # t PROVE ThreadSees(u)'
  <2>1. Holds(u) => th[u].i # i0
    BY <1>0, <1>1, <1>2 DEF ActsOn, Alone
  <2>2. th'[u] = th[u] /\ ThreadSees(u)
    BY <1>0, <1>2 DEF Others, Sees
  <2>3. Holds(u) => /\ status'[th[u].i] = status[th[u].i]
                    /\ ns'[th[u].i] = ns[th[u].i] /\ k8s'[th[u].i] = k8s[th[u].i]
    BY <1>1, <2>1 DEF ElseSame
  <2> QED BY <1>1, <2>2, <2>3, SameSees
<1>3. ASSUME NEW j \in Jobs, LiveJob(j) PROVE JobSees(j)'
  <2>1. job[j].i # i0 /\ job[j].i \in Insts
    BY <1>0, <1>1, <1>3 DEF ActsOn, Alone
  <2>2. job'[j] = job[j] /\ JobSees(j)
    BY <1>0, <1>3 DEF JobsStay, Sees
  <2> QED BY <1>3, <2>1, <2>2 DEF ElseSame, JobSees, LiveJob
<1>4. ASSUME NEW i \in Insts, i # i0 PROVE Kept(i)'
  <2>1. Kept(i) /\ (Matches(i)' <=> Matches(i))
    BY <1>0, <1>4 DEF Sees, ElseSame, Matches
  <2>2. ASSUME NEW u \in Threads, Writing(u, i) PROVE Writing(u, i)'
    <3>1. Holds(u)
      BY <2>2 DEF Writing, Holds, CreatePcs
    <3>2. u # t
      BY <1>1, <1>4, <2>2, <3>1 DEF ActsOn, Writing
    <3> QED BY <2>2, <3>2 DEF Others, Writing
  <2> QED BY <2>1, <2>2 DEF Kept
<1> QED BY <1>2, <1>3, <1>4

LEMMA ThreadActs ==
    ASSUME RowInv, Base', Alone', NEW t \in Threads, NEW i0, ActsOn(t, i0), ElseSame(i0), Others(t),
           JobsStay, ThreadSees(t)', Inserted', i0 \in Insts => Kept(i0)',
           \A j \in Jobs : LiveJob(j)' /\ ~LiveJob(j) => JobSees(j)'
    PROVE  RowInv'
<1>1. /\ \A u \in Threads : u # t => ThreadSees(u)'
      /\ \A j \in Jobs : LiveJob(j) => JobSees(j)'
      /\ \A i \in Insts : i # i0 => Kept(i)'
  BY Elsewhere
<1>2. \A j \in Jobs : ~LiveJob(j)' => JobSees(j)'
  BY DEF JobSees
<1> QED BY <1>1, <1>2 DEF RowInv, Sees

(* A step that writes nothing of any row but its results and snapshots.    *)
LEMMA ThreadThinks ==
    ASSUME RowInv, Base', Alone', NEW t \in Threads, ~Writing(t, th[t].i),
           UNCHANGED <<rows, status, ns, k8s, job>>, Others(t), ThreadSees(t)'
    PROVE  RowInv'
<1>1. PICK i0 : ActsOn(t, i0)
  <2>1. rows + 1 \notin Rows
    BY RowFacts, BoundsAssumption DEF RowInv, Rows
  <2> QED BY <2>1 DEF ActsOn
<1>2. ElseSame(i0) /\ JobsStay /\ (\A j \in Jobs : LiveJob(j)' => LiveJob(j))
  BY DEF ElseSame, JobsStay, LiveJob
<1>3. Inserted'
  BY DEF RowInv, Sees, Inserted, Rows
<1>4. i0 \in Insts => Kept(i0)'
  <2>1. SUFFICES ASSUME i0 \in Insts PROVE Kept(i0)'
    OBVIOUS
  <2>2. Kept(i0)
    BY <2>1 DEF RowInv, Sees
  <2>5. Matches(i0)' <=> Matches(i0)
    BY DEF Matches
  <2>3. \A u \in Threads : Writing(u, i0) => u # t
    BY DEF Writing
  <2>4. \A u \in Threads : Writing(u, i0) => Writing(u, i0)'
    BY <2>3 DEF Writing, Others
  <2> QED BY <2>2, <2>5, <2>4 DEF Kept
<1> QED BY <1>1, <1>2, <1>3, <1>4, ThreadActs

LEMMA HoldsRow ==
    ASSUME RowInv, NEW t \in Threads, Holds(t)
    PROVE  /\ th[t].i \in Rows /\ th[t].i \in Insts /\ owner[th[t].i] = th[t].s /\ status[th[t].i] # "none"
           /\ AtWork(t) /\ ThreadSees(t) /\ ActsOn(t, th[t].i) /\ ThreadKnows(t)
           /\ status \in [Insts -> Statuses] /\ ns \in [Insts -> BOOLEAN]
           /\ k8s \in [Insts -> {"absent", "bare", "pods", "terminating"}]
<1>1. th[t].i \in Rows /\ owner[th[t].i] = th[t].s /\ AtWork(t)
  BY DEF RowInv, Alone, Holds, AtWork
<1>2. th[t].i \in Insts
  BY <1>1, RowFacts DEF RowInv
<1>3. ThreadSees(t) /\ status[th[t].i] # "none" /\ ThreadKnows(t)
  BY <1>1, <1>2 DEF RowInv, Sees, Inserted, Base
<1> QED BY <1>1, <1>2, <1>3, RowFacts DEF ActsOn, RowInv

(* No other thread writes the row.                                         *)
LEMMA MatchesUnlessWriting ==
    ASSUME RowInv, NEW t \in Threads, Holds(t), ~Writing(t, th[t].i)
    PROVE  Matches(th[t].i)
<1>1. ASSUME NEW u \in Threads, Writing(u, th[t].i) PROVE FALSE
  <2>1. Holds(u)
    BY <1>1 DEF Writing, Holds, CreatePcs
  <2>2. th[u].i = th[t].i
    BY <1>1 DEF Writing
  <2>3. th[u].s = th[t].s /\ AtWork(u) /\ AtWork(t)
    BY <2>1, <2>2, HoldsRow
  <2>4. u = t
    BY <2>3 DEF RowInv, Alone
  <2> QED BY <1>1, <2>4
<1>2. Kept(th[t].i)
  BY HoldsRow DEF RowInv, Sees
<1> QED BY <1>1, <1>2 DEF Kept

LEMMA QuietMatches ==
    ASSUME RowInv, NEW i \in Rows, \A t \in Threads : th[t].s # owner[i]
    PROVE  Matches(i)
<1>1. ASSUME NEW u \in Threads, Writing(u, i) PROVE FALSE
  <2>1. Holds(u) /\ th[u].i = i
    BY <1>1 DEF Writing, Holds, CreatePcs
  <2> QED BY <2>1, HoldsRow
<1>2. Kept(i)
  BY RowFacts DEF RowInv, Sees
<1> QED BY <1>1, <1>2 DEF Kept

(* A step of a thread on its row that goes on, and one that ends.          *)
RowOnly(i) ==
    /\ UNCHANGED rowKey
    /\ ElseSame(i)
    /\ status'[i] # "none"

LEMMA RowGoes ==
    ASSUME RowInv, Base', NEW t \in Threads, Holds(t), NEW i, i = th[t].i, RowOnly(i), UNCHANGED work,
           NEW pc, pc # "idle", Goto(t, pc), Kept(i)', ThreadSees(t)'
    PROVE  RowInv'
<1>1. Others(t) /\ Moves(t, pc)
  BY GotoMoves DEF RowInv
<1>2. AtWork(t)' /\ AtWork(t)
  BY <1>1, HoldsRow DEF Moves, AtWork
<1>3. UNCHANGED <<rowKey, work>> /\ th'[t].s = th[t].s /\ th'[t].i = th[t].i
  BY <1>1 DEF Moves, RowOnly
<1>4. Alone'
  BY <1>1, <1>2, <1>3, AloneGoes
<1>5. Inserted'
  BY HoldsRow DEF RowInv, Sees, Inserted, RowOnly, ElseSame, rowKey, Rows
<1>6. JobsStay /\ (\A j \in Jobs : LiveJob(j)' /\ ~LiveJob(j) => JobSees(j)')
  BY DEF JobsStay, LiveJob, work
<1>7. ActsOn(t, i) /\ ElseSame(i)
  BY HoldsRow DEF RowOnly
<1>8. i \in Insts => Kept(i)'
  OBVIOUS
<1> QED BY <1>1, <1>4, <1>5, <1>6, <1>7, <1>8, ThreadActs, Zenon

LEMMA RowEnds ==
    ASSUME RowInv, Base', NEW t \in Threads, Holds(t), NEW i, i = th[t].i, RowOnly(i), Finish(t),
           Matches(i)',
           \/ UNCHANGED work
           \/ /\ \E restore, n, rel : Spawn(i, restore, n, rel)
              /\ status'[i] \in {"creating", "initializing"}
    PROVE  RowInv'
<1>0. Base
  BY DEF RowInv
<1>1. Others(t) /\ th'[t] = IdleThread
  BY <1>0, FinishMoves
<1>2. i \in Rows' /\ owner'[i] = th[t].s /\ RowsStay /\ AtWork(t)
  BY HoldsRow DEF RowOnly, rowKey, RowsStay, Rows
<1>4. Alone'
  BY <1>2, AloneEnds DEF work
<1>5. Inserted'
  BY HoldsRow DEF RowInv, Sees, Inserted, RowOnly, ElseSame, rowKey, Rows
<1>6. JobsStay /\ (\A j \in Jobs : LiveJob(j)' /\ ~LiveJob(j) => JobSees(j)')
  <2>1. CASE UNCHANGED work
    BY <2>1 DEF JobsStay, LiveJob, work
  <2>2. ASSUME NEW restore, NEW n, NEW rel, Spawn(i, restore, n, rel),
               status'[i] \in {"creating", "initializing"}
        PROVE  JobsStay /\ (\A j \in Jobs : LiveJob(j)' /\ ~LiveJob(j) => JobSees(j)')
    <3>1. /\ jobs + 1 \in Jobs /\ job'[jobs + 1].i = i /\ job'[jobs + 1].pc = "record"
          /\ ~LiveJob(jobs + 1)
          /\ \A j \in Jobs : j # jobs + 1 => job'[j] = job[j]
      BY <1>0, <2>2, BoundsAssumption DEF Spawn, NewJob, Base, TypeOK, Jobs, FreshJobs, LiveJob
    <3>2. JobsStay
      BY <3>1 DEF JobsStay, LiveJob
    <3>3. ASSUME NEW j \in Jobs, LiveJob(j)', ~LiveJob(j) PROVE JobSees(j)'
      <4>1. j = jobs + 1
        BY <3>1, <3>3 DEF LiveJob
      <4>2. job'[j].i = i /\ job'[j].pc = "record"
        BY <3>1, <4>1
      <4> QED BY <2>2, <4>2 DEF JobSees
    <3> QED BY <3>2, <3>3
  <2> QED BY <2>1, <2>2
<1>7. ThreadSees(t)'
  BY <1>1 DEF ThreadSees, IdleThread
<1>8. i \in Insts => Kept(i)'
  BY DEF Kept
<1>9. ActsOn(t, i) /\ ElseSame(i)
  BY HoldsRow DEF RowOnly
<1> QED BY <1>1, <1>4, <1>5, <1>6, <1>7, <1>8, <1>9, ThreadActs, Zenon

(* A step that writes no row at all.                                       *)
LEMMA ThinkEnds ==
    ASSUME RowInv, Base', NEW t \in Threads, AtWork(t), ~Writing(t, th[t].i), Finish(t),
           UNCHANGED <<rowKey, status, ns, k8s, work>>
    PROVE  RowInv'
<1>1. Others(t) /\ th'[t] = IdleThread
  BY FinishMoves DEF RowInv
<1>2. RowsStay /\ job' = job /\ rows' = rows
  BY DEF RowsStay, Rows, rowKey, work
<1>3. Alone'
  BY <1>2, AloneEnds
<1>4. ThreadSees(t)'
  BY <1>1 DEF ThreadSees, IdleThread
<1> QED BY <1>1, <1>2, <1>3, <1>4, ThreadThinks

LEMMA ThinkGoes ==
    ASSUME RowInv, Base', NEW t \in Threads, AtWork(t), ~Writing(t, th[t].i), NEW pc, pc # "idle",
           Others(t), th'[t].pc = pc, th'[t].s = th[t].s, th'[t].i = th[t].i,
           Holds(t) \/ pc \in CreatePcs,
           UNCHANGED <<rowKey, status, ns, k8s, work>>, ThreadSees(t)'
    PROVE  RowInv'
<1>1. AtWork(t)' /\ (Holds(t)' => Holds(t))
  BY DEF AtWork, Holds
<1>2. Alone'
  BY <1>1, AloneGoes
<1>3. job' = job /\ rows' = rows
  BY DEF rowKey, work
<1> QED BY <1>2, <1>3, ThreadThinks

-----------------------------------------------------------------------------
(* Operations begin on a student nothing works for.                        *)
LEMMA StartsSees ==
    ASSUME RowInv, Base', NEW t \in Threads, NEW i \in Insts, Overlap = FALSE,
           \/ StartDestroy(t, i) \/ StartRestart(t, i)
           \/ StartPause(t, i) \/ StartResume(t, i)
           \/ StartRestore(t, i) \/ StartSubmit(t, i)
           \/ StartReclaim(t, i) \/ StartHealth(t, i)
    PROVE  RowInv'
<1> USE DEF StartDestroy, StartRestart, StartPause, StartResume, StartRestore,
            StartSubmit, StartReclaim, StartHealth
<1>0. Base
  BY DEF RowInv
<1>1. UNCHANGED <<rowKey, status, ns, k8s, work>> /\ i \in Rows /\ Quiet(owner[i]) /\ ~Working(t)
  BY DEF MayStart
<1>2. ~AtWork(t) /\ owner[i] \in Students
  BY <1>0, <1>1, RowFacts DEF Base, ThreadKnows, Working, AtWork
<1>3. PICK op, pc :
        /\ Begin(t, op, pc, i)
        /\ pc \notin CreatePcs \cup {"idle", "stop", "paused", "mark", "final", "reinit"}
        /\ pc \in {"snapshot", "grade"} => status[i] = "running"
        /\ pc = "resume" => status[i] = "paused"
        /\ op \in {"reclaim", "timeout"} =>
             status[i] \in {"initializing", "running", "paused", "completed"}
        /\ op = "retain" => status[i] = "completed"
        /\ pc = "inspect" => status[i] \in {"running", "initializing"}
        /\ op = "heal" => pc = "inspect"
  BY DEF ResumeAllowed, CreatePcs
<1>4. Others(t) /\ th'[t].pc = pc /\ th'[t].op = op /\ th'[t].i = i /\ th'[t].s = owner[i] /\ th'[t].ns = ns[i]
  BY <1>0, <1>3, BeginMoves
<1>5. ThreadSees(t)'
  BY <1>1, <1>3, <1>4 DEF ThreadSees
<1>6. AtWork(t)' /\ (Holds(t)' => th'[t].i \in Rows /\ owner[th'[t].i] = owner[i])
  BY <1>1, <1>3, <1>4 DEF AtWork, CreatePcs
<1>7. UNCHANGED <<rowKey, work>> /\ UNCHANGED <<rows, status, ns, k8s, job>>
  BY <1>1 DEF rowKey, work
<1>8. Alone'
  BY <1>1, <1>2, <1>4, <1>6, <1>7, AloneBegins
<1>9. ~Writing(t, th[t].i)
  BY <1>2 DEF Writing, AtWork
<1> QED BY <1>4, <1>5, <1>7, <1>8, <1>9, ThreadThinks

LEMMA CreateSees ==
    ASSUME RowInv, Base', NEW t \in Threads, Overlap = FALSE,
           \/ \E s \in Students : StartCreate(t, s)
           \/ FindReusable(t) \/ CheckLimits(t)
    PROVE  RowInv'
<1>0. Base
  BY DEF RowInv
<1>1. ASSUME NEW s \in Students, StartCreate(t, s) PROVE RowInv'
  <2>1. UNCHANGED <<rowKey, status, ns, k8s, work>> /\ Quiet(s) /\ ~Working(t)
    BY <1>1 DEF StartCreate, MayStart
  <2>2. ~AtWork(t)
    BY <1>0, <2>1, RowFacts DEF Base, ThreadKnows, Working, AtWork
  <2>3. Others(t) /\ th'[t].pc = "find" /\ th'[t].s = s
    BY <1>0, <1>1 DEF StartCreate, IdleThread, Others, Base, TypeOK
  <2>4. ThreadSees(t)' /\ AtWork(t)' /\ ~Holds(t)'
    BY <2>3 DEF ThreadSees, AtWork, Holds, CreatePcs
  <2>5. UNCHANGED <<rowKey, work>> /\ UNCHANGED <<rows, status, ns, k8s, job>>
    BY <2>1 DEF rowKey, work
  <2>6. Alone'
    BY <2>1, <2>2, <2>3, <2>4, <2>5, AloneBegins
  <2>7. ~Writing(t, th[t].i)
    BY <2>2 DEF Writing, AtWork
  <2> QED BY <2>3, <2>4, <2>5, <2>6, <2>7, ThreadThinks
<1>2. CASE FindReusable(t) \/ CheckLimits(t)
  <2>1. UNCHANGED <<rowKey, status, ns, k8s, work>> /\ AtWork(t) /\ ~Writing(t, th[t].i)
    BY <1>2 DEF FindReusable, CheckLimits, At, AtWork, Writing
  <2>2. CASE Finish(t)
    BY <2>1, <2>2, ThinkEnds
  <2>3. CASE ~Finish(t)
    <3>1. PICK pc : /\ Others(t) /\ th'[t].pc = pc /\ th'[t].s = th[t].s /\ th'[t].i = th[t].i
                    /\ pc \in {"limits", "insert", "enqueue"}
      <4>1. CASE FindReusable(t)
        <5>1. Goto(t, "limits")
          BY <2>3, <4>1 DEF FindReusable
        <5> QED BY <1>0, <5>1, GotoMoves DEF Moves
      <4>2. CASE CheckLimits(t)
        <5>1. PICK pc \in {"insert", "enqueue"} :
                th' = [th EXCEPT ![t] = [th[t] EXCEPT !.pc = pc, !.n = MaxAttemptNo(th[t].s) + 1]]
          BY <2>3, <4>2 DEF CheckLimits
        <5>2. th[t] \in ThreadRec /\ th'[t] = [th[t] EXCEPT !.pc = pc, !.n = MaxAttemptNo(th[t].s) + 1] /\ Others(t)
          BY <1>0, <5>1 DEF Base, TypeOK, Others
        <5>3. th'[t].pc = pc /\ th'[t].s = th[t].s /\ th'[t].i = th[t].i
          BY <5>2 DEF ThreadRec
        <5> QED BY <5>1, <5>2, <5>3
      <4> QED BY <1>2, <4>1, <4>2
    <3>2. ThreadSees(t)' /\ pc # "idle" /\ pc \in CreatePcs
      BY <3>1 DEF ThreadSees, CreatePcs
    <3> QED BY <2>1, <3>1, <3>2, ThinkGoes
  <2> QED BY <2>2, <2>3
<1> QED BY <1>1, <1>2

LEMMA InsertSees ==
    ASSUME RowInv, Base', NEW t \in Threads,
           \/ \E restore \in BOOLEAN : InsertCreating(t, restore)
           \/ InsertQueued(t)
    PROVE  RowInv'
<1>a. PICK i : i = rows + 1
  OBVIOUS
<1>0. Base /\ TypeOK
  BY DEF RowInv, Base
<1>1. PICK st \in {"creating", "queued"} : InsertRow(t, st) /\ (st = "queued" => UNCHANGED work)
  BY DEF InsertCreating, InsertQueued
<1>2. /\ UNCHANGED <<ns, k8s>> /\ ~Holds(t) /\ AtWork(t) /\ Finish(t)
      /\ th[t].s \in Students
      /\ \/ st = "queued" /\ UNCHANGED work
         \/ st = "creating" /\ \E restore \in BOOLEAN : Spawn(i, restore, FALSE, TRUE)
  <2>1. At(t, "insert") \/ At(t, "enqueue")
    BY DEF InsertCreating, InsertQueued
  <2>2. ~Holds(t) /\ AtWork(t)
    BY <2>1 DEF At, Holds, AtWork, CreatePcs
  <2>3. th[t].s \in Students
    BY <1>0, <2>2 DEF Base, ThreadKnows, AtWork
  <2>4. CASE InsertQueued(t)
    <3>1. UNCHANGED work /\ InsertRow(t, "queued")
      BY <2>4 DEF InsertQueued
    <3>2. status'[i] = "queued" /\ status'[i] = st
      BY <1>a, <1>0, <1>1, <3>1, BoundsAssumption DEF InsertRow, TypeOK, Insts
    <3> QED BY <2>2, <2>3, <2>4, <3>1, <3>2 DEF InsertQueued, InsertRow
  <2>5. ASSUME NEW restore \in BOOLEAN, InsertCreating(t, restore) PROVE <1>2!:
    <3>1. Spawn(i, restore, FALSE, TRUE) /\ InsertRow(t, "creating")
      BY <1>a, <2>5 DEF InsertCreating
    <3>2. status'[i] = "creating" /\ status'[i] = st
      BY <1>a, <1>0, <1>1, <3>1, BoundsAssumption DEF InsertRow, TypeOK, Insts
    <3> QED BY <2>2, <2>3, <2>5, <3>1, <3>2 DEF InsertCreating, InsertRow
  <2> QED BY <2>4, <2>5
<1>3. /\ i \in Insts /\ i \notin Rows /\ Rows' = Rows \cup {i}
      /\ status'[i] = st /\ owner'[i] = th[t].s
      /\ \A k \in Insts : k # i => status'[k] = status[k] /\ owner'[k] = owner[k]
  BY <1>a, <1>0, <1>1, BoundsAssumption DEF InsertRow, TypeOK, Insts, Rows
<1>4. ActsOn(t, i) /\ ElseSame(i) /\ RowsStay
  <2>1. Rows \subseteq Insts
    BY <1>0, RowFacts
  <2> QED BY <1>2, <1>3, <2>1 DEF ActsOn, ElseSame, RowsStay
<1>5. Others(t) /\ th'[t] = IdleThread
  BY <1>0, <1>2, FinishMoves
<1>6. Alone'
  BY <1>2, <1>3, <1>4, AloneEnds DEF work
<1>7. ThreadSees(t)'
  BY <1>5 DEF ThreadSees, IdleThread
<1>8. Inserted'
  BY <1>3 DEF RowInv, Sees, Inserted
<1>9. i \in Insts => Kept(i)'
  <2>1. st # "running" /\ st # "paused"
    OBVIOUS
  <2>2. Matches(i)'
    BY <1>3, <2>1 DEF Matches
  <2> QED BY <2>2 DEF Kept
<1>10. JobsStay /\ (\A j \in Jobs : LiveJob(j)' /\ ~LiveJob(j) => JobSees(j)')
  <2>1. CASE UNCHANGED work
    BY <2>1 DEF JobsStay, LiveJob, work
  <2>2. ASSUME NEW restore, Spawn(i, restore, FALSE, TRUE), st = "creating"
        PROVE  JobsStay /\ (\A j \in Jobs : LiveJob(j)' /\ ~LiveJob(j) => JobSees(j)')
    <3>1. /\ jobs + 1 \in Jobs /\ job'[jobs + 1].i = i /\ job'[jobs + 1].pc = "record"
          /\ ~LiveJob(jobs + 1)
          /\ \A j \in Jobs : j # jobs + 1 => job'[j] = job[j]
      BY <1>0, <2>2, BoundsAssumption DEF Spawn, NewJob, Base, TypeOK, Jobs, FreshJobs, LiveJob
    <3>2. JobsStay
      BY <3>1 DEF JobsStay, LiveJob
    <3>3. ASSUME NEW j \in Jobs, LiveJob(j)', ~LiveJob(j) PROVE JobSees(j)'
      <4>1. j = jobs + 1
        BY <3>1, <3>3 DEF LiveJob
      <4>2. job'[j].i = i /\ job'[j].pc = "record"
        BY <3>1, <4>1
      <4> QED BY <1>3, <2>2, <4>2 DEF JobSees
    <3> QED BY <3>2, <3>3
  <2> QED BY <1>2, <2>1, <2>2
<1> QED BY <1>4, <1>5, <1>6, <1>7, <1>8, <1>9, <1>10, ThreadActs, Zenon

-----------------------------------------------------------------------------
(* The steps of an operation on its row.                                   *)
LEMMA RetireSees ==
    ASSUME RowInv, Base', NEW t \in Threads,
           DeleteNs(t) \/ DeleteNsFails(t) \/ MarkDestroyed(t) \/ ReclaimFinal(t)
    PROVE  RowInv'
<1>a. PICK i : i = th[t].i
  OBVIOUS
<1>0. Base /\ th[t].pc \in {"delete", "mark", "final"} /\ Holds(t)
  BY DEF RowInv, DeleteNs, DeleteNsFails, MarkDestroyed, ReclaimFinal, At, Holds, CreatePcs
<1>1. /\ i \in Insts /\ status[i] # "none" /\ AtWork(t) /\ ThreadSees(t) /\ ThreadKnows(t)
      /\ status \in [Insts -> Statuses] /\ ns \in [Insts -> BOOLEAN]
      /\ k8s \in [Insts -> {"absent", "bare", "pods", "terminating"}]
  BY <1>a, <1>0, HoldsRow
<1>2. CASE DeleteNs(t)
  <2>1. /\ UNCHANGED <<rowKey, status, ns, work>> /\ Goto(t, "mark") /\ th[t].pc = "delete"
        /\ k8s' = [k8s EXCEPT ![i] = IF th[t].ns THEN "terminating" ELSE @]
    BY <1>a, <1>2 DEF DeleteNs, At
  <2>2. RowOnly(i)
    BY <1>1, <2>1 DEF RowOnly, ElseSame
  <2>3. Moves(t, "mark")
    BY <1>0, <2>1, GotoMoves
  <2>4. Kept(i)'
    BY <1>a, <2>3 DEF Kept, Writing, Moves
  <2>5. ThreadSees(t)'
    BY <1>1, <2>1, <2>3 DEF ThreadSees, Moves
  <2>6. UNCHANGED work /\ "mark" # "idle"
    BY <2>1
  <2> QED BY <1>a, <1>0, <2>1, <2>2, <2>4, <2>5, <2>6, RowGoes
<1>3. CASE DeleteNsFails(t)
  <2>1. /\ UNCHANGED <<rowKey, status, ns, k8s, work>> /\ ~Writing(t, th[t].i)
        /\ Goto(t, "find") \/ Finish(t)
    BY <1>3 DEF DeleteNsFails, At, Writing
  <2>2. CASE Finish(t)
    BY <1>1, <2>1, <2>2, ThinkEnds
  <2>3. CASE Goto(t, "find")
    <3>1. Others(t) /\ Moves(t, "find")
      BY <1>0, <2>3, GotoMoves
    <3>2. ThreadSees(t)' /\ "find" # "idle"
      BY <3>1 DEF Moves, ThreadSees
    <3> QED BY <1>0, <1>1, <2>1, <3>1, <3>2, ThinkGoes DEF Moves
  <2> QED BY <2>1, <2>2, <2>3
<1>4. CASE MarkDestroyed(t)
  <2>1. /\ UNCHANGED <<rowKey, k8s>> /\ th[t].pc = "mark"
        /\ ns' = [ns EXCEPT ![i] = FALSE]
        /\ Activate([status EXCEPT ![i] = "destroyed"], job)
        /\ \/ Finish(t)
           \/ th[t].op = "restart" /\ Goto(t, "find")
           \/ th[t].op = "heal" /\ Goto(t, "reinit")
           \/ Goto(t, "final")
    BY <1>a, <1>4 DEF MarkDestroyed, At
  <2>2. status' = [status EXCEPT ![i] = "destroyed"] /\ UNCHANGED work
    BY <1>0, <2>1, ActivateNone DEF Base, work
  <2>3. RowOnly(i)
    BY <1>1, <2>1, <2>2 DEF RowOnly, ElseSame
  <2>4. status'[i] = "destroyed" /\ Matches(i)' /\ Kept(i)'
    BY <1>1, <2>2 DEF Kept, Matches
  <2>5. CASE Finish(t)
    BY <1>a, <1>0, <2>2, <2>3, <2>4, <2>5, RowEnds
  <2>6. ASSUME NEW pc \in {"find", "reinit", "final"}, Goto(t, pc), pc = "reinit" => th[t].op = "heal"
        PROVE  RowInv'
    <3>1. Moves(t, pc)
      BY <1>0, <2>6, GotoMoves
    <3>2. th'[t].i = i
      BY <1>a, <3>1 DEF Moves
    <3>3. ThreadSees(t)'
      BY <2>4, <2>6, <3>1, <3>2 DEF ThreadSees, Moves
    <3>4. pc # "idle"
      OBVIOUS
    <3> QED BY <1>a, <1>0, <2>2, <2>3, <2>4, <2>6, <3>3, <3>4, RowGoes
  <2> QED BY <2>1, <2>5, <2>6
<1>5. CASE ReclaimFinal(t)
  <2>1. PICK st \in {"completed", "expired"} :
          UNCHANGED <<rowKey, ns, k8s, work>> /\ Finish(t) /\ status' = [status EXCEPT ![i] = st]
    BY <1>a, <1>5 DEF ReclaimFinal
  <2>2. RowOnly(i) /\ status'[i] = st
    BY <1>1, <2>1 DEF RowOnly, ElseSame
  <2>3. Matches(i)' /\ UNCHANGED work
    BY <2>1, <2>2 DEF Matches
  <2> QED BY <1>a, <1>0, <2>1, <2>2, <2>3, RowEnds
<1> QED BY <1>2, <1>3, <1>4, <1>5

LEMMA PauseSees ==
    ASSUME RowInv, Base', NEW t \in Threads, PauseSnapshot(t) \/ PauseStop(t) \/ PauseCommit(t)
    PROVE  RowInv'
<1>a. PICK i : i = th[t].i
  OBVIOUS
<1>0. Base /\ th[t].pc \in {"snapshot", "stop", "paused"} /\ Holds(t)
  BY DEF RowInv, PauseSnapshot, PauseStop, PauseCommit, At, Holds, CreatePcs
<1>1. /\ i \in Insts /\ status[i] # "none" /\ AtWork(t) /\ ThreadSees(t)
      /\ status \in [Insts -> Statuses] /\ ns \in [Insts -> BOOLEAN]
      /\ k8s \in [Insts -> {"absent", "bare", "pods", "terminating"}]
  BY <1>a, <1>0, HoldsRow
<1>2. CASE /\ UNCHANGED <<rowKey, status, ns, k8s, work>> /\ Finish(t)
           /\ PauseSnapshot(t) \/ PauseStop(t)
  <2>1. ~Writing(t, th[t].i)
    BY <1>2 DEF PauseSnapshot, PauseStop, At, Writing
  <2> QED BY <1>1, <1>2, <2>1, ThinkEnds
<1>3. CASE PauseSnapshot(t) /\ Goto(t, "stop")
  <2>1. UNCHANGED <<rowKey, status, ns, k8s, work>> /\ ~Writing(t, th[t].i) /\ th[t].pc = "snapshot"
    BY <1>3 DEF PauseSnapshot, At, Writing
  <2>2. Others(t) /\ Moves(t, "stop")
    BY <1>0, <1>3, GotoMoves
  <2>3. ThreadSees(t)' /\ "stop" # "idle"
    BY <1>1, <2>1, <2>2 DEF ThreadSees, Moves
  <2> QED BY <1>0, <1>1, <2>1, <2>2, <2>3, ThinkGoes DEF Moves
<1>4. CASE PauseStop(t) /\ Goto(t, "paused") /\
           k8s' = [k8s EXCEPT ![i] = IF th[t].ns /\ @ = "pods" THEN "bare" ELSE @]
  <2>1. UNCHANGED <<rowKey, status, ns, work>> /\ ~Writing(t, th[t].i) /\ th[t].pc = "stop"
    BY <1>4 DEF PauseStop, At, Writing
  <2>2. Matches(i)
    BY <1>a, <1>0, <2>1, MatchesUnlessWriting
  <2>3. Moves(t, "paused")
    BY <1>0, <1>4, GotoMoves
  <2>4. status[i] = "running" /\ ns[i] /\ k8s[i] = "pods" /\ th[t].ns
    BY <1>a, <1>1, <2>1, <2>2 DEF ThreadSees, Matches
  <2>5. k8s'[i] = "bare" /\ status'[i] = "running" /\ ns'[i]
    BY <1>1, <1>4, <2>1, <2>4
  <2>6. RowOnly(i) /\ UNCHANGED work /\ "paused" # "idle"
    BY <1>1, <1>4, <2>1 DEF RowOnly, ElseSame
  <2>7. th'[t].i = i
    BY <1>a, <2>3 DEF Moves
  <2>8. ThreadSees(t)' /\ Kept(i)'
    BY <2>3, <2>5, <2>7 DEF ThreadSees, Moves, Kept, Writing
  <2> QED BY <1>a, <1>0, <1>4, <2>6, <2>8, RowGoes
<1>5. CASE PauseCommit(t)
  <2>1. /\ UNCHANGED <<rowKey, ns, k8s>> /\ th[t].pc = "paused" /\ Finish(t)
        /\ Activate([status EXCEPT ![i] = "paused"], job)
    BY <1>a, <1>5 DEF PauseCommit, At
  <2>2. status' = [status EXCEPT ![i] = "paused"] /\ UNCHANGED work
    BY <1>0, <2>1, ActivateNone DEF Base, work
  <2>3. RowOnly(i) /\ status'[i] = "paused"
    BY <1>1, <2>1, <2>2 DEF RowOnly, ElseSame
  <2>4. Matches(i)'
    BY <1>a, <1>1, <2>1, <2>3 DEF Matches, ThreadSees
  <2> QED BY <1>a, <1>0, <2>1, <2>2, <2>3, <2>4, RowEnds
<1> QED BY <1>a, <1>2, <1>3, <1>4, <1>5 DEF PauseSnapshot, PauseStop

(* What begins again, with a goroutine or, when a read failed, without.    *)
LEMMA RestartSees ==
    ASSUME RowInv, Base', NEW t \in Threads,
           ResumeCommit(t) \/ RestoreDrop(t) \/ RestoreReset(t) \/ HealRebuild(t)
    PROVE  RowInv'
<1>a. PICK i : i = th[t].i
  OBVIOUS
<1>0. Base /\ th[t].pc \in {"resume", "drop", "reset", "reinit"} /\ Holds(t)
  BY DEF RowInv, ResumeCommit, RestoreDrop, RestoreReset, HealRebuild, At, Holds, CreatePcs
<1>1. /\ i \in Insts /\ status[i] # "none" /\ AtWork(t) /\ ThreadSees(t)
      /\ status \in [Insts -> Statuses] /\ ns \in [Insts -> BOOLEAN]
      /\ k8s \in [Insts -> {"absent", "bare", "pods", "terminating"}]
  BY <1>a, <1>0, HoldsRow
<1>2. CASE ResumeCommit(t) \/ RestoreReset(t) \/ HealRebuild(t)
  <2>1. /\ UNCHANGED <<rowKey, k8s>> /\ Finish(t)
        /\ status' = [status EXCEPT ![i] = "initializing"]
        /\ UNCHANGED ns \/ ns' = [ns EXCEPT ![i] = FALSE]
        /\ UNCHANGED work \/ \E restore, n, rel : Spawn(i, restore, n, rel)
    BY <1>a, <1>2 DEF ResumeCommit, RestoreReset, HealRebuild
  <2>2. RowOnly(i) /\ status'[i] = "initializing"
    BY <1>1, <2>1 DEF RowOnly, ElseSame
  <2>3. Matches(i)' /\ status'[i] \in {"creating", "initializing"}
    BY <2>2 DEF Matches
  <2> QED BY <1>a, <1>0, <2>1, <2>2, <2>3, RowEnds
<1>3. CASE RestoreDrop(t)
  <2>1. /\ UNCHANGED <<rowKey, status, ns, work>> /\ th[t].pc = "drop"
        /\ \/ /\ k8s' = [k8s EXCEPT ![i] = IF th[t].ns THEN "terminating" ELSE @]
              /\ Goto(t, "reset")
           \/ UNCHANGED k8s /\ Finish(t)
    BY <1>a, <1>3 DEF RestoreDrop, At
  <2>2. CASE UNCHANGED k8s /\ Finish(t)
    <3>1. ~Writing(t, th[t].i)
      BY <2>1 DEF Writing
    <3> QED BY <1>1, <2>1, <2>2, <3>1, ThinkEnds
  <2>3. CASE /\ k8s' = [k8s EXCEPT ![i] = IF th[t].ns THEN "terminating" ELSE @]
             /\ Goto(t, "reset")
    <3>1. RowOnly(i) /\ UNCHANGED work /\ "reset" # "idle"
      BY <1>1, <2>1, <2>3 DEF RowOnly, ElseSame
    <3>2. Moves(t, "reset")
      BY <1>0, <2>3, GotoMoves
    <3>3. ThreadSees(t)' /\ Kept(i)'
      BY <1>a, <3>2 DEF ThreadSees, Kept, Writing, Moves
    <3> QED BY <1>a, <1>0, <2>3, <3>1, <3>3, RowGoes
  <2> QED BY <2>1, <2>2, <2>3
<1> QED BY <1>2, <1>3

LEMMA SettleSees ==
    ASSUME RowInv, Base', NEW t \in Threads,
           \/ SubmitCommit(t) \/ SettleTimeout(t) \/ ReclaimSnapshot(t)
           \/ HealthOk(t) \/ HealthFailed(t)
    PROVE  RowInv'
<1>a. PICK i : i = th[t].i
  OBVIOUS
<1>0. Base /\ th[t].pc \in {"grade", "settle", "archive", "inspect"} /\ Holds(t)
  BY DEF RowInv, SubmitCommit, SettleTimeout, ReclaimSnapshot, HealthOk, HealthFailed, At, Holds, CreatePcs
<1>1. /\ i \in Insts /\ status[i] # "none" /\ AtWork(t) /\ ThreadSees(t) /\ ThreadKnows(t)
      /\ status \in [Insts -> Statuses] /\ ns \in [Insts -> BOOLEAN]
      /\ k8s \in [Insts -> {"absent", "bare", "pods", "terminating"}]
  BY <1>a, <1>0, HoldsRow
<1>2. ~Writing(t, th[t].i)
  BY <1>0 DEF Writing
<1>3. CASE (ReclaimSnapshot(t) \/ HealthOk(t)) /\ Finish(t)
  <2>1. UNCHANGED <<rowKey, status, ns, k8s, work>>
    BY <1>3 DEF ReclaimSnapshot, HealthOk
  <2> QED BY <1>1, <1>2, <1>3, <2>1, ThinkEnds
<1>4. ASSUME NEW pc \in {"archive", "delete"}, Goto(t, pc),
             (pc = "archive" /\ SettleTimeout(t)) \/ (pc = "delete" /\ ReclaimSnapshot(t))
      PROVE  RowInv'
  <2>1. /\ UNCHANGED <<rowKey, status, ns, k8s, work>>
        /\ th[t].pc \in {"settle", "archive"} /\ pc # "idle"
    BY <1>4 DEF SettleTimeout, ReclaimSnapshot, At
  <2>2. Others(t) /\ Moves(t, pc)
    BY <1>0, <1>4, GotoMoves
  <2>3. th[t].op \in ReclaimOps
    BY <1>1, <2>1 DEF ThreadKnows
  <2>4. ThreadSees(t)'
    BY <1>1, <1>4, <2>1, <2>2, <2>3 DEF ThreadSees, Moves, ReclaimOps
  <2> QED BY <1>0, <1>1, <1>2, <2>1, <2>2, <2>4, ThinkGoes DEF Moves
<1>5. CASE SubmitCommit(t)
  <2>1. UNCHANGED <<rowKey, ns, k8s, work>> /\ Finish(t) /\ status' = [status EXCEPT ![i] = "completed"]
    BY <1>a, <1>5 DEF SubmitCommit
  <2>2. RowOnly(i) /\ Matches(i)' /\ UNCHANGED work
    BY <1>1, <2>1 DEF RowOnly, ElseSame, Matches
  <2> QED BY <1>a, <1>0, <2>1, <2>2, RowEnds
<1>6. CASE HealthFailed(t)
  <2>1. /\ UNCHANGED <<rowKey, ns, k8s, work>> /\ status' = [status EXCEPT ![i] = "error"]
        /\ Goto(t, "delete") \/ Finish(t)
        /\ th[t].pc = "inspect"
    BY <1>a, <1>6 DEF HealthFailed, At
  <2>2. RowOnly(i) /\ Matches(i)' /\ UNCHANGED work /\ status'[i] = "error"
    BY <1>1, <2>1 DEF RowOnly, ElseSame, Matches
  <2>3. CASE Finish(t)
    BY <1>a, <1>0, <2>3, <2>2, RowEnds
  <2>4. CASE Goto(t, "delete")
    <3>1. Moves(t, "delete") /\ th[t].op = "heal"
      BY <1>0, <1>1, <2>1, <2>4, GotoMoves DEF ThreadKnows
    <3>2. th'[t].i = i
      BY <1>a, <3>1 DEF Moves
    <3>3. ThreadSees(t)' /\ Kept(i)' /\ "delete" # "idle"
      BY <2>2, <3>1, <3>2 DEF ThreadSees, Moves, Kept
    <3> QED BY <1>a, <1>0, <2>2, <2>4, <3>3, RowGoes
  <2> QED BY <2>1, <2>3, <2>4
<1> QED BY <1>3, <1>4, <1>5, <1>6 DEF SettleTimeout, ReclaimSnapshot, HealthOk

-----------------------------------------------------------------------------
(* A step of a goroutine on its row.                                       *)
LEMMA JobElsewhere ==
    ASSUME RowInv, NEW j \in Jobs, LiveJob(j), NEW i0, i0 = job[j].i, ElseSame(i0), th' = th,
           \A k \in Jobs : k # j => job'[k] = job[k]
    PROVE  /\ \A u \in Threads : ThreadSees(u)'
           /\ \A k \in Jobs : k # j => JobSees(k)'
           /\ \A i \in Insts : i # i0 => Kept(i)'
<1>0. Base /\ Alone /\ Sees
  BY DEF RowInv
<1>1. /\ \A u \in Threads : Holds(u) => th[u].i \in Rows /\ owner[th[u].i] = th[u].s
      /\ \A k \in Jobs : LiveJob(k) => job[k].i \in Rows
      /\ Rows \subseteq Insts
      /\ \A u \in Threads : Holds(u) => AtWork(u)
  BY <1>0, RowFacts DEF Alone, Holds, AtWork
<1>2. ASSUME NEW u \in Threads PROVE ThreadSees(u)'
  <2>1. Holds(u) => th[u].i # i0
    BY <1>0, <1>1, <1>2 DEF Alone
  <2>2. th'[u] = th[u] /\ ThreadSees(u)
    BY <1>0, <1>2 DEF Sees
  <2>3. Holds(u) => /\ status'[th[u].i] = status[th[u].i]
                    /\ ns'[th[u].i] = ns[th[u].i] /\ k8s'[th[u].i] = k8s[th[u].i]
    BY <1>1, <2>1 DEF ElseSame
  <2> QED BY <1>1, <2>2, <2>3, SameSees
<1>3. ASSUME NEW k \in Jobs, k # j PROVE JobSees(k)'
  <2>1. LiveJob(k) => job[k].i # i0 /\ job[k].i \in Insts
    BY <1>0, <1>1, <1>3 DEF Alone
  <2>2. job'[k] = job[k] /\ JobSees(k)
    BY <1>0, <1>3 DEF Sees
  <2> QED BY <1>3, <2>1, <2>2 DEF ElseSame, JobSees, LiveJob
<1>4. ASSUME NEW i \in Insts, i # i0 PROVE Kept(i)'
  <2>1. Kept(i) /\ (Matches(i)' <=> Matches(i))
    BY <1>0, <1>4 DEF Sees, ElseSame, Matches
  <2>2. \A u \in Threads : Writing(u, i) => Writing(u, i)'
    BY DEF Writing
  <2> QED BY <2>1, <2>2 DEF Kept
<1> QED BY <1>2, <1>3, <1>4

(* What each step of a goroutine writes.                                   *)
JobWrites(j, i) ==
    \/ /\ job[j].pc = "record" /\ UNCHANGED <<status, ns, k8s>>
       /\ job'[j].pc = "settle" /\ ~job'[j].ok
    \/ /\ job[j].pc = "record" /\ UNCHANGED <<status, k8s>> /\ ns' = [ns EXCEPT ![i] = TRUE]
       /\ job'[j].pc = "create"
    \/ /\ job[j].pc = "create" /\ UNCHANGED <<status, ns>>
       /\ UNCHANGED k8s \/ k8s' = [k8s EXCEPT ![i] = IF @ = "absent" THEN "bare" ELSE @]
       /\ job'[j].pc = "deploy" \/ (job'[j].pc = "settle" /\ ~job'[j].ok)
    \/ /\ job[j].pc = "deploy" /\ UNCHANGED <<status, ns>>
       /\ \/ k8s' = [k8s EXCEPT ![i] = "pods"] /\ k8s[i] \in {"bare", "pods"}
          \/ UNCHANGED k8s /\ ~job'[j].ok
       /\ job'[j].pc = "settle"
    \/ /\ job[j].pc = "settle" /\ UNCHANGED <<ns, k8s>>
       /\ status' = [status EXCEPT ![i] = IF job[j].ok THEN "running" ELSE "error"]
       /\ job'[j] = NoJob

LEMMA JobStepWrites ==
    ASSUME Base, NEW j \in Jobs, JobStep(j), NEW i, i = job[j].i
    PROVE  /\ UNCHANGED <<rowKey, th>> /\ LiveJob(j)
           /\ \A k \in Jobs : k # j => job'[k] = job[k]
           /\ job'[j].pc = "done" \/ job'[j].i = i
           /\ JobWrites(j, i)
<1>0. job \in [Jobs -> JobRec] /\ job[j] \in JobRec
  BY DEF Base, TypeOK
<1>1. ASSUME NEW pc, JobMoves(j, pc)
      PROVE  (\A k \in Jobs : k # j => job'[k] = job[k]) /\ job'[j].pc = pc /\ job'[j].i = i
  <2>1. job' = [job EXCEPT ![j] = [job[j] EXCEPT !.pc = pc]]
    BY <1>0, <1>1 DEF JobMoves
  <2>2. (\A k \in Jobs : k # j => job'[k] = job[k]) /\ job'[j] = [job[j] EXCEPT !.pc = pc]
    BY <1>0, <2>1
  <2>3. ASSUME NEW r \in JobRec PROVE [r EXCEPT !.pc = pc].pc = pc /\ [r EXCEPT !.pc = pc].i = r.i
    BY DEF JobRec
  <2> QED BY <1>0, <2>2, <2>3
<1>2. ASSUME JobFails(j)
      PROVE  (\A k \in Jobs : k # j => job'[k] = job[k]) /\ job'[j].pc = "settle" /\ ~job'[j].ok /\ job'[j].i = i
  <2>1. job' = [job EXCEPT ![j] = [job[j] EXCEPT !.pc = "settle", !.ok = FALSE]]
    BY <1>0, <1>2 DEF JobFails
  <2>2. (\A k \in Jobs : k # j => job'[k] = job[k]) /\ job'[j] = [job[j] EXCEPT !.pc = "settle", !.ok = FALSE]
    BY <1>0, <2>1
  <2>3. ASSUME NEW r \in JobRec
        PROVE  LET f == [r EXCEPT !.pc = "settle", !.ok = FALSE] IN f.pc = "settle" /\ ~f.ok /\ f.i = r.i
    BY DEF JobRec
  <2> QED BY <1>0, <2>2, <2>3
<1>3. CASE JobRefused(j)
  BY <1>2, <1>3 DEF JobRefused, JobWrites, LiveJob
<1>4. CASE JobRecord(j)
  BY <1>1, <1>4 DEF JobRecord, JobWrites, LiveJob
<1>5. CASE JobCreateNs(j)
  <2>1. /\ UNCHANGED <<rowKey, th, status, ns>> /\ job[j].pc = "create"
        /\ UNCHANGED k8s \/ k8s' = [k8s EXCEPT ![i] = IF @ = "absent" THEN "bare" ELSE @]
        /\ JobMoves(j, "deploy") \/ JobFails(j)
    BY <1>5 DEF JobCreateNs
  <2> QED BY <1>1, <1>2, <2>1 DEF JobWrites, LiveJob
<1>6. CASE JobDeploy(j)
  <2>1. /\ UNCHANGED <<rowKey, th, status, ns>> /\ job[j].pc = "deploy"
        /\ \/ /\ k8s' = [k8s EXCEPT ![i] = "pods"] /\ k8s[i] \in {"bare", "pods"}
              /\ JobMoves(j, "settle") \/ JobFails(j)
           \/ UNCHANGED k8s /\ JobFails(j)
    BY <1>6 DEF JobDeploy
  <2> QED BY <1>1, <1>2, <2>1 DEF JobWrites, LiveJob
<1>7. CASE JobSettle(j)
  <2>1. /\ UNCHANGED <<rowKey, th, ns, k8s>> /\ job[j].pc = "settle"
        /\ status' = [status EXCEPT ![i] = IF job[j].ok THEN "running" ELSE "error"]
        /\ job' = [job EXCEPT ![j] = NoJob]
    BY <1>7, ActivateNone DEF JobSettle, Base
  <2>2. (\A k \in Jobs : k # j => job'[k] = job[k]) /\ job'[j] = NoJob /\ NoJob.pc = "done"
    BY <1>0, <2>1 DEF NoJob
  <2> QED BY <2>1, <2>2 DEF JobWrites, LiveJob
<1> QED BY <1>3, <1>4, <1>5, <1>6, <1>7 DEF JobStep

LEMMA JobStepSees ==
    ASSUME RowInv, Base', NEW j \in Jobs, JobStep(j)
    PROVE  RowInv'
<1>a. PICK i : i = job[j].i
  OBVIOUS
<1>0. Base
  BY DEF RowInv
<1>1. /\ UNCHANGED <<rowKey, th>> /\ LiveJob(j)
      /\ \A k \in Jobs : k # j => job'[k] = job[k]
      /\ job'[j].pc = "done" \/ job'[j].i = i
      /\ JobWrites(j, i)
  BY <1>a, <1>0, JobStepWrites
<1>2. /\ status \in [Insts -> Statuses] /\ ns \in [Insts -> BOOLEAN]
      /\ k8s \in [Insts -> {"absent", "bare", "pods", "terminating"}]
      /\ i \in Rows /\ i \in Insts /\ JobSees(j)
  BY <1>a, <1>0, <1>1, RowFacts DEF RowInv, Alone, Sees
<1>3. Alone'
  BY <1>a, <1>1, AloneJob
<1>4. ElseSame(i) /\ th' = th
  BY <1>1, <1>2 DEF ElseSame, JobWrites
<1>5. /\ \A u \in Threads : ThreadSees(u)'
      /\ \A k \in Jobs : k # j => JobSees(k)'
      /\ \A k \in Insts : k # i => Kept(k)'
  BY <1>a, <1>1, <1>4, JobElsewhere
<1>6. status[i] \in {"creating", "initializing"}
  BY <1>a, <1>1, <1>2 DEF JobSees
<1>7. Inserted'
  <2>1. Rows' = Rows
    BY <1>1 DEF rowKey, Rows
  <2>2. status'[i] # "none"
    BY <1>1, <1>2, <1>6 DEF JobWrites
  <2> QED BY <1>2, <1>4, <2>1, <2>2 DEF ElseSame, Inserted, RowInv, Sees
<1>8. JobSees(j)' /\ Matches(i)'
  <2>1. CASE job[j].pc # "settle"
    <3>1. status'[i] = status[i]
      BY <1>1, <2>1 DEF JobWrites
    <3>2. Matches(i)'
      BY <1>6, <3>1 DEF Matches
    <3>3. job[j].pc # "record" => ns[i] /\ ns'[i]
      BY <1>a, <1>1, <1>2, <2>1 DEF JobSees, JobWrites, LiveJob, Base, TypeOK, JobRec, JobPcs
    <3>4. job'[j].i = i
      BY <1>1, <2>1 DEF JobWrites
    <3>5. job'[j].pc \in {"create", "deploy"} => ns'[i]
      BY <1>1, <1>2, <2>1, <3>3 DEF JobWrites
    <3>6. job'[j].pc = "settle" /\ job'[j].ok => ns'[i] /\ k8s'[i] = "pods"
      BY <1>1, <1>2, <2>1, <3>3 DEF JobWrites
    <3> QED BY <1>6, <3>1, <3>2, <3>4, <3>5, <3>6 DEF JobSees
  <2>2. CASE job[j].pc = "settle"
    <3>1. /\ UNCHANGED <<ns, k8s>> /\ job'[j] = NoJob
          /\ status' = [status EXCEPT ![i] = IF job[j].ok THEN "running" ELSE "error"]
      BY <1>1, <2>2 DEF JobWrites
    <3>2. job[j].ok => ns[i] /\ k8s[i] = "pods"
      BY <1>a, <1>1, <1>2, <2>2 DEF JobSees
    <3>3. Matches(i)'
      BY <1>2, <3>1, <3>2 DEF Matches
    <3>4. ~LiveJob(j)'
      BY <3>1 DEF NoJob, LiveJob
    <3> QED BY <3>3, <3>4 DEF JobSees
  <2> QED BY <2>1, <2>2
<1>9. Kept(i)'
  BY <1>8 DEF Kept
<1> QED BY <1>3, <1>5, <1>7, <1>8, <1>9 DEF RowInv, Sees

(* The cluster and the requests that touch only results and snapshots.     *)
LEMMA EnvSees ==
    ASSUME RowInv, Base',
           \/ \E i \in Insts : ManualGrade(i) \/ TakeSnapshot(i) \/ DropSnapshots(i) \/ Reap(i)
           \/ UNCHANGED vars
    PROVE  RowInv'
<1>0. Base /\ k8s \in [Insts -> {"absent", "bare", "pods", "terminating"}]
  BY DEF RowInv, Base, TypeOK
<1>1. /\ UNCHANGED <<rowKey, status, ns, th, work>>
      /\ \A i \in Insts : k8s'[i] = k8s[i] \/ k8s[i] = "terminating"
  BY <1>0 DEF ManualGrade, TakeSnapshot, DropSnapshots, Reap, vars, rowKey, work
<1>2. UNCHANGED <<rows, owner, status, ns, th, job>> /\ Rows' = Rows
  BY <1>1 DEF rowKey, work, Rows
<1>3. Alone'
  BY <1>2 DEF RowInv, Alone, AtWork, Holds, LiveJob
<1>4. Inserted'
  BY <1>2 DEF RowInv, Sees, Inserted
<1>5. ASSUME NEW t \in Threads PROVE ThreadSees(t)'
  <2>1. CASE ~Holds(t)
    BY <1>2, <2>1 DEF ThreadSees, Holds, CreatePcs
  <2>2. CASE Holds(t)
    <3>1. th[t].i \in Insts /\ ThreadSees(t)
      BY <2>2, HoldsRow
    <3> QED BY <1>1, <1>2, <3>1 DEF ThreadSees
  <2> QED BY <2>1, <2>2
<1>6. ASSUME NEW j \in Jobs PROVE JobSees(j)'
  <2>1. LiveJob(j) => job[j].i \in Insts
    BY <1>0, RowFacts DEF RowInv, Alone
  <2>2. JobSees(j)
    BY DEF RowInv, Sees
  <2> QED BY <1>1, <1>2, <2>1, <2>2 DEF JobSees, LiveJob
<1>7. ASSUME NEW i \in Insts PROVE Kept(i)'
  <2>1. Kept(i)
    BY DEF RowInv, Sees
  <2>2. \A u \in Threads : Writing(u, i)' <=> Writing(u, i)
    BY <1>2 DEF Writing
  <2>3. Matches(i) => Matches(i)'
    BY <1>1, <1>2 DEF Matches
  <2> QED BY <2>1, <2>2, <2>3 DEF Kept
<1> QED BY <1>3, <1>4, <1>5, <1>6, <1>7 DEF RowInv, Sees

LEMMA InitRow == Init => RowInv
<1> SUFFICES ASSUME Init PROVE RowInv
  OBVIOUS
<1>1. Base
  BY InitBase
<1>2. Rows = {} /\ (\A t \in Threads : th[t] = IdleThread) /\ (\A j \in Jobs : job[j] = NoJob)
      /\ (\A i \in Insts : status[i] = "none")
  BY DEF Init, Rows
<1>3. Alone
  BY <1>2 DEF Alone, AtWork, Holds, IdleThread, NoJob, LiveJob
<1>4. Sees
  BY <1>2 DEF Sees, Inserted, ThreadSees, JobSees, Kept, Matches, IdleThread, NoJob, LiveJob
<1> QED BY <1>1, <1>3, <1>4 DEF RowInv

LEMMA NextRow ==
    ASSUME Overlap = FALSE, MaxCrashes = 0
    PROVE  RowInv /\ [Next]_vars => RowInv'
<1> SUFFICES ASSUME RowInv, [Next]_vars PROVE RowInv'
  OBVIOUS
<1>0. Base /\ Base'
  BY NextBase DEF RowInv
<1>1. ASSUME NEW t \in Threads, Request(t) PROVE RowInv'
  BY <1>0, <1>1, StartsSees, CreateSees DEF Request
<1>2. ASSUME NEW t \in Threads, ThreadStep(t) PROVE RowInv'
  BY <1>0, <1>2, CreateSees, InsertSees, RetireSees, PauseSees, RestartSees, SettleSees DEF ThreadStep
<1>3. ASSUME NEW j \in Jobs, JobStep(j) PROVE RowInv'
  BY <1>0, <1>3, JobStepSees
<1>4. ~Crash
  BY <1>0 DEF Crash, Base, TypeOK
<1> QED BY <1>0, <1>1, <1>2, <1>3, <1>4, EnvSees DEF Next

LEMMA RowHolds == RowInv => RowMatchesCluster
<1> SUFFICES ASSUME RowInv, NEW i \in Insts, QuietRow(i) PROVE Matches(i)
  BY DEF RowMatchesCluster, Matches
<1> QED BY QuietMatches DEF QuietRow, Quiet

(* When operations on one student's instances do not overlap and the       *)
(* process does not die, a running row that nothing works on has its pods  *)
(* and its namespace on record, and a paused one the namespace it will     *)
(* resume in, for any number of students, goroutines, rows and jobs.       *)
THEOREM RowsMatchTheirClusters ==
    ASSUME Overlap = FALSE, MaxCrashes = 0
    PROVE  Spec => []RowMatchesCluster
<1>1. RowInv /\ [Next]_vars => RowInv'
  BY NextRow
<1> QED BY <1>1, InitRow, RowHolds, PTL DEF Spec

-----------------------------------------------------------------------------
(* The lifecycle of ExpLifecycle.  What the student is shown of a row is   *)
(* decided by its status and by the one thread that holds it.              *)
Late == {"final", "reinit"}
Plain(s) == IF s \in {"creating", "initializing"} THEN "starting" ELSE s
ShownBy(r, s) ==
    CASE r.pc = "final" /\ r.op \in {"reclaim", "timeout"} -> "expired"
      [] r.pc = "final" /\ r.op = "retain" -> "completed"
      [] r.pc = "reinit" /\ r.op = "heal" -> "error"
      [] OTHER -> Plain(s)

BetweenIn(thr, i, pc, ops) == \E t \in Threads : thr[t].i = i /\ thr[t].pc = pc /\ thr[t].op \in ops
PhaseIn(thr, st, i) ==
    CASE BetweenIn(thr, i, "final", {"reclaim", "timeout"}) -> "expired"
      [] BetweenIn(thr, i, "final", {"retain"}) -> "completed"
      [] BetweenIn(thr, i, "reinit", {"heal"}) -> "error"
      [] st[i] \in {"creating", "initializing"} -> "starting"
      [] OTHER -> st[i]

LEMMA PhaseNow == \A i \in Insts : Phase(i) = PhaseIn(th, status, i)
BY DEF Phase, PhaseIn, Between, BetweenIn, At

LEMMA PhaseThen == \A i \in Insts : Phase(i)' = PhaseIn(th', status', i)
BY DEF Phase, PhaseIn, Between, BetweenIn, At

LEMMA PhaseHeld ==
    ASSUME NEW thr, NEW st, NEW i, NEW t \in Threads,
           \A u \in Threads : thr[u].pc \in Late /\ thr[u].i = i => u = t,
           thr[t].pc \in Late => thr[t].i = i /\ st[i] \notin {"creating", "initializing"}
    PROVE  PhaseIn(thr, st, i) = ShownBy(thr[t], st[i])
<1>1. ASSUME NEW pc \in Late, NEW ops
      PROVE  BetweenIn(thr, i, pc, ops) <=> thr[t].pc = pc /\ thr[t].op \in ops
  BY DEF BetweenIn
<1>2. /\ BetweenIn(thr, i, "final", {"reclaim", "timeout"}) <=> thr[t].pc = "final" /\ thr[t].op \in {"reclaim", "timeout"}
      /\ BetweenIn(thr, i, "final", {"retain"}) <=> thr[t].pc = "final" /\ thr[t].op \in {"retain"}
      /\ BetweenIn(thr, i, "reinit", {"heal"}) <=> thr[t].pc = "reinit" /\ thr[t].op \in {"heal"}
  BY <1>1 DEF Late
<1>3. CASE thr[t].pc = "final" /\ thr[t].op \in {"reclaim", "timeout"}
  <2>1. ShownBy(thr[t], st[i]) = "expired"
    BY <1>3 DEF ShownBy
  <2>2. PhaseIn(thr, st, i) = "expired"
    BY <1>2, <1>3 DEF PhaseIn, Late
  <2> QED BY <2>1, <2>2
<1>4. CASE thr[t].pc = "final" /\ thr[t].op = "retain"
  <2>1. ShownBy(thr[t], st[i]) = "completed"
    BY <1>4 DEF ShownBy
  <2>2. PhaseIn(thr, st, i) = "completed"
    BY <1>2, <1>4 DEF PhaseIn, Late
  <2> QED BY <2>1, <2>2
<1>5. CASE thr[t].pc = "reinit" /\ thr[t].op = "heal"
  <2>1. ShownBy(thr[t], st[i]) = "error"
    BY <1>5 DEF ShownBy
  <2>2. PhaseIn(thr, st, i) = "error"
    BY <1>2, <1>5 DEF PhaseIn, Late
  <2> QED BY <2>1, <2>2
<1>6. CASE /\ ~(thr[t].pc = "final" /\ thr[t].op \in {"reclaim", "timeout"})
           /\ ~(thr[t].pc = "final" /\ thr[t].op = "retain")
           /\ ~(thr[t].pc = "reinit" /\ thr[t].op = "heal")
  <2>1. /\ ~BetweenIn(thr, i, "final", {"reclaim", "timeout"})
        /\ ~BetweenIn(thr, i, "final", {"retain"})
        /\ ~BetweenIn(thr, i, "reinit", {"heal"})
    BY <1>2, <1>6
  <2>2. PhaseIn(thr, st, i) = Plain(st[i])
    BY <2>1 DEF PhaseIn, Plain
  <2> QED BY <1>6, <2>2 DEF ShownBy
<1> QED BY <1>3, <1>4, <1>5, <1>6

LEMMA PhaseSame ==
    ASSUME NEW thr, NEW thr2, NEW st, NEW st2, NEW i,
           \A u \in Threads : thr2[u] # thr[u] =>
              /\ ~(thr[u].pc \in Late /\ thr[u].i = i)
              /\ ~(thr2[u].pc \in Late /\ thr2[u].i = i),
           st2[i] = st[i]
    PROVE  PhaseIn(thr2, st2, i) = PhaseIn(thr, st, i)
<1>1. ASSUME NEW pc \in Late, NEW ops
      PROVE  BetweenIn(thr2, i, pc, ops) <=> BetweenIn(thr, i, pc, ops)
  BY DEF BetweenIn
<1>2. /\ BetweenIn(thr2, i, "final", {"reclaim", "timeout"}) <=> BetweenIn(thr, i, "final", {"reclaim", "timeout"})
      /\ BetweenIn(thr2, i, "final", {"retain"}) <=> BetweenIn(thr, i, "final", {"retain"})
      /\ BetweenIn(thr2, i, "reinit", {"heal"}) <=> BetweenIn(thr, i, "reinit", {"heal"})
  BY <1>1 DEF Late
<1> QED BY <1>2 DEF PhaseIn

(* What one instance may do in one step of ExpLifecycle, or in none.       *)
Allowed(p, u, q, v) ==
    \/ q = p /\ v = u
    \/ q = p /\ p = "starting" /\ ~u /\ v
    \/ q = p /\ u /\ ~v
    \/ /\ v = u
       /\ \/ p = "none" /\ q \in {"starting", "queued"}
          \/ p = "starting" /\ q = "running" /\ u
          \/ p \in {"starting", "running"} /\ q = "error"
          \/ p = "running" /\ q \in {"paused", "completed"}
          \/ p \in {"starting", "running", "paused", "completed"} /\ q = "expired"
          \/ p \in Lifecycle!Phases \ {"none"} /\ q \in {"destroyed", "starting"}

LEMMA LifecycleStep ==
    ASSUME NEW i0,
           \A i \in Insts : i # i0 => Phase(i)' = Phase(i) /\ (k8s'[i] = "pods") = (k8s[i] = "pods"),
           i0 \in Insts => Allowed(Phase(i0), k8s[i0] = "pods", Phase(i0)', k8s'[i0] = "pods")
    PROVE  [Lifecycle!Next]_Lifecycle!vars
<1> DEFINE P == [i \in Insts |-> Phase(i)]
           Q == [i \in Insts |-> Phase(i)']
           U == [i \in Insts |-> k8s[i] = "pods"]
           V == [i \in Insts |-> k8s'[i] = "pods"]
           Acts(i) == \/ Lifecycle!Insert(i) \/ Lifecycle!Start(i) \/ Lifecycle!Fail(i)
                      \/ Lifecycle!Pause(i) \/ Lifecycle!Submit(i) \/ Lifecycle!Expire(i)
                      \/ Lifecycle!Destroy(i) \/ Lifecycle!Rebuild(i)
                      \/ Lifecycle!Deploy(i) \/ Lifecycle!TearDown(i)
           Moved == Acts(i0)
<1>1. CASE P = Q /\ U = V
  BY <1>1 DEF Lifecycle!vars
<1>2. ASSUME ~(P = Q /\ U = V)
      PROVE  i0 \in Insts /\ <<Q[i0], V[i0]>> # <<P[i0], U[i0]>> /\ Moved
  <2>1. i0 \in Insts /\ <<Q[i0], V[i0]>> # <<P[i0], U[i0]>>
    BY <1>2
  <2>2. Q = [P EXCEPT ![i0] = Phase(i0)'] /\ V = [U EXCEPT ![i0] = (k8s'[i0] = "pods")]
    BY <2>1
  <2>3. V[i0] = U[i0] => V = U
    BY <2>1
  <2>4. Q[i0] = P[i0] => Q = P
    BY <2>1
  <2>5. Allowed(P[i0], U[i0], Q[i0], V[i0])
    BY <2>1
  <2>6. ASSUME NEW p, NEW q, p = P[i0], q = Q[i0], V = U
        PROVE  \A from : p \in from => Lifecycle!Move(i0, from, q)
    BY <2>1, <2>2, <2>6 DEF Lifecycle!Move
  <2>7. ASSUME V[i0] = U[i0] PROVE Moved
    <3>1. V = U
      BY <2>3, <2>7
    <3>2. \A from : P[i0] \in from => Lifecycle!Move(i0, from, Q[i0])
      BY <2>6, <3>1
    <3>3. CASE P[i0] = "none" /\ Q[i0] \in {"starting", "queued"}
      BY <3>2, <3>3 DEF Lifecycle!Insert
    <3>4. CASE P[i0] = "starting" /\ Q[i0] = "running" /\ U[i0]
      BY <2>1, <3>2, <3>4 DEF Lifecycle!Start
    <3>5. CASE P[i0] \in {"starting", "running"} /\ Q[i0] = "error"
      BY <3>2, <3>5 DEF Lifecycle!Fail
    <3>6. CASE P[i0] = "running" /\ Q[i0] \in {"paused", "completed"}
      BY <3>2, <3>6 DEF Lifecycle!Pause, Lifecycle!Submit
    <3>7. CASE P[i0] \in {"starting", "running", "paused", "completed"} /\ Q[i0] = "expired"
      BY <3>2, <3>7 DEF Lifecycle!Expire
    <3>8. CASE P[i0] \in Lifecycle!Phases \ {"none"} /\ Q[i0] \in {"destroyed", "starting"}
      BY <3>2, <3>8 DEF Lifecycle!Destroy, Lifecycle!Rebuild
    <3>9. Moved
      BY <2>1, <2>5, <2>7, <3>3, <3>4, <3>5, <3>6, <3>7, <3>8 DEF Allowed
    <3> QED BY <3>9
  <2>8. ASSUME V[i0] # U[i0] PROVE Moved
    <3>1. Q = P
      BY <2>4, <2>5, <2>8 DEF Allowed
    <3>2. CASE P[i0] = "starting" /\ ~U[i0] /\ V[i0]
      <4>1. V = [U EXCEPT ![i0] = TRUE]
        BY <2>1, <2>2, <3>2
      <4> QED BY <2>1, <3>1, <3>2, <4>1 DEF Lifecycle!Deploy
    <3>3. CASE U[i0] /\ ~V[i0]
      <4>1. V = [U EXCEPT ![i0] = FALSE]
        BY <2>1, <2>2, <3>3
      <4> QED BY <2>1, <3>1, <3>3, <4>1 DEF Lifecycle!TearDown
    <3> QED BY <2>5, <2>8, <3>2, <3>3 DEF Allowed
  <2> QED BY <2>1, <2>7, <2>8
<1>3. CASE ~(P = Q /\ U = V)
  <2>1. \E i \in Insts : <<Q[i], V[i]>> # <<P[i], U[i]>> /\ Acts(i)
    BY <1>2, <1>3
  <2> QED BY <2>1 DEF Lifecycle!Next
<1> QED BY <1>1, <1>3

(* Steps that touch one row at most.                                       *)
Quietly(t, i0) ==
    /\ Others(t)
    /\ th[t].pc \in Late => th[t].i = i0
    /\ th'[t].pc \in Late => th'[t].i = i0

LEMMA PhaseElsewhere ==
    ASSUME NEW t \in Threads, NEW i0, Quietly(t, i0), ElseSame(i0)
    PROVE  \A i \in Insts : i # i0 => Phase(i)' = Phase(i) /\ (k8s'[i] = "pods") = (k8s[i] = "pods")
<1> SUFFICES ASSUME NEW i \in Insts, i # i0
             PROVE  Phase(i)' = Phase(i) /\ (k8s'[i] = "pods") = (k8s[i] = "pods")
  OBVIOUS
<1>1. \A u \in Threads : th'[u] # th[u] => ~(th[u].pc \in Late /\ th[u].i = i) /\ ~(th'[u].pc \in Late /\ th'[u].i = i)
  BY DEF Quietly, Others
<1>2. status'[i] = status[i] /\ k8s'[i] = k8s[i]
  BY DEF ElseSame
<1>3. PhaseIn(th', status', i) = PhaseIn(th, status, i)
  BY <1>1, <1>2, PhaseSame
<1> QED BY <1>2, <1>3, PhaseNow, PhaseThen

(* Nothing is shown of a row but its status when no thread holds it.       *)
LEMMA PhaseFree ==
    ASSUME NEW thr, NEW st, NEW i, \A u \in Threads : ~(thr[u].pc \in Late /\ thr[u].i = i)
    PROVE  PhaseIn(thr, st, i) = Plain(st[i])
<1>1. /\ ~BetweenIn(thr, i, "final", {"reclaim", "timeout"})
      /\ ~BetweenIn(thr, i, "final", {"retain"})
      /\ ~BetweenIn(thr, i, "reinit", {"heal"})
  BY DEF BetweenIn, Late
<1> QED BY <1>1 DEF PhaseIn, Plain

LEMMA PhaseHeldNow ==
    ASSUME NEW t \in Threads, NEW i,
           \A u \in Threads : th[u].pc \in Late /\ th[u].i = i => u = t,
           th[t].pc \in Late => th[t].i = i /\ status[i] \notin {"creating", "initializing"}
    PROVE  PhaseIn(th, status, i) = ShownBy(th[t], status[i])
BY PhaseHeld

(* What the holder of a row shows of it, before and after its step.        *)
LEMMA PhaseAt ==
    ASSUME RowInv, NEW t \in Threads, Holds(t), NEW i, i = th[t].i, Others(t),
           th'[t].pc \in Late => th'[t].i = i /\ status'[i] = "destroyed"
    PROVE  /\ Phase(i) = ShownBy(th[t], status[i])
           /\ Phase(i)' = ShownBy(th'[t], status'[i])
<1>0. i \in Insts /\ owner[i] = th[t].s /\ ThreadSees(t) /\ AtWork(t)
  BY HoldsRow
<1>1. ASSUME NEW u \in Threads, th[u].pc \in Late, th[u].i = i PROVE u = t
  <2>1. Holds(u)
    BY <1>1 DEF Late, Holds, CreatePcs
  <2>2. AtWork(u) /\ th[u].s = th[t].s
    BY <1>0, <1>1, <2>1, HoldsRow
  <2> QED BY <1>0, <2>2 DEF RowInv, Alone
<1>2. \A u \in Threads : th'[u].pc \in Late /\ th'[u].i = i => u = t
  BY <1>1 DEF Others
<1>3. th[t].pc \in Late => th[t].i = i /\ status[i] \notin {"creating", "initializing"}
  BY <1>0 DEF ThreadSees, Late
<1>4. th'[t].pc \in Late => th'[t].i = i /\ status'[i] \notin {"creating", "initializing"}
  OBVIOUS
<1>5. PhaseIn(th, status, i) = ShownBy(th[t], status[i])
  <2>1. \A u \in Threads : th[u].pc \in Late /\ th[u].i = i => u = t
    BY <1>1
  <2> QED BY <2>1, <1>3, PhaseHeldNow
<1>6. PhaseIn(th', status', i) = ShownBy(th'[t], status'[i])
  BY <1>2, <1>4, PhaseHeld
<1> QED BY <1>0, <1>5, <1>6, PhaseNow, PhaseThen

LEMMA HolderMoves ==
    ASSUME RowInv, NEW t \in Threads, Holds(t), NEW i, i = th[t].i, Others(t), ElseSame(i),
           th'[t].pc \in Late => th'[t].i = i /\ status'[i] = "destroyed",
           Allowed(ShownBy(th[t], status[i]), k8s[i] = "pods",
                   ShownBy(th'[t], status'[i]), k8s'[i] = "pods")
    PROVE  [Lifecycle!Next]_Lifecycle!vars
<1>1. Quietly(t, i)
  BY DEF Quietly
<1>2. \A k \in Insts : k # i => Phase(k)' = Phase(k) /\ (k8s'[k] = "pods") = (k8s[k] = "pods")
  BY <1>1, PhaseElsewhere
<1>3. Allowed(Phase(i), k8s[i] = "pods", Phase(i)', k8s'[i] = "pods")
  BY PhaseAt
<1> QED BY <1>2, <1>3, LifecycleStep

(* A step that changes neither rows nor namespaces, away from "final".     *)
LEMMA ThinkingStutters ==
    ASSUME NEW t \in Threads, Others(t), th[t].pc \notin Late, th'[t].pc \notin Late,
           UNCHANGED <<status, ns, k8s>>
    PROVE  [Lifecycle!Next]_Lifecycle!vars
<1>1. PICK i0 : i0 \notin Insts
  <2>1. MaxRows + 1 \notin Insts
    BY BoundsAssumption DEF Insts
  <2> QED BY <2>1
<1>2. Quietly(t, i0) /\ ElseSame(i0)
  BY DEF Quietly, ElseSame
<1>3. \A i \in Insts : i # i0 => Phase(i)' = Phase(i) /\ (k8s'[i] = "pods") = (k8s[i] = "pods")
  BY <1>2, PhaseElsewhere
<1> QED BY <1>1, <1>3, LifecycleStep

LEMMA StatusPhase ==
    ASSUME NEW s \in Statuses, s # "none"
    PROVE  Plain(s) \in Lifecycle!Phases \ {"none"}
BY DEF Statuses, Plain, Lifecycle!Phases

LEMMA StartsRefine ==
    ASSUME RowInv, NEW t \in Threads,
           \/ \E i \in Insts :
                \/ StartDestroy(t, i) \/ StartRestart(t, i)
                \/ StartPause(t, i) \/ StartResume(t, i)
                \/ StartRestore(t, i) \/ StartSubmit(t, i)
                \/ StartReclaim(t, i) \/ StartHealth(t, i)
           \/ \E s \in Students : StartCreate(t, s)
           \/ FindReusable(t) \/ CheckLimits(t)
    PROVE  [Lifecycle!Next]_Lifecycle!vars
<1>0. Base /\ th \in [Threads -> ThreadRec]
  BY DEF RowInv, Base, TypeOK
<1>1. ASSUME NEW i \in Insts,
             \/ StartDestroy(t, i) \/ StartRestart(t, i)
             \/ StartPause(t, i) \/ StartResume(t, i)
             \/ StartRestore(t, i) \/ StartSubmit(t, i)
             \/ StartReclaim(t, i) \/ StartHealth(t, i)
      PROVE  [Lifecycle!Next]_Lifecycle!vars
  <2>1. UNCHANGED <<status, ns, k8s>> /\ ~Working(t)
    BY <1>1 DEF MayStart, StartDestroy, StartRestart, StartPause, StartResume, StartRestore,
                StartSubmit, StartReclaim, StartHealth
  <2>2. PICK op, pc : Begin(t, op, pc, i) /\ pc \notin Late
    BY <1>1 DEF StartDestroy, StartRestart, StartPause, StartResume, StartRestore,
                StartSubmit, StartReclaim, StartHealth, Late
  <2>3. Others(t) /\ th'[t].pc = pc
    BY <1>0, <2>2, BeginMoves
  <2>4. th[t].pc \notin Late
    BY <1>0, <2>1 DEF Base, ThreadKnows, Working, Late
  <2> QED BY <2>1, <2>2, <2>3, <2>4, ThinkingStutters
<1>2. ASSUME NEW s \in Students, StartCreate(t, s) PROVE [Lifecycle!Next]_Lifecycle!vars
  <2>1. UNCHANGED <<status, ns, k8s>> /\ ~Working(t)
    BY <1>2 DEF MayStart, StartCreate
  <2>2. Others(t) /\ th'[t].pc = "find"
    BY <1>0, <1>2 DEF StartCreate, IdleThread, Others
  <2>3. th[t].pc \notin Late /\ th'[t].pc \notin Late
    BY <1>0, <2>1, <2>2 DEF Base, ThreadKnows, Working, Late
  <2> QED BY <2>1, <2>2, <2>3, ThinkingStutters
<1>3. CASE FindReusable(t) \/ CheckLimits(t)
  <2>1. UNCHANGED <<status, ns, k8s>> /\ th[t].pc \notin Late
    BY <1>3 DEF FindReusable, CheckLimits, At, Late
  <2>2. CASE Finish(t)
    <3>1. Others(t) /\ th'[t].pc \notin Late
      BY <1>0, <2>2, FinishMoves DEF IdleThread, Late
    <3> QED BY <2>1, <3>1, ThinkingStutters
  <2>3. CASE FindReusable(t) /\ Goto(t, "limits")
    <3>1. Others(t) /\ th'[t].pc \notin Late
      BY <1>0, <2>3, GotoMoves DEF Moves, Late
    <3> QED BY <2>1, <3>1, ThinkingStutters
  <2>4. CASE CheckLimits(t) /\ ~Finish(t)
    <3>1. PICK pc \in {"insert", "enqueue"} :
            th' = [th EXCEPT ![t] = [th[t] EXCEPT !.pc = pc, !.n = MaxAttemptNo(th[t].s) + 1]]
      BY <2>4 DEF CheckLimits
    <3>2. Others(t) /\ th[t] \in ThreadRec /\ th'[t] = [th[t] EXCEPT !.pc = pc, !.n = MaxAttemptNo(th[t].s) + 1]
      BY <1>0, <3>1 DEF Others
    <3>3. th'[t].pc = pc
      BY <3>2 DEF ThreadRec
    <3>4. th'[t].pc \notin Late
      BY <3>3 DEF Late
    <3> QED BY <2>1, <3>2, <3>4, ThinkingStutters
  <2> QED BY <1>3, <2>2, <2>3, <2>4 DEF FindReusable
<1> QED BY <1>1, <1>2, <1>3

LEMMA InsertRefines ==
    ASSUME RowInv, NEW t \in Threads,
           \/ \E restore \in BOOLEAN : InsertCreating(t, restore)
           \/ InsertQueued(t)
    PROVE  [Lifecycle!Next]_Lifecycle!vars
<1>a. PICK i : i = rows + 1
  OBVIOUS
<1>0. Base /\ TypeOK
  BY DEF RowInv, Base
<1>1. PICK st \in {"creating", "queued"} : InsertRow(t, st)
  BY DEF InsertCreating, InsertQueued
<1>2. UNCHANGED <<ns, k8s>> /\ ~Holds(t) /\ Finish(t)
  <2>1. At(t, "insert") \/ At(t, "enqueue")
    BY DEF InsertCreating, InsertQueued
  <2> QED BY <1>1, <2>1 DEF InsertCreating, InsertQueued, InsertRow, At, Holds, CreatePcs
<1>3. /\ i \in Insts /\ i \notin Rows /\ status'[i] = st
      /\ \A k \in Insts : k # i => status'[k] = status[k]
  BY <1>a, <1>0, <1>1, BoundsAssumption DEF InsertRow, TypeOK, Insts, Rows
<1>4. Others(t) /\ th'[t] = IdleThread
  BY <1>0, <1>2, FinishMoves
<1>5. th[t].pc \notin Late /\ th'[t].pc \notin Late
  BY <1>2, <1>4 DEF Holds, CreatePcs, IdleThread, Late
<1>6. Quietly(t, i) /\ ElseSame(i)
  BY <1>2, <1>3, <1>4, <1>5 DEF Quietly, ElseSame
<1>7. \A k \in Insts : k # i => Phase(k)' = Phase(k) /\ (k8s'[k] = "pods") = (k8s[k] = "pods")
  BY <1>6, PhaseElsewhere
<1>8. ASSUME NEW u \in Threads PROVE ~(th[u].pc \in Late /\ th[u].i = i) /\ ~(th'[u].pc \in Late /\ th'[u].i = i)
  <2>1. th[u].pc \in Late => th[u].i \in Rows
    BY HoldsRow DEF Late, Holds, CreatePcs
  <2> QED BY <1>3, <1>4, <1>5, <2>1 DEF Others
<1>9. status[i] = "none"
  BY <1>3 DEF RowInv, Sees, Inserted
<1>10. Phase(i) = "none" /\ Phase(i)' \in {"starting", "queued"}
  <2>1. PhaseIn(th, status, i) = Plain(status[i])
    BY <1>8, PhaseFree
  <2>2. PhaseIn(th', status', i) = Plain(status'[i])
    BY <1>8, PhaseFree
  <2> QED BY <1>3, <1>9, <2>1, <2>2, PhaseNow, PhaseThen DEF Plain
<1>11. Allowed(Phase(i), k8s[i] = "pods", Phase(i)', k8s'[i] = "pods")
  BY <1>2, <1>10 DEF Allowed
<1> QED BY <1>7, <1>11, LifecycleStep

LEMMA RetireRefines ==
    ASSUME RowInv, NEW t \in Threads,
           DeleteNs(t) \/ DeleteNsFails(t) \/ MarkDestroyed(t) \/ ReclaimFinal(t)
    PROVE  [Lifecycle!Next]_Lifecycle!vars
<1>a. PICK i : i = th[t].i
  OBVIOUS
<1>0. Base /\ th[t].pc \in {"delete", "mark", "final"} /\ Holds(t)
  BY DEF RowInv, DeleteNs, DeleteNsFails, MarkDestroyed, ReclaimFinal, At, Holds, CreatePcs
<1>1. /\ i \in Insts /\ status[i] # "none" /\ AtWork(t) /\ ThreadSees(t) /\ ThreadKnows(t)
      /\ status \in [Insts -> Statuses] /\ ns \in [Insts -> BOOLEAN]
      /\ k8s \in [Insts -> {"absent", "bare", "pods", "terminating"}]
  BY <1>a, <1>0, HoldsRow
<1>2. CASE DeleteNs(t)
  <2>1. /\ UNCHANGED <<status, ns>> /\ Goto(t, "mark") /\ th[t].pc = "delete"
        /\ k8s' = [k8s EXCEPT ![i] = IF th[t].ns THEN "terminating" ELSE @]
    BY <1>a, <1>2 DEF DeleteNs, At
  <2>2. Others(t) /\ Moves(t, "mark")
    BY <1>0, <2>1, GotoMoves
  <2>3. ElseSame(i) /\ th'[t].pc \notin Late
    BY <1>1, <2>1, <2>2 DEF ElseSame, Moves, Late
  <2>4. ShownBy(th[t], status[i]) = Plain(status[i]) /\ ShownBy(th'[t], status'[i]) = Plain(status[i])
    BY <2>1, <2>2 DEF ShownBy, Moves
  <2>5. (k8s'[i] = "pods") = (k8s[i] = "pods") \/ (k8s[i] = "pods" /\ ~(k8s'[i] = "pods"))
    BY <1>1, <2>1
  <2>6. Allowed(ShownBy(th[t], status[i]), k8s[i] = "pods", ShownBy(th'[t], status'[i]), k8s'[i] = "pods")
    BY <2>4, <2>5 DEF Allowed
  <2>7. th'[t].pc \in Late => th'[t].i = i /\ status'[i] = "destroyed"
    BY <2>3
  <2> QED BY <1>a, <1>0, <2>2, <2>3, <2>6, <2>7, HolderMoves
<1>3. CASE DeleteNsFails(t)
  <2>1. /\ UNCHANGED <<status, ns, k8s>> /\ th[t].pc \notin Late
        /\ Goto(t, "find") \/ Finish(t)
    BY <1>3 DEF DeleteNsFails, At, Late
  <2>2. Others(t) /\ th'[t].pc \notin Late
    BY <1>0, <2>1, GotoMoves, FinishMoves DEF Moves, IdleThread, Late
  <2> QED BY <2>1, <2>2, ThinkingStutters
<1>4. CASE MarkDestroyed(t)
  <2>1. /\ UNCHANGED k8s /\ th[t].pc = "mark"
        /\ ns' = [ns EXCEPT ![i] = FALSE]
        /\ Activate([status EXCEPT ![i] = "destroyed"], job)
        /\ \/ th[t].op = "destroy" /\ Finish(t)
           \/ th[t].op = "restart" /\ Goto(t, "find")
           \/ th[t].op = "heal" /\ Goto(t, "reinit")
           \/ th[t].op \in ReclaimOps /\ Goto(t, "final")
    BY <1>a, <1>1, <1>4 DEF MarkDestroyed, At, ThreadKnows, ReclaimOps
  <2>2. status' = [status EXCEPT ![i] = "destroyed"]
    BY <1>0, <2>1, ActivateNone DEF Base
  <2>3. Others(t)
    BY <1>0, <2>1, GotoMoves, FinishMoves
  <2>4. ElseSame(i) /\ status'[i] = "destroyed"
    BY <1>1, <2>1, <2>2 DEF ElseSame
  <2>5. ShownBy(th[t], status[i]) = Plain(status[i])
    BY <2>1 DEF ShownBy
  <2>6. Plain(status[i]) \in Lifecycle!Phases \ {"none"}
    BY <1>1, StatusPhase
  <2>7. CASE (th[t].op = "destroy" /\ Finish(t)) \/ (th[t].op = "restart" /\ Goto(t, "find"))
    <3>1. th'[t].pc \in {"idle", "find"}
      BY <1>0, <2>7, GotoMoves, FinishMoves DEF Moves, IdleThread
    <3>2. ShownBy(th'[t], status'[i]) = "destroyed"
      BY <2>4, <3>1 DEF ShownBy, Plain
    <3>3. Allowed(ShownBy(th[t], status[i]), k8s[i] = "pods", ShownBy(th'[t], status'[i]), k8s'[i] = "pods")
      BY <2>1, <2>5, <2>6, <3>2 DEF Allowed
    <3>4. th'[t].pc \in Late => th'[t].i = i /\ status'[i] = "destroyed"
      BY <3>1 DEF Late
    <3> QED BY <1>a, <1>0, <2>3, <2>4, <3>3, <3>4, HolderMoves
  <2>8. CASE th[t].op = "heal" /\ Goto(t, "reinit")
    <3>1. Moves(t, "reinit")
      BY <1>0, <2>8, GotoMoves
    <3>2. status[i] = "error"
      BY <1>a, <1>1, <2>1, <2>8 DEF ThreadSees
    <3>3. ShownBy(th[t], status[i]) = "error" /\ ShownBy(th'[t], status'[i]) = "error"
      BY <2>5, <2>8, <3>1, <3>2 DEF ShownBy, Plain, Moves
    <3>4. Allowed(ShownBy(th[t], status[i]), k8s[i] = "pods", ShownBy(th'[t], status'[i]), k8s'[i] = "pods")
      BY <2>1, <3>3 DEF Allowed
    <3>5. th'[t].pc \in Late => th'[t].i = i /\ status'[i] = "destroyed"
      BY <1>a, <2>4, <3>1 DEF Moves
    <3> QED BY <1>a, <1>0, <2>3, <2>4, <3>4, <3>5, HolderMoves
  <2>9. CASE th[t].op \in ReclaimOps /\ Goto(t, "final")
    <3>1. Moves(t, "final")
      BY <1>0, <2>9, GotoMoves
    <3>3. CASE th[t].op \in {"reclaim", "timeout"}
      <4>1. status[i] \in {"initializing", "running", "paused", "completed"}
        BY <1>a, <1>1, <2>1, <3>3 DEF ThreadSees
      <4>2. ShownBy(th[t], status[i]) \in {"starting", "running", "paused", "completed"}
        BY <2>5, <4>1 DEF Plain
      <4>3. ShownBy(th'[t], status'[i]) = "expired"
        BY <3>1, <3>3 DEF ShownBy, Moves
      <4>4. Allowed(ShownBy(th[t], status[i]), k8s[i] = "pods", ShownBy(th'[t], status'[i]), k8s'[i] = "pods")
        BY <2>1, <4>2, <4>3 DEF Allowed
      <4>5. th'[t].pc \in Late => th'[t].i = i /\ status'[i] = "destroyed"
        BY <1>a, <2>4, <3>1 DEF Moves
      <4> QED BY <1>a, <1>0, <2>3, <2>4, <4>4, <4>5, HolderMoves
    <3>4. CASE th[t].op = "retain"
      <4>1. status[i] = "completed"
        BY <1>a, <1>1, <2>1, <3>4 DEF ThreadSees
      <4>2. ShownBy(th[t], status[i]) = "completed"
        BY <2>5, <4>1 DEF Plain
      <4>3. ShownBy(th'[t], status'[i]) = "completed"
        BY <3>1, <3>4 DEF ShownBy, Moves
      <4>4. Allowed(ShownBy(th[t], status[i]), k8s[i] = "pods", ShownBy(th'[t], status'[i]), k8s'[i] = "pods")
        BY <2>1, <4>2, <4>3 DEF Allowed
      <4>5. th'[t].pc \in Late => th'[t].i = i /\ status'[i] = "destroyed"
        BY <1>a, <2>4, <3>1 DEF Moves
      <4> QED BY <1>a, <1>0, <2>3, <2>4, <4>4, <4>5, HolderMoves
    <3> QED BY <2>9, <3>3, <3>4 DEF ReclaimOps
  <2> QED BY <2>1, <2>7, <2>8, <2>9
<1>5. CASE ReclaimFinal(t)
  <2>1. /\ UNCHANGED <<ns, k8s>> /\ th[t].pc = "final" /\ Finish(t)
        /\ status' = [status EXCEPT ![i] = IF th[t].op = "retain" THEN "completed" ELSE "expired"]
        /\ th[t].op \in ReclaimOps
    BY <1>a, <1>1, <1>5 DEF ReclaimFinal, At, ThreadKnows
  <2>2. Others(t) /\ th'[t] = IdleThread
    BY <1>0, <2>1, FinishMoves
  <2>3. ElseSame(i) /\ status'[i] = (IF th[t].op = "retain" THEN "completed" ELSE "expired")
    BY <1>1, <2>1 DEF ElseSame
  <2>4. ShownBy(th'[t], status'[i]) = status'[i]
    BY <2>2, <2>3 DEF ShownBy, IdleThread, Plain
  <2>5. ShownBy(th[t], status[i]) = status'[i]
    <3>1. CASE th[t].op = "retain"
      BY <2>1, <2>3, <3>1 DEF ShownBy
    <3>2. CASE th[t].op \in {"reclaim", "timeout"}
      BY <2>1, <2>3, <3>2 DEF ShownBy
    <3> QED BY <2>1, <3>1, <3>2 DEF ReclaimOps
  <2>6. Allowed(ShownBy(th[t], status[i]), k8s[i] = "pods", ShownBy(th'[t], status'[i]), k8s'[i] = "pods")
    BY <2>1, <2>4, <2>5 DEF Allowed
  <2>7. th'[t].pc \in Late => th'[t].i = i /\ status'[i] = "destroyed"
    BY <2>2 DEF IdleThread, Late
  <2> QED BY <1>a, <1>0, <2>2, <2>3, <2>6, <2>7, HolderMoves
<1> QED BY <1>2, <1>3, <1>4, <1>5

LEMMA PauseRefines ==
    ASSUME RowInv, NEW t \in Threads,
           PauseSnapshot(t) \/ PauseStop(t) \/ PauseCommit(t) \/ RestoreDrop(t)
    PROVE  [Lifecycle!Next]_Lifecycle!vars
<1>a. PICK i : i = th[t].i
  OBVIOUS
<1>0. Base /\ th[t].pc \in {"snapshot", "stop", "paused", "drop"} /\ Holds(t)
  BY DEF RowInv, PauseSnapshot, PauseStop, PauseCommit, RestoreDrop, At, Holds, CreatePcs
<1>1. /\ i \in Insts /\ ThreadSees(t) /\ status \in [Insts -> Statuses] /\ ns \in [Insts -> BOOLEAN]
      /\ k8s \in [Insts -> {"absent", "bare", "pods", "terminating"}]
  BY <1>a, <1>0, HoldsRow
<1>2. ShownBy(th[t], status[i]) = Plain(status[i]) /\ th[t].pc \notin Late
  BY <1>0 DEF ShownBy, Late
<1>3. CASE PauseCommit(t)
  <2>1. /\ UNCHANGED <<ns, k8s>> /\ th[t].pc = "paused" /\ Finish(t)
        /\ Activate([status EXCEPT ![i] = "paused"], job)
    BY <1>a, <1>3 DEF PauseCommit, At
  <2>2. status' = [status EXCEPT ![i] = "paused"]
    BY <1>0, <2>1, ActivateNone DEF Base
  <2>3. Others(t) /\ th'[t] = IdleThread
    BY <1>0, <2>1, FinishMoves
  <2>4. ElseSame(i) /\ status'[i] = "paused" /\ status[i] = "running"
    BY <1>a, <1>1, <2>1, <2>2 DEF ElseSame, ThreadSees
  <2>5. ShownBy(th[t], status[i]) = "running" /\ ShownBy(th'[t], status'[i]) = "paused"
    BY <1>2, <2>3, <2>4 DEF ShownBy, IdleThread, Plain
  <2>6. Allowed(ShownBy(th[t], status[i]), k8s[i] = "pods", ShownBy(th'[t], status'[i]), k8s'[i] = "pods")
    BY <2>1, <2>5 DEF Allowed
  <2>7. th'[t].pc \in Late => th'[t].i = i /\ status'[i] = "destroyed"
    BY <2>3 DEF IdleThread, Late
  <2> QED BY <1>a, <1>0, <2>3, <2>4, <2>6, <2>7, HolderMoves
<1>4. CASE PauseSnapshot(t) \/ PauseStop(t) \/ RestoreDrop(t)
  <2>1. /\ UNCHANGED <<status, ns>>
        /\ Finish(t) \/ \E pc \in {"stop", "paused", "reset"} : Goto(t, pc)
        /\ \/ UNCHANGED k8s
           \/ \E v \in {"bare", "terminating"} :
                k8s' = k8s \/ k8s' = [k8s EXCEPT ![i] = v]
    <3>1. CASE PauseSnapshot(t)
      BY <3>1 DEF PauseSnapshot
    <3>2. CASE PauseStop(t)
      <4>1. k8s' = k8s \/ k8s' = [k8s EXCEPT ![i] = "bare"]
        BY <1>a, <1>1, <3>2 DEF PauseStop
      <4> QED BY <3>2, <4>1 DEF PauseStop
    <3>3. CASE RestoreDrop(t)
      <4>1. k8s' = k8s \/ k8s' = [k8s EXCEPT ![i] = "terminating"]
        BY <1>a, <1>1, <3>3 DEF RestoreDrop
      <4> QED BY <3>3, <4>1 DEF RestoreDrop
    <3> QED BY <1>4, <3>1, <3>2, <3>3
  <2>2. Others(t) /\ th'[t].pc \in {"idle", "stop", "paused", "reset"}
    BY <1>0, <2>1, GotoMoves, FinishMoves DEF Moves, IdleThread
  <2>3. ElseSame(i) /\ status'[i] = status[i]
    BY <1>1, <2>1 DEF ElseSame
  <2>4. ShownBy(th'[t], status'[i]) = Plain(status[i])
    BY <2>2, <2>3 DEF ShownBy
  <2>5. (k8s'[i] = "pods") = (k8s[i] = "pods") \/ (k8s[i] = "pods" /\ ~(k8s'[i] = "pods"))
    BY <1>1, <2>1
  <2>6. Allowed(ShownBy(th[t], status[i]), k8s[i] = "pods", ShownBy(th'[t], status'[i]), k8s'[i] = "pods")
    BY <1>2, <2>4, <2>5 DEF Allowed
  <2>7. th'[t].pc \in Late => th'[t].i = i /\ status'[i] = "destroyed"
    BY <2>2 DEF Late
  <2> QED BY <1>a, <1>0, <2>2, <2>3, <2>6, <2>7, HolderMoves
<1> QED BY <1>3, <1>4

LEMMA RestartRefines ==
    ASSUME RowInv, NEW t \in Threads, ResumeCommit(t) \/ RestoreReset(t) \/ HealRebuild(t)
    PROVE  [Lifecycle!Next]_Lifecycle!vars
<1>a. PICK i : i = th[t].i
  OBVIOUS
<1>0. Base /\ th[t].pc \in {"resume", "reset", "reinit"} /\ Holds(t)
  BY DEF RowInv, ResumeCommit, RestoreReset, HealRebuild, At, Holds, CreatePcs
<1>1. /\ i \in Insts /\ ThreadSees(t) /\ status \in [Insts -> Statuses] /\ ns \in [Insts -> BOOLEAN]
      /\ status[i] # "none"
  BY <1>a, <1>0, HoldsRow
<1>2. /\ UNCHANGED k8s /\ Finish(t)
      /\ status' = [status EXCEPT ![i] = "initializing"]
      /\ UNCHANGED ns \/ ns' = [ns EXCEPT ![i] = FALSE]
  BY <1>a DEF ResumeCommit, RestoreReset, HealRebuild
<1>3. Others(t) /\ th'[t] = IdleThread
  BY <1>0, <1>2, FinishMoves
<1>4. ElseSame(i) /\ status'[i] = "initializing"
  BY <1>1, <1>2 DEF ElseSame
<1>5. ShownBy(th'[t], status'[i]) = "starting"
  BY <1>3, <1>4 DEF ShownBy, IdleThread, Plain
<1>6. ShownBy(th[t], status[i]) \in Lifecycle!Phases \ {"none"}
  <2>1. CASE th[t].pc = "reinit"
    <3>1. th[t].op = "heal"
      BY <1>1, <2>1 DEF ThreadSees
    <3>2. ShownBy(th[t], status[i]) = "error"
      BY <2>1, <3>1 DEF ShownBy
    <3> QED BY <3>2 DEF Lifecycle!Phases
  <2>2. CASE th[t].pc \in {"resume", "reset"}
    <3>1. ShownBy(th[t], status[i]) = Plain(status[i])
      BY <2>2 DEF ShownBy
    <3>2. Plain(status[i]) \in Lifecycle!Phases \ {"none"}
      BY <1>1, StatusPhase
    <3> QED BY <3>1, <3>2
  <2> QED BY <1>0, <2>1, <2>2
<1>7. Allowed(ShownBy(th[t], status[i]), k8s[i] = "pods", ShownBy(th'[t], status'[i]), k8s'[i] = "pods")
  BY <1>2, <1>5, <1>6 DEF Allowed
<1>8. th'[t].pc \in Late => th'[t].i = i /\ status'[i] = "destroyed"
  BY <1>3 DEF IdleThread, Late
<1> QED BY <1>a, <1>0, <1>3, <1>4, <1>7, <1>8, HolderMoves

LEMMA SettleRefines ==
    ASSUME RowInv, NEW t \in Threads,
           \/ SubmitCommit(t) \/ SettleTimeout(t) \/ ReclaimSnapshot(t)
           \/ HealthOk(t) \/ HealthFailed(t)
    PROVE  [Lifecycle!Next]_Lifecycle!vars
<1>a. PICK i : i = th[t].i
  OBVIOUS
<1>0. Base /\ th[t].pc \in {"grade", "settle", "archive", "inspect"} /\ Holds(t)
  BY DEF RowInv, SubmitCommit, SettleTimeout, ReclaimSnapshot, HealthOk, HealthFailed, At, Holds, CreatePcs
<1>1. i \in Insts /\ ThreadSees(t) /\ status \in [Insts -> Statuses]
  BY <1>a, <1>0, HoldsRow
<1>2. ShownBy(th[t], status[i]) = Plain(status[i]) /\ th[t].pc \notin Late
  BY <1>0 DEF ShownBy, Late
<1>3. Finish(t) \/ \E pc \in {"archive", "delete"} : Goto(t, pc)
  BY DEF SubmitCommit, SettleTimeout, ReclaimSnapshot, HealthOk, HealthFailed
<1>4. Others(t) /\ th'[t].pc \in {"idle", "archive", "delete"}
  BY <1>0, <1>3, GotoMoves, FinishMoves DEF Moves, IdleThread
<1>5. th'[t].pc \notin Late
  BY <1>4 DEF Late
<1>6. CASE SettleTimeout(t) \/ ReclaimSnapshot(t) \/ HealthOk(t)
  <2>1. UNCHANGED <<status, ns, k8s>>
    BY <1>6 DEF SettleTimeout, ReclaimSnapshot, HealthOk
  <2> QED BY <1>2, <1>4, <1>5, <2>1, ThinkingStutters
<1>7. CASE SubmitCommit(t) \/ HealthFailed(t)
  <2>1. /\ UNCHANGED <<ns, k8s>>
        /\ \/ status' = [status EXCEPT ![i] = "completed"] /\ status[i] = "running"
           \/ status' = [status EXCEPT ![i] = "error"] /\ status[i] \in {"running", "initializing"}
    BY <1>a, <1>1, <1>7 DEF SubmitCommit, HealthFailed, At, ThreadSees
  <2>2. ElseSame(i)
    BY <1>1, <2>1 DEF ElseSame
  <2>3. \/ status[i] = "running" /\ status'[i] = "completed"
        \/ status[i] \in {"running", "initializing"} /\ status'[i] = "error"
    BY <1>1, <2>1
  <2>4. ShownBy(th'[t], status'[i]) = Plain(status'[i])
    BY <1>4 DEF ShownBy
  <2>5. Allowed(ShownBy(th[t], status[i]), k8s[i] = "pods", ShownBy(th'[t], status'[i]), k8s'[i] = "pods")
    BY <1>2, <2>1, <2>3, <2>4 DEF Allowed, Plain
  <2>6. th'[t].pc \in Late => th'[t].i = i /\ status'[i] = "destroyed"
    BY <1>5
  <2> QED BY <1>a, <1>0, <1>4, <2>2, <2>5, <2>6, HolderMoves
<1> QED BY <1>6, <1>7

LEMMA JobStepRefines ==
    ASSUME RowInv, NEW j \in Jobs, JobStep(j)
    PROVE  [Lifecycle!Next]_Lifecycle!vars
<1>a. PICK i : i = job[j].i
  OBVIOUS
<1>0. Base
  BY DEF RowInv
<1>1. th' = th /\ LiveJob(j) /\ JobWrites(j, i)
  BY <1>a, <1>0, JobStepWrites
<1>2. /\ status \in [Insts -> Statuses] /\ ns \in [Insts -> BOOLEAN]
      /\ k8s \in [Insts -> {"absent", "bare", "pods", "terminating"}]
      /\ i \in Rows /\ i \in Insts /\ JobSees(j)
  BY <1>a, <1>0, <1>1, RowFacts DEF RowInv, Alone, Sees
<1>3. ElseSame(i)
  BY <1>1, <1>2 DEF ElseSame, JobWrites
<1>4. \A k \in Insts : k # i => Phase(k)' = Phase(k) /\ (k8s'[k] = "pods") = (k8s[k] = "pods")
  <2> SUFFICES ASSUME NEW k \in Insts, k # i
               PROVE  Phase(k)' = Phase(k) /\ (k8s'[k] = "pods") = (k8s[k] = "pods")
    OBVIOUS
  <2>1. status'[k] = status[k] /\ k8s'[k] = k8s[k]
    BY <1>3 DEF ElseSame
  <2>2. \A u \in Threads : ~(th'[u] # th[u])
    BY <1>1
  <2>3. PhaseIn(th', status', k) = PhaseIn(th, status, k)
    BY <2>1, <2>2, PhaseSame
  <2> QED BY <2>1, <2>3, PhaseNow, PhaseThen
<1>5. ASSUME NEW u \in Threads PROVE ~(th[u].pc \in Late /\ th[u].i = i)
  <2>1. ASSUME th[u].pc \in Late, th[u].i = i PROVE FALSE
    <3>1. Holds(u)
      BY <2>1 DEF Late, Holds, CreatePcs
    <3>2. AtWork(u) /\ owner[i] = th[u].s
      BY <2>1, <3>1, HoldsRow
    <3> QED BY <1>a, <1>1, <3>2 DEF RowInv, Alone
  <2> QED BY <2>1
<1>6. Phase(i) = Plain(status[i]) /\ Phase(i)' = Plain(status'[i])
  <2>1. PhaseIn(th, status, i) = Plain(status[i])
    BY <1>5, PhaseFree
  <2>2. \A u \in Threads : ~(th'[u].pc \in Late /\ th'[u].i = i)
    BY <1>1, <1>5
  <2>3. PhaseIn(th', status', i) = Plain(status'[i])
    BY <2>2, PhaseFree
  <2> QED BY <1>2, <2>1, <2>3, PhaseNow, PhaseThen
<1>7. status[i] \in {"creating", "initializing"} /\ (job[j].pc = "settle" /\ job[j].ok => k8s[i] = "pods")
  BY <1>a, <1>1, <1>2 DEF JobSees
<1>8. CASE job[j].pc = "settle"
  <2>1. /\ UNCHANGED k8s /\ status'[i] = (IF job[j].ok THEN "running" ELSE "error")
    BY <1>1, <1>2, <1>8 DEF JobWrites
  <2>2. Allowed(Phase(i), k8s[i] = "pods", Phase(i)', k8s'[i] = "pods")
    BY <1>6, <1>7, <1>8, <2>1 DEF Allowed, Plain
  <2> QED BY <1>4, <2>2, LifecycleStep
<1>9. CASE job[j].pc # "settle"
  <2>1. status' = status /\ (k8s' = k8s \/ k8s' = [k8s EXCEPT ![i] = "pods"]
          \/ k8s' = [k8s EXCEPT ![i] = IF @ = "absent" THEN "bare" ELSE @])
    BY <1>1, <1>9 DEF JobWrites
  <2>2. (k8s'[i] = "pods") = (k8s[i] = "pods") \/ (~(k8s[i] = "pods") /\ k8s'[i] = "pods")
    BY <1>2, <2>1
  <2>3. Allowed(Phase(i), k8s[i] = "pods", Phase(i)', k8s'[i] = "pods")
    BY <1>6, <1>7, <2>1, <2>2 DEF Allowed, Plain
  <2> QED BY <1>4, <2>3, LifecycleStep
<1> QED BY <1>8, <1>9

LEMMA EnvRefines ==
    ASSUME RowInv,
           \/ \E i \in Insts : ManualGrade(i) \/ TakeSnapshot(i) \/ DropSnapshots(i) \/ Reap(i)
           \/ UNCHANGED vars
    PROVE  [Lifecycle!Next]_Lifecycle!vars
<1>0. k8s \in [Insts -> {"absent", "bare", "pods", "terminating"}]
  BY DEF RowInv, Base, TypeOK
<1>1. /\ UNCHANGED <<status, th>>
      /\ \A i \in Insts : (k8s'[i] = "pods") = (k8s[i] = "pods")
  BY <1>0 DEF ManualGrade, TakeSnapshot, DropSnapshots, Reap, vars
<1>2. \A i \in Insts : Phase(i)' = Phase(i)
  BY <1>1, PhaseNow, PhaseThen
<1>3. PICK i0 : i0 \notin Insts
  <2>1. MaxRows + 1 \notin Insts
    BY BoundsAssumption DEF Insts
  <2> QED BY <2>1
<1>4. \A i \in Insts : i # i0 => Phase(i)' = Phase(i) /\ (k8s'[i] = "pods") = (k8s[i] = "pods")
  BY <1>1, <1>2
<1> QED BY <1>3, <1>4, LifecycleStep

LEMMA NextRefines ==
    ASSUME MaxCrashes = 0
    PROVE  RowInv /\ [Next]_vars => [Lifecycle!Next]_Lifecycle!vars
<1> SUFFICES ASSUME RowInv, [Next]_vars PROVE [Lifecycle!Next]_Lifecycle!vars
  OBVIOUS
<1>1. ASSUME NEW t \in Threads, Request(t) PROVE [Lifecycle!Next]_Lifecycle!vars
  BY <1>1, StartsRefine DEF Request
<1>2. ASSUME NEW t \in Threads, ThreadStep(t) PROVE [Lifecycle!Next]_Lifecycle!vars
  BY <1>2, StartsRefine, InsertRefines, RetireRefines, PauseRefines, RestartRefines, SettleRefines DEF ThreadStep
<1>3. ASSUME NEW j \in Jobs, JobStep(j) PROVE [Lifecycle!Next]_Lifecycle!vars
  BY <1>3, JobStepRefines
<1>4. ~Crash
  BY DEF Crash, RowInv, Base, TypeOK
<1> QED BY <1>1, <1>2, <1>3, <1>4, EnvRefines DEF Next

LEMMA InitRefines == Init => Lifecycle!Init
<1> SUFFICES ASSUME Init PROVE Lifecycle!Init
  OBVIOUS
<1>1. ASSUME NEW i \in Insts PROVE Phase(i) = "none" /\ (k8s[i] = "pods") = FALSE
  <2>1. \A u \in Threads : ~(th[u].pc \in Late /\ th[u].i = i)
    BY DEF Init, IdleThread, Late
  <2>2. PhaseIn(th, status, i) = Plain(status[i])
    BY <2>1, PhaseFree
  <2>3. status[i] = "none" /\ k8s[i] = "absent"
    BY DEF Init
  <2> QED BY <2>2, <2>3, PhaseNow DEF Plain
<1> QED BY <1>1 DEF Lifecycle!Init

(* The detailed operations implement the diagram of the documents: with    *)
(* one operation at a time on each student's instances and no crash, every *)
(* write of a handler, a goroutine or a periodic task is one step of       *)
(* ExpLifecycle or shows the student nothing.                              *)
THEOREM OperationsFollowTheDiagram ==
    ASSUME Overlap = FALSE, MaxCrashes = 0
    PROVE  Spec => ImplementsLifecycle
<1>1. RowInv /\ [Next]_vars => RowInv'
  BY NextRow
<1>2. RowInv /\ [Next]_vars => [Lifecycle!Next]_Lifecycle!vars
  BY NextRefines
<1> QED BY <1>1, <1>2, InitRow, InitRefines, PTL DEF Spec, ImplementsLifecycle, Lifecycle!Spec
=============================================================================
