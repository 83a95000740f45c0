----------------------------- MODULE ExpInstance -----------------------------
(***************************************************************************)
(* The lifecycle of experiment instances: the request handlers of          *)
(* backend/internal/service/experiment, the provisioning goroutines they   *)
(* leave behind, and the periodic jobs that reclaim and heal instances.    *)
(*                                                                         *)
(* Every handler is a thread that loads a copy of the instance row, checks *)
(* it, calls Kubernetes, and then writes the row with an unconditional     *)
(* UPDATE ... WHERE id.  No lock and no transaction spans these steps, so  *)
(* one step here is one write (or one group of reads), and the threads     *)
(* interleave freely.  Activating the next queued instance (a list pop, an *)
(* UPDATE and a goroutine) is one step with the write it accompanies.  The *)
(* instances are of one published template of the "real environment" type, *)
(* in one course of one school, and belong to no group.                    *)
(***************************************************************************)
EXTENDS Naturals, Sequences, FiniteSets, TLC

CONSTANTS
    Students,       \* the students of the course
    NoStudent,      \* owner of a row that is not inserted yet
    Threads,        \* goroutines that serve a request or a periodic task
    MaxRows,        \* bound: instance rows ever inserted
    MaxJobs,        \* bound: provisioning goroutines ever started
    MaxCrashes,     \* bound: crashes of the backend process
    MaxPerStudent,  \* per-student limit of the effective quota
    CourseCap,      \* course max_concurrency, 0 when the quota sets none
    SchoolCap,      \* school max_concurrency, 0 when the quota sets none
    HasManual,      \* the template has a manually graded checkpoint
    Overlap,        \* operations on one student's instances may overlap
    ReadFaults      \* a background task or RestoreSnapshot may fail to load
                    \* the template, late in the operation

ASSUME StudentsAssumption == NoStudent \notin Students
ASSUME BoundsAssumption == /\ MaxRows \in Nat
                           /\ MaxJobs \in Nat
                           /\ MaxCrashes \in Nat
ASSUME QuotaAssumption == /\ MaxPerStudent \in Nat \ {0}
                          /\ CourseCap \in Nat
                          /\ SchoolCap \in Nat
ASSUME SwitchAssumption == /\ HasManual \in BOOLEAN
                           /\ Overlap \in BOOLEAN
                           /\ ReadFaults \in BOOLEAN

Insts == 1..MaxRows
Jobs == 1..MaxJobs

(* experiment_instances.status; "none" is a row not inserted yet.  The     *)
(* value 9 ("create failed") of the enumeration is never written.          *)
Statuses == {"none", "queued", "creating", "initializing", "running", "paused",
             "completed", "expired", "error", "destroyed"}

(* Statuses that count against the concurrency limits.                     *)
UsingStatuses == {"creating", "initializing", "running", "paused"}

(* Statuses a new start request of the same student is answered with.      *)
ReusableStatuses == {"creating", "initializing", "running", "queued"}

(* The Redis list createQueuedInstance pushes to ("exp:queue:" ":" course) *)
(* and the one activateNextQueuedInstance pops from ("exp:queue:" course). *)
PushKey == "exp:queue::course"
PopKey == "exp:queue:course"

VARIABLES
    rows,     \* number of rows inserted: rows 1..rows exist
    owner, attempt, status, \* student_id, attempt_no, status
    ns,       \* column namespace is set
    scored,   \* columns auto_score and submitted_at are set
    total,    \* column total_score is set
    snap,     \* instance_snapshots: never taken, some left, all deleted
    k8s,      \* namespace exp-<id> in the cluster and what it holds
    queue,    \* the two Redis lists
    th,       \* what each thread is doing, with its loaded copy
    jobs, job,\* provisioning goroutines started, and where each one is
    crashes

vars == <<rows, owner, attempt, status, ns, scored, total, snap, k8s, queue,
          th, jobs, job, crashes>>

Ops == {"idle", "create", "restart", "destroy", "reclaim", "timeout", "retain",
        "heal", "pause", "resume", "restore", "reopen", "submit"}
ThreadPcs == {"idle", "find", "limits", "insert", "enqueue", "delete", "mark",
              "final", "reinit", "settle", "archive", "inspect", "snapshot",
              "stop", "paused", "resume", "drop", "reset", "grade"}
JobPcs == {"record", "create", "deploy", "settle", "done"}

IdleThread == [op |-> "idle", pc |-> "idle", i |-> 0, s |-> NoStudent,
               ns |-> FALSE, n |-> 0]
NoJob == [i |-> 0, pc |-> "done", restore |-> FALSE, ns |-> FALSE,
          rel |-> FALSE, ok |-> FALSE]

(* A thread's operation and place, its row and student, and what it        *)
(* loaded: whether the row named a namespace, the attempt number to use.   *)
ThreadRec == [op : Ops, pc : ThreadPcs, i : Insts \cup {0},
              s : Students \cup {NoStudent}, ns : BOOLEAN, n : Nat]

(* A goroutine's row and place, whether it restores a snapshot, whether    *)
(* its copy of the row names a namespace, whether its failure releases     *)
(* capacity, and whether it is still succeeding.                           *)
JobRec == [i : Insts \cup {0}, pc : JobPcs, restore : BOOLEAN,
           ns : BOOLEAN, rel : BOOLEAN, ok : BOOLEAN]

TypeOK ==
    /\ rows \in 0..MaxRows
    /\ owner \in [Insts -> Students \cup {NoStudent}]
    /\ attempt \in [Insts -> Nat]
    /\ status \in [Insts -> Statuses]
    /\ ns \in [Insts -> BOOLEAN]
    /\ scored \in [Insts -> BOOLEAN]
    /\ total \in [Insts -> BOOLEAN]
    /\ snap \in [Insts -> {"never", "some", "gone"}]
    /\ k8s \in [Insts -> {"absent", "bare", "pods", "terminating"}]
    /\ queue \in [{PushKey, PopKey} -> Seq(Insts)]
    /\ th \in [Threads -> ThreadRec]
    /\ jobs \in 0..MaxJobs
    /\ job \in [Jobs -> JobRec]
    /\ crashes \in 0..MaxCrashes

Init ==
    /\ rows = 0
    /\ owner = [i \in Insts |-> NoStudent]
    /\ attempt = [i \in Insts |-> 0]
    /\ status = [i \in Insts |-> "none"]
    /\ ns = [i \in Insts |-> FALSE]
    /\ scored = [i \in Insts |-> FALSE]
    /\ total = [i \in Insts |-> FALSE]
    /\ snap = [i \in Insts |-> "never"]
    /\ k8s = [i \in Insts |-> "absent"]
    /\ queue = [q \in {PushKey, PopKey} |-> <<>>]
    /\ th = [t \in Threads |-> IdleThread]
    /\ jobs = 0
    /\ job = [j \in Jobs |-> NoJob]
    /\ crashes = 0

-----------------------------------------------------------------------------
(* Reads.                                                                  *)

Rows == 1..rows
RowsOf(s) == {i \in Rows : owner[i] = s}
UsingRows == {i \in Rows : status[i] \in UsingStatuses}
UsingBy(s) == {i \in UsingRows : owner[i] = s}

AttemptsOf(s) == {attempt[i] : i \in RowsOf(s)} \cup {0}
MaxAttemptNo(s) ==
    CHOOSE m \in AttemptsOf(s) : \A k \in AttemptsOf(s) : k <= m

LiveJob(j) == job[j].pc # "done"
Working(t) == th[t].op # "idle"

(* Nothing is in progress for student s.  With Overlap = FALSE a new       *)
(* operation, of a user or of a periodic task, waits for this: the         *)
(* assumption under which the strict properties are checked.               *)
Quiet(s) == /\ \A t \in Threads : th[t].s # s
            /\ \A j \in Jobs : LiveJob(j) => owner[job[j].i] # s
MayStart(t, s) == /\ ~Working(t)
                  /\ Overlap \/ Quiet(s)

(* Thread steps.                                                           *)
Begin(t, op, pc, i) ==
    th' = [th EXCEPT ![t] = [op |-> op, pc |-> pc, i |-> i, s |-> owner[i],
                             ns |-> ns[i], n |-> 0]]
At(t, pc) == th[t].pc = pc
Goto(t, pc) == th' = [th EXCEPT ![t].pc = pc]
Finish(t) == th' = [th EXCEPT ![t] = IdleThread]

NewJob(i, restore, loadedNs, rel) ==
    [i |-> i, pc |-> "record", restore |-> restore, ns |-> loadedNs,
     rel |-> rel, ok |-> TRUE]

(* RunAsync(provisionEnvironment): the goroutine keeps the caller's copy.  *)
Spawn(i, restore, loadedNs, rel) ==
    /\ jobs < MaxJobs
    /\ jobs' = jobs + 1
    /\ job' = [job EXCEPT ![jobs + 1] = NewJob(i, restore, loadedNs, rel)]

(* activateNextQueuedInstance, called by whoever released capacity: st is  *)
(* the status column after the caller's own write, jb its job table.       *)
Activate(st, jb) ==
    LET list == queue[PopKey]
        ready == {k \in 1..Len(list) : st[list[k]] = "queued"}
    IN  IF list = <<>>
        THEN status' = st /\ job' = jb /\ UNCHANGED <<queue, jobs>>
        ELSE IF ready = {}
        THEN /\ queue' = [queue EXCEPT ![PopKey] = <<>>]
             /\ status' = st /\ job' = jb /\ UNCHANGED jobs
        ELSE LET k == CHOOSE x \in ready : \A y \in ready : x <= y
             IN  /\ jobs < MaxJobs
                 /\ queue' = [queue EXCEPT ![PopKey] = SubSeq(list, k + 1, Len(list))]
                 /\ status' = [st EXCEPT ![list[k]] = "creating"]
                 /\ jobs' = jobs + 1
                 /\ job' = [jb EXCEPT ![jobs + 1] = NewJob(list[k], FALSE, FALSE, TRUE)]

rowKey == <<rows, owner, attempt>>
results == <<scored, total>>
work == <<jobs, job>>

-----------------------------------------------------------------------------
(* Create.                                                                 *)

StartCreate(t, s) ==
    /\ MayStart(t, s)
    /\ th' = [th EXCEPT ![t] = [IdleThread EXCEPT !.op = "create", !.pc = "find", !.s = s]]
    /\ UNCHANGED <<rowKey, status, ns, results, snap, k8s, queue, work, crashes>>

(* findReusableInstance: an active row of the student is returned as is.   *)
FindReusable(t) ==
    /\ At(t, "find")
    /\ IF \E i \in RowsOf(th[t].s) : status[i] \in ReusableStatuses
       THEN Finish(t)
       ELSE Goto(t, "limits")
    /\ UNCHANGED <<rowKey, status, ns, results, snap, k8s, queue, work, crashes>>

(* The three limit checks, in the code's order, and GetMaxAttemptNo.       *)
CheckLimits(t) ==
    LET s == th[t].s
        refused == \/ Cardinality(UsingBy(s)) >= MaxPerStudent
                   \/ SchoolCap > 0 /\ Cardinality(UsingRows) >= SchoolCap
        full == CourseCap > 0 /\ Cardinality(UsingRows) >= CourseCap
    IN  /\ At(t, "limits")
        /\ IF refused
           THEN Finish(t)
           ELSE th' = [th EXCEPT ![t] = [@ EXCEPT !.pc = IF full THEN "enqueue" ELSE "insert",
                                                  !.n = MaxAttemptNo(s) + 1]]
        /\ UNCHANGED <<rowKey, status, ns, results, snap, k8s, queue, work, crashes>>

InsertRow(t, st) ==
    /\ rows < MaxRows
    /\ rows' = rows + 1
    /\ owner' = [owner EXCEPT ![rows + 1] = th[t].s]
    /\ attempt' = [attempt EXCEPT ![rows + 1] = th[t].n]
    /\ status' = [status EXCEPT ![rows + 1] = st]
    /\ Finish(t)

(* The row is inserted and provisioned in the background, from a snapshot  *)
(* when the request names one.                                             *)
InsertCreating(t, restore) ==
    /\ At(t, "insert")
    /\ InsertRow(t, "creating")
    /\ Spawn(rows + 1, restore, FALSE, TRUE)
    /\ UNCHANGED <<ns, results, snap, k8s, queue, crashes>>

(* createQueuedInstance.                                                   *)
InsertQueued(t) ==
    /\ At(t, "enqueue")
    /\ InsertRow(t, "queued")
    /\ queue' = [queue EXCEPT ![PushKey] = Append(@, rows + 1)]
    /\ UNCHANGED <<ns, results, snap, k8s, work, crashes>>

-----------------------------------------------------------------------------
(* provisionEnvironment, one goroutine.                                    *)

JobMoves(j, pc) == job' = [job EXCEPT ![j].pc = pc]
JobFails(j) == job' = [job EXCEPT ![j].pc = "settle", ![j].ok = FALSE]

(* Before the first write: the snapshot is gone, or no container plan.     *)
JobRefused(j) ==
    /\ job[j].pc = "record"
    /\ JobFails(j)
    /\ UNCHANGED <<rowKey, status, ns, results, snap, k8s, queue, th, jobs, crashes>>

(* The namespace column is written before the namespace exists.            *)
JobRecord(j) ==
    /\ job[j].pc = "record"
    /\ job[j].restore => \E i \in Rows : snap[i] = "some"
    /\ ns' = [ns EXCEPT ![job[j].i] = TRUE]
    /\ JobMoves(j, "create")
    /\ UNCHANGED <<rowKey, status, results, snap, k8s, queue, th, jobs, crashes>>

(* CreateNamespace: one that exists, also one being deleted, is accepted;  *)
(* the steps after the creation itself may still fail.                     *)
JobCreateNs(j) ==
    LET i == job[j].i
    IN  /\ job[j].pc = "create"
        /\ \/ /\ k8s' = [k8s EXCEPT ![i] = IF @ = "absent" THEN "bare" ELSE @]
              /\ JobMoves(j, "deploy") \/ JobFails(j)
           \/ UNCHANGED k8s /\ JobFails(j)
        /\ UNCHANGED <<rowKey, status, ns, results, snap, queue, th, jobs, crashes>>

(* Pods are deployed into a live namespace; a restore then also needs the  *)
(* namespace in the copy the goroutine was given.                          *)
JobDeploy(j) ==
    LET i == job[j].i
        usable == k8s[i] \in {"bare", "pods"}
    IN  /\ job[j].pc = "deploy"
        /\ \/ /\ usable
              /\ k8s' = [k8s EXCEPT ![i] = "pods"]
              /\ \/ /\ job[j].restore => job[j].ns
                    /\ JobMoves(j, "settle")
                 \/ JobFails(j)
           \/ UNCHANGED k8s /\ JobFails(j)
        /\ UNCHANGED <<rowKey, status, ns, results, snap, queue, th, jobs, crashes>>

(* Mutants: a failure writes the enumeration's "create failed", or nothing.*)
SettleWith(j, failure) ==
    /\ job[j].pc = "settle"
    /\ status' = [status EXCEPT ![job[j].i] = IF job[j].ok THEN "running" ELSE failure]
    /\ job' = [job EXCEPT ![j] = NoJob]
    /\ UNCHANGED <<rowKey, ns, results, snap, k8s, queue, jobs, th, crashes>>
JobSettle_enum(j) == SettleWith(j, "create_failed")
JobSettle_silent(j) == SettleWith(j, status[job[j].i])

(* The deferred function: the final status is written without reading the  *)
(* row again; a failure that held capacity releases it.                    *)
JobSettle(j) ==
    LET settled == [status EXCEPT ![job[j].i] = IF job[j].ok THEN "running" ELSE "error"]
        ended == [job EXCEPT ![j] = NoJob]
    IN  /\ job[j].pc = "settle"
        /\ IF ~job[j].ok /\ job[j].rel
           THEN Activate(settled, ended)
           ELSE status' = settled /\ job' = ended /\ UNCHANGED <<queue, jobs>>
        /\ UNCHANGED <<rowKey, ns, results, snap, k8s, th, crashes>>

JobStep(j) == \/ JobRefused(j) \/ JobRecord(j) \/ JobCreateNs(j)
              \/ JobDeploy(j) \/ JobSettle(j)

-----------------------------------------------------------------------------
(* destroyEnvironment, shared by Destroy, ForceDestroy, Restart, the       *)
(* reclaim task and the health scan: delete the namespace the loaded copy  *)
(* names (an error, also "not found", ends it), then write the row.        *)

(* Destroy loads any row but a destroyed or completed one, ForceDestroy    *)
(* any row.                                                                *)
StartDestroy(t, i) ==
    /\ i \in Rows /\ MayStart(t, owner[i])
    /\ Begin(t, "destroy", "delete", i)
    /\ UNCHANGED <<rowKey, status, ns, results, snap, k8s, queue, work, crashes>>

StartRestart(t, i) ==
    /\ i \in Rows /\ MayStart(t, owner[i])
    /\ status[i] \in {"completed", "expired", "error", "destroyed"}
    /\ Begin(t, "restart", "delete", i)
    /\ UNCHANGED <<rowKey, status, ns, results, snap, k8s, queue, work, crashes>>

DeleteNs(t) ==
    LET i == th[t].i
    IN  /\ At(t, "delete")
        /\ th[t].ns => k8s[i] # "absent"
        /\ k8s' = [k8s EXCEPT ![i] = IF th[t].ns THEN "terminating" ELSE @]
        /\ Goto(t, "mark")
        /\ UNCHANGED <<rowKey, status, ns, results, snap, queue, work, crashes>>

(* Restart ignores the error and goes on to Create.                        *)
DeleteNsFails(t) ==
    /\ At(t, "delete")
    /\ th[t].ns
    /\ IF th[t].op = "restart" THEN Goto(t, "find") ELSE Finish(t)
    /\ UNCHANGED <<rowKey, status, ns, results, snap, k8s, queue, work, crashes>>

MarkDestroyed(t) ==
    LET i == th[t].i
    IN  /\ At(t, "mark")
        /\ ns' = [ns EXCEPT ![i] = FALSE]
        /\ Activate([status EXCEPT ![i] = "destroyed"], job)
        /\ CASE th[t].op = "destroy" -> Finish(t)
             [] th[t].op = "restart" -> Goto(t, "find")
             [] th[t].op = "heal" -> Goto(t, "reinit")
             [] OTHER -> Goto(t, "final")
        /\ UNCHANGED <<rowKey, results, snap, k8s, crashes>>

-----------------------------------------------------------------------------
(* Pause and Resume.                                                       *)

StartPause(t, i) ==
    /\ i \in Rows /\ MayStart(t, owner[i])
    /\ status[i] = "running"
    /\ Begin(t, "pause", "snapshot", i)
    /\ UNCHANGED <<rowKey, status, ns, results, snap, k8s, queue, work, crashes>>

(* createInstanceSnapshot, which may fail.                                 *)
PauseSnapshot(t) ==
    /\ At(t, "snapshot")
    /\ \/ snap' = [snap EXCEPT ![th[t].i] = "some"] /\ Goto(t, "stop")
       \/ UNCHANGED snap /\ Finish(t)
    /\ UNCHANGED <<rowKey, status, ns, results, k8s, queue, work, crashes>>

(* Mutant: pausing deletes the namespace.                                  *)
PauseStop_deletes(t) ==
    /\ At(t, "stop")
    /\ k8s' = [k8s EXCEPT ![th[t].i] = IF th[t].ns THEN "terminating" ELSE @]
    /\ Goto(t, "paused")
    /\ UNCHANGED <<rowKey, status, ns, results, snap, queue, work, crashes>>

(* pauseRuntimeEnvironment: the pods go, the namespace and volumes stay.   *)
PauseStop(t) ==
    LET i == th[t].i
    IN  /\ At(t, "stop")
        /\ \/ /\ k8s' = [k8s EXCEPT ![i] = IF th[t].ns /\ @ = "pods" THEN "bare" ELSE @]
              /\ Goto(t, "paused")
           \/ th[t].ns /\ UNCHANGED k8s /\ Finish(t)
        /\ UNCHANGED <<rowKey, status, ns, results, snap, queue, work, crashes>>

(* The next queued instance is activated before the row says paused.       *)
PauseCommit(t) ==
    /\ At(t, "paused")
    /\ Activate([status EXCEPT ![th[t].i] = "paused"], job)
    /\ Finish(t)
    /\ UNCHANGED <<rowKey, ns, results, snap, k8s, crashes>>

(* The count of the limit check includes the paused row itself.            *)
ResumeAllowed(i) == /\ status[i] = "paused"
                    /\ Cardinality(UsingBy(owner[i])) < MaxPerStudent
                    /\ snap[i] = "some"

StartResume(t, i) ==
    /\ i \in Rows /\ MayStart(t, owner[i])
    /\ ResumeAllowed(i)
    /\ Begin(t, "resume", "resume", i)
    /\ UNCHANGED <<rowKey, status, ns, results, snap, k8s, queue, work, crashes>>

(* Mutant: the row says initializing and no goroutine is started.          *)
ResumeCommit_idle(t) ==
    /\ At(t, "resume")
    /\ status' = [status EXCEPT ![th[t].i] = "initializing"]
    /\ Finish(t)
    /\ UNCHANGED <<rowKey, ns, results, snap, k8s, queue, work, crashes>>

ResumeCommit(t) ==
    LET i == th[t].i
    IN  /\ At(t, "resume")
        /\ status' = [status EXCEPT ![i] = "initializing"]
        /\ Spawn(i, TRUE, th[t].ns, TRUE)
        /\ Finish(t)
        /\ UNCHANGED <<rowKey, ns, results, snap, k8s, queue, crashes>>

-----------------------------------------------------------------------------
(* RestoreSnapshot: from any status; "reopen" is the restore of a row that *)
(* had released its capacity, which is claimed again.                      *)

StartRestore(t, i) ==
    /\ i \in Rows /\ MayStart(t, owner[i])
    /\ snap[i] = "some"
    /\ CASE status[i] \in {"running", "initializing"} -> Begin(t, "restore", "drop", i)
         [] status[i] \in {"paused", "destroyed", "error", "completed"} ->
              Begin(t, "reopen", "reset", i)
         [] OTHER -> Begin(t, "restore", "reset", i)
    /\ UNCHANGED <<rowKey, status, ns, results, snap, k8s, queue, work, crashes>>

RestoreDrop(t) ==
    LET i == th[t].i
    IN  /\ At(t, "drop")
        /\ \/ /\ th[t].ns => k8s[i] # "absent"
              /\ k8s' = [k8s EXCEPT ![i] = IF th[t].ns THEN "terminating" ELSE @]
              /\ Goto(t, "reset")
           \/ th[t].ns /\ UNCHANGED k8s /\ Finish(t)
        /\ UNCHANGED <<rowKey, status, ns, results, snap, queue, work, crashes>>

(* The row is reset before the template is loaded: when that load fails    *)
(* the handler returns and no goroutine was started.                       *)
RestoreReset(t) ==
    LET i == th[t].i
    IN  /\ At(t, "reset")
        /\ status' = [status EXCEPT ![i] = "initializing"]
        /\ ns' = [ns EXCEPT ![i] = FALSE]
        /\ \/ Spawn(i, TRUE, th[t].ns, th[t].op = "reopen")
           \/ ReadFaults /\ UNCHANGED work
        /\ Finish(t)
        /\ UNCHANGED <<rowKey, results, snap, k8s, queue, crashes>>

-----------------------------------------------------------------------------
(* Submit, grading by a teacher, and the snapshot requests and tasks.      *)

(* Mutant: a submit whatever the status.                                   *)
StartSubmit_any(t, i) ==
    /\ i \in Rows /\ MayStart(t, owner[i])
    /\ Begin(t, "submit", "grade", i)
    /\ UNCHANGED <<rowKey, status, ns, results, snap, k8s, queue, work, crashes>>

StartSubmit(t, i) ==
    /\ i \in Rows /\ MayStart(t, owner[i])
    /\ status[i] = "running"
    /\ Begin(t, "submit", "grade", i)
    /\ UNCHANGED <<rowKey, status, ns, results, snap, k8s, queue, work, crashes>>

(* After the automatic checkpoints ran.                                    *)
SubmitCommit(t) ==
    LET i == th[t].i
    IN  /\ At(t, "grade")
        /\ status' = [status EXCEPT ![i] = "completed"]
        /\ scored' = [scored EXCEPT ![i] = TRUE]
        /\ total' = [total EXCEPT ![i] = @ \/ ~HasManual]
        /\ Finish(t)
        /\ UNCHANGED <<rowKey, ns, snap, k8s, queue, work, crashes>>

ManualGrade(i) ==
    /\ i \in Rows
    /\ total' = [total EXCEPT ![i] = TRUE]
    /\ UNCHANGED <<rowKey, status, ns, scored, snap, k8s, queue, th, work, crashes>>

(* CreateSnapshot of the student, and the five-minute task on running ones.*)
TakeSnapshot(i) ==
    /\ i \in Rows
    /\ snap' = [snap EXCEPT ![i] = "some"]
    /\ UNCHANGED <<rowKey, status, ns, results, k8s, queue, th, work, crashes>>

(* DeleteSnapshot of the last one left, and the 30-day cleanup.            *)
DropSnapshots(i) ==
    /\ i \in Rows
    /\ snap[i] = "some"
    /\ snap' = [snap EXCEPT ![i] = "gone"]
    /\ UNCHANGED <<rowKey, status, ns, results, k8s, queue, th, work, crashes>>

-----------------------------------------------------------------------------
(* The periodic tasks: scanAndReclaim and scanRuntimeHealth.               *)

(* The scan lists rows and later acts on the listed copy.  "reclaim" is an *)
(* idle timeout or an ended course, "timeout" the maximal duration,        *)
(* "retain" a submitted row past its retention.                            *)
StartReclaim(t, i) ==
    /\ i \in Rows /\ MayStart(t, owner[i])
    /\ \/ /\ status[i] \in {"running", "paused", "initializing", "completed"}
          /\ Begin(t, "reclaim", "archive", i)
       \/ /\ status[i] = "running"
          /\ Begin(t, "timeout", "settle", i)
       \/ /\ status[i] = "completed" /\ scored[i]
          /\ Begin(t, "retain", "archive", i)
    /\ UNCHANGED <<rowKey, status, ns, results, snap, k8s, queue, work, crashes>>

(* finalizeTimeoutScore.                                                   *)
SettleTimeout(t) ==
    LET i == th[t].i
    IN  /\ At(t, "settle")
        /\ \/ /\ scored' = [scored EXCEPT ![i] = TRUE]
              /\ total' = [total EXCEPT ![i] = @ \/ ~HasManual]
           \/ ReadFaults /\ UNCHANGED results
        /\ Goto(t, "archive")
        /\ UNCHANGED <<rowKey, status, ns, snap, k8s, queue, work, crashes>>

(* Mutant: a snapshot that fails is logged and the reclaim goes on.        *)
ReclaimSnapshot_logs(t) ==
    /\ At(t, "archive")
    /\ snap' = [snap EXCEPT ![th[t].i] = "some"] \/ UNCHANGED snap
    /\ Goto(t, "delete")
    /\ UNCHANGED <<rowKey, status, ns, results, k8s, queue, work, crashes>>

(* Nothing is reclaimed without a snapshot.                                *)
ReclaimSnapshot(t) ==
    /\ At(t, "archive")
    /\ \/ snap' = [snap EXCEPT ![th[t].i] = "some"] /\ Goto(t, "delete")
       \/ UNCHANGED snap /\ Finish(t)
    /\ UNCHANGED <<rowKey, status, ns, results, k8s, queue, work, crashes>>

(* Mutant: every reclaimed row stays completed.                            *)
ReclaimFinal_completes(t) ==
    /\ At(t, "final")
    /\ status' = [status EXCEPT ![th[t].i] = "completed"]
    /\ Finish(t)
    /\ UNCHANGED <<rowKey, ns, results, snap, k8s, queue, work, crashes>>

ReclaimFinal(t) ==
    /\ At(t, "final")
    /\ status' = [status EXCEPT ![th[t].i] =
                     IF th[t].op = "retain" THEN "completed" ELSE "expired"]
    /\ Finish(t)
    /\ UNCHANGED <<rowKey, ns, results, snap, k8s, queue, work, crashes>>

StartHealth(t, i) ==
    /\ i \in Rows /\ MayStart(t, owner[i])
    /\ status[i] \in {"running", "initializing"} /\ ns[i]
    /\ Begin(t, "heal", "inspect", i)
    /\ UNCHANGED <<rowKey, status, ns, results, snap, k8s, queue, work, crashes>>

(* The row is loaded afresh; when its namespace was cleared meanwhile the  *)
(* scan ends, and so it does on a healthy pod.                             *)
HealthOk(t) ==
    /\ At(t, "inspect")
    /\ Finish(t)
    /\ UNCHANGED <<rowKey, status, ns, results, snap, k8s, queue, work, crashes>>

(* An unhealthy pod: the status is not checked again, the row goes to      *)
(* error, and is rebuilt when there is a snapshot to rebuild it from.      *)
HealthFailed(t) ==
    LET i == th[t].i
    IN  /\ At(t, "inspect") /\ ns[i]
        /\ status' = [status EXCEPT ![i] = "error"]
        /\ \/ snap[i] = "some" /\ Goto(t, "delete")
           \/ (snap[i] # "some" \/ ReadFaults) /\ Finish(t)
        /\ UNCHANGED <<rowKey, ns, results, snap, k8s, queue, work, crashes>>

HealRebuild(t) ==
    LET i == th[t].i
    IN  /\ At(t, "reinit")
        /\ status' = [status EXCEPT ![i] = "initializing"]
        /\ Spawn(i, TRUE, th[t].ns, FALSE)
        /\ Finish(t)
        /\ UNCHANGED <<rowKey, ns, results, snap, k8s, queue, crashes>>

-----------------------------------------------------------------------------
(* The cluster and the process.                                            *)

(* The cluster finishes deleting a namespace.                              *)
Reap(i) ==
    /\ k8s[i] = "terminating"
    /\ k8s' = [k8s EXCEPT ![i] = "absent"]
    /\ UNCHANGED <<rowKey, status, ns, results, snap, queue, th, work, crashes>>

(* Goroutines die with the process; rows, lists and namespaces survive.    *)
Crash ==
    /\ crashes < MaxCrashes
    /\ crashes' = crashes + 1
    /\ th' = [t \in Threads |-> IdleThread]
    /\ job' = [j \in Jobs |-> NoJob]
    /\ UNCHANGED <<rowKey, status, ns, results, snap, k8s, queue, jobs>>

ThreadStep(t) ==
    \/ FindReusable(t) \/ CheckLimits(t)
    \/ \E restore \in BOOLEAN : InsertCreating(t, restore)
    \/ InsertQueued(t)
    \/ DeleteNs(t) \/ DeleteNsFails(t) \/ MarkDestroyed(t)
    \/ PauseSnapshot(t) \/ PauseStop(t) \/ PauseCommit(t) \/ ResumeCommit(t)
    \/ RestoreDrop(t) \/ RestoreReset(t) \/ SubmitCommit(t)
    \/ SettleTimeout(t) \/ ReclaimSnapshot(t) \/ ReclaimFinal(t)
    \/ HealthOk(t) \/ HealthFailed(t) \/ HealRebuild(t)

Request(t) ==
    \/ \E s \in Students : StartCreate(t, s)
    \/ \E i \in Insts :
          \/ StartDestroy(t, i) \/ StartRestart(t, i)
          \/ StartPause(t, i) \/ StartResume(t, i)
          \/ StartRestore(t, i) \/ StartSubmit(t, i)
          \/ StartReclaim(t, i) \/ StartHealth(t, i)

Next ==
    \/ \E t \in Threads : Request(t) \/ ThreadStep(t)
    \/ \E j \in Jobs : JobStep(j)
    \/ \E i \in Insts : ManualGrade(i) \/ TakeSnapshot(i) \/ DropSnapshots(i) \/ Reap(i)
    \/ Crash

Spec == Init /\ [][Next]_vars

(* A goroutine that runs is scheduled: every call in it is bounded by a    *)
(* context or a client timeout and returns.                                *)
FairSpec == Spec /\ \A j \in Jobs : WF_vars(JobStep(j))

-----------------------------------------------------------------------------
(* Properties that hold however operations overlap.                        *)

(* A completed row carries its result: the automatic score and the submit  *)
(* time, and the total when nothing is graded by hand.  Three writers can  *)
(* make a row completed or overtake each other on it (Submit, the timeout  *)
(* settlement, the retention reclaim, which writes "completed" again from  *)
(* an old copy).                                                           *)
CompletedIsScored ==
    \A i \in Insts : status[i] = "completed" => scored[i] /\ (HasManual \/ total[i])

(* No environment is given up without a snapshot: whatever paused a row or *)
(* expired it had saved one before it touched the pods.                    *)
SnapshotBeforeRelease ==
    \A i \in Insts : status[i] \in {"paused", "expired"} => snap[i] # "never"

(* A row that says it is starting has a goroutine that will settle it, as  *)
(* long as the process never died and no template read failed between the  *)
(* row write and the goroutine's start.                                    *)
StartingHasWorker ==
    (crashes = 0 /\ ~ReadFaults) =>
        \A i \in Insts : status[i] \in {"creating", "initializing"} =>
            \E j \in Jobs : LiveJob(j) /\ job[j].i = i

(* A start ends: the student who sees "creating" or "initializing" sees    *)
(* another status some day.                                                *)
StartEnds ==
    \A i \in Insts : status[i] \in {"creating", "initializing"}
                       ~> status[i] \notin {"creating", "initializing"}

-----------------------------------------------------------------------------
(* Properties of operations that do not overlap on one student's rows.     *)

QuietRow(i) == i \in Rows /\ Quiet(owner[i])

(* A running row that nothing works on has its pods and its namespace on   *)
(* record; a paused one kept the namespace it will resume in.              *)
RowMatchesCluster ==
    \A i \in Insts : QuietRow(i) =>
        /\ status[i] = "running" => ns[i] /\ k8s[i] = "pods"
        /\ status[i] = "paused" => ns[i] /\ k8s[i] = "bare"

(* The lifecycle the documents draw, ExpLifecycle.  While the reclaim task *)
(* or the health scan is between its two writes of one row, the student    *)
(* sees where it is going, or where it came from.                          *)
Between(i, pc, ops) == \E t \in Threads : th[t].i = i /\ At(t, pc) /\ th[t].op \in ops
Phase(i) ==
    CASE Between(i, "final", {"reclaim", "timeout"}) -> "expired"
      [] Between(i, "final", {"retain"}) -> "completed"
      [] Between(i, "reinit", {"heal"}) -> "error"
      [] status[i] \in {"creating", "initializing"} -> "starting"
      [] OTHER -> status[i]

Lifecycle == INSTANCE ExpLifecycle WITH
    phase <- [i \in Insts |-> Phase(i)],
    up <- [i \in Insts |-> k8s[i] = "pods"]

(* Operations that do not overlap only take the steps of that diagram,     *)
(* while the process lives.                                                *)
ImplementsLifecycle == Lifecycle!Spec

-----------------------------------------------------------------------------
(* What the documents say and the code does not keep.                      *)

(* "Forced reclaim: the instance status becomes destroyed" (AC-22): a      *)
(* destroyed row does not run again by itself.                             *)
DestroyedStays ==
    [][\A i \in Insts : status[i] = "destroyed" => status'[i] # "running"]_vars

\* For TLC: no definition tells threads and students apart.
Symmetry == Permutations(Threads) \cup Permutations(Students)
=============================================================================
