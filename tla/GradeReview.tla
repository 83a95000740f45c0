---------------------------- MODULE GradeReview ----------------------------
(***************************************************************************)
(* The way of a grade, from service/course and service/grade: the          *)
(* submissions of one student to one assignment (Submit with its automatic *)
(* grading, GradeSubmission, the status of the course), and the review of  *)
(* the course's grades for a semester (submitting, approving, rejecting    *)
(* and unlocking it, the semester grade it writes, the appeal against that *)
(* grade, academic warnings, and the teacher's adjustment, which asks for  *)
(* the lock).                                                              *)
(*                                                                         *)
(* A handler runs its statements one by one without a transaction; a       *)
(* thread's record names the statement it comes to next.  An answer is the *)
(* score it has, or Ungraded; a question the student skipped has none.     *)
(* Scores are even numbers, so that half of one is a number again.  The    *)
(* assignment has full weight; the course has its grade configuration, its *)
(* credits and its semester.  Drafts and the editing of assignments are    *)
(* left out.                                                               *)
(***************************************************************************)
EXTENDS Integers, Sequences, FiniteSets, Functions, FiniteSetsExt

CONSTANTS
    Crews,            \* the handlers at work, the operations they may start, the parts those
                      \* belong to, and the submissions there are: [threads, calls, jobs, begun]
    MaxSubmissions,   \* assignments.max_submissions
    MaxDays,          \* bound: days after the deadline
    MaxFaults,        \* bound: statements that fail
    Ungraded, None,   \* no score yet, no value
    Pass              \* scores below it raise the warning

VARIABLES
    course,  \* courses.status
    policy,  \* assignments.late_policy; a day late costs half of the score
    day,     \* days since the deadline, begun ones included
    subs,    \* the submissions, by submission_no
    thr,     \* what each handler is doing
    left,    \* operations that may still start, and of which parts
    faults,  \* statements that failed
    torn,    \* history: submissions whose answers and total were not written together
    override,  \* course_grade_overrides: the teacher's adjustment
    review,    \* the row of grade_reviews
    row,       \* the row of student_semester_grades, with its id
    rows,      \* rows created so far
    appeal,    \* the row of grade_appeals, with the grade row it refers to
    warned,    \* the row of academic_warnings
    granted    \* history: the score of the last approval

hwVars == <<course, policy, day, subs, torn>>
runVars == <<thr, left, faults>>
grVars == <<override, review, row, rows, appeal, warned, granted>>
vars == <<hwVars, runVars, grVars>>

Questions == {"choice", "essay"}
Worth == [q \in Questions |-> 2]
Threads == UNION {c.threads : c \in Crews}

Idle == [at |-> "idle"]
Free(t) == t \in DOMAIN thr /\ thr[t] = Idle
At(t, step) == t \in DOMAIN thr /\ thr[t].at = step
Goes(t, r) == thr' = [thr EXCEPT ![t] = r]
Ends(t) == Goes(t, Idle)
Begins(t, job, r) ==
    /\ Free(t) /\ left.calls > 0 /\ job \in left.jobs
    /\ left' = [left EXCEPT !.calls = @ - 1] /\ Goes(t, r) /\ UNCHANGED faults
Continues(t, r) == Goes(t, r) /\ UNCHANGED <<left, faults>>
Returns(t) == Continues(t, Idle)

HwInit ==
    /\ course = "active" /\ day = 0 /\ torn = {} /\ faults = 0
    /\ \E crew \in Crews :
         /\ thr = [t \in crew.threads |-> Idle]
         /\ left = [calls |-> crew.calls, jobs |-> crew.jobs]
         /\ policy \in IF "homework" \in crew.jobs THEN {"refuse", "deduct", "accept"} ELSE {"accept"}
         /\ subs = crew.begun

-----------------------------------------------------------------------------
(* Scores.                                                                 *)

Score(answers, q) == IF q \in DOMAIN answers /\ answers[q] # Ungraded THEN answers[q] ELSE 0
Points(answers) == Score(answers, "choice") + Score(answers, "essay")

\* What is left of a total after so many days.
Deducted(total, days) ==
    IF policy = "deduct" /\ 2 * total > days * total THEN total - (days * total) \div 2
    ELSE IF policy = "deduct" THEN 0 ELSE total

\* The answers a student can send: right or wrong ones to the choice, and an essay.
Answers == UNION {[D -> {0, 2, Ungraded}] : D \in SUBSET Questions}
Papers == {a \in Answers : \A q \in DOMAIN a : (q = "choice") <=> (a[q] # Ungraded)}

\* The marks of a grading request; one of them may be too high.
Markings == UNION {[D -> {0, 2, 4}] : D \in {{"essay"}, Questions}}

-----------------------------------------------------------------------------
(* Submitting.                                                             *)

SubmitCheck(t, paper) ==
    /\ course = "active" /\ Len(subs) < MaxSubmissions
    /\ day > 0 => policy # "refuse"
    /\ Begins(t, "homework", [at |-> "create", no |-> Len(subs) + 1, paper |-> paper, days |-> day])
    /\ UNCHANGED hwVars

SubmitCreate_any(t) ==      \* mutant: no unique index on the number
    /\ At(t, "create")
    /\ subs' = Append(subs, [status |-> "submitted", answers |-> <<>>, total |-> None,
                             days |-> thr[t].days])
    /\ Continues(t, [at |-> "answers", no |-> Len(subs) + 1, paper |-> thr[t].paper])
    /\ UNCHANGED <<course, policy, day, torn>>

\* The unique index on assignment, student and number refuses the second of two.
SubmitCreate(t) ==
    /\ At(t, "create")
    /\ IF thr[t].no \in DOMAIN subs
       THEN Returns(t) /\ UNCHANGED subs
       ELSE /\ subs' = Append(subs, [status |-> "submitted", answers |-> <<>>, total |-> None,
                                     days |-> thr[t].days])
            /\ Continues(t, [at |-> "answers", no |-> thr[t].no, paper |-> thr[t].paper])
    /\ UNCHANGED <<course, policy, day, torn>>

\* Without an essay the submission is graded at once, an empty one included.
SubmitAnswers(t) ==
    /\ At(t, "answers")
    /\ LET r == thr[t] IN
       /\ subs' = [subs EXCEPT ![r.no].answers = r.paper]
       /\ IF \A q \in DOMAIN r.paper : r.paper[q] # Ungraded
          THEN Continues(t, [r EXCEPT !.at = "autograde"])
          ELSE Returns(t)
    /\ UNCHANGED <<course, policy, day, torn>>

AutoGrade(t) ==
    /\ At(t, "autograde")
    /\ LET i == thr[t].no IN
       subs' = [subs EXCEPT ![i].status = "graded",
                            ![i].total = Deducted(Points(thr[t].paper), subs[i].days)]
    /\ Returns(t) /\ UNCHANGED <<course, policy, day, torn>>

-----------------------------------------------------------------------------
(* Grading.                                                                *)

\* GradeSubmission loads the answers; it asks for no lock on the grades.
GradeLoad(t, i, marks) ==
    /\ course \in {"active", "ended"}
    /\ Begins(t, "homework", [at |-> "mark", no |-> i, answers |-> subs[i].answers, marks |-> marks])
    /\ UNCHANGED hwVars

\* One mark of the request: written, skipped when the question has no answer, or refused
\* when it is too high, with the earlier ones of the request written.
GradeMark(t) ==
    /\ At(t, "mark")
    /\ \E q \in DOMAIN thr[t].marks :
         LET r == thr[t]
             m == r.marks[q]
             rest == [r EXCEPT !.marks = Restrict(r.marks, DOMAIN r.marks \ {q})]
         IN \/ /\ q \notin DOMAIN r.answers
               /\ Continues(t, rest) /\ UNCHANGED <<subs, torn>>
            \/ /\ q \in DOMAIN r.answers /\ m > Worth[q]
               /\ torn' = torn \union {r.no}
               /\ Returns(t) /\ UNCHANGED subs
            \/ /\ q \in DOMAIN r.answers /\ m <= Worth[q]
               /\ subs' = [subs EXCEPT ![r.no].answers[q] = m]
               /\ Continues(t, [rest EXCEPT !.answers[q] = m]) /\ UNCHANGED torn
    /\ UNCHANGED <<course, policy, day>>

GradeTotal_marks(t) ==      \* mutant: the total of the marked answers only
    /\ At(t, "mark") /\ DOMAIN thr[t].marks = {}
    /\ LET i == thr[t].no IN
       subs' = [subs EXCEPT ![i].status = "graded",
                            ![i].total = Deducted(Points(Restrict(thr[t].answers, DOMAIN thr[t].answers \ {"choice"})), subs[i].days)]
    /\ Returns(t) /\ UNCHANGED <<course, policy, day, torn>>

\* The total of the answers as loaded, with the marks of this request.
GradeTotal(t) ==
    /\ At(t, "mark") /\ DOMAIN thr[t].marks = {}
    /\ LET i == thr[t].no IN
       subs' = [subs EXCEPT ![i].status = "graded",
                            ![i].total = Deducted(Points(thr[t].answers), subs[i].days)]
    /\ Returns(t) /\ UNCHANGED <<course, policy, day, torn>>

\* A statement of Submit or GradeSubmission fails, and the handler returns.
HwFault(t) ==
    /\ \E step \in {"create", "answers", "autograde", "mark"} : At(t, step)
    /\ faults < MaxFaults /\ faults' = faults + 1
    /\ torn' = torn \union {thr[t].no}
    /\ Ends(t) /\ UNCHANGED <<left, course, policy, day, subs>>

-----------------------------------------------------------------------------
(* The course and the clock.                                               *)

EndCourse == course = "active" /\ course' = "ended"
ArchiveCourse == course = "ended" /\ course' = "archived"
CourseGoesOn ==
    /\ "homework" \in left.jobs
    /\ EndCourse \/ ArchiveCourse
    /\ UNCHANGED <<policy, day, subs, torn, runVars>>

DayPasses ==
    /\ "homework" \in left.jobs /\ day < MaxDays /\ day' = day + 1
    /\ UNCHANGED <<course, policy, subs, torn, runVars>>

HwStep(t) ==
    \/ \E paper \in Papers : SubmitCheck(t, paper)
    \/ SubmitCreate(t) \/ SubmitAnswers(t) \/ AutoGrade(t)
    \/ \E i \in DOMAIN subs, marks \in Markings : GradeLoad(t, i, marks)
    \/ GradeMark(t) \/ GradeTotal(t) \/ HwFault(t)

-----------------------------------------------------------------------------
(* Grades.                                                                 *)

Scores == {0, 4}

Init ==
    /\ HwInit
    /\ override = None /\ row = None /\ rows = 0 /\ appeal = None
    /\ review = [status |-> "none", locked |-> FALSE]
    /\ warned = "none" /\ granted = None

-----------------------------------------------------------------------------
(* The score of the course: the latest graded submission of each           *)
(* assignment, unless the teacher has adjusted it.                         *)

GradedNumbers == {i \in DOMAIN subs : subs[i].status = "graded"}
Complete == GradedNumbers # {}
Official == IF override # None THEN override ELSE subs[Max(GradedNumbers)].total

\* AdjustGrade: the lock is read, and the adjustment written later.
AdjustCheck(t, s) ==
    /\ course # "archived" /\ ~review.locked
    /\ Begins(t, "review", [at |-> "override", score |-> s])
    /\ UNCHANGED <<hwVars, grVars>>

AdjustWrite(t) ==
    /\ At(t, "override")
    /\ override' = thr[t].score /\ Returns(t)
    /\ UNCHANGED <<hwVars, review, row, rows, appeal, warned, granted>>

-----------------------------------------------------------------------------
(* The review.                                                             *)

ReviewFile_locked(t) ==     \* mutant: submitting again leaves the lock
    /\ At(t, "file")
    /\ review' = IF thr[t].first /\ review.status # "none" THEN review
                 ELSE [review EXCEPT !.status = "pending"]
    /\ Returns(t)
    /\ UNCHANGED <<hwVars, override, row, rows, appeal, warned, granted>>

\* SubmitReview: only the first time it asks whether every student has a score.
ReviewRead(t) ==
    /\ review.status \in {"none", "unsubmitted", "rejected"}
    /\ review.status = "none" => Complete
    /\ Begins(t, "review", [at |-> "file", first |-> review.status = "none"])
    /\ UNCHANGED <<hwVars, grVars>>

\* Create, which the unique index refuses when there is a row, or UpdateSubmitInfo.
ReviewFile(t) ==
    /\ At(t, "file")
    /\ review' = IF thr[t].first /\ review.status # "none" THEN review
                 ELSE [status |-> "pending", locked |-> FALSE]
    /\ Returns(t)
    /\ UNCHANGED <<hwVars, override, row, rows, appeal, warned, granted>>

\* ApproveReview builds the rows, and then writes in four statements.
ApproveLoad(t) ==
    /\ review.status = "pending" /\ Complete
    /\ Begins(t, "review", [at |-> "approve", score |-> Official])
    /\ UNCHANGED <<hwVars, grVars>>

ApproveStatus(t) ==
    /\ At(t, "approve")
    /\ review' = [status |-> "approved", locked |-> TRUE] /\ granted' = thr[t].score
    /\ Continues(t, [thr[t] EXCEPT !.at = "clear"])
    /\ UNCHANGED <<hwVars, override, row, rows, appeal, warned>>

\* DeleteByReview: the foreign key of an appeal holds the row, and the handler fails.
ApproveClear(t) ==
    /\ At(t, "clear")
    /\ IF row # None /\ appeal # None
       THEN Returns(t) /\ UNCHANGED row
       ELSE row' = None /\ Continues(t, [thr[t] EXCEPT !.at = "grades"])
    /\ UNCHANGED <<hwVars, override, review, rows, appeal, warned, granted>>

\* BatchUpsert.
ApproveWrite(t) ==
    /\ At(t, "grades")
    /\ IF row = None
       THEN row' = [score |-> thr[t].score, id |-> rows + 1] /\ rows' = rows + 1
       ELSE row' = [row EXCEPT !.score = thr[t].score] /\ UNCHANGED rows
    /\ Continues(t, [at |-> "warn"])
    /\ UNCHANGED <<hwVars, override, review, appeal, warned, granted>>

Low == row # None /\ row.score < Pass

RefreshWarnings_stays(t) == \* mutant: a warning that no longer applies stays
    /\ At(t, "warn")
    /\ warned' = IF Low /\ warned = "none" THEN "pending" ELSE warned
    /\ Returns(t)
    /\ UNCHANGED <<hwVars, override, review, row, rows, appeal, granted>>

\* refreshWarningsForSemester: upsertWarning finds a resolved warning too, and only
\* updates its detail.
RefreshWarnings(t) ==
    /\ At(t, "warn")
    /\ warned' = IF Low THEN (IF warned = "none" THEN "pending" ELSE warned)
                 ELSE IF warned = "none" THEN "none" ELSE "resolved"
    /\ Returns(t)
    /\ UNCHANGED <<hwVars, override, review, row, rows, appeal, granted>>

RejectLoad(t) ==
    /\ review.status = "pending" /\ Begins(t, "review", [at |-> "reject"])
    /\ UNCHANGED <<hwVars, grVars>>

RejectWrite(t) ==
    /\ At(t, "reject")
    /\ review' = [status |-> "rejected", locked |-> FALSE] /\ Returns(t)
    /\ UNCHANGED <<hwVars, override, row, rows, appeal, warned, granted>>

UnlockLoad(t) ==
    /\ review.locked /\ review.status = "approved" /\ Begins(t, "review", [at |-> "unlock"])
    /\ UNCHANGED <<hwVars, grVars>>

UnlockWrite(t) ==
    /\ At(t, "unlock")
    /\ review' = [status |-> "unsubmitted", locked |-> FALSE] /\ Returns(t)
    /\ UNCHANGED <<hwVars, override, row, rows, appeal, warned, granted>>

-----------------------------------------------------------------------------
(* Appeals and warnings.                                                   *)

\* CreateAppeal within its thirty days; the unique index and the foreign key make its
\* reads as good as one step.
CreateAppeal(t) ==
    /\ row # None /\ review.status = "approved" /\ appeal = None
    /\ Begins(t, "review", Idle)
    /\ appeal' = [status |-> "pending", grade |-> row.id, new |-> None]
    /\ UNCHANGED <<hwVars, override, review, row, rows, warned, granted>>

\* ApproveAppeal and RejectAppeal load the appeal and ask nothing of the review.
AppealLoad(t, outcome, s) ==
    /\ appeal # None /\ appeal.status = "pending"
    /\ Begins(t, "review", [at |-> outcome, score |-> s, grade |-> appeal.grade])
    /\ UNCHANGED <<hwVars, grVars>>

AppealGrant(t) ==
    /\ At(t, "grant")
    /\ appeal' = [appeal EXCEPT !.status = "approved", !.new = thr[t].score]
    /\ Continues(t, [thr[t] EXCEPT !.at = "regrade"])
    /\ UNCHANGED <<hwVars, override, review, row, rows, warned, granted>>

AppealRegrade_held(t) ==      \* mutant: the lock of the review keeps the appeal from the row
    /\ At(t, "regrade")
    /\ row' = IF row # None /\ ~review.locked THEN [row EXCEPT !.score = thr[t].score] ELSE row
    /\ Continues(t, [at |-> "warn"])
    /\ UNCHANGED <<hwVars, override, review, rows, appeal, warned, granted>>

\* UpdateAfterAppeal, by the id of the row.
AppealRegrade(t) ==
    /\ At(t, "regrade")
    /\ row' = IF row # None /\ row.id = thr[t].grade THEN [row EXCEPT !.score = thr[t].score] ELSE row
    /\ Continues(t, [at |-> "warn"])
    /\ UNCHANGED <<hwVars, override, review, rows, appeal, warned, granted>>

AppealReject(t) ==
    /\ At(t, "refuse")
    /\ appeal' = [appeal EXCEPT !.status = "rejected"] /\ Returns(t)
    /\ UNCHANGED <<hwVars, override, review, row, rows, warned, granted>>

HandleWarning(t) ==
    /\ warned # "none" /\ Begins(t, "review", Idle) /\ warned' = "handled"
    /\ UNCHANGED <<hwVars, override, review, row, rows, appeal, granted>>

\* A statement of an approval or of an appeal fails.
GrFault(t) ==
    /\ \E step \in {"override", "file", "approve", "clear", "grades", "warn", "reject",
                    "unlock", "grant", "regrade", "refuse"} : At(t, step)
    /\ faults < MaxFaults /\ faults' = faults + 1
    /\ Ends(t) /\ UNCHANGED <<left, hwVars, grVars>>

Next ==
    \/ \E t \in Threads :
         \/ HwStep(t) /\ UNCHANGED grVars
         \/ \E s \in Scores : AdjustCheck(t, s)
         \/ AdjustWrite(t) \/ ReviewRead(t) \/ ReviewFile(t)
         \/ ApproveLoad(t) \/ ApproveStatus(t) \/ ApproveClear(t) \/ ApproveWrite(t)
         \/ RefreshWarnings(t) \/ RejectLoad(t) \/ RejectWrite(t) \/ UnlockLoad(t) \/ UnlockWrite(t)
         \/ CreateAppeal(t) \/ HandleWarning(t)
         \/ \E outcome \in {"grant", "refuse"}, s \in Scores : AppealLoad(t, outcome, s)
         \/ AppealGrant(t) \/ AppealRegrade(t) \/ AppealReject(t) \/ GrFault(t)
    \/ CourseGoesOn /\ UNCHANGED grVars
    \/ DayPasses /\ UNCHANGED grVars

Spec == Init /\ [][Next]_vars

-----------------------------------------------------------------------------
Settled == Cardinality(DOMAIN thr) = 1 /\ \A t \in DOMAIN thr : Free(t)

\* However many submissions a student sends at once, the rows stay within
\* max_submissions: what the count before the insert cannot promise, the index does.
AttemptsBounded == Len(subs) <= MaxSubmissions

\* A graded submission carries the points of its answers, the automatic ones
\* included, after the deduction for the days it was late: after any sequence of
\* submissions and gradings, if none was cut short.
TotalsAddUp ==
    Settled => \A i \in DOMAIN subs \ torn :
        subs[i].status = "graded" => subs[i].total = Deducted(Points(subs[i].answers), subs[i].days)

\* Every variable is in its domain; a locked review is an approved one.
TypeOK ==
    /\ course \in {"active", "ended", "archived"} /\ day \in 0 .. MaxDays
    /\ \A i \in DOMAIN subs :
         /\ subs[i].status \in {"submitted", "graded"} /\ subs[i].days \in 0 .. MaxDays
         /\ subs[i].total \in 0 .. 4 \union {None}
         /\ (subs[i].status = "graded") <=> (subs[i].total # None)
    /\ override \in Scores \union {None}
    /\ review.locked => review.status = "approved"
    /\ row = None \/ (row.score \in 0 .. 4 /\ row.id \in 1 .. rows)
    /\ appeal = None \/ appeal.status \in {"pending", "approved", "rejected"}
    /\ warned \in {"none", "pending", "handled", "resolved"}

\* Approved grades are the ones the approval computed, and a granted appeal is in the
\* grade it was about, whatever adjustments, rejections, unlocks and approvals went
\* before, one after the other and if no statement failed.  Said of an approval that
\* came before any appeal: after one the approval is locked and its grades not written.
ApprovedIsWritten ==
    Settled /\ faults = 0 =>
        /\ review.locked /\ appeal = None => row # None /\ row.score = granted
        /\ appeal # None => (row # None /\ row.id = appeal.grade)
        /\ appeal # None /\ appeal.status = "approved" => row.score = appeal.new

\* A student whose grade is low has a warning, and a pending warning is about a grade
\* that is low now.  A warning once resolved is never raised again.
WarningsTrue ==
    Settled /\ faults = 0 =>
        /\ Low => warned # "none"
        /\ warned = "pending" => Low
=============================================================================
