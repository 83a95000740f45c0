--------------------------- MODULE CtfEnvironments ---------------------------
(***************************************************************************)
(* The challenge environments of one CTF competition with a resource       *)
(* quota: service/ctf/environment_service.go, and what ends them in        *)
(* scheduler.go and competition_service.go.                                *)
(*                                                                         *)
(* An environment is a row and a namespace, the namespace named after the  *)
(* team and the challenge only.  A namespace is deleted asynchronously: it *)
(* terminates for a while, and until then creating it again succeeds and   *)
(* starting a Pod in it fails.  No challenge is without containers.        *)
(***************************************************************************)
EXTENDS Integers, Sequences, FiniteSets

CONSTANTS
    Crews,          \* the threads and the requests they may start: [threads, calls]
    Slots,          \* the pairs of a team and a challenge
    MaxNamespaces   \* ctf_resource_quotas.max_namespaces

VARIABLES
    ended,    \* the competition is over
    count,    \* ctf_resource_quotas.current_namespaces
    rows,     \* challenge_environments, in the order of their ids
    ns,       \* the namespace of each slot
    thr,      \* what each handler does next
    left,     \* requests that may still start
    failed    \* history: a first start has failed

vars == <<ended, count, rows, ns, thr, left, failed>>

Idle == [at |-> "idle"]
Threads == UNION {c.threads : c \in Crews}
Free(t) == t \in DOMAIN thr /\ thr[t] = Idle
At(t, step) == t \in DOMAIN thr /\ thr[t].at = step
Goes(t, r) == thr' = [thr EXCEPT ![t] = r]
Begins(t, r) ==
    Free(t) /\ left > 0 /\ left' = left - 1 /\ Goes(t, r) /\ UNCHANGED <<ended, count, rows, ns, failed>>

Init ==
    /\ ended = FALSE /\ count = 0 /\ rows = <<>> /\ failed = FALSE
    /\ ns = [s \in Slots |-> "none"]
    /\ \E crew \in Crews : thr = [t \in crew.threads |-> Idle] /\ left = crew.calls

-----------------------------------------------------------------------------
Active == {k \in DOMAIN rows : rows[k].status # "destroyed"}
ActiveOf(slot) == {k \in Active : rows[k].slot = slot}

\* UPDATE ... WHERE id, refused by uk_challenge_environments when it would bring a
\* destroyed row back beside its successor.
Refused(k) == ActiveOf(rows[k].slot) \ {k} # {}
Write(k, status) == rows' = [rows EXCEPT ![k].status = status]
GiveBack == count' = IF count > 0 THEN count - 1 ELSE count

\* The errors of DeleteNamespace are ignored.
DeleteNamespace(slot) ==
    \/ ns' = [ns EXCEPT ![slot] = IF @ = "none" THEN @ ELSE "terminating"]
    \/ UNCHANGED ns

NamespaceGone(slot) ==
    /\ ns[slot] = "terminating" /\ ns' = [ns EXCEPT ![slot] = "none"]
    /\ UNCHANGED <<ended, count, rows, thr, left, failed>>

-----------------------------------------------------------------------------
(* Start, its retry and Reset.                                             *)

Start(t, slot) ==
    /\ ~ended
    /\ \/ /\ ActiveOf(slot) = {} /\ count < MaxNamespaces
          /\ Begins(t, [at |-> "insert", slot |-> slot])
       \/ \E k \in ActiveOf(slot) :
            rows[k].status = "error" /\ Begins(t, [at |-> "reset", k |-> k, first |-> FALSE])

Reset(t, k) ==    \* also when the competition is over
    /\ k \in Active /\ Begins(t, [at |-> "reset", k |-> k, first |-> FALSE])

InsertRow(t) ==
    /\ At(t, "insert")
    /\ IF ActiveOf(thr[t].slot) # {}
       THEN Goes(t, Idle) /\ UNCHANGED <<count, rows>>
       ELSE /\ rows' = Append(rows, [slot |-> thr[t].slot, status |-> "creating"])
            /\ count' = count + 1
            /\ Goes(t, [at |-> "create", k |-> Len(rows) + 1, first |-> TRUE])
    /\ UNCHANGED <<ended, ns, left, failed>>

ResetToCreating(t) ==
    /\ At(t, "reset")
    /\ IF Refused(thr[t].k) THEN Goes(t, Idle) /\ UNCHANGED rows
       ELSE Write(thr[t].k, "creating") /\ Goes(t, [thr[t] EXCEPT !.at = "clear"])
    /\ UNCHANGED <<ended, count, ns, left, failed>>

ClearNamespace(t) ==
    /\ At(t, "clear") /\ DeleteNamespace(rows[thr[t].k].slot) /\ Goes(t, [thr[t] EXCEPT !.at = "create"])
    /\ UNCHANGED <<ended, count, rows, left, failed>>

\* A namespace that exists is taken for created.
CreateNamespace(t) ==
    /\ At(t, "create")
    /\ ns' = [ns EXCEPT ![rows[thr[t].k].slot] = IF @ = "none" THEN "up" ELSE @]
    /\ Goes(t, [thr[t] EXCEPT !.at = "deploy"])
    /\ UNCHANGED <<ended, count, rows, left, failed>>

Deploy_any(t) ==    \* mutant: the Pods start in a namespace that terminates
    /\ At(t, "deploy")
    /\ \E ok \in BOOLEAN : Goes(t, [thr[t] EXCEPT !.at = IF ok THEN "apply" ELSE "undo"])
    /\ UNCHANGED <<ended, count, rows, ns, left, failed>>

Deploy(t) ==
    /\ At(t, "deploy")
    /\ \E ok \in BOOLEAN :
         /\ ok => ns[rows[thr[t].k].slot] = "up"
         /\ Goes(t, [thr[t] EXCEPT !.at = IF ok THEN "apply" ELSE "undo"])
    /\ UNCHANGED <<ended, count, rows, ns, left, failed>>

\* applyProvisionedEnvironmentResult writes whatever has become of the row.
ApplyResult(t) ==
    /\ At(t, "apply")
    /\ IF Refused(thr[t].k) THEN Goes(t, [thr[t] EXCEPT !.at = "undo"]) /\ UNCHANGED rows
       ELSE Write(thr[t].k, "running") /\ Goes(t, Idle)
    /\ UNCHANGED <<ended, count, ns, left, failed>>

\* rollbackFailedEnvironmentStart and markEnvironmentError; the first gives its place
\* back although the row remains, and a retry takes none.
RollbackNamespace(t) ==
    /\ At(t, "undo")
    /\ IF thr[t].first THEN DeleteNamespace(rows[thr[t].k].slot) ELSE UNCHANGED ns
    /\ Goes(t, [thr[t] EXCEPT !.at = "error"])
    /\ UNCHANGED <<ended, count, rows, left, failed>>

MarkError(t) ==
    /\ At(t, "error") /\ Goes(t, Idle)
    /\ IF Refused(thr[t].k) THEN UNCHANGED <<rows, count, failed>>
       ELSE /\ Write(thr[t].k, "error")
            /\ IF thr[t].first THEN GiveBack /\ failed' = TRUE ELSE UNCHANGED <<count, failed>>
    /\ UNCHANGED <<ended, ns, left>>

-----------------------------------------------------------------------------
(* destroyEnvironment, of one row or of those a job has listed, the newest *)
(* first.                                                                  *)

Sweep(todo, then) ==
    IF todo # {} THEN [at |-> "kill", todo |-> todo, then |-> then]
    ELSE IF then = "idle" THEN Idle ELSE [at |-> then]
Listed == Active
Newest(todo) == CHOOSE k \in todo : \A j \in todo : j <= k

Destroy(t, k) == k \in Active /\ Begins(t, Sweep({k}, "idle"))

DestroyNamespace(t) ==
    /\ At(t, "kill") /\ DeleteNamespace(rows[Newest(thr[t].todo)].slot)
    /\ Goes(t, [thr[t] EXCEPT !.at = "mark"])
    /\ UNCHANGED <<ended, count, rows, left, failed>>

MarkDestroyed_keeps(t) ==    \* mutant: the place is not given back
    /\ At(t, "mark")
    /\ Write(Newest(thr[t].todo), "destroyed")
    /\ Goes(t, Sweep(thr[t].todo \ {Newest(thr[t].todo)}, thr[t].then))
    /\ UNCHANGED <<ended, ns, left, failed, count>>

MarkDestroyed(t) ==
    /\ At(t, "mark")
    /\ Write(Newest(thr[t].todo), "destroyed") /\ GiveBack
    /\ Goes(t, Sweep(thr[t].todo \ {Newest(thr[t].todo)}, thr[t].then))
    /\ UNCHANGED <<ended, ns, left, failed>>

\* The jobs at the end of a competition, and the one that runs afterwards.
FinishCompetition(t) ==
    /\ Free(t) /\ ~ended /\ ended' = TRUE /\ Goes(t, Sweep(Listed, "idle"))
    /\ UNCHANGED <<count, rows, ns, left, failed>>

RunEnvironmentRecycle(t) ==
    /\ Free(t) /\ ended /\ Active # {} /\ Goes(t, Sweep(Listed, "idle"))
    /\ UNCHANGED <<ended, count, rows, ns, left, failed>>

Terminate(t) ==
    /\ Free(t) /\ ~ended /\ Goes(t, Sweep(Listed, "terminate"))
    /\ UNCHANGED <<ended, count, rows, ns, left, failed>>

DestroyByCompetition(t) ==
    /\ At(t, "terminate") /\ ended' = TRUE /\ Goes(t, Idle)
    /\ rows' = [k \in DOMAIN rows |-> [rows[k] EXCEPT !.status = "destroyed"]]
    /\ UNCHANGED <<count, ns, left, failed>>

Next ==
    \/ \E slot \in Slots : NamespaceGone(slot)
    \/ \E t \in Threads :
         \/ \E slot \in Slots : Start(t, slot)
         \/ \E k \in DOMAIN rows : Reset(t, k) \/ Destroy(t, k)
         \/ InsertRow(t) \/ ResetToCreating(t) \/ ClearNamespace(t) \/ CreateNamespace(t) \/ Deploy(t)
         \/ ApplyResult(t) \/ RollbackNamespace(t) \/ MarkError(t)
         \/ DestroyNamespace(t) \/ MarkDestroyed(t)
         \/ FinishCompetition(t) \/ RunEnvironmentRecycle(t) \/ Terminate(t) \/ DestroyByCompetition(t)

Spec == Init /\ [][Next]_vars

-----------------------------------------------------------------------------
Settled == Cardinality(DOMAIN thr) = 1 /\ \A t \in DOMAIN thr : thr[t] = Idle

TypeOK ==
    /\ ended \in BOOLEAN /\ failed \in BOOLEAN /\ count \in Nat
    /\ ns \in [Slots -> {"none", "up", "terminating"}]
    /\ \A k \in DOMAIN rows :
         rows[k].slot \in Slots /\ rows[k].status \in {"creating", "running", "error", "destroyed"}

\* The counter of the quota holds no place for an environment that is gone, however the
\* requests overlap, until Terminate destroys rows without counting them.  One request
\* at a time and no failed start, it is the number of environments.
QuotaCounts ==
    /\ ~ended => count <= Cardinality(Active)
    /\ Settled /\ ~failed => count = Cardinality(Active)

\* One request at a time, an environment that is said to run has its namespace.
RunningHasNamespace ==
    Settled => \A k \in DOMAIN rows : rows[k].status = "running" => ns[rows[k].slot] = "up"
=============================================================================
