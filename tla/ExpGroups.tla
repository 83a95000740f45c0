----------------------------- MODULE ExpGroups -----------------------------
(***************************************************************************)
(* The groups of one collaborative template in one course: group_service.go *)
(* of service/experiment, and refreshGroupStatus, which the operations on   *)
(* the instances of a group call.                                           *)
(*                                                                          *)
(* Nothing but its index guards the table of members; a request checks what *)
(* it has read, inserts or deletes, and then writes the status of the group *)
(* from the count it had read.  One role per group is scarce: each role has *)
(* RoleMax places in a group, and a member may have none.                   *)
(***************************************************************************)
EXTENDS Integers, Sequences, FiniteSets, Functions

CONSTANTS
    Crews,              \* the threads, the requests they may start and the maxima of the
                        \* empty groups there are: [threads, calls, open]
    Students, Roles,
    RoleMax,            \* template_roles.max_members
    Sizes, MaxGroups,   \* bounds: the maxima asked for, and the groups created
    None                \* no role, no instance

VARIABLES
    groups,    \* the rows of experiment_groups with their members, each with a role and the
               \* request that stored it as its id; cap and edited are history: the largest
               \* maximum so far, and whether Update changed the row
    inst,      \* the status of the latest instance of each student in each group
    thr,       \* what each handler has read
    left       \* requests that may still start

vars == <<groups, inst, thr, left>>

Idle == [at |-> "idle"]
Threads == UNION {c.threads : c \in Crews}
Free(t) == t \in DOMAIN thr /\ thr[t] = Idle /\ left > 0
At(t, step) == t \in DOMAIN thr /\ thr[t].at = step
Goes(t, r) == thr' = [thr EXCEPT ![t] = r]
Begins(t, r) == Free(t) /\ left' = left - 1 /\ Goes(t, r)

-----------------------------------------------------------------------------
(* Reads.                                                                   *)

Stored(n) == ~groups[n].deleted
Count(n) == Cardinality(DOMAIN groups[n].members)
InSome(s) == \E n \in DOMAIN groups : s \in DOMAIN groups[n].members
UsedBy(members, r) == Cardinality({s \in DOMAIN members : members[s].role = r})
RoleFree(members, r) == r = None \/ UsedBy(members, r) < RoleMax

MembershipStatus(max, count) == IF count >= max THEN "ready" ELSE "forming"

NewGroup(max, members) ==
    [max |-> max, cap |-> max, members |-> members, deleted |-> FALSE, edited |-> FALSE,
     status |-> MembershipStatus(max, Cardinality(DOMAIN members))]

AggregateStatus(max, members, latest) ==
    LET of == {latest[s] : s \in members} IN
    IF Cardinality(members) < max THEN "forming"
    ELSE IF of = {"completed"} THEN "completed"
    ELSE IF "running" \in of /\ of \subseteq {"running", "completed"} THEN "running"
    ELSE "ready"

NoInstance == [s \in Students |-> None]

SetStatus(n, status) == groups' = IF Stored(n) THEN [groups EXCEPT ![n].status = status] ELSE groups

Init ==
    \E crew \in Crews :
        /\ thr = [t \in crew.threads |-> Idle] /\ left = crew.calls
        /\ groups = [n \in DOMAIN crew.open |-> NewGroup(crew.open[n], <<>>)]
        /\ inst = [n \in DOMAIN crew.open |-> NoInstance]

-----------------------------------------------------------------------------
(* Teachers.                                                                *)

\* By hand with members, or empty for the students to choose.
CreateGroup(t, max, roles) ==
    LET members == [s \in DOMAIN roles |-> [role |-> roles[s], id |-> left]] IN
    /\ Cardinality(DOMAIN members) <= max
    /\ \A r \in Roles : UsedBy(members, r) <= RoleMax
    /\ \A s \in DOMAIN members : ~InSome(s)
    /\ Begins(t, [at |-> "create", max |-> max, members |-> members])
    /\ UNCHANGED <<groups, inst>>

CreateWrite(t) ==
    /\ At(t, "create")
    /\ groups' = Append(groups, NewGroup(thr[t].max, thr[t].members))
    /\ inst' = Append(inst, NoInstance)
    /\ Goes(t, Idle) /\ UNCHANGED left

\* Any maximum and any status, whatever the members are.
Update(t, n, max, status) ==
    /\ Stored(n) /\ Begins(t, Idle)
    /\ groups' = [groups EXCEPT ![n].max = max, ![n].status = status, ![n].edited = TRUE,
                                ![n].cap = IF @ < max THEN max ELSE @]
    /\ UNCHANGED inst

\* The foreign key of the instances refuses a group that was used.
Delete(t, n) ==
    /\ Stored(n) /\ \A s \in Students : inst[n][s] = None
    /\ Begins(t, Idle)
    /\ groups' = [groups EXCEPT ![n].deleted = TRUE, ![n].members = <<>>]
    /\ UNCHANGED inst

RemoveMember(t, s, n) ==
    /\ Stored(n) /\ s \in DOMAIN groups[n].members
    /\ Begins(t, [at |-> "remove", s |-> s, n |-> n, id |-> groups[n].members[s].id,
                  status |-> MembershipStatus(groups[n].max, Count(n) - 1)])
    /\ UNCHANGED <<groups, inst>>

MemberDelete(t) ==
    /\ At(t, "remove")
    /\ groups' = [groups EXCEPT ![thr[t].n].members =
                     Restrict(@, {s \in DOMAIN @ : s # thr[t].s \/ @[s].id # thr[t].id})]
    /\ Goes(t, [at |-> "status", n |-> thr[t].n, status |-> thr[t].status])
    /\ UNCHANGED <<inst, left>>

-----------------------------------------------------------------------------
(* Students.                                                                *)

Join(t, s, n, r) ==
    /\ Stored(n) /\ groups[n].status = "forming" /\ Count(n) < groups[n].max /\ ~InSome(s)
    /\ RoleFree(groups[n].members, r)
    /\ Begins(t, [at |-> "join", s |-> s, n |-> n, member |-> [role |-> r, id |-> left], old |-> groups[n].status,
                  status |-> MembershipStatus(groups[n].max, Count(n) + 1)])
    /\ UNCHANGED <<groups, inst>>

\* uk_group_members and the foreign key refuse the rest.  An unchanged status is not written.
MemberInsert(t) ==
    /\ At(t, "join") /\ UNCHANGED <<inst, left>>
    /\ LET r == thr[t]
           fits == Stored(r.n) /\ r.s \notin DOMAIN groups[r.n].members IN
       /\ groups' = IF fits
                     THEN [groups EXCEPT ![r.n].members =
                             [s \in DOMAIN @ \union {r.s} |-> IF s = r.s THEN r.member ELSE @[s]]]
                     ELSE groups
       /\ Goes(t, IF fits /\ r.status # r.old THEN [at |-> "status", n |-> r.n, status |-> r.status] ELSE Idle)

StatusWrite(t) ==
    /\ At(t, "status")
    /\ SetStatus(thr[t].n, thr[t].status)
    /\ Goes(t, Idle) /\ UNCHANGED <<inst, left>>

-----------------------------------------------------------------------------
(* Instances.                                                               *)

\* A member with a role, once the group has been formed.  The status is not refreshed.
StartInstance(t, s, n) ==
    /\ Stored(n) /\ s \in DOMAIN groups[n].members /\ groups[n].members[s].role # None
    /\ groups[n].status # "forming" /\ \A k \in DOMAIN inst : inst[k][s] \notin {"starting", "running"}
    /\ Begins(t, Idle)
    /\ inst' = [inst EXCEPT ![n][s] = "starting"] /\ UNCHANGED groups

\* The health scan, the reclaim task, a restored snapshot: none refreshes the group.
InstanceWrite(t, s, n, to) ==
    /\ \/ inst[n][s] = "running" /\ to = "stopped"
       \/ inst[n][s] = "stopped" /\ to = "completed"
       \/ inst[n][s] \in {"running", "stopped", "completed"} /\ to = "starting"
    /\ Begins(t, Idle)
    /\ inst' = [inst EXCEPT ![n][s] = to] /\ UNCHANGED groups

\* The end of the provisioning, a pause, a resumption, a submission, a destruction: each
\* writes the row of the instance and refreshes the group.
InstanceMoves(t, s, n, to) ==
    /\ \/ inst[n][s] \in {"starting", "running"} /\ to = "stopped"
       \/ inst[n][s] = "starting" /\ to = "running"
       \/ inst[n][s] = "stopped" /\ to = "starting"
       \/ inst[n][s] = "running" /\ to = "completed"
       \/ inst[n][s] = "completed" /\ to = "stopped"
    /\ Begins(t, [at |-> "refresh", n |-> n])
    /\ inst' = [inst EXCEPT ![n][s] = to] /\ UNCHANGED groups

RefreshGroup(t) ==
    /\ At(t, "refresh")
    /\ LET g == groups[thr[t].n] IN
       Goes(t, [at |-> "latest", n |-> thr[t].n, max |-> g.max, members |-> DOMAIN g.members, old |-> g.status])
    /\ UNCHANGED <<groups, inst, left>>

RefreshInstances(t) ==
    /\ At(t, "latest")
    /\ LET r == thr[t]
           status == AggregateStatus(r.max, r.members, inst[r.n]) IN
       Goes(t, IF status = r.old THEN Idle ELSE [at |-> "status", n |-> r.n, status |-> status])
    /\ UNCHANGED <<groups, inst, left>>

Next ==
    \E t \in Threads :
      \/ /\ Len(groups) < MaxGroups
         /\ \E max \in Sizes, who \in SUBSET Students :
              \E roles \in [who -> Roles \union {None}] : CreateGroup(t, max, roles)
      \/ \E n \in DOMAIN groups :
           \/ \E max \in Sizes, status \in {"forming", "ready"} : Update(t, n, max, status)
           \/ Delete(t, n)
           \/ \E s \in Students :
                \/ RemoveMember(t, s, n) \/ StartInstance(t, s, n)
                \/ \E r \in Roles \union {None} : Join(t, s, n, r)
                \/ \E to \in {"starting", "running", "stopped", "completed"} :
                     InstanceWrite(t, s, n, to) \/ InstanceMoves(t, s, n, to)
      \/ CreateWrite(t) \/ MemberDelete(t) \/ MemberInsert(t) \/ StatusWrite(t)
      \/ RefreshGroup(t) \/ RefreshInstances(t)

Spec == Init /\ [][Next]_vars

-----------------------------------------------------------------------------
Overlap == Cardinality(DOMAIN thr) - 1
Quiet == Overlap = 0 /\ \A t \in DOMAIN thr : thr[t] = Idle

\* Every variable is in its domain.
TypeOK ==
    /\ left \in Nat /\ DOMAIN inst = DOMAIN groups
    /\ \A n \in DOMAIN groups :
         /\ groups[n].status \in {"forming", "ready", "running", "completed"}
         /\ DOMAIN groups[n].members \subseteq Students
         /\ \A m \in Range(groups[n].members) : m.role \in Roles \union {None}
         /\ inst[n] \in [Students -> {None, "starting", "running", "stopped", "completed"}]

\* AC-24: a group holds no more members than its maximum, a role no more than its own and
\* a student is in one group, exceeded by the requests that overlap and no more; and if
\* none overlap and the teacher did not change the row, a group is open while it has room.
WithinLimits ==
    /\ \A n \in DOMAIN groups :
         /\ Count(n) <= groups[n].cap + Overlap
         /\ \A r \in Roles : UsedBy(groups[n].members, r) <= RoleMax + Overlap
         /\ Quiet /\ Stored(n) /\ ~groups[n].edited =>
              (groups[n].status = "forming" <=> Count(n) < groups[n].max)
    /\ \A s \in Students :
         Cardinality({n \in DOMAIN groups : s \in DOMAIN groups[n].members}) <= 1 + Overlap
=============================================================================
