------------------------------ MODULE CtfTeams ------------------------------
(***************************************************************************)
(* Teams and registrations of one CTF competition, from the opening of the *)
(* registration to its start: service/ctf/team_service.go and              *)
(* team_registration.go.                                                   *)
(*                                                                         *)
(* A handler checks what it has read and writes later, without a lock; the *)
(* write of each is one transaction.  Teams are numbered in the order of   *)
(* their creation, and a team's number is its invitation.  The start of    *)
(* the competition is a job like the others, so that one thread means that *)
(* nothing overlaps.                                                       *)
(***************************************************************************)
EXTENDS Integers, Sequences, FiniteSets

CONSTANTS
    Crews,              \* the threads, the requests they may start and the mode of the
                        \* competition: [threads, calls, mode]
    Students,
    MaxTeams,           \* competitions.max_teams
    MinSize, MaxSize    \* competitions.min_team_size, max_team_size

VARIABLES
    comp,    \* competitions.status and team_mode
    teams,   \* the rows of teams with their members
    regs,    \* competition_registrations, in the order of their ids
    thr,     \* what each handler has checked
    left,    \* requests that may still start
    roster   \* history: the members of each team when the competition started

vars == <<comp, teams, regs, thr, left, roster>>

Idle == [at |-> "idle"]
Threads == UNION {c.threads : c \in Crews}
Free(t) == t \in DOMAIN thr /\ thr[t] = Idle
At(t, step) == t \in DOMAIN thr /\ thr[t].at = step
Begins(t, r) ==
    /\ Free(t) /\ left > 0 /\ left' = left - 1
    /\ thr' = [thr EXCEPT ![t] = r] /\ UNCHANGED <<comp, teams, regs, roster>>
Ends(t) == thr' = [thr EXCEPT ![t] = Idle] /\ UNCHANGED <<comp, left, roster>>

Init ==
    /\ teams = <<>> /\ regs = <<>> /\ roster = <<>>
    /\ \E crew \in Crews :
         /\ comp = [status |-> "registration", mode |-> crew.mode]
         /\ thr = [t \in crew.threads |-> Idle] /\ left = crew.calls

-----------------------------------------------------------------------------
(* What the checks read.                                                   *)

Open == comp.status = "registration"
Live(n) == teams[n].status # "disbanded"
InTeam(s) == \E n \in DOMAIN teams : Live(n) /\ s \in teams[n].members
RegOf(n) == {k \in DOMAIN regs : regs[k].team = n}
Registered == {k \in DOMAIN regs : regs[k].status = "registered"}
IsRegistered(n) == RegOf(n) \intersect Registered # {}
SetReg(k, status) == regs' = [regs EXCEPT ![k].status = status]
NewTeam(s) == [captain |-> s, members |-> {s}, status |-> "forming"]

-----------------------------------------------------------------------------
(* Teams.                                                                  *)

CreateTeam(t, s) ==
    /\ comp.mode # "individual" /\ Open /\ ~InTeam(s)
    /\ Begins(t, [at |-> "create", s |-> s])

CreateWrite(t) ==
    /\ At(t, "create")
    /\ teams' = Append(teams, NewTeam(thr[t].s))
    /\ UNCHANGED regs /\ Ends(t)

JoinTeam_full(t, s, n) ==    \* mutant: one more than the maximum may join
    /\ comp.mode # "individual" /\ teams[n].status = "forming" /\ Open /\ ~InTeam(s)
    /\ Cardinality(teams[n].members) <= MaxSize
    /\ Begins(t, [at |-> "join", s |-> s, n |-> n])

JoinTeam(t, s, n) ==
    /\ comp.mode # "individual" /\ teams[n].status = "forming" /\ Open /\ ~InTeam(s)
    /\ Cardinality(teams[n].members) < MaxSize
    /\ Begins(t, [at |-> "join", s |-> s, n |-> n])

JoinWrite(t) ==
    /\ At(t, "join")
    /\ teams' = [teams EXCEPT ![thr[t].n].members = @ \union {thr[t].s}]
    /\ UNCHANGED regs /\ Ends(t)

\* Neither asks for the status of the competition, nor whether the team is registered.
LeaveTeam_any(t, s, n) ==    \* mutant: the team may be locked
    /\ s \in teams[n].members /\ s # teams[n].captain
    /\ Begins(t, [at |-> "leave", s |-> s, n |-> n])

LeaveTeam(t, s, n) ==
    /\ teams[n].status # "locked" /\ s \in teams[n].members /\ s # teams[n].captain
    /\ Begins(t, [at |-> "leave", s |-> s, n |-> n])

RemoveMember(t, s, n) ==
    /\ teams[n].status # "locked" /\ s # teams[n].captain
    /\ Begins(t, [at |-> "leave", s |-> s, n |-> n])

MemberDelete(t) ==
    /\ At(t, "leave")
    /\ teams' = [teams EXCEPT ![thr[t].n].members = @ \ {thr[t].s}]
    /\ UNCHANGED regs /\ Ends(t)

\* The members stay members of the disbanded team, and a disbanded one can be
\* disbanded again.
DisbandTeam(t, n) ==
    /\ teams[n].status # "locked"
    /\ Begins(t, [at |-> "disband", n |-> n])

DisbandWrite(t) ==
    /\ At(t, "disband")
    /\ LET n == thr[t].n IN
       /\ teams' = [teams EXCEPT ![n].status = "disbanded"]
       /\ IF IsRegistered(n) THEN \E k \in RegOf(n) : SetReg(k, "canceled") ELSE UNCHANGED regs
    /\ Ends(t)

-----------------------------------------------------------------------------
(* Registrations.                                                          *)

Room == Cardinality(Registered) < MaxTeams

\* With a team; it may be disbanded.
RegisterCompetition(t, n) ==
    /\ Open /\ Room
    /\ Cardinality(teams[n].members) >= MinSize /\ ~IsRegistered(n)
    /\ Begins(t, [at |-> "register", n |-> n])

\* Without a team: one is made, whether or not the student has one.
RegisterAlone(t, s) ==
    /\ Open /\ Room /\ comp.mode = "individual"
    /\ Begins(t, [at |-> "solo", s |-> s])

CreateSoloTeam(t) ==
    /\ At(t, "solo")
    /\ teams' = Append(teams, NewTeam(thr[t].s))
    /\ thr' = [thr EXCEPT ![t] = IF MinSize > 1 THEN Idle ELSE [at |-> "register", n |-> Len(teams) + 1]]
    /\ UNCHANGED <<comp, regs, left, roster>>

\* uk_competition_registrations: one row for a team, a canceled one included.
RegisterWrite(t) ==
    /\ At(t, "register")
    /\ regs' = IF RegOf(thr[t].n) # {} THEN regs
               ELSE Append(regs, [team |-> thr[t].n, status |-> "registered"])
    /\ UNCHANGED teams /\ Ends(t)

\* The first registration of a team the student is a member of, whatever its status.
CancelRegistration(t, s) ==
    LET mine == {k \in DOMAIN regs : s \in teams[regs[k].team].members} IN
    /\ Open /\ mine # {}
    /\ LET k == CHOOSE k \in mine : \A j \in mine : k <= j IN
       /\ teams[regs[k].team].captain = s
       /\ Begins(t, [at |-> "cancel", k |-> k])

CancelWrite(t) ==
    /\ At(t, "cancel")
    /\ SetReg(thr[t].k, "canceled")
    /\ teams' = [teams EXCEPT ![regs[thr[t].k].team].status = "forming"]
    /\ Ends(t)

-----------------------------------------------------------------------------
StartCompetition(t) ==
    /\ Free(t) /\ Open
    /\ comp' = [comp EXCEPT !.status = "running"]
    /\ teams' = [n \in DOMAIN teams |->
                   [teams[n] EXCEPT !.status = IF @ = "forming" THEN "locked" ELSE @]]
    /\ roster' = [n \in DOMAIN teams |-> teams[n].members]
    /\ UNCHANGED <<regs, thr, left>>

Next ==
    \E t \in Threads :
      \/ \E s \in Students :
           \/ CreateTeam(t, s) \/ RegisterAlone(t, s) \/ CancelRegistration(t, s)
           \/ \E n \in DOMAIN teams : JoinTeam(t, s, n) \/ LeaveTeam(t, s, n) \/ RemoveMember(t, s, n)
      \/ \E n \in DOMAIN teams : DisbandTeam(t, n) \/ RegisterCompetition(t, n)
      \/ CreateWrite(t) \/ JoinWrite(t) \/ MemberDelete(t) \/ DisbandWrite(t)
      \/ CreateSoloTeam(t) \/ RegisterWrite(t) \/ CancelWrite(t)
      \/ StartCompetition(t)

Spec == Init /\ [][Next]_vars

-----------------------------------------------------------------------------
Overlap == Cardinality(DOMAIN thr) - 1

\* Every variable is in its domain; a captain is in the team.
TypeOK ==
    /\ comp \in [status : {"registration", "running"}, mode : {"individual", "free"}]
    /\ \A n \in DOMAIN teams :
         /\ teams[n].status \in {"forming", "locked", "disbanded"}
         /\ teams[n].captain \in teams[n].members /\ teams[n].members \subseteq Students
    /\ \A k \in DOMAIN regs : regs[k].status \in {"registered", "canceled"} /\ regs[k].team \in DOMAIN teams

\* AC-15 and AC-16: a team has no more members, and a competition no more teams, than
\* its maximum, exceeded by the requests that overlap and no more.
WithinLimits ==
    /\ \A n \in DOMAIN teams : Cardinality(teams[n].members) <= MaxSize + Overlap
    /\ Cardinality(Registered) <= MaxTeams + Overlap

\* BR-14: once the competition runs the members of a team that is registered and not
\* disbanded are those it started with, if the start overlapped no request.
RosterFrozen ==
    comp.status = "running" /\ Overlap = 0 =>
        \A n \in DOMAIN teams :
            IsRegistered(n) /\ Live(n) => n \in DOMAIN roster /\ teams[n].members = roster[n]
=============================================================================
