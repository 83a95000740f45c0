---------------------------- MODULE RosterProofs ----------------------------
(***************************************************************************)
(* Proofs about the teams of a competition, the groups of a template and   *)
(* the template itself: who may still come in, and what stays; and of the  *)
(* types of every service.                                                 *)
(***************************************************************************)
EXTENDS ServicesProofs, Recursion, FiniteSetTheorems, SequenceTheorems, TLAPS

-----------------------------------------------------------------------------
(* The teams and registrations of a competition.                           *)

TeamRow == [captain : Competitors, members : SUBSET Competitors, status : {"forming", "locked", "disbanded"}]
TeamRows == Seq(TeamRow)
RegRow == [team : Nat, status : {"registered", "canceled"}]
RegRows == Seq(RegRow)

Joining(n) == {t \in DOMAIN thr : thr[t].at = "join" /\ thr[t].n = n}
Registering == {t \in DOMAIN thr : thr[t].at \in {"register", "solo"}}

TmsTyped(r) ==
    /\ r.at \in {"create", "join", "solo"} => r.s \in Competitors
    /\ r.at \in {"join", "leave", "disband", "register"} => r.n \in DOMAIN teams
    /\ r.at = "leave" => r.s # teams[r.n].captain
    /\ r.at = "cancel" => r.k \in DOMAIN regs

TmsFacts ==
    /\ comp \in [status : {"registration", "running"}, mode : {"individual", "free"}]
    /\ teams \in TeamRows /\ regs \in RegRows
    /\ \A n \in DOMAIN teams : teams[n].captain \in teams[n].members /\ IsFiniteSet(teams[n].members)
    /\ \A k \in DOMAIN regs : regs[k].team \in DOMAIN teams

TmsThreads ==
    /\ thr = [t \in DOMAIN thr |-> thr[t]] /\ IsFiniteSet(DOMAIN thr) /\ DOMAIN thr # {}
    /\ \A t \in DOMAIN thr : TmsTyped(thr[t])

\* A request that has seen room counts as if it had taken it.
TmsBounds ==
    /\ \A n \in DOMAIN teams :
         Cardinality(teams[n].members) + Cardinality(Joining(n)) <= MaxSize + Cardinality(DOMAIN thr) - 1
    /\ Cardinality(Tms!Registered) + Cardinality(Registering) <= MaxTeams + Cardinality(DOMAIN thr) - 1

\* Once the competition runs, a handler that overlaps no other touches disbanded teams only.
TmsAlone(t) ==
    comp.status = "running" =>
        /\ thr[t].at \in {"idle", "leave", "disband"}
        /\ thr[t].at \in {"leave", "disband"} => teams[thr[t].n].status = "disbanded"
        /\ \A n \in DOMAIN teams :
             teams[n].status = "disbanded"
             \/ (teams[n].status = "locked" /\ n \in DOMAIN roster /\ teams[n].members = roster[n])

TmsInv == TmsFacts /\ TmsThreads /\ TmsBounds /\ \A t : DOMAIN thr = {t} => TmsAlone(t)

LEMMA TmsIdle == Tms!Idle.at = "idle" /\ TmsTyped(Tms!Idle) /\ TmsTyped(Tms!Idle)'
BY DEF TmsTyped, Tms!Idle

LEMMA TeamTyped ==
    ASSUME TmsInv
    PROVE  /\ Len(teams) \in Nat /\ DOMAIN teams = 1..Len(teams)
           /\ \A n \in DOMAIN teams : /\ teams[n] \in TeamRow /\ teams[n].status \in {"forming", "locked", "disbanded"}
                                      /\ Cardinality(teams[n].members) \in Nat
           /\ Len(regs) \in Nat /\ DOMAIN regs = 1..Len(regs)
           /\ \A k \in DOMAIN regs : regs[k] \in RegRow /\ regs[k].team \in DOMAIN teams
<1>1. Len(teams) \in Nat /\ DOMAIN teams = 1..Len(teams) /\ \A n \in DOMAIN teams : teams[n] \in TeamRow
  BY DEF TmsInv, TmsFacts, TeamRows
<1>2. Len(regs) \in Nat /\ DOMAIN regs = 1..Len(regs) /\ \A k \in DOMAIN regs : regs[k] \in RegRow
  BY DEF TmsInv, TmsFacts, RegRows
<1>3. \A n \in DOMAIN teams : Cardinality(teams[n].members) \in Nat
  BY FS_CardinalityType DEF TmsInv, TmsFacts
<1>4. \A n \in DOMAIN teams : teams[n].status \in {"forming", "locked", "disbanded"}
  BY <1>1 DEF TeamRow
<1>5. \A k \in DOMAIN regs : regs[k].team \in DOMAIN teams
  BY DEF TmsInv, TmsFacts
<1> QED
  BY <1>1, <1>2, <1>3, <1>4, <1>5

LEMMA TmsCounts ==
    ASSUME TmsInv
    PROVE  /\ Cardinality(DOMAIN thr) \in Nat /\ Cardinality(DOMAIN thr) >= 1
           /\ \A n : IsFiniteSet(Joining(n)) /\ Cardinality(Joining(n)) \in Nat
           /\ IsFiniteSet(Registering) /\ Cardinality(Registering) \in Nat
           /\ IsFiniteSet(Tms!Registered) /\ Cardinality(Tms!Registered) \in Nat
<1>1. IsFiniteSet(DOMAIN thr) /\ DOMAIN thr # {}
  BY DEF TmsInv, TmsThreads
<1>2. Cardinality(DOMAIN thr) \in Nat /\ Cardinality(DOMAIN thr) >= 1
  BY <1>1, FS_CardinalityType, FS_EmptySet
<1>3. \A n : Joining(n) \subseteq DOMAIN thr
  BY DEF Joining
<1>4. Registering \subseteq DOMAIN thr
  BY DEF Registering
<1>5. Tms!Registered \subseteq 1..Len(regs) /\ Len(regs) \in Nat
  BY TeamTyped DEF Tms!Registered
<1>6. IsFiniteSet(1..Len(regs))
  BY <1>5, FS_Interval
<1>7. \A n : IsFiniteSet(Joining(n)) /\ Cardinality(Joining(n)) \in Nat
  BY <1>1, <1>3, FS_Subset, FS_CardinalityType
<1>8. IsFiniteSet(Registering) /\ Cardinality(Registering) \in Nat
  BY <1>1, <1>4, FS_Subset, FS_CardinalityType
<1>9. IsFiniteSet(Tms!Registered) /\ Cardinality(Tms!Registered) \in Nat
  BY <1>5, <1>6, FS_Subset, FS_CardinalityType
<1> QED
  BY <1>2, <1>7, <1>8, <1>9

\* How many count as having taken a place after a handler's record has changed.
LEMMA TmsMoves ==
    ASSUME TmsInv, NEW t \in DOMAIN thr, NEW r, thr' = [thr EXCEPT ![t] = r]
    PROVE  /\ thr' = [u \in DOMAIN thr' |-> thr'[u]] /\ DOMAIN thr' = DOMAIN thr
           /\ thr'[t] = r /\ \A u \in DOMAIN thr \ {t} : thr'[u] = thr[u]
           /\ \A n : /\ Cardinality(Joining(n)') \in Nat /\ Cardinality(Joining(n)') <= Cardinality(DOMAIN thr)
                     /\ ~(r.at = "join" /\ r.n = n) => Cardinality(Joining(n)') <= Cardinality(Joining(n))
                     /\ ~(r.at = "join" /\ r.n = n) /\ t \in Joining(n) =>
                          Cardinality(Joining(n)') = Cardinality(Joining(n)) - 1
           /\ Cardinality(Registering') \in Nat /\ Cardinality(Registering') <= Cardinality(DOMAIN thr)
           /\ r.at \notin {"register", "solo"} => Cardinality(Registering') <= Cardinality(Registering)
           /\ r.at \notin {"register", "solo"} /\ t \in Registering =>
                Cardinality(Registering') = Cardinality(Registering) - 1
           /\ t \in Registering => Cardinality(Registering') <= Cardinality(Registering)
<1>1. /\ thr' = [u \in DOMAIN thr' |-> thr'[u]] /\ DOMAIN thr' = DOMAIN thr
      /\ thr'[t] = r /\ \A u \in DOMAIN thr \ {t} : thr'[u] = thr[u]
  BY DEF TmsInv, TmsThreads
<1>2. IsFiniteSet(DOMAIN thr)
  BY DEF TmsInv, TmsThreads
<1>3. ASSUME NEW n
      PROVE  /\ Cardinality(Joining(n)') \in Nat /\ Cardinality(Joining(n)') <= Cardinality(DOMAIN thr)
             /\ ~(r.at = "join" /\ r.n = n) => Cardinality(Joining(n)') <= Cardinality(Joining(n))
             /\ ~(r.at = "join" /\ r.n = n) /\ t \in Joining(n) =>
                  Cardinality(Joining(n)') = Cardinality(Joining(n)) - 1
  <2>1. Joining(n)' \subseteq DOMAIN thr
    BY <1>1 DEF Joining
  <2>2. Cardinality(Joining(n)') \in Nat /\ Cardinality(Joining(n)') <= Cardinality(DOMAIN thr)
    BY <1>2, <2>1, FS_Subset, FS_CardinalityType
  <2>3. ~(r.at = "join" /\ r.n = n) => Joining(n)' = Joining(n) \ {t}
    BY <1>1 DEF Joining
  <2>4. ~(r.at = "join" /\ r.n = n) => Cardinality(Joining(n)') <= Cardinality(Joining(n))
    BY <2>3, TmsCounts, FS_Subset
  <2>5. ~(r.at = "join" /\ r.n = n) /\ t \in Joining(n) => Cardinality(Joining(n)') = Cardinality(Joining(n)) - 1
    BY <2>3, TmsCounts, FS_RemoveElement
  <2> QED
    BY <2>2, <2>4, <2>5
<1>4. Registering' \subseteq DOMAIN thr
  BY <1>1 DEF Registering
<1>5. Cardinality(Registering') \in Nat /\ Cardinality(Registering') <= Cardinality(DOMAIN thr)
  BY <1>2, <1>4, FS_Subset, FS_CardinalityType
<1>6. r.at \notin {"register", "solo"} => Registering' = Registering \ {t}
  BY <1>1 DEF Registering
<1>7. r.at \notin {"register", "solo"} => Cardinality(Registering') <= Cardinality(Registering)
  BY <1>6, TmsCounts, FS_Subset
<1>8. r.at \notin {"register", "solo"} /\ t \in Registering => Cardinality(Registering') = Cardinality(Registering) - 1
  BY <1>6, TmsCounts, FS_RemoveElement
<1>9. t \in Registering => Registering' \subseteq Registering
  BY <1>1 DEF Registering
<1>10. t \in Registering => Cardinality(Registering') <= Cardinality(Registering)
  BY <1>9, TmsCounts, FS_Subset
<1> QED
  BY <1>1, <1>3, <1>5, <1>7, <1>8, <1>10

\* What a step that leaves the captains alone has to establish.
LEMMA TmsFrame ==
    ASSUME TmsInv, NEW t \in DOMAIN thr, NEW r, thr' = [thr EXCEPT ![t] = r], TmsTyped(r)', TmsFacts', TmsBounds',
           DOMAIN teams \subseteq DOMAIN teams', \A n \in DOMAIN teams : teams'[n].captain = teams[n].captain,
           DOMAIN regs \subseteq DOMAIN regs',
           DOMAIN thr = {t} /\ TmsAlone(t) => TmsAlone(t)'
    PROVE  TmsInv'
<1>1. /\ thr' = [u \in DOMAIN thr' |-> thr'[u]] /\ DOMAIN thr' = DOMAIN thr
      /\ thr'[t] = r /\ \A u \in DOMAIN thr \ {t} : thr'[u] = thr[u]
  BY TmsMoves
<1>2. ASSUME NEW u \in DOMAIN thr' PROVE TmsTyped(thr[u])'
  <2>1. CASE u = t
    BY <1>1, <2>1 DEF TmsTyped
  <2>2. CASE u # t
    <3>1. PICK v : v = thr[u]
      OBVIOUS
    <3>2. TmsTyped(v) /\ thr'[u] = v
      BY <1>1, <2>2, <3>1 DEF TmsInv, TmsThreads
    <3>3. TmsTyped(v)'
      BY <3>2 DEF TmsTyped
    <3> QED
      BY <3>2, <3>3 DEF TmsTyped
  <2> QED
    BY <2>1, <2>2
<1>3. TmsThreads'
  BY <1>1, <1>2 DEF TmsInv, TmsThreads
<1>4. ASSUME NEW u, DOMAIN thr' = {u} PROVE TmsAlone(u)'
  <2>1. u = t /\ TmsAlone(t) /\ DOMAIN thr = {t}
    BY <1>1, <1>4 DEF TmsInv
  <2> QED
    BY <2>1
<1> QED
  BY <1>3, <1>4 DEF TmsInv

\* A request passes its checks, having seen room where it needs some.
LEMMA TmsStarts ==
    ASSUME TmsInv, NEW t, NEW r, Tms!Begins(t, r), TmsTyped(r),
           r.at = "join" => Cardinality(teams[r.n].members) < MaxSize,
           r.at \in {"register", "solo"} => Cardinality(Tms!Registered) < MaxTeams,
           comp.status = "running" =>
             r.at \in {"leave", "disband"} /\ teams[r.n].status # "locked"
    PROVE  TmsInv'
<1>1. /\ t \in DOMAIN thr /\ thr[t] = Tms!Idle /\ thr' = [thr EXCEPT ![t] = r]
      /\ UNCHANGED <<comp, teams, regs, roster>>
  BY DEF Tms!Begins, Tms!Free
<1>2. TmsFacts'
  BY <1>1 DEF TmsInv, TmsFacts
<1>3. TmsTyped(r)'
  BY <1>1 DEF TmsTyped
<1>4. ASSUME NEW n \in DOMAIN teams
      PROVE  Cardinality(teams[n].members) + Cardinality(Joining(n)') <= MaxSize + Cardinality(DOMAIN thr) - 1
  <2>1. CASE r.at = "join" /\ r.n = n
    <3>1. Cardinality(teams[n].members) <= MaxSize - 1 /\ Cardinality(teams[n].members) \in Nat
      BY <2>1, TeamTyped, TeamAssumption
    <3>2. Cardinality(Joining(n)') <= Cardinality(DOMAIN thr) /\ Cardinality(Joining(n)') \in Nat
      BY <1>1, TmsMoves
    <3> QED
      BY <3>1, <3>2, TmsCounts, TeamAssumption
  <2>2. CASE ~(r.at = "join" /\ r.n = n)
    <3>1. Cardinality(Joining(n)') <= Cardinality(Joining(n)) /\ Cardinality(Joining(n)') \in Nat
      BY <1>1, <2>2, TmsMoves
    <3>2. Cardinality(teams[n].members) + Cardinality(Joining(n)) <= MaxSize + Cardinality(DOMAIN thr) - 1
      BY DEF TmsInv, TmsBounds
    <3> QED
      BY <3>1, <3>2, TmsCounts, TeamTyped, TeamAssumption
  <2> QED
    BY <2>1, <2>2
<1>5. Cardinality(Tms!Registered) + Cardinality(Registering') <= MaxTeams + Cardinality(DOMAIN thr) - 1
  <2>1. CASE r.at \in {"register", "solo"}
    <3>1. Cardinality(Tms!Registered) <= MaxTeams - 1 /\ Cardinality(Tms!Registered) \in Nat
      BY <2>1, TmsCounts, TeamAssumption
    <3>2. Cardinality(Registering') <= Cardinality(DOMAIN thr) /\ Cardinality(Registering') \in Nat
      BY <1>1, TmsMoves
    <3> QED
      BY <3>1, <3>2, TmsCounts, TeamAssumption
  <2>2. CASE r.at \notin {"register", "solo"}
    <3>1. Cardinality(Registering') <= Cardinality(Registering) /\ Cardinality(Registering') \in Nat
      BY <1>1, <2>2, TmsMoves
    <3>2. Cardinality(Tms!Registered) + Cardinality(Registering) <= MaxTeams + Cardinality(DOMAIN thr) - 1
      BY DEF TmsInv, TmsBounds
    <3> QED
      BY <3>1, <3>2, TmsCounts, TeamAssumption
  <2> QED
    BY <2>1, <2>2
<1>6. DOMAIN thr' = DOMAIN thr /\ thr'[t] = r /\ Tms!Registered' = Tms!Registered
  BY <1>1, TmsMoves DEF Tms!Registered
<1>7. TmsBounds'
  BY <1>1, <1>4, <1>5, <1>6 DEF TmsBounds
<1>8. ASSUME TmsAlone(t) PROVE TmsAlone(t)'
  <2> SUFFICES ASSUME comp.status = "running" PROVE TmsAlone(t)'
    BY <1>1 DEF TmsAlone
  <2>1. r.at \in {"leave", "disband"} /\ r.n \in DOMAIN teams /\ teams[r.n].status # "locked"
    BY DEF TmsTyped
  <2>2. teams[r.n].status = "disbanded"
    BY <1>8, <2>1 DEF TmsAlone
  <2> QED
    BY <1>1, <1>6, <1>8, <2>1, <2>2 DEF TmsAlone
<1> QED
  BY <1>1, <1>2, <1>3, <1>7, <1>8, TmsFrame

LEMMA TmsBegun ==
    ASSUME TmsInv, NEW t,
           \/ \E s \in Competitors :
                \/ Tms!CreateTeam(t, s) \/ Tms!RegisterAlone(t, s) \/ Tms!CancelRegistration(t, s)
                \/ \E n \in DOMAIN teams :
                     Tms!JoinTeam(t, s, n) \/ Tms!LeaveTeam(t, s, n) \/ Tms!RemoveMember(t, s, n)
           \/ \E n \in DOMAIN teams : Tms!DisbandTeam(t, n) \/ Tms!RegisterCompetition(t, n)
    PROVE  TmsInv'
<1>1. Tms!Open => comp.status # "running"
  BY DEF Tms!Open
<1>2. CASE \E s \in Competitors : Tms!CreateTeam(t, s)
  <2>1. PICK s \in Competitors : Tms!CreateTeam(t, s)
    BY <1>2
  <2> DEFINE r == [at |-> "create", s |-> s]
  <2>2. Tms!Begins(t, r) /\ Tms!Open
    BY <2>1 DEF Tms!CreateTeam
  <2>3. TmsTyped(r) /\ r.at = "create"
    BY DEF TmsTyped
  <2> HIDE DEF r
  <2> QED
    BY <1>1, <2>2, <2>3, TmsStarts
<1>3. CASE \E s \in Competitors : Tms!RegisterAlone(t, s)
  <2>1. PICK s \in Competitors : Tms!RegisterAlone(t, s)
    BY <1>3
  <2> DEFINE r == [at |-> "solo", s |-> s]
  <2>2. Tms!Begins(t, r) /\ Tms!Open /\ Cardinality(Tms!Registered) < MaxTeams
    BY <2>1, SameCardinality DEF Tms!RegisterAlone, Tms!Room
  <2>3. TmsTyped(r) /\ r.at = "solo"
    BY DEF TmsTyped
  <2> HIDE DEF r
  <2> QED
    BY <1>1, <2>2, <2>3, TmsStarts
<1>4. CASE \E s \in Competitors : Tms!CancelRegistration(t, s)
  <2>1. PICK s \in Competitors : Tms!CancelRegistration(t, s)
    BY <1>4
  <2>2. PICK mine : mine = {k \in DOMAIN regs : s \in teams[regs[k].team].members}
    OBVIOUS
  <2>3. PICK k : k = (CHOOSE i \in mine : \A j \in mine : i <= j)
    OBVIOUS
  <2> DEFINE r == [at |-> "cancel", k |-> k]
  <2>4. Tms!Begins(t, r) /\ Tms!Open /\ mine # {}
    BY <2>1, <2>2, <2>3 DEF Tms!CancelRegistration
  <2>5. \E j \in mine : \A i \in mine : j <= i
    <3>1. mine \subseteq Nat
      BY <2>2, TeamTyped
    <3> QED
      BY <2>4, <3>1, SmallestElement
  <2>6. k \in DOMAIN regs
    BY <2>2, <2>3, <2>5
  <2>7. TmsTyped(r) /\ r.at = "cancel"
    BY <2>6 DEF TmsTyped
  <2> HIDE DEF r
  <2> QED
    BY <1>1, <2>4, <2>7, TmsStarts
<1>5. CASE \E s \in Competitors, n \in DOMAIN teams : Tms!JoinTeam(t, s, n)
  <2>1. PICK s \in Competitors, n \in DOMAIN teams : Tms!JoinTeam(t, s, n)
    BY <1>5
  <2> DEFINE r == [at |-> "join", s |-> s, n |-> n]
  <2>2. Tms!Begins(t, r) /\ Tms!Open /\ Cardinality(teams[n].members) < MaxSize
    BY <2>1, SameCardinality DEF Tms!JoinTeam
  <2>3. TmsTyped(r) /\ r.at = "join" /\ r.n = n
    BY DEF TmsTyped
  <2> HIDE DEF r
  <2> QED
    BY <1>1, <2>2, <2>3, TmsStarts
<1>6. CASE \E s \in Competitors, n \in DOMAIN teams : Tms!LeaveTeam(t, s, n) \/ Tms!RemoveMember(t, s, n)
  <2>1. PICK s \in Competitors, n \in DOMAIN teams : Tms!LeaveTeam(t, s, n) \/ Tms!RemoveMember(t, s, n)
    BY <1>6
  <2> DEFINE r == [at |-> "leave", s |-> s, n |-> n]
  <2>2. Tms!Begins(t, r) /\ teams[n].status # "locked" /\ s # teams[n].captain
    BY <2>1 DEF Tms!LeaveTeam, Tms!RemoveMember
  <2>3. TmsTyped(r) /\ r.at = "leave" /\ r.n = n
    BY <2>2 DEF TmsTyped
  <2> HIDE DEF r
  <2> QED
    BY <2>2, <2>3, TmsStarts
<1>7. CASE \E n \in DOMAIN teams : Tms!DisbandTeam(t, n)
  <2>1. PICK n \in DOMAIN teams : Tms!DisbandTeam(t, n)
    BY <1>7
  <2> DEFINE r == [at |-> "disband", n |-> n]
  <2>2. Tms!Begins(t, r) /\ teams[n].status # "locked"
    BY <2>1 DEF Tms!DisbandTeam
  <2>3. TmsTyped(r) /\ r.at = "disband" /\ r.n = n
    BY DEF TmsTyped
  <2> HIDE DEF r
  <2> QED
    BY <2>2, <2>3, TmsStarts
<1>8. CASE \E n \in DOMAIN teams : Tms!RegisterCompetition(t, n)
  <2>1. PICK n \in DOMAIN teams : Tms!RegisterCompetition(t, n)
    BY <1>8
  <2> DEFINE r == [at |-> "register", n |-> n]
  <2>2. Tms!Begins(t, r) /\ Tms!Open /\ Cardinality(Tms!Registered) < MaxTeams
    BY <2>1, SameCardinality DEF Tms!RegisterCompetition, Tms!Room
  <2>3. TmsTyped(r) /\ r.at = "register"
    BY DEF TmsTyped
  <2> HIDE DEF r
  <2> QED
    BY <1>1, <2>2, <2>3, TmsStarts
<1> QED
  BY <1>2, <1>3, <1>4, <1>5, <1>6, <1>7, <1>8

-----------------------------------------------------------------------------
(* The writes of the requests.                                             *)

\* A team with its captain is made.
LEMMA TmsAdds ==
    ASSUME TmsInv, NEW t \in DOMAIN thr, NEW r, thr' = [thr EXCEPT ![t] = r],
           NEW s \in Competitors, teams' = Append(teams, Tms!NewTeam(s)), UNCHANGED <<comp, regs, roster>>,
           thr[t].at \in {"create", "solo"}, r.at # "join", TmsTyped(r)',
           r.at \in {"register", "solo"} => t \in Registering
    PROVE  TmsInv'
<1>0. PICK k : k = Len(teams) + 1
  OBVIOUS
<1> DEFINE new == Tms!NewTeam(s)
<1>1. new \in TeamRow /\ new.captain \in new.members /\ new.members = {s}
  BY DEF Tms!NewTeam, TeamRow
<1> HIDE DEF new
<1>2. Len(teams) \in Nat /\ DOMAIN teams = 1..Len(teams) /\ teams \in TeamRows
  BY TeamTyped DEF TmsInv, TmsFacts
<1>3. teams' \in TeamRows /\ DOMAIN teams' = DOMAIN teams \union {k} /\ k \notin DOMAIN teams /\ teams'[k] = new
  BY <1>0, <1>1, <1>2 DEF new, TeamRows
<1>4. \A n \in DOMAIN teams : teams'[n] = teams[n]
  BY <1>1, <1>2 DEF new, TeamRows
<1>5. IsFiniteSet({s}) /\ Cardinality({s}) = 1
  BY FS_Singleton
<1>6. TmsFacts'
  BY <1>1, <1>3, <1>4, <1>5 DEF TmsInv, TmsFacts
<1>7. ASSUME NEW n \in DOMAIN teams
      PROVE  Cardinality(teams'[n].members) + Cardinality(Joining(n)') <= MaxSize + Cardinality(DOMAIN thr) - 1
  <2>1. Cardinality(Joining(n)') <= Cardinality(Joining(n)) /\ Cardinality(Joining(n)') \in Nat
    BY TmsMoves
  <2>2. Cardinality(teams[n].members) + Cardinality(Joining(n)) <= MaxSize + Cardinality(DOMAIN thr) - 1
    BY DEF TmsInv, TmsBounds
  <2> QED
    BY <1>4, <2>1, <2>2, TmsCounts, TeamTyped, TeamAssumption
<1>8. Cardinality(teams'[k].members) + Cardinality(Joining(k)') <= MaxSize + Cardinality(DOMAIN thr) - 1
  <2>1. Joining(k) = {}
    BY <1>3 DEF Joining, TmsInv, TmsThreads, TmsTyped
  <2>2. Cardinality(Joining(k)) = 0
    BY <2>1, FS_EmptySet
  <2>3. Cardinality(Joining(k)') <= Cardinality(Joining(k)) /\ Cardinality(Joining(k)') \in Nat
    BY TmsMoves
  <2>4. teams'[k].members = {s}
    BY <1>1, <1>3
  <2>5. Cardinality(teams'[k].members) = 1
    BY <1>5, <2>4
  <2> QED
    BY <2>2, <2>3, <2>5, TmsCounts, TeamAssumption
<1>9. Cardinality(Tms!Registered) + Cardinality(Registering') <= MaxTeams + Cardinality(DOMAIN thr) - 1
  <2>1. Cardinality(Registering') <= Cardinality(Registering) /\ Cardinality(Registering') \in Nat
    BY TmsMoves
  <2>2. Cardinality(Tms!Registered) + Cardinality(Registering) <= MaxTeams + Cardinality(DOMAIN thr) - 1
    BY DEF TmsInv, TmsBounds
  <2> QED
    BY <2>1, <2>2, TmsCounts, TeamAssumption
<1>10. DOMAIN thr' = DOMAIN thr /\ Tms!Registered' = Tms!Registered
  BY TmsMoves DEF Tms!Registered
<1>11. \A n \in DOMAIN teams' :
         Cardinality(teams'[n].members) + Cardinality(Joining(n)') <= MaxSize + Cardinality(DOMAIN thr') - 1
  BY <1>3, <1>7, <1>8, <1>10
<1>12. TmsBounds'
  BY <1>9, <1>10, <1>11 DEF TmsBounds
<1>13. TmsAlone(t) => TmsAlone(t)'
  BY DEF TmsAlone
<1>14. \A n \in DOMAIN teams : teams'[n].captain = teams[n].captain
  BY <1>4
<1>15. DOMAIN teams \subseteq DOMAIN teams' /\ DOMAIN regs \subseteq DOMAIN regs'
  BY <1>3
<1> QED
  BY <1>6, <1>12, <1>13, <1>14, <1>15, TmsFrame

LEMMA TmsCreateWrite ==
    ASSUME TmsInv, NEW t, Tms!CreateWrite(t)
    PROVE  TmsInv'
<1>1. /\ t \in DOMAIN thr /\ thr[t].at = "create" /\ teams' = Append(teams, Tms!NewTeam(thr[t].s))
      /\ thr' = [thr EXCEPT ![t] = Tms!Idle] /\ UNCHANGED <<comp, regs, roster>>
  BY DEF Tms!CreateWrite, Tms!At, Tms!Ends
<1>2. PICK s : s = thr[t].s
  OBVIOUS
<1>3. s \in Competitors /\ teams' = Append(teams, Tms!NewTeam(s))
  BY <1>1, <1>2 DEF TmsInv, TmsThreads, TmsTyped
<1>4. TmsTyped(Tms!Idle)' /\ Tms!Idle.at = "idle"
  BY TmsIdle
<1> QED
  BY <1>1, <1>3, <1>4, TmsAdds

LEMMA TmsCreateSoloTeam ==
    ASSUME TmsInv, NEW t, Tms!CreateSoloTeam(t)
    PROVE  TmsInv'
<1>1. /\ t \in DOMAIN thr /\ thr[t].at = "solo" /\ teams' = Append(teams, Tms!NewTeam(thr[t].s))
      /\ thr' = [thr EXCEPT ![t] = IF MinSize > 1 THEN Tms!Idle ELSE [at |-> "register", n |-> Len(teams) + 1]]
      /\ UNCHANGED <<comp, regs, roster>>
  BY DEF Tms!CreateSoloTeam, Tms!At
<1>2. PICK s : s = thr[t].s
  OBVIOUS
<1>3. s \in Competitors /\ teams' = Append(teams, Tms!NewTeam(s))
  BY <1>1, <1>2 DEF TmsInv, TmsThreads, TmsTyped
<1>4. PICK r : r = IF MinSize > 1 THEN Tms!Idle ELSE [at |-> "register", n |-> Len(teams) + 1]
  OBVIOUS
<1>5. r = Tms!Idle \/ (r.at = "register" /\ r.n = Len(teams) + 1)
  BY <1>4
<1>6. Len(teams) + 1 \in DOMAIN teams'
  <2>1. teams \in Seq(TeamRow) /\ Len(teams) \in Nat
    BY TeamTyped DEF TmsInv, TmsFacts, TeamRows
  <2> QED
    BY <1>3, <2>1
<1>7. r.at \in {"idle", "register"} /\ TmsTyped(r)'
  <2>1. CASE r = Tms!Idle
    BY <2>1, TmsIdle
  <2>2. CASE r.at = "register" /\ r.n = Len(teams) + 1
    BY <1>6, <2>2 DEF TmsTyped
  <2> QED
    BY <1>5, <2>1, <2>2
<1>8. thr' = [thr EXCEPT ![t] = r] /\ t \in Registering
  BY <1>1, <1>4 DEF Registering
<1>9. r.at # "join" /\ (r.at \in {"register", "solo"} => t \in Registering)
  BY <1>7, <1>8
<1> QED
  BY <1>1, <1>3, <1>7, <1>8, <1>9, TmsAdds

\* One team changes, but not its captain, and no place is taken that was not counted.
LEMMA TmsChanges ==
    ASSUME TmsInv, NEW t \in DOMAIN thr, thr' = [thr EXCEPT ![t] = Tms!Idle],
           NEW n \in DOMAIN teams, NEW new \in TeamRow, teams' = [teams EXCEPT ![n] = new],
           new.captain = teams[n].captain, new.captain \in new.members, IsFiniteSet(new.members),
           Cardinality(new.members) <= Cardinality(teams[n].members)
             \/ (t \in Joining(n) /\ Cardinality(new.members) <= Cardinality(teams[n].members) + 1),
           UNCHANGED <<comp, roster>>, regs' \in RegRows, DOMAIN regs' = DOMAIN regs,
           \A k \in DOMAIN regs : regs'[k].team = regs[k].team,
           Tms!Registered' \subseteq Tms!Registered,
           DOMAIN thr = {t} /\ comp.status = "running" =>
             thr[t].at \in {"leave", "disband"} /\ thr[t].n = n /\ new.status \in {teams[n].status, "disbanded"}
    PROVE  TmsInv'
<1>1. teams' \in TeamRows /\ DOMAIN teams' = DOMAIN teams /\ teams'[n] = new
      /\ \A m \in DOMAIN teams \ {n} : teams'[m] = teams[m]
  <2>1. teams \in TeamRows
    BY DEF TmsInv, TmsFacts
  <2> QED
    BY <2>1 DEF TeamRows
<1>2. \A m \in DOMAIN teams : teams'[m].captain = teams[m].captain
  BY <1>1
<1>3. TmsFacts'
  BY <1>1 DEF TmsInv, TmsFacts
<1>4. TmsTyped(Tms!Idle)' /\ Tms!Idle.at = "idle"
  BY TmsIdle
<1>5. ASSUME NEW m \in DOMAIN teams
      PROVE  Cardinality(teams'[m].members) + Cardinality(Joining(m)') <= MaxSize + Cardinality(DOMAIN thr) - 1
  <2>1. /\ Cardinality(Joining(m)') \in Nat /\ Cardinality(Joining(m)') <= Cardinality(Joining(m))
        /\ t \in Joining(m) => Cardinality(Joining(m)') = Cardinality(Joining(m)) - 1
    BY <1>4, TmsMoves
  <2>2. Cardinality(teams[m].members) + Cardinality(Joining(m)) <= MaxSize + Cardinality(DOMAIN thr) - 1
    BY DEF TmsInv, TmsBounds
  <2>3. Cardinality(new.members) \in Nat
    BY FS_CardinalityType
  <2>4. CASE m = n /\ t \in Joining(n) /\ Cardinality(new.members) <= Cardinality(teams[n].members) + 1
    <3>1. Cardinality(Joining(m)') = Cardinality(Joining(m)) - 1 /\ teams'[m] = new
      BY <1>1, <2>1, <2>4
    <3>2. Cardinality(new.members) <= Cardinality(teams[m].members) + 1 /\ Cardinality(teams[m].members) \in Nat
      BY <2>4, TeamTyped
    <3> QED
      BY <2>1, <2>2, <2>3, <3>1, <3>2, TmsCounts, TeamAssumption
  <2>5. CASE m = n /\ Cardinality(new.members) <= Cardinality(teams[n].members)
    BY <1>1, <2>1, <2>2, <2>3, <2>5, TmsCounts, TeamTyped, TeamAssumption
  <2>6. CASE m # n
    BY <1>1, <2>1, <2>2, <2>6, TmsCounts, TeamTyped, TeamAssumption
  <2> QED
    BY <2>4, <2>5, <2>6
<1>6. Cardinality(Tms!Registered') + Cardinality(Registering') <= MaxTeams + Cardinality(DOMAIN thr) - 1
  <2>1. Cardinality(Registering') <= Cardinality(Registering) /\ Cardinality(Registering') \in Nat
    BY <1>4, TmsMoves
  <2>2. Cardinality(Tms!Registered) + Cardinality(Registering) <= MaxTeams + Cardinality(DOMAIN thr) - 1
    BY DEF TmsInv, TmsBounds
  <2>3. Cardinality(Tms!Registered') <= Cardinality(Tms!Registered) /\ Cardinality(Tms!Registered') \in Nat
    BY TmsCounts, FS_Subset, FS_CardinalityType
  <2> QED
    BY <2>1, <2>2, <2>3, TmsCounts, TeamAssumption
<1>7. DOMAIN thr' = DOMAIN thr /\ thr'[t] = Tms!Idle
  BY TmsMoves
<1>8. TmsBounds'
  BY <1>1, <1>5, <1>6, <1>7 DEF TmsBounds
<1>9. ASSUME DOMAIN thr = {t}, TmsAlone(t) PROVE TmsAlone(t)'
  <2> SUFFICES ASSUME comp.status = "running" PROVE TmsAlone(t)'
    BY DEF TmsAlone
  <2>1. teams[n].status = "disbanded" /\ new.status = "disbanded"
    BY <1>9 DEF TmsAlone
  <2> QED
    BY <1>1, <1>4, <1>7, <1>9, <2>1 DEF TmsAlone
<1> QED
  BY <1>1, <1>2, <1>3, <1>4, <1>8, <1>9, TmsFrame

LEMMA TmsJoinWrite ==
    ASSUME TmsInv, NEW t, Tms!JoinWrite(t)
    PROVE  TmsInv'
<1>1. /\ t \in DOMAIN thr /\ thr[t].at = "join" /\ thr' = [thr EXCEPT ![t] = Tms!Idle]
      /\ teams' = [teams EXCEPT ![thr[t].n].members = @ \union {thr[t].s}] /\ UNCHANGED <<comp, regs, roster>>
  BY DEF Tms!JoinWrite, Tms!At, Tms!Ends
<1>2. PICK s, n : s = thr[t].s /\ n = thr[t].n
  OBVIOUS
<1>3. s \in Competitors /\ n \in DOMAIN teams /\ t \in Joining(n)
  BY <1>1, <1>2 DEF TmsInv, TmsThreads, TmsTyped, Joining
<1>4. PICK team \in TeamRow : team = teams[n]
  BY <1>3, TeamTyped
<1>5. team.captain \in team.members /\ IsFiniteSet(team.members)
  BY <1>3, <1>4 DEF TmsInv, TmsFacts
<1>6. PICK new : new = [team EXCEPT !.members = @ \union {s}]
  OBVIOUS
<1>7. /\ new \in TeamRow /\ new.captain = team.captain /\ new.members = team.members \union {s}
      /\ new.status = team.status /\ new.captain \in new.members
  BY <1>3, <1>5, <1>6 DEF TeamRow
<1>8. teams' = [teams EXCEPT ![n] = new]
  BY <1>1, <1>2, <1>4, <1>6
<1>9. IsFiniteSet(new.members) /\ Cardinality(new.members) <= Cardinality(team.members) + 1
  BY <1>5, <1>7, FS_AddElement, FS_CardinalityType
<1>10. regs' \in RegRows /\ Tms!Registered' = Tms!Registered
  BY <1>1 DEF TmsInv, TmsFacts, Tms!Registered
<1>11. DOMAIN thr = {t} => comp.status # "running"
  BY <1>1 DEF TmsInv, TmsAlone
<1> QED
  BY <1>1, <1>3, <1>4, <1>7, <1>8, <1>9, <1>10, <1>11, TmsChanges

LEMMA TmsMemberDelete ==
    ASSUME TmsInv, NEW t, Tms!MemberDelete(t)
    PROVE  TmsInv'
<1>1. /\ t \in DOMAIN thr /\ thr[t].at = "leave" /\ thr' = [thr EXCEPT ![t] = Tms!Idle]
      /\ teams' = [teams EXCEPT ![thr[t].n].members = @ \ {thr[t].s}] /\ UNCHANGED <<comp, regs, roster>>
  BY DEF Tms!MemberDelete, Tms!At, Tms!Ends
<1>2. PICK s, n : s = thr[t].s /\ n = thr[t].n
  OBVIOUS
<1>3. n \in DOMAIN teams /\ s # teams[n].captain
  BY <1>1, <1>2 DEF TmsInv, TmsThreads, TmsTyped
<1>4. PICK team \in TeamRow : team = teams[n]
  BY <1>3, TeamTyped
<1>5. team.captain \in team.members /\ IsFiniteSet(team.members)
  BY <1>3, <1>4 DEF TmsInv, TmsFacts
<1>6. PICK new : new = [team EXCEPT !.members = @ \ {s}]
  OBVIOUS
<1>7. /\ new \in TeamRow /\ new.captain = team.captain /\ new.members = team.members \ {s}
      /\ new.status = team.status /\ new.captain \in new.members
  BY <1>3, <1>4, <1>5, <1>6 DEF TeamRow
<1>8. teams' = [teams EXCEPT ![n] = new]
  BY <1>1, <1>2, <1>4, <1>6
<1>9. new.members \subseteq team.members
  BY <1>7
<1>10. IsFiniteSet(new.members) /\ Cardinality(new.members) <= Cardinality(team.members)
  BY <1>5, <1>9, FS_Subset
<1>11. regs' \in RegRows /\ Tms!Registered' = Tms!Registered
  BY <1>1 DEF TmsInv, TmsFacts, Tms!Registered
<1> QED
  BY <1>1, <1>2, <1>3, <1>4, <1>7, <1>8, <1>10, <1>11, TmsChanges

\* The status of a registration changes.
LEMMA RegChanges ==
    ASSUME TmsInv, NEW k \in DOMAIN regs, Tms!SetReg(k, "canceled")
    PROVE  /\ regs' \in RegRows /\ DOMAIN regs' = DOMAIN regs
           /\ \A j \in DOMAIN regs : regs'[j].team = regs[j].team
           /\ Tms!Registered' \subseteq Tms!Registered
<1>1. PICK reg \in RegRow : reg = regs[k]
  BY TeamTyped
<1>2. PICK new : new = [reg EXCEPT !.status = "canceled"]
  OBVIOUS
<1>3. new \in RegRow /\ new.team = reg.team /\ new.status = "canceled"
  BY <1>2 DEF RegRow
<1>4. regs' = [regs EXCEPT ![k] = new] /\ regs \in RegRows
  BY <1>1, <1>2 DEF Tms!SetReg, TmsInv, TmsFacts
<1>5. regs' \in RegRows /\ DOMAIN regs' = DOMAIN regs
  BY <1>3, <1>4 DEF RegRows
<1>6. regs'[k] = new /\ \A j \in DOMAIN regs \ {k} : regs'[j] = regs[j]
  BY <1>4 DEF RegRows
<1>7. \A j \in DOMAIN regs : regs'[j].team = regs[j].team
  BY <1>1, <1>3, <1>6
<1>8. Tms!Registered' \subseteq Tms!Registered
  BY <1>3, <1>5, <1>6 DEF Tms!Registered
<1> QED
  BY <1>5, <1>7, <1>8

LEMMA TmsDisbandWrite ==
    ASSUME TmsInv, NEW t, Tms!DisbandWrite(t)
    PROVE  TmsInv'
<1>1. /\ t \in DOMAIN thr /\ thr[t].at = "disband" /\ thr' = [thr EXCEPT ![t] = Tms!Idle]
      /\ teams' = [teams EXCEPT ![thr[t].n].status = "disbanded"] /\ UNCHANGED <<comp, roster>>
      /\ \/ \E k \in Tms!RegOf(thr[t].n) : Tms!SetReg(k, "canceled")
         \/ regs' = regs
  BY DEF Tms!DisbandWrite, Tms!At, Tms!Ends
<1>2. PICK n : n = thr[t].n
  OBVIOUS
<1>3. n \in DOMAIN teams
  BY <1>1, <1>2 DEF TmsInv, TmsThreads, TmsTyped
<1>4. PICK team \in TeamRow : team = teams[n]
  BY <1>3, TeamTyped
<1>5. team.captain \in team.members /\ IsFiniteSet(team.members) /\ Cardinality(team.members) \in Nat
  BY <1>3, <1>4, TeamTyped DEF TmsInv, TmsFacts
<1>6. PICK new : new = [team EXCEPT !.status = "disbanded"]
  OBVIOUS
<1>7. /\ new \in TeamRow /\ new.captain = team.captain /\ new.members = team.members
      /\ new.status = "disbanded" /\ new.captain \in new.members
  BY <1>5, <1>6 DEF TeamRow
<1>8. teams' = [teams EXCEPT ![n] = new]
  BY <1>1, <1>2, <1>4, <1>6
<1>9. /\ regs' \in RegRows /\ DOMAIN regs' = DOMAIN regs
      /\ \A j \in DOMAIN regs : regs'[j].team = regs[j].team
      /\ Tms!Registered' \subseteq Tms!Registered
  <2>1. CASE regs' = regs
    BY <2>1 DEF TmsInv, TmsFacts, Tms!Registered
  <2>2. CASE \E k \in Tms!RegOf(thr[t].n) : Tms!SetReg(k, "canceled")
    <3>1. PICK k \in DOMAIN regs : Tms!SetReg(k, "canceled")
      BY <2>2 DEF Tms!RegOf
    <3> QED
      BY <3>1, RegChanges
  <2> QED
    BY <1>1, <2>1, <2>2
<1>10. IsFiniteSet(new.members) /\ Cardinality(new.members) <= Cardinality(team.members)
  BY <1>5, <1>7
<1> QED
  BY <1>1, <1>2, <1>3, <1>4, <1>7, <1>8, <1>9, <1>10, TmsChanges

LEMMA TmsCancelWrite ==
    ASSUME TmsInv, NEW t, Tms!CancelWrite(t)
    PROVE  TmsInv'
<1>1. /\ t \in DOMAIN thr /\ thr[t].at = "cancel" /\ thr' = [thr EXCEPT ![t] = Tms!Idle]
      /\ teams' = [teams EXCEPT ![regs[thr[t].k].team].status = "forming"] /\ UNCHANGED <<comp, roster>>
      /\ Tms!SetReg(thr[t].k, "canceled")
  BY DEF Tms!CancelWrite, Tms!At, Tms!Ends
<1>2. PICK k, n : k = thr[t].k /\ n = regs[k].team
  OBVIOUS
<1>3. k \in DOMAIN regs /\ n \in DOMAIN teams
  BY <1>1, <1>2 DEF TmsInv, TmsThreads, TmsTyped, TmsFacts
<1>4. PICK team \in TeamRow : team = teams[n]
  BY <1>3, TeamTyped
<1>5. team.captain \in team.members /\ IsFiniteSet(team.members) /\ Cardinality(team.members) \in Nat
  BY <1>3, <1>4, TeamTyped DEF TmsInv, TmsFacts
<1>6. PICK new : new = [team EXCEPT !.status = "forming"]
  OBVIOUS
<1>7. /\ new \in TeamRow /\ new.captain = team.captain /\ new.members = team.members
      /\ new.captain \in new.members
  BY <1>5, <1>6 DEF TeamRow
<1>8. teams' = [teams EXCEPT ![n] = new]
  BY <1>1, <1>2, <1>4, <1>6
<1>9. /\ regs' \in RegRows /\ DOMAIN regs' = DOMAIN regs
      /\ \A j \in DOMAIN regs : regs'[j].team = regs[j].team
      /\ Tms!Registered' \subseteq Tms!Registered
  BY <1>1, <1>2, <1>3, RegChanges
<1>10. IsFiniteSet(new.members) /\ Cardinality(new.members) <= Cardinality(team.members)
  BY <1>5, <1>7
<1>11. DOMAIN thr = {t} => comp.status # "running"
  BY <1>1 DEF TmsInv, TmsAlone
<1> QED
  BY <1>1, <1>3, <1>4, <1>7, <1>8, <1>9, <1>10, <1>11, TmsChanges

LEMMA TmsRegisterWrite ==
    ASSUME TmsInv, NEW t, Tms!RegisterWrite(t)
    PROVE  TmsInv'
<1>1. /\ t \in DOMAIN thr /\ thr[t].at = "register" /\ thr' = [thr EXCEPT ![t] = Tms!Idle]
      /\ UNCHANGED <<teams, comp, roster>>
      /\ regs' = regs \/ regs' = Append(regs, [team |-> thr[t].n, status |-> "registered"])
  BY DEF Tms!RegisterWrite, Tms!At, Tms!Ends
<1>2. PICK n : n = thr[t].n
  OBVIOUS
<1>3. PICK k : k = Len(regs) + 1
  OBVIOUS
<1>4. Len(regs) \in Nat /\ DOMAIN regs = 1..Len(regs) /\ regs \in RegRows
  BY TeamTyped DEF TmsInv, TmsFacts
<1>5. n \in DOMAIN teams /\ n \in Nat /\ t \in Registering
  BY <1>1, <1>2, TeamTyped DEF TmsInv, TmsThreads, TmsTyped, Registering
<1>6. PICK new : new = [team |-> n, status |-> "registered"]
  OBVIOUS
<1>7. new \in RegRow /\ new.team = n
  BY <1>5, <1>6 DEF RegRow
<1>8. /\ regs' \in RegRows /\ DOMAIN regs \subseteq DOMAIN regs' /\ DOMAIN regs' \subseteq DOMAIN regs \union {k}
      /\ \A j \in DOMAIN regs : regs'[j] = regs[j]
      /\ k \in DOMAIN regs' => regs'[k] = new
  <2>1. CASE regs' = regs
    BY <1>3, <1>4, <2>1
  <2>2. CASE regs' = Append(regs, new)
    <3>1. regs' \in RegRows
      BY <1>4, <1>7, <2>2 DEF RegRows
    <3>2. DOMAIN regs' = DOMAIN regs \union {k}
      BY <1>3, <1>4, <1>7, <2>2 DEF RegRows
    <3>3. regs'[k] = new /\ \A j \in DOMAIN regs : regs'[j] = regs[j]
      BY <1>3, <1>4, <1>7, <2>2 DEF RegRows
    <3> QED
      BY <3>1, <3>2, <3>3
  <2> QED
    BY <1>1, <1>2, <1>6, <2>1, <2>2
<1>9. TmsFacts'
  BY <1>1, <1>5, <1>7, <1>8 DEF TmsInv, TmsFacts
<1>10. TmsTyped(Tms!Idle)' /\ Tms!Idle.at = "idle"
  BY TmsIdle
<1>11. Cardinality(Tms!Registered') \in Nat /\ Cardinality(Tms!Registered') <= Cardinality(Tms!Registered) + 1
  <2>1. Tms!Registered' \subseteq Tms!Registered \union {k}
    BY <1>8 DEF Tms!Registered
  <2>2. /\ IsFiniteSet(Tms!Registered \union {k})
        /\ Cardinality(Tms!Registered \union {k}) <= Cardinality(Tms!Registered) + 1
    <3>1. IsFiniteSet(Tms!Registered) /\ Cardinality(Tms!Registered) \in Nat
      BY TmsCounts
    <3> QED
      BY <3>1, FS_AddElement
  <2>3. Cardinality(Tms!Registered \union {k}) \in Nat
    BY <2>2, FS_CardinalityType
  <2>4. IsFiniteSet(Tms!Registered') /\ Cardinality(Tms!Registered') <= Cardinality(Tms!Registered \union {k})
    BY <2>1, <2>2, FS_Subset
  <2> QED
    BY <2>2, <2>3, <2>4, TmsCounts, FS_CardinalityType
<1>12. Cardinality(Registering') \in Nat /\ Cardinality(Registering') = Cardinality(Registering) - 1
  BY <1>1, <1>5, <1>10, TmsMoves
<1>13. Cardinality(Tms!Registered') + Cardinality(Registering') <= MaxTeams + Cardinality(DOMAIN thr) - 1
  <2>1. Cardinality(Tms!Registered) + Cardinality(Registering) <= MaxTeams + Cardinality(DOMAIN thr) - 1
    BY DEF TmsInv, TmsBounds
  <2> QED
    BY <1>11, <1>12, <2>1, TmsCounts, TeamAssumption
<1>14. ASSUME NEW m \in DOMAIN teams
       PROVE  Cardinality(teams[m].members) + Cardinality(Joining(m)') <= MaxSize + Cardinality(DOMAIN thr) - 1
  <2>1. Cardinality(Joining(m)') <= Cardinality(Joining(m)) /\ Cardinality(Joining(m)') \in Nat
    BY <1>1, <1>10, TmsMoves
  <2>2. Cardinality(teams[m].members) + Cardinality(Joining(m)) <= MaxSize + Cardinality(DOMAIN thr) - 1
    BY DEF TmsInv, TmsBounds
  <2> QED
    BY <2>1, <2>2, TmsCounts, TeamTyped, TeamAssumption
<1>15. DOMAIN thr' = DOMAIN thr
  BY <1>1, TmsMoves
<1>16. TmsBounds'
  BY <1>1, <1>13, <1>14, <1>15 DEF TmsBounds
<1>17. ASSUME TmsAlone(t) PROVE TmsAlone(t)'
  BY <1>1, <1>17 DEF TmsAlone
<1> QED
  BY <1>1, <1>8, <1>9, <1>10, <1>16, <1>17, TmsFrame

\* The members of the teams are frozen.
LEMMA TmsStartCompetition ==
    ASSUME TmsInv, NEW t, Tms!StartCompetition(t)
    PROVE  TmsInv'
<1>1. /\ t \in DOMAIN thr /\ thr[t] = Tms!Idle /\ comp' = [comp EXCEPT !.status = "running"]
      /\ teams' = [n \in DOMAIN teams |-> [teams[n] EXCEPT !.status = IF @ = "forming" THEN "locked" ELSE @]]
      /\ roster' = [n \in DOMAIN teams |-> teams[n].members] /\ UNCHANGED <<regs, thr>>
  BY DEF Tms!StartCompetition, Tms!Free
<1>2. ASSUME NEW n \in DOMAIN teams
      PROVE  /\ teams'[n] \in TeamRow /\ teams'[n].captain = teams[n].captain /\ teams'[n].members = teams[n].members
             /\ teams'[n].status \in {"locked", "disbanded"}
  <2>1. PICK team \in TeamRow : team = teams[n]
    BY TeamTyped
  <2>2. teams'[n] = [team EXCEPT !.status = IF @ = "forming" THEN "locked" ELSE @]
    BY <1>1, <2>1
  <2> QED
    BY <2>1, <2>2 DEF TeamRow
<1>3. DOMAIN teams' = DOMAIN teams /\ teams' \in TeamRows
  <2>1. Len(teams) \in Nat /\ DOMAIN teams = 1..Len(teams)
    BY TeamTyped
  <2>2. teams' = [n \in 1..Len(teams) |-> teams'[n]]
    BY <1>1, <2>1
  <2>3. teams' \in [1..Len(teams) -> TeamRow]
    BY <1>2, <2>1, <2>2
  <2> QED
    BY <1>1, <2>1, <2>3, SeqDef DEF TeamRows
<1>4. comp' \in [status : {"registration", "running"}, mode : {"individual", "free"}]
  BY <1>1 DEF TmsInv, TmsFacts
<1>5. TmsFacts'
  BY <1>1, <1>2, <1>3, <1>4 DEF TmsInv, TmsFacts
<1>6. TmsThreads'
  BY <1>1, <1>2, <1>3 DEF TmsInv, TmsThreads, TmsTyped
<1>7. TmsBounds'
  <2>1. \A n \in DOMAIN teams' :
          Cardinality(teams'[n].members) + Cardinality(Joining(n)) <= MaxSize + Cardinality(DOMAIN thr) - 1
    BY <1>2, <1>3 DEF TmsInv, TmsBounds
  <2>2. Tms!Registered' = Tms!Registered /\ Registering' = Registering /\ \A n : Joining(n)' = Joining(n)
    BY <1>1 DEF Tms!Registered, Registering, Joining
  <2> QED
    BY <1>1, <2>1, <2>2 DEF TmsInv, TmsBounds
<1>8. ASSUME NEW u, DOMAIN thr' = {u} PROVE TmsAlone(u)'
  <2>1. u = t /\ thr'[u].at = "idle"
    BY <1>1, <1>8, TmsIdle
  <2>2. ASSUME NEW n \in DOMAIN teams'
        PROVE  teams'[n].status = "disbanded"
               \/ (teams'[n].status = "locked" /\ n \in DOMAIN roster' /\ teams'[n].members = roster'[n])
    BY <1>1, <1>2, <1>3, <2>2
  <2> QED
    BY <2>1, <2>2 DEF TmsAlone
<1> QED
  BY <1>5, <1>6, <1>7, <1>8 DEF TmsInv

-----------------------------------------------------------------------------
(* The whole service.                                                      *)

LEMMA TmsStays ==
    ASSUME TmsInv, UNCHANGED <<thr, comp, teams, regs, roster>>
    PROVE  TmsInv'
<1>1. Tms!Registered' = Tms!Registered /\ Registering' = Registering /\ \A n : Joining(n)' = Joining(n)
  BY DEF Tms!Registered, Registering, Joining
<1>2. TmsFacts' /\ TmsThreads'
  BY DEF TmsInv, TmsFacts, TmsThreads, TmsTyped
<1>3. TmsBounds'
  BY <1>1 DEF TmsInv, TmsBounds
<1>4. ASSUME NEW u, DOMAIN thr' = {u} PROVE TmsAlone(u)'
  BY <1>4 DEF TmsInv, TmsAlone
<1> QED
  BY <1>2, <1>3, <1>4 DEF TmsInv

LEMMA TmsInit == Tms!Init => TmsInv
<1> SUFFICES ASSUME Tms!Init PROVE TmsInv
  OBVIOUS
<1>1. PICK crew \in TeamCrews :
        /\ teams = <<>> /\ regs = <<>> /\ roster = <<>> /\ comp = [status |-> "registration", mode |-> crew.mode]
        /\ thr = [t \in crew.threads |-> Tms!Idle]
  BY DEF Tms!Init
<1>2. crew.mode \in {"individual", "free"} /\ IsFiniteSet(crew.threads) /\ crew.threads # {}
  BY HandlersAssumption, TeamAssumption DEF Handled
<1>3. DOMAIN teams = {} /\ DOMAIN regs = {} /\ teams \in TeamRows /\ regs \in RegRows
  BY <1>1 DEF TeamRows, RegRows
<1>4. TmsFacts
  BY <1>1, <1>2, <1>3 DEF TmsFacts
<1>5. \A t \in DOMAIN thr : thr[t] = Tms!Idle
  BY <1>1
<1>6. TmsThreads
  BY <1>1, <1>2, <1>5, TmsIdle DEF TmsThreads
<1>7. Tms!Registered = {} /\ Registering = {}
  BY <1>3, <1>5, TmsIdle DEF Tms!Registered, Registering
<1>8. Cardinality(Tms!Registered) = 0 /\ Cardinality(Registering) = 0
  BY <1>7, FS_EmptySet
<1>9. Cardinality(DOMAIN thr) \in Nat /\ Cardinality(DOMAIN thr) >= 1
  BY <1>1, <1>2, FS_CardinalityType, FS_EmptySet
<1>10. TmsBounds
  BY <1>3, <1>8, <1>9, TeamAssumption DEF TmsBounds
<1>11. ASSUME NEW t, DOMAIN thr = {t} PROVE TmsAlone(t)
  BY <1>1 DEF TmsAlone
<1> QED
  BY <1>4, <1>6, <1>10, <1>11 DEF TmsInv

LEMMA TmsStep == TmsInv /\ Tms!Next => TmsInv'
<1> SUFFICES ASSUME TmsInv, NEW t,
               \/ \E s \in Competitors :
                    \/ Tms!CreateTeam(t, s) \/ Tms!RegisterAlone(t, s) \/ Tms!CancelRegistration(t, s)
                    \/ \E n \in DOMAIN teams :
                         Tms!JoinTeam(t, s, n) \/ Tms!LeaveTeam(t, s, n) \/ Tms!RemoveMember(t, s, n)
               \/ \E n \in DOMAIN teams : Tms!DisbandTeam(t, n) \/ Tms!RegisterCompetition(t, n)
               \/ Tms!CreateWrite(t) \/ Tms!JoinWrite(t) \/ Tms!MemberDelete(t) \/ Tms!DisbandWrite(t)
               \/ Tms!CreateSoloTeam(t) \/ Tms!RegisterWrite(t) \/ Tms!CancelWrite(t)
               \/ Tms!StartCompetition(t)
             PROVE  TmsInv'
  BY DEF Tms!Next
<1>1. CASE \/ \E s \in Competitors :
                \/ Tms!CreateTeam(t, s) \/ Tms!RegisterAlone(t, s) \/ Tms!CancelRegistration(t, s)
                \/ \E n \in DOMAIN teams :
                     Tms!JoinTeam(t, s, n) \/ Tms!LeaveTeam(t, s, n) \/ Tms!RemoveMember(t, s, n)
           \/ \E n \in DOMAIN teams : Tms!DisbandTeam(t, n) \/ Tms!RegisterCompetition(t, n)
  BY <1>1, TmsBegun
<1>2. CASE Tms!CreateWrite(t) \/ Tms!JoinWrite(t) \/ Tms!MemberDelete(t) \/ Tms!DisbandWrite(t)
  BY <1>2, TmsCreateWrite, TmsJoinWrite, TmsMemberDelete, TmsDisbandWrite
<1>3. CASE Tms!CreateSoloTeam(t) \/ Tms!RegisterWrite(t) \/ Tms!CancelWrite(t) \/ Tms!StartCompetition(t)
  BY <1>3, TmsCreateSoloTeam, TmsRegisterWrite, TmsCancelWrite, TmsStartCompetition
<1> QED
  BY <1>1, <1>2, <1>3

\* The teams keep their invariant.
LEMMA TmsHolds == Spec => [](part = "teams" => TmsInv)
<1> DEFINE I == part = "teams" => TmsInv
<1>1. Init => I
  BY TmsInit DEF Init
<1>2. I /\ [Next]_allVars => I'
  <2> SUFFICES ASSUME I, [Next]_allVars, part' = "teams" PROVE TmsInv'
    OBVIOUS
  <2>1. part = "teams" /\ TmsInv
    BY PartStays
  <2>2. CASE Next
    BY <2>1, <2>2, TmsStep DEF Next
  <2>3. CASE UNCHANGED allVars
    BY <2>1, <2>3, TmsStays DEF allVars, teamVars
  <2> QED
    BY <2>2, <2>3
<1> QED
  BY <1>1, <1>2, PTL DEF Spec, allVars

LEMMA TmsLimits == TmsInv => Tms!WithinLimits /\ Tms!RosterFrozen
<1> SUFFICES ASSUME TmsInv PROVE Tms!WithinLimits /\ Tms!RosterFrozen
  OBVIOUS
<1>1. Tms!Overlap = Cardinality(DOMAIN thr) - 1 /\ Cardinality(DOMAIN thr) \in Nat
  BY TmsCounts, SameCardinality DEF Tms!Overlap
<1>2. ASSUME NEW n \in DOMAIN teams PROVE Tms!Cardinality(teams[n].members) <= MaxSize + Tms!Overlap
  <2>1. Cardinality(teams[n].members) + Cardinality(Joining(n)) <= MaxSize + Cardinality(DOMAIN thr) - 1
    BY DEF TmsInv, TmsBounds
  <2>2. Cardinality(teams[n].members) \in Nat /\ Cardinality(Joining(n)) \in Nat /\ MaxSize \in Nat
    BY TeamTyped, TmsCounts, TeamAssumption
  <2>3. Tms!Cardinality(teams[n].members) = Cardinality(teams[n].members)
    BY SameCardinality
  <2> QED
    BY <1>1, <2>1, <2>2, <2>3
<1>3. Tms!Cardinality(Tms!Registered) <= MaxTeams + Tms!Overlap
  <2>1. Cardinality(Tms!Registered) + Cardinality(Registering) <= MaxTeams + Cardinality(DOMAIN thr) - 1
    BY DEF TmsInv, TmsBounds
  <2>2. Cardinality(Tms!Registered) \in Nat /\ Cardinality(Registering) \in Nat /\ MaxTeams \in Nat
    BY TmsCounts, TeamAssumption
  <2>3. Tms!Cardinality(Tms!Registered) = Cardinality(Tms!Registered)
    BY SameCardinality
  <2> QED
    BY <1>1, <2>1, <2>2, <2>3
<1>4. ASSUME comp.status = "running", Tms!Overlap = 0, NEW n \in DOMAIN teams, Tms!Live(n)
      PROVE  n \in DOMAIN roster /\ teams[n].members = roster[n]
  <2>1. Cardinality(DOMAIN thr) = 1 /\ IsFiniteSet(DOMAIN thr)
    BY <1>1, <1>4 DEF TmsInv, TmsThreads
  <2>2. PICK t : DOMAIN thr = {t}
    BY <2>1, OneElement
  <2>3. TmsAlone(t)
    BY <2>2 DEF TmsInv
  <2> QED
    BY <1>4, <2>3 DEF TmsAlone, Tms!Live
<1> QED
  BY <1>2, <1>3, <1>4 DEF Tms!WithinLimits, Tms!RosterFrozen

-----------------------------------------------------------------------------
(* The groups of a template.                                               *)

Member == [role : Roles \union {None}, id : Nat]
Members == UNION {[D -> Member] : D \in SUBSET Classmates}
Statuses == {"forming", "ready", "running", "completed"}
GroupRow == [max : Nat, cap : Nat, members : Members, deleted : BOOLEAN, edited : BOOLEAN, status : Statuses]
GroupRows == Seq(GroupRow)
InstRow == [Classmates -> {None, "starting", "running", "stopped", "completed"}]
InstRows == Seq(InstRow)

In(s) == {n \in DOMAIN groups : s \in DOMAIN groups[n].members}
Coming(n) == {t \in DOMAIN thr : thr[t].at = "join" /\ thr[t].n = n}
ComingAs(n, r) == {t \in Coming(n) : thr[t].member.role = r}
Entering(s) ==
    {t \in DOMAIN thr : \/ thr[t].at = "join" /\ thr[t].s = s
                        \/ thr[t].at = "create" /\ s \in DOMAIN thr[t].members}

GrpTyped(r, ids) ==
    /\ r.at = "create" =>
         /\ r.max \in Nat /\ r.members \in Members /\ Cardinality(DOMAIN r.members) <= r.max
         /\ \A role \in Roles : Grp!UsedBy(r.members, role) <= RoleMax
    /\ r.at \in {"join", "remove", "status", "refresh", "latest"} => r.n \in ids
    /\ r.at \in {"join", "remove"} => r.s \in Classmates
    /\ r.at \in {"join", "remove", "status"} => r.status \in Statuses
    /\ r.at = "join" => r.member \in Member
    /\ r.at = "latest" => r.max \in Nat /\ r.members \subseteq Classmates

GrpFacts ==
    /\ groups \in GroupRows /\ inst \in InstRows /\ Len(inst) = Len(groups) /\ left \in Nat
    /\ \A n \in DOMAIN groups : groups[n].max <= groups[n].cap

GrpThreads ==
    /\ thr = [t \in DOMAIN thr |-> thr[t]] /\ IsFiniteSet(DOMAIN thr) /\ DOMAIN thr # {}
    /\ \A t \in DOMAIN thr : GrpTyped(thr[t], DOMAIN groups)

\* A request that has seen room, in the group or in a role, counts as if it had taken it,
\* and one that found a student in no group as if the student were in one.
GrpBounds ==
    /\ \A n \in DOMAIN groups :
         /\ Grp!Count(n) + Cardinality(Coming(n)) <= groups[n].cap + Cardinality(DOMAIN thr) - 1
         /\ \A r \in Roles :
              Grp!UsedBy(groups[n].members, r) + Cardinality(ComingAs(n, r)) <= RoleMax + Cardinality(DOMAIN thr) - 1
    /\ \A s \in Classmates : Cardinality(In(s)) + Cardinality(Entering(s)) <= Cardinality(DOMAIN thr)

\* The status says whether the group has room.
Tells(n, status) == Grp!Stored(n) /\ ~groups[n].edited => (status = "forming" <=> Grp!Count(n) < groups[n].max)

\* A handler that overlaps no other holds what is still there, and what it will write is right.
GrpKnows(r) ==
    /\ r.at = "status" => Tells(r.n, r.status)
    /\ r.at = "remove" =>
         /\ r.s \in DOMAIN groups[r.n].members /\ groups[r.n].members[r.s].id = r.id
         /\ r.status = Grp!MembershipStatus(groups[r.n].max, Grp!Count(r.n) - 1)
    /\ r.at = "join" =>
         /\ Grp!Stored(r.n) /\ r.s \notin DOMAIN groups[r.n].members /\ r.old = groups[r.n].status
         /\ r.status = Grp!MembershipStatus(groups[r.n].max, Grp!Count(r.n) + 1)
    /\ r.at = "latest" =>
         /\ r.max = groups[r.n].max /\ r.members = DOMAIN groups[r.n].members /\ r.old = groups[r.n].status

GrpAlone(t) ==
    /\ GrpKnows(thr[t])
    /\ \A n \in DOMAIN groups : ~(thr[t].at = "status" /\ thr[t].n = n) => Tells(n, groups[n].status)

GrpInv == GrpFacts /\ GrpThreads /\ GrpBounds /\ \A t : DOMAIN thr = {t} => GrpAlone(t)

LEMMA GrpIdle ==
    Grp!Idle.at = "idle" /\ (\A ids : GrpTyped(Grp!Idle, ids)) /\ GrpKnows(Grp!Idle) /\ GrpKnows(Grp!Idle)'
BY DEF GrpTyped, GrpKnows, Grp!Idle

\* What is counted in a group.
LEMMA MembersTyped ==
    ASSUME NEW m \in Members
    PROVE  /\ DOMAIN m \subseteq Classmates /\ IsFiniteSet(DOMAIN m) /\ Cardinality(DOMAIN m) \in Nat
           /\ m = [s \in DOMAIN m |-> m[s]]
           /\ \A s \in DOMAIN m : m[s] \in Member
           /\ \A r : /\ Grp!UsedBy(m, r) = Cardinality({s \in DOMAIN m : m[s].role = r})
                     /\ IsFiniteSet({s \in DOMAIN m : m[s].role = r}) /\ Grp!UsedBy(m, r) \in Nat
<1>1. PICK D \in SUBSET Classmates : m \in [D -> Member]
  BY DEF Members
<1>2. DOMAIN m \subseteq Classmates /\ m = [s \in DOMAIN m |-> m[s]] /\ \A s \in DOMAIN m : m[s] \in Member
  BY <1>1
<1>3. IsFiniteSet(DOMAIN m)
  BY <1>2, GroupAssumption, FS_Subset
<1>4. Cardinality(DOMAIN m) \in Nat
  BY <1>3, FS_CardinalityType
<1>5. ASSUME NEW r
      PROVE  /\ Grp!UsedBy(m, r) = Cardinality({s \in DOMAIN m : m[s].role = r})
             /\ IsFiniteSet({s \in DOMAIN m : m[s].role = r}) /\ Grp!UsedBy(m, r) \in Nat
  <2>1. IsFiniteSet({s \in DOMAIN m : m[s].role = r})
    BY <1>3, FS_Subset
  <2>2. Cardinality({s \in DOMAIN m : m[s].role = r}) \in Nat
    BY <2>1, FS_CardinalityType
  <2> QED
    BY <2>1, <2>2, SameCardinality DEF Grp!UsedBy
<1> QED
  BY <1>2, <1>3, <1>4, <1>5

LEMMA GroupTyped ==
    ASSUME GrpInv
    PROVE  /\ Len(groups) \in Nat /\ DOMAIN groups = 1..Len(groups) /\ DOMAIN inst = DOMAIN groups
           /\ \A n \in DOMAIN groups :
                /\ groups[n] \in GroupRow /\ groups[n].members \in Members
                /\ groups[n].max \in Nat /\ groups[n].cap \in Nat /\ groups[n].max <= groups[n].cap
                /\ Grp!Count(n) = Cardinality(DOMAIN groups[n].members) /\ Grp!Count(n) \in Nat
                /\ \A r : Grp!UsedBy(groups[n].members, r) \in Nat
           /\ \A s : In(s) \subseteq DOMAIN groups /\ IsFiniteSet(In(s)) /\ Cardinality(In(s)) \in Nat
<1>1. Len(groups) \in Nat /\ DOMAIN groups = 1..Len(groups) /\ \A n \in DOMAIN groups : groups[n] \in GroupRow
  BY DEF GrpInv, GrpFacts, GroupRows
<1>2. DOMAIN inst = DOMAIN groups
  BY <1>1 DEF GrpInv, GrpFacts, InstRows
<1>3. ASSUME NEW n \in DOMAIN groups
      PROVE  /\ groups[n].members \in Members
             /\ groups[n].max \in Nat /\ groups[n].cap \in Nat /\ groups[n].max <= groups[n].cap
             /\ Grp!Count(n) = Cardinality(DOMAIN groups[n].members) /\ Grp!Count(n) \in Nat
             /\ \A r : Grp!UsedBy(groups[n].members, r) \in Nat
  <2>1. groups[n].members \in Members /\ groups[n].max \in Nat /\ groups[n].cap \in Nat
    BY <1>1 DEF GroupRow
  <2>2. Grp!Count(n) = Cardinality(DOMAIN groups[n].members)
    BY SameCardinality DEF Grp!Count
  <2>3. Cardinality(DOMAIN groups[n].members) \in Nat /\ \A r : Grp!UsedBy(groups[n].members, r) \in Nat
    BY <2>1, MembersTyped
  <2> QED
    BY <2>1, <2>2, <2>3 DEF GrpInv, GrpFacts
<1>4. ASSUME NEW s PROVE In(s) \subseteq DOMAIN groups /\ IsFiniteSet(In(s)) /\ Cardinality(In(s)) \in Nat
  <2>1. In(s) \subseteq DOMAIN groups
    BY DEF In
  <2>2. IsFiniteSet(1..Len(groups))
    BY <1>1, FS_Interval
  <2>3. IsFiniteSet(In(s))
    BY <1>1, <2>1, <2>2, FS_Subset
  <2> QED
    BY <2>1, <2>3, FS_CardinalityType
<1> QED
  BY <1>1, <1>2, <1>3, <1>4

LEMMA GrpCounts ==
    ASSUME GrpInv
    PROVE  /\ Cardinality(DOMAIN thr) \in Nat /\ Cardinality(DOMAIN thr) >= 1 /\ IsFiniteSet(DOMAIN thr)
           /\ \A n : IsFiniteSet(Coming(n)) /\ Cardinality(Coming(n)) \in Nat
           /\ \A n, r : IsFiniteSet(ComingAs(n, r)) /\ Cardinality(ComingAs(n, r)) \in Nat
           /\ \A s : IsFiniteSet(Entering(s)) /\ Cardinality(Entering(s)) \in Nat
<1>1. IsFiniteSet(DOMAIN thr) /\ DOMAIN thr # {}
  BY DEF GrpInv, GrpThreads
<1>2. Cardinality(DOMAIN thr) \in Nat /\ Cardinality(DOMAIN thr) >= 1
  BY <1>1, FS_CardinalityType, FS_EmptySet
<1>3. /\ \A n : Coming(n) \subseteq DOMAIN thr /\ \A r : ComingAs(n, r) \subseteq DOMAIN thr
      /\ \A s : Entering(s) \subseteq DOMAIN thr
  BY DEF Coming, ComingAs, Entering
<1>4. \A n : IsFiniteSet(Coming(n)) /\ Cardinality(Coming(n)) \in Nat
  BY <1>1, <1>3, FS_Subset, FS_CardinalityType
<1>5. \A n, r : IsFiniteSet(ComingAs(n, r)) /\ Cardinality(ComingAs(n, r)) \in Nat
  BY <1>1, <1>3, FS_Subset, FS_CardinalityType
<1>6. \A s : IsFiniteSet(Entering(s)) /\ Cardinality(Entering(s)) \in Nat
  BY <1>1, <1>3, FS_Subset, FS_CardinalityType
<1> QED
  BY <1>1, <1>2, <1>4, <1>5, <1>6

\* How many are on their way after a handler's record has changed.
LEMMA GrpMoves ==
    ASSUME GrpInv, NEW t \in DOMAIN thr, NEW r, thr' = [thr EXCEPT ![t] = r]
    PROVE  /\ thr' = [u \in DOMAIN thr' |-> thr'[u]] /\ DOMAIN thr' = DOMAIN thr
           /\ thr'[t] = r /\ \A u \in DOMAIN thr \ {t} : thr'[u] = thr[u]
           /\ \A n : /\ Coming(n)' \subseteq Coming(n) \union {t} /\ Coming(n)' \subseteq DOMAIN thr
                     /\ ~(r.at = "join" /\ r.n = n) => Coming(n)' \subseteq Coming(n) \ {t}
           /\ \A n, role : /\ ComingAs(n, role)' \subseteq ComingAs(n, role) \union {t}
                           /\ ComingAs(n, role)' \subseteq DOMAIN thr
                           /\ ~(r.at = "join" /\ r.n = n /\ r.member.role = role) =>
                                ComingAs(n, role)' \subseteq ComingAs(n, role) \ {t}
           /\ \A s : /\ Entering(s)' \subseteq Entering(s) \union {t} /\ Entering(s)' \subseteq DOMAIN thr
                     /\ r.at \notin {"join", "create"} => Entering(s)' \subseteq Entering(s) \ {t}
                     /\ r.at = "join" /\ r.s # s => Entering(s)' \subseteq Entering(s) \ {t}
                     /\ r.at = "create" /\ s \notin DOMAIN r.members => Entering(s)' \subseteq Entering(s) \ {t}
<1>1. /\ thr' = [u \in DOMAIN thr' |-> thr'[u]] /\ DOMAIN thr' = DOMAIN thr
      /\ thr'[t] = r /\ \A u \in DOMAIN thr \ {t} : thr'[u] = thr[u]
  BY DEF GrpInv, GrpThreads
<1>2. ASSUME NEW n
      PROVE  /\ Coming(n)' \subseteq Coming(n) \union {t} /\ Coming(n)' \subseteq DOMAIN thr
             /\ ~(r.at = "join" /\ r.n = n) => Coming(n)' \subseteq Coming(n) \ {t}
  BY <1>1 DEF Coming
<1>3. ASSUME NEW n, NEW role
      PROVE  /\ ComingAs(n, role)' \subseteq ComingAs(n, role) \union {t}
             /\ ComingAs(n, role)' \subseteq DOMAIN thr
             /\ ~(r.at = "join" /\ r.n = n /\ r.member.role = role) =>
                  ComingAs(n, role)' \subseteq ComingAs(n, role) \ {t}
  BY <1>1 DEF ComingAs, Coming
<1>4. ASSUME NEW s
      PROVE  /\ Entering(s)' \subseteq Entering(s) \union {t} /\ Entering(s)' \subseteq DOMAIN thr
             /\ r.at \notin {"join", "create"} => Entering(s)' \subseteq Entering(s) \ {t}
             /\ r.at = "join" /\ r.s # s => Entering(s)' \subseteq Entering(s) \ {t}
             /\ r.at = "create" /\ s \notin DOMAIN r.members => Entering(s)' \subseteq Entering(s) \ {t}
  BY <1>1 DEF Entering
<1> QED
  BY <1>1, <1>2, <1>3, <1>4

\* The bounds hold if what a group or a student gains was counted before.
LEMMA GrpRoom ==
    ASSUME GrpInv, NEW t \in DOMAIN thr, NEW r, thr' = [thr EXCEPT ![t] = r], r.at \notin {"join", "create"},
           DOMAIN groups \subseteq DOMAIN groups',
           \A n \in DOMAIN groups' : groups'[n] \in GroupRow,
           \A n \in DOMAIN groups :
             /\ groups[n].cap <= groups'[n].cap
             /\ LET before == groups[n].members
                    after == groups'[n].members IN
                /\ \/ Cardinality(DOMAIN after) <= Cardinality(DOMAIN before)
                   \/ t \in Coming(n) /\ Cardinality(DOMAIN after) <= Cardinality(DOMAIN before) + 1
                /\ \A role \in Roles :
                     \/ Grp!UsedBy(after, role) <= Grp!UsedBy(before, role)
                     \/ t \in ComingAs(n, role) /\ Grp!UsedBy(after, role) <= Grp!UsedBy(before, role) + 1,
           \A n \in DOMAIN groups' \ DOMAIN groups :
             /\ Cardinality(DOMAIN groups'[n].members) <= groups'[n].cap
             /\ \A role \in Roles : Grp!UsedBy(groups'[n].members, role) <= RoleMax,
           \A s \in Classmates :
             \/ In(s)' \subseteq In(s)
             \/ t \in Entering(s) /\ \E n : In(s)' \subseteq In(s) \union {n}
    PROVE  GrpBounds'
<1>1. DOMAIN thr' = DOMAIN thr
  BY GrpMoves
<1>2. ASSUME NEW n \in DOMAIN groups'
      PROVE  /\ groups'[n].members \in Members /\ groups'[n].cap \in Nat
             /\ Cardinality(DOMAIN groups'[n].members) \in Nat
             /\ \A role : Grp!UsedBy(groups'[n].members, role) \in Nat
  <2>1. groups'[n].members \in Members /\ groups'[n].cap \in Nat
    BY DEF GroupRow
  <2> QED
    BY <2>1, MembersTyped
<1>3. ASSUME NEW n
      PROVE  /\ Cardinality(Coming(n)') \in Nat /\ Cardinality(Coming(n)') <= Cardinality(Coming(n))
             /\ t \in Coming(n) => Cardinality(Coming(n)') <= Cardinality(Coming(n)) - 1
  <2>1. IsFiniteSet(Coming(n)) /\ Coming(n)' \subseteq Coming(n) \union {t} /\ Coming(n)' \subseteq Coming(n) \ {t}
    BY GrpCounts, GrpMoves
  <2> QED
    BY <2>1, OneMore
<1>4. ASSUME NEW n, NEW role
      PROVE  /\ Cardinality(ComingAs(n, role)') \in Nat
             /\ Cardinality(ComingAs(n, role)') <= Cardinality(ComingAs(n, role))
             /\ t \in ComingAs(n, role) => Cardinality(ComingAs(n, role)') <= Cardinality(ComingAs(n, role)) - 1
  <2>1. /\ IsFiniteSet(ComingAs(n, role)) /\ ComingAs(n, role)' \subseteq ComingAs(n, role) \union {t}
        /\ ComingAs(n, role)' \subseteq ComingAs(n, role) \ {t}
    BY GrpCounts, GrpMoves
  <2> QED
    BY <2>1, OneMore
<1>5. ASSUME NEW n \in DOMAIN groups
      PROVE  /\ Cardinality(DOMAIN groups'[n].members) + Cardinality(Coming(n)')
                  <= groups'[n].cap + Cardinality(DOMAIN thr) - 1
             /\ \A role \in Roles : Grp!UsedBy(groups'[n].members, role) + Cardinality(ComingAs(n, role)')
                                      <= RoleMax + Cardinality(DOMAIN thr) - 1
  <2>1. Cardinality(DOMAIN groups[n].members) + Cardinality(Coming(n)) <= groups[n].cap + Cardinality(DOMAIN thr) - 1
    BY GroupTyped DEF GrpInv, GrpBounds
  <2>2. /\ groups[n].cap \in Nat /\ groups'[n].cap \in Nat /\ groups[n].cap <= groups'[n].cap
        /\ Cardinality(DOMAIN groups[n].members) \in Nat /\ Cardinality(DOMAIN groups'[n].members) \in Nat
        /\ Cardinality(Coming(n)) \in Nat /\ Cardinality(DOMAIN thr) \in Nat
    BY <1>2, GroupTyped, GrpCounts
  <2>3. \/ Cardinality(DOMAIN groups'[n].members) <= Cardinality(DOMAIN groups[n].members)
        \/ t \in Coming(n) /\ Cardinality(DOMAIN groups'[n].members) <= Cardinality(DOMAIN groups[n].members) + 1
    OBVIOUS
  <2>4. /\ Cardinality(DOMAIN groups'[n].members) + Cardinality(Coming(n)')
            <= groups'[n].cap + Cardinality(DOMAIN thr) - 1
    BY <1>3, <2>1, <2>2, <2>3
  <2>5. ASSUME NEW role \in Roles
        PROVE  Grp!UsedBy(groups'[n].members, role) + Cardinality(ComingAs(n, role)')
                 <= RoleMax + Cardinality(DOMAIN thr) - 1
    <3>1. Grp!UsedBy(groups[n].members, role) + Cardinality(ComingAs(n, role)) <= RoleMax + Cardinality(DOMAIN thr) - 1
      BY DEF GrpInv, GrpBounds
    <3>2. /\ Grp!UsedBy(groups[n].members, role) \in Nat /\ Grp!UsedBy(groups'[n].members, role) \in Nat
          /\ Cardinality(ComingAs(n, role)) \in Nat /\ Cardinality(DOMAIN thr) \in Nat /\ RoleMax \in Nat
      BY <1>2, GroupTyped, GrpCounts, GroupAssumption
    <3>3. \/ Grp!UsedBy(groups'[n].members, role) <= Grp!UsedBy(groups[n].members, role)
          \/ /\ t \in ComingAs(n, role)
             /\ Grp!UsedBy(groups'[n].members, role) <= Grp!UsedBy(groups[n].members, role) + 1
      OBVIOUS
    <3> QED
      BY <1>4, <3>1, <3>2, <3>3
  <2> QED
    BY <2>4, <2>5
<1>6. ASSUME NEW n \in DOMAIN groups' \ DOMAIN groups
      PROVE  /\ Cardinality(DOMAIN groups'[n].members) + Cardinality(Coming(n)')
                  <= groups'[n].cap + Cardinality(DOMAIN thr) - 1
             /\ \A role \in Roles : Grp!UsedBy(groups'[n].members, role) + Cardinality(ComingAs(n, role)')
                                      <= RoleMax + Cardinality(DOMAIN thr) - 1
  <2>1. Coming(n) = {} /\ \A role : ComingAs(n, role) = {}
    BY DEF Coming, ComingAs, GrpInv, GrpThreads, GrpTyped
  <2>2. Cardinality(Coming(n)) = 0 /\ \A role : Cardinality(ComingAs(n, role)) = 0
    BY <2>1, FS_EmptySet
  <2>3. Cardinality(Coming(n)') = 0
    BY <1>3, <2>2
  <2>4. \A role : Cardinality(ComingAs(n, role)') = 0
    BY <1>4, <2>2
  <2>5. Cardinality(DOMAIN thr) \in Nat /\ Cardinality(DOMAIN thr) >= 1 /\ RoleMax \in Nat
    BY GrpCounts, GroupAssumption
  <2>6. Cardinality(DOMAIN groups'[n].members) + Cardinality(Coming(n)')
          <= groups'[n].cap + Cardinality(DOMAIN thr) - 1
    BY <1>2, <2>3, <2>5
  <2>7. ASSUME NEW role \in Roles
        PROVE  Grp!UsedBy(groups'[n].members, role) + Cardinality(ComingAs(n, role)')
                 <= RoleMax + Cardinality(DOMAIN thr) - 1
    <3>1. /\ Grp!UsedBy(groups'[n].members, role) <= RoleMax /\ Grp!UsedBy(groups'[n].members, role) \in Nat
          /\ Cardinality(ComingAs(n, role)') = 0
      BY <1>2, <2>4
    <3> QED
      BY <2>5, <3>1
  <2> QED
    BY <2>6, <2>7
<1>7. ASSUME NEW s \in Classmates PROVE Cardinality(In(s)') + Cardinality(Entering(s)') <= Cardinality(DOMAIN thr)
  <2>1. Cardinality(In(s)) + Cardinality(Entering(s)) <= Cardinality(DOMAIN thr)
    BY DEF GrpInv, GrpBounds
  <2>2. /\ IsFiniteSet(Entering(s)) /\ Entering(s)' \subseteq Entering(s) \union {t}
        /\ Entering(s)' \subseteq Entering(s) \ {t}
    BY GrpCounts, GrpMoves
  <2>3. /\ Cardinality(Entering(s)') \in Nat /\ Cardinality(Entering(s)') <= Cardinality(Entering(s))
        /\ t \in Entering(s) => Cardinality(Entering(s)') <= Cardinality(Entering(s)) - 1
    BY <2>2, OneMore
  <2>4. IsFiniteSet(In(s)) /\ Cardinality(In(s)) \in Nat /\ Cardinality(Entering(s)) \in Nat
    BY GroupTyped, GrpCounts
  <2>5. CASE In(s)' \subseteq In(s)
    <3>1. IsFiniteSet(In(s)') /\ Cardinality(In(s)') <= Cardinality(In(s))
      BY <2>4, <2>5, FS_Subset
    <3>2. Cardinality(In(s)') \in Nat
      BY <3>1, FS_CardinalityType
    <3> QED
      BY <2>1, <2>3, <2>4, <3>1, <3>2, GrpCounts
  <2>6. CASE t \in Entering(s) /\ \E n : In(s)' \subseteq In(s) \union {n}
    <3>1. PICK n : In(s)' \subseteq In(s) \union {n}
      BY <2>6
    <3>2. Cardinality(In(s)') \in Nat /\ Cardinality(In(s)') <= Cardinality(In(s)) + 1
      BY <2>4, <3>1, OneMore
    <3> QED
      BY <2>1, <2>3, <2>4, <2>6, <3>2, GrpCounts
  <2> QED
    BY <2>5, <2>6
<1>8. \A n \in DOMAIN groups' :
        /\ Grp!Count(n)' = Cardinality(DOMAIN groups'[n].members)
        /\ \A role : Grp!UsedBy(groups[n].members, role)' = Grp!UsedBy(groups'[n].members, role)
  BY SameCardinality DEF Grp!Count, Grp!UsedBy
<1>9. \A n \in DOMAIN groups' :
        /\ Grp!Count(n)' + Cardinality(Coming(n)') <= groups'[n].cap + Cardinality(DOMAIN thr) - 1
        /\ \A role \in Roles : Grp!UsedBy(groups'[n].members, role) + Cardinality(ComingAs(n, role)')
                                 <= RoleMax + Cardinality(DOMAIN thr) - 1
  BY <1>5, <1>6, <1>8
<1> QED
  BY <1>1, <1>7, <1>8, <1>9 DEF GrpBounds

\* The bounds hold after a request has passed its checks.
LEMMA GrpEnters ==
    ASSUME GrpInv, NEW t \in DOMAIN thr, NEW r, thr' = [thr EXCEPT ![t] = r], groups' = groups,
           r.at = "join" =>
             /\ r.n \in DOMAIN groups /\ Grp!Count(r.n) < groups[r.n].max
             /\ r.member.role \in Roles => Grp!UsedBy(groups[r.n].members, r.member.role) < RoleMax
             /\ In(r.s) = {},
           r.at = "create" => \A s \in DOMAIN r.members : In(s) = {}
    PROVE  GrpBounds'
<1>1. DOMAIN thr' = DOMAIN thr
  BY GrpMoves
<1>2. Cardinality(DOMAIN thr) \in Nat /\ Cardinality(DOMAIN thr) >= 1 /\ IsFiniteSet(DOMAIN thr)
  BY GrpCounts
<1>3. ASSUME NEW n \in DOMAIN groups
      PROVE  Cardinality(DOMAIN groups[n].members) + Cardinality(Coming(n)') <= groups[n].cap + Cardinality(DOMAIN thr) - 1
  <2>1. /\ Grp!Count(n) = Cardinality(DOMAIN groups[n].members) /\ Cardinality(DOMAIN groups[n].members) \in Nat
        /\ groups[n].max \in Nat /\ groups[n].cap \in Nat /\ groups[n].max <= groups[n].cap
    BY GroupTyped
  <2>2. CASE r.at = "join" /\ r.n = n
    <3>1. Coming(n)' \subseteq DOMAIN thr
      BY GrpMoves
    <3>2. Cardinality(Coming(n)') <= Cardinality(DOMAIN thr) /\ Cardinality(Coming(n)') \in Nat
      BY <1>2, <3>1, FS_Subset, FS_CardinalityType
    <3>3. Cardinality(DOMAIN groups[n].members) < groups[n].max
      BY <2>1, <2>2
    <3> QED
      BY <1>2, <2>1, <3>2, <3>3
  <2>3. CASE ~(r.at = "join" /\ r.n = n)
    <3>1. Coming(n)' \subseteq Coming(n) /\ IsFiniteSet(Coming(n)) /\ Cardinality(Coming(n)) \in Nat
      BY <2>3, GrpMoves, GrpCounts
    <3>2. Cardinality(Coming(n)') <= Cardinality(Coming(n)) /\ Cardinality(Coming(n)') \in Nat
      BY <3>1, FS_Subset, FS_CardinalityType
    <3>3. Cardinality(DOMAIN groups[n].members) + Cardinality(Coming(n)) <= groups[n].cap + Cardinality(DOMAIN thr) - 1
      BY <2>1 DEF GrpInv, GrpBounds
    <3> QED
      BY <1>2, <2>1, <3>1, <3>2, <3>3
  <2> QED
    BY <2>2, <2>3
<1>4. ASSUME NEW n \in DOMAIN groups, NEW role \in Roles
      PROVE  Grp!UsedBy(groups[n].members, role) + Cardinality(ComingAs(n, role)') <= RoleMax + Cardinality(DOMAIN thr) - 1
  <2>1. Grp!UsedBy(groups[n].members, role) \in Nat /\ RoleMax \in Nat
    BY GroupTyped, GroupAssumption
  <2>2. CASE r.at = "join" /\ r.n = n /\ r.member.role = role
    <3>1. ComingAs(n, role)' \subseteq DOMAIN thr
      BY GrpMoves
    <3>2. Cardinality(ComingAs(n, role)') <= Cardinality(DOMAIN thr) /\ Cardinality(ComingAs(n, role)') \in Nat
      BY <1>2, <3>1, FS_Subset, FS_CardinalityType
    <3>3. Grp!UsedBy(groups[n].members, role) < RoleMax
      BY <2>2
    <3> QED
      BY <1>2, <2>1, <3>2, <3>3
  <2>3. CASE ~(r.at = "join" /\ r.n = n /\ r.member.role = role)
    <3>1. /\ ComingAs(n, role)' \subseteq ComingAs(n, role)
          /\ IsFiniteSet(ComingAs(n, role)) /\ Cardinality(ComingAs(n, role)) \in Nat
      BY <2>3, GrpMoves, GrpCounts
    <3>2. Cardinality(ComingAs(n, role)') <= Cardinality(ComingAs(n, role)) /\ Cardinality(ComingAs(n, role)') \in Nat
      BY <3>1, FS_Subset, FS_CardinalityType
    <3>3. Grp!UsedBy(groups[n].members, role) + Cardinality(ComingAs(n, role)) <= RoleMax + Cardinality(DOMAIN thr) - 1
      BY DEF GrpInv, GrpBounds
    <3> QED
      BY <1>2, <2>1, <3>1, <3>2, <3>3
  <2> QED
    BY <2>2, <2>3
<1>5. ASSUME NEW s \in Classmates PROVE Cardinality(In(s)) + Cardinality(Entering(s)') <= Cardinality(DOMAIN thr)
  <2>1. Cardinality(In(s)) \in Nat /\ Cardinality(Entering(s)) \in Nat /\ IsFiniteSet(Entering(s))
    BY GroupTyped, GrpCounts
  <2>2. CASE In(s) = {}
    <3>1. Entering(s)' \subseteq DOMAIN thr
      BY GrpMoves
    <3>2. Cardinality(Entering(s)') <= Cardinality(DOMAIN thr) /\ Cardinality(Entering(s)') \in Nat
      BY <1>2, <3>1, FS_Subset, FS_CardinalityType
    <3>3. Cardinality(In(s)) = 0
      BY <2>2, FS_EmptySet
    <3> QED
      BY <1>2, <3>2, <3>3
  <2>3. CASE In(s) # {}
    <3>1. Entering(s)' \subseteq Entering(s)
      BY <2>3, GrpMoves
    <3>2. Cardinality(Entering(s)') <= Cardinality(Entering(s)) /\ Cardinality(Entering(s)') \in Nat
      BY <2>1, <3>1, FS_Subset, FS_CardinalityType
    <3>3. Cardinality(In(s)) + Cardinality(Entering(s)) <= Cardinality(DOMAIN thr)
      BY DEF GrpInv, GrpBounds
    <3> QED
      BY <1>2, <2>1, <3>2, <3>3
  <2> QED
    BY <2>2, <2>3
<1>6. ASSUME NEW n \in DOMAIN groups PROVE Grp!Count(n) = Cardinality(DOMAIN groups[n].members)
  BY GroupTyped
<1>7. /\ \A n : Grp!Count(n)' = Grp!Count(n) /\ \A role : Grp!UsedBy(groups[n].members, role)' = Grp!UsedBy(groups[n].members, role)
      /\ \A s : In(s)' = In(s)
  BY DEF Grp!Count, Grp!UsedBy, In
<1> QED
  BY <1>1, <1>3, <1>4, <1>5, <1>6, <1>7 DEF GrpBounds

\* What a step has to establish.
LEMMA GrpFrame ==
    ASSUME GrpInv, NEW t \in DOMAIN thr, NEW r, thr' = [thr EXCEPT ![t] = r], GrpTyped(r, DOMAIN groups'),
           GrpFacts', GrpBounds', DOMAIN groups \subseteq DOMAIN groups',
           DOMAIN thr = {t} /\ GrpAlone(t) => GrpAlone(t)'
    PROVE  GrpInv'
<1>1. /\ thr' = [u \in DOMAIN thr' |-> thr'[u]] /\ DOMAIN thr' = DOMAIN thr
      /\ thr'[t] = r /\ \A u \in DOMAIN thr \ {t} : thr'[u] = thr[u]
  BY GrpMoves
<1>2. ASSUME NEW u \in DOMAIN thr' PROVE GrpTyped(thr'[u], DOMAIN groups')
  <2>1. CASE u = t
    BY <1>1, <2>1
  <2>2. CASE u # t
    <3>1. PICK v : v = thr[u]
      OBVIOUS
    <3>2. GrpTyped(v, DOMAIN groups) /\ thr'[u] = v
      BY <1>1, <2>2, <3>1 DEF GrpInv, GrpThreads
    <3>3. GrpTyped(v, DOMAIN groups')
      BY <3>2 DEF GrpTyped
    <3> QED
      BY <3>2, <3>3
  <2> QED
    BY <2>1, <2>2
<1>3. GrpThreads'
  BY <1>1, <1>2 DEF GrpInv, GrpThreads, GrpTyped, Grp!UsedBy
<1>4. ASSUME NEW u, DOMAIN thr' = {u} PROVE GrpAlone(u)'
  <2>1. u = t /\ GrpAlone(t) /\ DOMAIN thr = {t}
    BY <1>1, <1>4 DEF GrpInv
  <2> QED
    BY <2>1
<1> QED
  BY <1>3, <1>4 DEF GrpInv

\* A step that leaves the groups alone.
LEMMA GrpReads ==
    ASSUME GrpInv, NEW t \in DOMAIN thr, NEW r, thr' = [thr EXCEPT ![t] = r], groups' = groups,
           inst' \in InstRows, Len(inst') = Len(inst), left' \in Nat, thr[t].at # "status",
           GrpTyped(r, DOMAIN groups), GrpBounds', GrpKnows(thr[t]) => GrpKnows(r)
    PROVE  GrpInv'
<1>1. DOMAIN thr' = DOMAIN thr /\ thr'[t] = r
  BY GrpMoves
<1>2. GrpFacts'
  BY DEF GrpInv, GrpFacts
<1>3. ASSUME GrpAlone(t) PROVE GrpAlone(t)'
  <2>1. GrpKnows(r)'
    BY <1>3 DEF GrpAlone, GrpKnows, Tells, Grp!Stored, Grp!Count, Grp!MembershipStatus
  <2>2. \A n \in DOMAIN groups : Tells(n, groups[n].status)
    BY <1>3 DEF GrpAlone
  <2>3. \A n \in DOMAIN groups' : Tells(n, groups[n].status)'
    BY <2>2 DEF Tells, Grp!Stored, Grp!Count
  <2>4. GrpKnows(thr[t])'
    BY <1>1, <2>1 DEF GrpKnows, Tells, Grp!Stored, Grp!Count, Grp!MembershipStatus
  <2> QED
    BY <2>3, <2>4 DEF GrpAlone
<1> QED
  BY <1>2, <1>3, GrpFrame

\* What happens to the members of a group.
Keeps(new, old) == DOMAIN new \subseteq DOMAIN old /\ \A s \in DOMAIN new : new[s] = old[s]
Gains(r, new, old) ==
    /\ r.at = "join" /\ DOMAIN new = DOMAIN old \union {r.s} /\ new[r.s] = r.member
    /\ \A s \in DOMAIN old \ {r.s} : new[s] = old[s]

\* The handler knows what it holds, and the status is right or it will make it so.
GrpRight(r, n, status) == GrpKnows(r) /\ ((r.at = "status" /\ r.n = n) \/ Tells(n, status))

\* A step that changes the row of one group, and no more members than the handler has
\* counted itself for.
LEMMA GrpChanges ==
    ASSUME GrpInv, NEW t \in DOMAIN thr, NEW r, thr' = [thr EXCEPT ![t] = r], r.at \notin {"join", "create"},
           GrpTyped(r, DOMAIN groups), NEW n \in DOMAIN groups, NEW new \in GroupRow,
           groups' = [groups EXCEPT ![n] = new], UNCHANGED inst, left' \in Nat,
           new.max <= new.cap, groups[n].cap <= new.cap,
           Keeps(new.members, groups[n].members) \/ (thr[t].n = n /\ Gains(thr[t], new.members, groups[n].members)),
           thr[t].at = "status" => thr[t].n = n,
           DOMAIN thr = {t} /\ GrpAlone(t) => GrpRight(r, n, new.status)'
    PROVE  GrpInv'
<1>1. /\ DOMAIN groups' = DOMAIN groups /\ groups'[n] = new /\ groups' \in GroupRows /\ Len(groups') = Len(groups)
      /\ \A m \in DOMAIN groups \ {n} : groups'[m] = groups[m]
  BY DEF GrpInv, GrpFacts, GroupRows
<1>2. \A m \in DOMAIN groups' : groups'[m] \in GroupRow
  BY <1>1, GroupTyped
<1>3. \A m \in DOMAIN groups : groups[m].cap <= groups'[m].cap
  BY <1>1, GroupTyped
<1>4. PICK was, will : was = groups[n].members /\ will = new.members
  OBVIOUS
<1>5. was \in Members /\ will \in Members
  BY <1>4, GroupTyped DEF GroupRow
<1>6. /\ IsFiniteSet(DOMAIN was) /\ Cardinality(DOMAIN was) \in Nat /\ Cardinality(DOMAIN will) \in Nat
      /\ \A role : /\ Grp!UsedBy(was, role) = Cardinality({s \in DOMAIN was : was[s].role = role})
                   /\ Grp!UsedBy(will, role) = Cardinality({s \in DOMAIN will : will[s].role = role})
                   /\ IsFiniteSet({s \in DOMAIN was : was[s].role = role})
                   /\ Grp!UsedBy(was, role) \in Nat
  <2>1. IsFiniteSet(DOMAIN was) /\ Cardinality(DOMAIN was) \in Nat /\ Cardinality(DOMAIN will) \in Nat
    BY <1>5, MembersTyped
  <2>2. ASSUME NEW role
        PROVE  /\ Grp!UsedBy(was, role) = Cardinality({s \in DOMAIN was : was[s].role = role})
               /\ IsFiniteSet({s \in DOMAIN was : was[s].role = role}) /\ Grp!UsedBy(was, role) \in Nat
    BY <1>5, MembersTyped
  <2>3. ASSUME NEW role PROVE Grp!UsedBy(will, role) = Cardinality({s \in DOMAIN will : will[s].role = role})
    BY <1>5, MembersTyped
  <2> QED
    BY <2>1, <2>2, <2>3
<1>7. /\ \/ Cardinality(DOMAIN will) <= Cardinality(DOMAIN was)
         \/ t \in Coming(n) /\ Cardinality(DOMAIN will) <= Cardinality(DOMAIN was) + 1
      /\ \A role \in Roles :
           \/ Grp!UsedBy(will, role) <= Grp!UsedBy(was, role)
           \/ t \in ComingAs(n, role) /\ Grp!UsedBy(will, role) <= Grp!UsedBy(was, role) + 1
  <2>1. CASE DOMAIN will \subseteq DOMAIN was /\ \A s \in DOMAIN will : will[s] = was[s]
    <3>1. Cardinality(DOMAIN will) <= Cardinality(DOMAIN was)
      BY <1>6, <2>1, FS_Subset
    <3>2. ASSUME NEW role PROVE Grp!UsedBy(will, role) <= Grp!UsedBy(was, role)
      <4>1. {s \in DOMAIN will : will[s].role = role} \subseteq {s \in DOMAIN was : was[s].role = role}
        BY <2>1
      <4>2. /\ Cardinality({s \in DOMAIN will : will[s].role = role})
                 <= Cardinality({s \in DOMAIN was : was[s].role = role})
        BY <1>6, <4>1, FS_Subset
      <4> QED
        BY <1>6, <4>2
    <3> QED
      BY <3>1, <3>2
  <2>2. CASE /\ thr[t].at = "join" /\ thr[t].n = n
             /\ DOMAIN will = DOMAIN was \union {thr[t].s}
             /\ will[thr[t].s] = thr[t].member
             /\ \A s \in DOMAIN was \ {thr[t].s} : will[s] = was[s]
    <3>1. t \in Coming(n)
      BY <2>2 DEF Coming
    <3>2. Cardinality(DOMAIN will) <= Cardinality(DOMAIN was) + 1
      <4>1. DOMAIN will \subseteq DOMAIN was \union {thr[t].s}
        BY <2>2
      <4> QED
        BY <1>6, <4>1, OneMore
    <3>3. ASSUME NEW role \in Roles
          PROVE  \/ Grp!UsedBy(will, role) <= Grp!UsedBy(was, role)
                 \/ t \in ComingAs(n, role) /\ Grp!UsedBy(will, role) <= Grp!UsedBy(was, role) + 1
      <4>1. CASE thr[t].member.role = role
        <5>1. t \in ComingAs(n, role)
          BY <3>1, <4>1 DEF ComingAs
        <5>2. {s \in DOMAIN will : will[s].role = role} \subseteq {s \in DOMAIN was : was[s].role = role} \union {thr[t].s}
          BY <2>2
        <5>3. /\ Cardinality({s \in DOMAIN will : will[s].role = role})
                   <= Cardinality({s \in DOMAIN was : was[s].role = role}) + 1
          BY <1>6, <5>2, OneMore
        <5> QED
          BY <1>6, <5>1, <5>3
      <4>2. CASE thr[t].member.role # role
        <5>1. {s \in DOMAIN will : will[s].role = role} \subseteq {s \in DOMAIN was : was[s].role = role}
          BY <2>2, <4>2
        <5>2. /\ Cardinality({s \in DOMAIN will : will[s].role = role})
                   <= Cardinality({s \in DOMAIN was : was[s].role = role})
          BY <1>6, <5>1, FS_Subset
        <5> QED
          BY <1>6, <5>2
      <4> QED
        BY <4>1, <4>2
    <3> QED
      BY <3>1, <3>2, <3>3
  <2> QED
    BY <1>4, <2>1, <2>2 DEF Keeps, Gains
<1>8. ASSUME NEW m \in DOMAIN groups
      PROVE  /\ \/ Cardinality(DOMAIN groups'[m].members) <= Cardinality(DOMAIN groups[m].members)
                \/ /\ t \in Coming(m)
                   /\ Cardinality(DOMAIN groups'[m].members) <= Cardinality(DOMAIN groups[m].members) + 1
             /\ \A role \in Roles :
                  \/ Grp!UsedBy(groups'[m].members, role) <= Grp!UsedBy(groups[m].members, role)
                  \/ /\ t \in ComingAs(m, role)
                     /\ Grp!UsedBy(groups'[m].members, role) <= Grp!UsedBy(groups[m].members, role) + 1
  <2>1. CASE m = n
    BY <1>1, <1>4, <1>7, <2>1
  <2>2. CASE m # n
    <3>1. groups'[m] = groups[m]
      BY <1>1, <2>2
    <3>2. /\ Cardinality(DOMAIN groups[m].members) \in Nat
          /\ \A role : Grp!UsedBy(groups[m].members, role) \in Nat
      BY GroupTyped
    <3> QED
      BY <3>1, <3>2
  <2> QED
    BY <2>1, <2>2
<1>9. ASSUME NEW s \in Classmates
      PROVE  In(s)' \subseteq In(s) \/ (t \in Entering(s) /\ \E m : In(s)' \subseteq In(s) \union {m})
  <2>1. In(s)' \subseteq In(s) \union {n}
    BY <1>1 DEF In
  <2>2. In(s)' \subseteq In(s) \/ t \in Entering(s)
    BY <1>1 DEF In, Entering, Keeps, Gains
  <2> QED
    BY <2>1, <2>2
<1>10. DOMAIN groups' \ DOMAIN groups = {}
  BY <1>1
<1>11. GrpBounds'
  BY <1>1, <1>2, <1>3, <1>8, <1>9, <1>10, GrpRoom
<1>12. GrpFacts'
  BY <1>1 DEF GrpInv, GrpFacts
<1>13. DOMAIN thr' = DOMAIN thr /\ thr'[t] = r
  BY GrpMoves
<1>14. ASSUME DOMAIN thr = {t}, GrpAlone(t) PROVE GrpAlone(t)'
  <2>1. GrpKnows(r)' /\ ((r.at = "status" /\ r.n = n) \/ Tells(n, new.status)')
    BY <1>14 DEF GrpRight
  <2>2. GrpKnows(thr[t])'
    BY <1>13, <2>1 DEF GrpKnows, Tells
  <2>3. ASSUME NEW m \in DOMAIN groups', ~(r.at = "status" /\ r.n = m) PROVE Tells(m, groups[m].status)'
    <3>1. CASE m = n
      BY <1>1, <2>1, <2>3, <3>1 DEF Tells
    <3>2. CASE m # n
      <4>1. Tells(m, groups[m].status)
        BY <1>1, <1>14, <3>2 DEF GrpAlone
      <4> QED
        BY <1>1, <3>2, <4>1 DEF Tells, Grp!Stored, Grp!Count
    <3> QED
      BY <3>1, <3>2
  <2> QED
    BY <1>13, <2>2, <2>3 DEF GrpAlone
<1> QED
  BY <1>1, <1>11, <1>12, <1>14, GrpFrame

-----------------------------------------------------------------------------
(* The requests, and the steps that read.                                  *)

LEMMA GrpThread ==
    ASSUME GrpInv, NEW t \in DOMAIN thr
    PROVE  GrpTyped(thr[t], DOMAIN groups)
BY DEF GrpInv, GrpThreads

LEMMA InstPut ==
    ASSUME inst \in InstRows, NEW n \in DOMAIN inst, NEW new \in InstRow, inst' = [inst EXCEPT ![n] = new]
    PROVE  inst' \in InstRows /\ Len(inst') = Len(inst)
<1>1. inst' \in InstRows /\ DOMAIN inst' = DOMAIN inst
  BY DEF InstRows
<1>2. Len(inst) \in Nat /\ DOMAIN inst = 1..Len(inst) /\ Len(inst') \in Nat /\ DOMAIN inst' = 1..Len(inst')
  BY <1>1 DEF InstRows
<1> QED
  BY <1>1, <1>2

LEMMA InstMoves ==
    ASSUME GrpInv, NEW n \in DOMAIN groups, NEW s \in Classmates,
           NEW to \in {"starting", "running", "stopped", "completed"}, inst' = [inst EXCEPT ![n][s] = to]
    PROVE  inst' \in InstRows /\ Len(inst') = Len(inst)
<1>1. inst \in InstRows /\ n \in DOMAIN inst
  BY GroupTyped DEF GrpInv, GrpFacts
<1>2. PICK line \in InstRow : line = inst[n]
  BY <1>1 DEF InstRows
<1>3. PICK new : new = [line EXCEPT ![s] = to]
  OBVIOUS
<1>4. new \in InstRow
  BY <1>2, <1>3 DEF InstRow
<1>5. inst' = [inst EXCEPT ![n] = new]
  BY <1>2, <1>3
<1> QED
  BY <1>1, <1>4, <1>5, InstPut

LEMMA GrpBegins ==
    ASSUME GrpInv, NEW t, NEW r, Grp!Begins(t, r)
    PROVE  /\ t \in DOMAIN thr /\ thr[t] = Grp!Idle /\ thr[t].at = "idle" /\ thr' = [thr EXCEPT ![t] = r]
           /\ left' \in Nat
<1>1. t \in DOMAIN thr /\ thr[t] = Grp!Idle /\ left > 0 /\ left' = left - 1 /\ thr' = [thr EXCEPT ![t] = r]
  BY DEF Grp!Begins, Grp!Free, Grp!Goes
<1>2. left \in Nat
  BY DEF GrpInv, GrpFacts
<1> QED
  BY <1>1, <1>2, GrpIdle

LEMMA GrpInstances ==
    ASSUME GrpInv, NEW t, NEW s \in Classmates, NEW n \in DOMAIN groups,
           \/ Grp!StartInstance(t, s, n)
           \/ \E to \in {"starting", "running", "stopped", "completed"} :
                Grp!InstanceWrite(t, s, n, to) \/ Grp!InstanceMoves(t, s, n, to)
    PROVE  GrpInv'
<1>1. \E r \in {Grp!Idle, [at |-> "refresh", n |-> n]}, to \in {"starting", "running", "stopped", "completed"} :
        Grp!Begins(t, r) /\ inst' = [inst EXCEPT ![n][s] = to] /\ groups' = groups
  <2>1. Grp!StartInstance(t, s, n) =>
          Grp!Begins(t, Grp!Idle) /\ inst' = [inst EXCEPT ![n][s] = "starting"] /\ groups' = groups
    BY DEF Grp!StartInstance
  <2>2. ASSUME NEW to \in {"starting", "running", "stopped", "completed"}, Grp!InstanceWrite(t, s, n, to)
        PROVE  Grp!Begins(t, Grp!Idle) /\ inst' = [inst EXCEPT ![n][s] = to] /\ groups' = groups
    BY <2>2 DEF Grp!InstanceWrite
  <2>3. ASSUME NEW to \in {"starting", "running", "stopped", "completed"}, Grp!InstanceMoves(t, s, n, to)
        PROVE  /\ Grp!Begins(t, [at |-> "refresh", n |-> n])
               /\ inst' = [inst EXCEPT ![n][s] = to] /\ groups' = groups
    BY <2>3 DEF Grp!InstanceMoves
  <2> QED
    BY <2>1, <2>2, <2>3, Zenon
<1>0. PICK r \in {Grp!Idle, [at |-> "refresh", n |-> n]}, to \in {"starting", "running", "stopped", "completed"} :
        Grp!Begins(t, r) /\ inst' = [inst EXCEPT ![n][s] = to] /\ groups' = groups
  BY <1>1
<1>2. /\ t \in DOMAIN thr /\ thr[t].at = "idle" /\ thr' = [thr EXCEPT ![t] = r] /\ left' \in Nat
      /\ inst' \in InstRows /\ Len(inst') = Len(inst)
  BY <1>0, GrpBegins, InstMoves
<1>3. r.at \in {"idle", "refresh"} /\ GrpTyped(r, DOMAIN groups) /\ GrpKnows(r)
  BY <1>0, GrpIdle DEF GrpTyped, GrpKnows
<1>4. GrpBounds'
  BY <1>0, <1>2, <1>3, GrpEnters
<1> QED
  BY <1>0, <1>2, <1>3, <1>4, GrpReads

\* A teacher prepares a group, by hand or empty.
LEMMA GrpCreateGroup ==
    ASSUME GrpInv, NEW t, NEW max \in Sizes, NEW who \in SUBSET Classmates,
           NEW roles \in [who -> Roles \union {None}], Grp!CreateGroup(t, max, roles)
    PROVE  GrpInv'
<1>1. PICK members : members = [s \in DOMAIN roles |-> [role |-> roles[s], id |-> left]]
  OBVIOUS
<1> DEFINE r == [at |-> "create", max |-> max, members |-> members]
<1>2. /\ Grp!Cardinality(DOMAIN members) <= max /\ \A role \in Roles : Grp!UsedBy(members, role) <= RoleMax
      /\ \A s \in DOMAIN members : ~Grp!InSome(s)
      /\ Grp!Begins(t, r) /\ UNCHANGED <<groups, inst>>
  BY <1>1 DEF Grp!CreateGroup
<1>3. members \in Members
  <2>1. left \in Nat
    BY DEF GrpInv, GrpFacts
  <2>2. members \in [who -> Member]
    BY <1>1, <2>1 DEF Member
  <2> QED
    BY <2>2 DEF Members
<1>4. /\ r.at = "create" /\ r.max \in Nat /\ r.members = members /\ Cardinality(DOMAIN members) <= r.max
  BY <1>2, SameCardinality, GroupAssumption
<1>5. GrpTyped(r, DOMAIN groups) /\ GrpKnows(r)
  BY <1>2, <1>3, <1>4 DEF GrpTyped, GrpKnows
<1>6. \A s \in DOMAIN members : In(s) = {}
  BY <1>2 DEF Grp!InSome, In
<1>7. t \in DOMAIN thr /\ thr[t].at = "idle" /\ thr' = [thr EXCEPT ![t] = r] /\ left' \in Nat
  BY <1>2, GrpBegins
<1> HIDE DEF r
<1>8. GrpBounds'
  BY <1>2, <1>4, <1>6, <1>7, GrpEnters
<1>9. inst' \in InstRows /\ Len(inst') = Len(inst)
  BY <1>2 DEF GrpInv, GrpFacts
<1> QED
  BY <1>2, <1>4, <1>5, <1>7, <1>8, <1>9, GrpReads

LEMMA GrpJoin ==
    ASSUME GrpInv, NEW t, NEW s \in Classmates, NEW n \in DOMAIN groups, NEW role \in Roles \union {None},
           Grp!Join(t, s, n, role)
    PROVE  GrpInv'
<1> DEFINE r == [at |-> "join", s |-> s, n |-> n, member |-> [role |-> role, id |-> left],
                 old |-> groups[n].status, status |-> Grp!MembershipStatus(groups[n].max, Grp!Count(n) + 1)]
<1>1. /\ Grp!Stored(n) /\ Grp!Count(n) < groups[n].max /\ ~Grp!InSome(s) /\ Grp!RoleFree(groups[n].members, role)
      /\ Grp!Begins(t, r) /\ UNCHANGED <<groups, inst>>
  BY DEF Grp!Join
<1>2. left \in Nat
  BY DEF GrpInv, GrpFacts
<1>3. /\ r.at = "join" /\ r.n = n /\ r.s = s /\ r.member.role = role /\ r.member \in Member
      /\ r.status \in Statuses /\ r.old = groups[n].status
      /\ r.status = Grp!MembershipStatus(groups[n].max, Grp!Count(n) + 1)
  BY <1>2 DEF Member, Statuses, Grp!MembershipStatus
<1>4. In(s) = {} /\ s \notin DOMAIN groups[n].members
  BY <1>1 DEF Grp!InSome, In
<1>5. t \in DOMAIN thr /\ thr[t].at = "idle" /\ thr' = [thr EXCEPT ![t] = r] /\ left' \in Nat
  BY <1>1, GrpBegins
<1> HIDE DEF r
<1>6. GrpTyped(r, DOMAIN groups) /\ GrpKnows(r)
  BY <1>1, <1>3, <1>4 DEF GrpTyped, GrpKnows
<1>7. role \in Roles => Grp!UsedBy(groups[n].members, role) < RoleMax
  BY <1>1, GroupAssumption DEF Grp!RoleFree
<1>8. GrpBounds'
  BY <1>1, <1>3, <1>4, <1>5, <1>7, GrpEnters
<1>9. inst' \in InstRows /\ Len(inst') = Len(inst)
  BY <1>1 DEF GrpInv, GrpFacts
<1> QED
  BY <1>1, <1>3, <1>5, <1>6, <1>8, <1>9, GrpReads

LEMMA GrpRemoveMember ==
    ASSUME GrpInv, NEW t, NEW s \in Classmates, NEW n \in DOMAIN groups, Grp!RemoveMember(t, s, n)
    PROVE  GrpInv'
<1> DEFINE r == [at |-> "remove", s |-> s, n |-> n, id |-> groups[n].members[s].id,
                 status |-> Grp!MembershipStatus(groups[n].max, Grp!Count(n) - 1)]
<1>1. s \in DOMAIN groups[n].members /\ Grp!Begins(t, r) /\ UNCHANGED <<groups, inst>>
  BY DEF Grp!RemoveMember
<1>2. /\ r.at = "remove" /\ r.n = n /\ r.s = s /\ r.id = groups[n].members[s].id /\ r.status \in Statuses
      /\ r.status = Grp!MembershipStatus(groups[n].max, Grp!Count(n) - 1)
  BY DEF Statuses, Grp!MembershipStatus
<1>3. t \in DOMAIN thr /\ thr[t].at = "idle" /\ thr' = [thr EXCEPT ![t] = r] /\ left' \in Nat
  BY <1>1, GrpBegins
<1> HIDE DEF r
<1>4. GrpTyped(r, DOMAIN groups) /\ GrpKnows(r)
  BY <1>1, <1>2 DEF GrpTyped, GrpKnows
<1>5. GrpBounds'
  BY <1>1, <1>2, <1>3, GrpEnters
<1>6. inst' \in InstRows /\ Len(inst') = Len(inst)
  BY <1>1 DEF GrpInv, GrpFacts
<1> QED
  BY <1>1, <1>2, <1>3, <1>4, <1>5, <1>6, GrpReads

LEMMA GrpRefreshGroup ==
    ASSUME GrpInv, NEW t, Grp!RefreshGroup(t)
    PROVE  GrpInv'
<1>1. PICK n : n = thr[t].n
  OBVIOUS
<1> DEFINE r == [at |-> "latest", n |-> n, max |-> groups[n].max, members |-> DOMAIN groups[n].members,
                 old |-> groups[n].status]
<1>2. /\ t \in DOMAIN thr /\ thr[t].at = "refresh" /\ thr' = [thr EXCEPT ![t] = r]
      /\ UNCHANGED <<groups, inst, left>>
  BY <1>1 DEF Grp!RefreshGroup, Grp!At, Grp!Goes
<1>3. n \in DOMAIN groups
  BY <1>1, <1>2, GrpThread DEF GrpTyped
<1>4. r.at = "latest" /\ GrpTyped(r, DOMAIN groups) /\ GrpKnows(r)
  <2>1. groups[n].max \in Nat /\ DOMAIN groups[n].members \subseteq Classmates
    BY <1>3, GroupTyped, MembersTyped
  <2> QED
    BY <1>3, <2>1 DEF GrpTyped, GrpKnows
<1> HIDE DEF r
<1>5. GrpBounds'
  BY <1>2, <1>4, GrpEnters
<1>6. inst' \in InstRows /\ Len(inst') = Len(inst) /\ left' \in Nat
  BY <1>2 DEF GrpInv, GrpFacts
<1> QED
  BY <1>2, <1>4, <1>5, <1>6, GrpReads

LEMMA GrpRefreshInstances ==
    ASSUME GrpInv, NEW t, Grp!RefreshInstances(t)
    PROVE  GrpInv'
<1>1. PICK n, status :
        n = thr[t].n /\ status = Grp!AggregateStatus(thr[t].max, thr[t].members, inst[n])
  OBVIOUS
<1>2. PICK r : r = IF status = thr[t].old THEN Grp!Idle ELSE [at |-> "status", n |-> n, status |-> status]
  OBVIOUS
<1>3. /\ t \in DOMAIN thr /\ thr[t].at = "latest" /\ thr' = [thr EXCEPT ![t] = r]
      /\ UNCHANGED <<groups, inst, left>>
  BY <1>1, <1>2 DEF Grp!RefreshInstances, Grp!At, Grp!Goes
<1>4. n \in DOMAIN groups
  BY <1>1, <1>3, GrpThread DEF GrpTyped
<1>5. status \in Statuses /\ (status = "forming" <=> Cardinality(thr[t].members) < thr[t].max)
  BY <1>1, SameCardinality DEF Grp!AggregateStatus, Statuses
<1>6. /\ r.at \in {"idle", "status"} /\ GrpTyped(r, DOMAIN groups)
      /\ r.at = "status" => r.n = n /\ r.status = status
  BY <1>2, <1>4, <1>5, GrpIdle DEF GrpTyped
<1>7. ASSUME GrpKnows(thr[t]) PROVE GrpKnows(r)
  <2>1. thr[t].max = groups[n].max /\ Cardinality(thr[t].members) = Grp!Count(n)
    BY <1>1, <1>3, <1>4, <1>7, GroupTyped DEF GrpKnows
  <2>2. r.at = "status" => Tells(n, status)
    BY <1>5, <2>1 DEF Tells
  <2> QED
    BY <1>6, <2>2 DEF GrpKnows
<1>8. GrpBounds'
  BY <1>3, <1>6, GrpEnters
<1>9. inst' \in InstRows /\ Len(inst') = Len(inst) /\ left' \in Nat
  BY <1>3 DEF GrpInv, GrpFacts
<1> QED
  BY <1>3, <1>6, <1>7, <1>8, <1>9, GrpReads

-----------------------------------------------------------------------------
(* The writes.                                                             *)

LEMMA NoMembers == <<>> \in Members /\ DOMAIN <<>> = {}
<1>1. DOMAIN <<>> = {} /\ <<>> \in [{} -> Member]
  OBVIOUS
<1> QED
  BY <1>1 DEF Members

LEMMA GrpUpdate ==
    ASSUME GrpInv, NEW t, NEW n \in DOMAIN groups, NEW max \in Sizes, NEW status \in {"forming", "ready"},
           Grp!Update(t, n, max, status)
    PROVE  GrpInv'
<1>1. /\ Grp!Begins(t, Grp!Idle) /\ UNCHANGED inst
      /\ groups' = [groups EXCEPT ![n].max = max, ![n].status = status, ![n].edited = TRUE,
                                  ![n].cap = IF @ < max THEN max ELSE @]
  BY DEF Grp!Update
<1>2. t \in DOMAIN thr /\ thr[t].at = "idle" /\ thr' = [thr EXCEPT ![t] = Grp!Idle] /\ left' \in Nat
  BY <1>1, GrpBegins
<1>3. PICK g \in GroupRow : g = groups[n]
  BY GroupTyped
<1>4. max \in Nat
  BY GroupAssumption
<1>5. PICK new : new = [g EXCEPT !.max = max, !.status = status, !.edited = TRUE,
                                 !.cap = IF @ < max THEN max ELSE @]
  OBVIOUS
<1>6. new = [max |-> max, cap |-> IF g.cap < max THEN max ELSE g.cap, members |-> g.members,
             deleted |-> g.deleted, edited |-> TRUE, status |-> status]
  BY <1>3, <1>5 DEF GroupRow
<1>7. new \in GroupRow /\ new.max <= new.cap /\ g.cap <= new.cap /\ new.members = g.members /\ new.edited
  BY <1>3, <1>4, <1>6 DEF GroupRow, Statuses
<1>8. groups' = [groups EXCEPT ![n] = new]
  BY <1>1, <1>3, <1>5
<1>9. groups'[n] = new
  BY <1>8 DEF GrpInv, GrpFacts, GroupRows
<1>10. Tells(n, new.status)'
  BY <1>7, <1>9 DEF Tells
<1>11. PICK r : r = Grp!Idle
  OBVIOUS
<1>12. r.at = "idle" /\ GrpTyped(r, DOMAIN groups) /\ GrpKnows(r)' /\ thr' = [thr EXCEPT ![t] = r]
  BY <1>2, <1>11, GrpIdle
<1>13. /\ DOMAIN new.members \subseteq DOMAIN groups[n].members
       /\ \A s \in DOMAIN new.members : new.members[s] = groups[n].members[s]
       /\ groups[n].cap <= new.cap
  BY <1>3, <1>7
<1>14. Keeps(new.members, groups[n].members)
  BY <1>13 DEF Keeps
<1>15. DOMAIN thr = {t} /\ GrpAlone(t) => GrpRight(r, n, new.status)'
  BY <1>10, <1>12 DEF GrpRight
<1>16. r.at \notin {"join", "create"} /\ (thr[t].at = "status" => thr[t].n = n)
  BY <1>2, <1>12
<1>17. /\ t \in DOMAIN thr /\ thr' = [thr EXCEPT ![t] = r] /\ r.at \notin {"join", "create"}
       /\ GrpTyped(r, DOMAIN groups) /\ n \in DOMAIN groups /\ new \in GroupRow
       /\ groups' = [groups EXCEPT ![n] = new] /\ UNCHANGED inst /\ left' \in Nat
       /\ new.max <= new.cap /\ groups[n].cap <= new.cap
       /\ Keeps(new.members, groups[n].members) /\ (thr[t].at = "status" => thr[t].n = n)
  BY <1>1, <1>2, <1>7, <1>8, <1>12, <1>13, <1>14, <1>16
<1> QED
  BY <1>15, <1>17, GrpChanges, Zenon

LEMMA GrpDelete ==
    ASSUME GrpInv, NEW t, NEW n \in DOMAIN groups, Grp!Delete(t, n)
    PROVE  GrpInv'
<1>1. /\ Grp!Begins(t, Grp!Idle) /\ UNCHANGED inst
      /\ groups' = [groups EXCEPT ![n].deleted = TRUE, ![n].members = <<>>]
  BY DEF Grp!Delete
<1>2. t \in DOMAIN thr /\ thr[t].at = "idle" /\ thr' = [thr EXCEPT ![t] = Grp!Idle] /\ left' \in Nat
  BY <1>1, GrpBegins
<1>3. PICK g \in GroupRow : g = groups[n]
  BY GroupTyped
<1>4. PICK new : new = [g EXCEPT !.deleted = TRUE, !.members = <<>>]
  OBVIOUS
<1>5. new = [max |-> g.max, cap |-> g.cap, members |-> <<>>, deleted |-> TRUE, edited |-> g.edited, status |-> g.status]
  BY <1>3, <1>4 DEF GroupRow
<1>6. new \in GroupRow /\ new.max = g.max /\ new.cap = g.cap /\ new.members = <<>> /\ new.deleted
  BY <1>3, <1>5, NoMembers DEF GroupRow
<1>7. groups' = [groups EXCEPT ![n] = new]
  BY <1>1, <1>3, <1>4
<1>8. groups'[n] = new
  BY <1>7 DEF GrpInv, GrpFacts, GroupRows
<1>9. Tells(n, new.status)'
  BY <1>6, <1>8 DEF Tells, Grp!Stored
<1>10. g.max <= g.cap /\ g.cap \in Nat
  BY <1>3, GroupTyped
<1>11. PICK r : r = Grp!Idle
  OBVIOUS
<1>12. r.at = "idle" /\ GrpTyped(r, DOMAIN groups) /\ GrpKnows(r)' /\ thr' = [thr EXCEPT ![t] = r]
  BY <1>2, <1>11, GrpIdle
<1>13. /\ DOMAIN new.members \subseteq DOMAIN groups[n].members
       /\ \A s \in DOMAIN new.members : new.members[s] = groups[n].members[s]
       /\ groups[n].cap <= new.cap /\ new.max <= new.cap
  BY <1>3, <1>6, <1>10, NoMembers
<1>14. Keeps(new.members, groups[n].members)
  BY <1>13 DEF Keeps
<1>15. DOMAIN thr = {t} /\ GrpAlone(t) => GrpRight(r, n, new.status)'
  BY <1>9, <1>12 DEF GrpRight
<1>16. r.at \notin {"join", "create"} /\ (thr[t].at = "status" => thr[t].n = n)
  BY <1>2, <1>12
<1>17. /\ t \in DOMAIN thr /\ thr' = [thr EXCEPT ![t] = r] /\ r.at \notin {"join", "create"}
       /\ GrpTyped(r, DOMAIN groups) /\ n \in DOMAIN groups /\ new \in GroupRow
       /\ groups' = [groups EXCEPT ![n] = new] /\ UNCHANGED inst /\ left' \in Nat
       /\ new.max <= new.cap /\ groups[n].cap <= new.cap
       /\ Keeps(new.members, groups[n].members) /\ (thr[t].at = "status" => thr[t].n = n)
  BY <1>1, <1>2, <1>6, <1>7, <1>12, <1>13, <1>14, <1>16
<1> QED
  BY <1>15, <1>17, GrpChanges, Zenon

LEMMA GrpMemberDelete ==
    ASSUME GrpInv, NEW t, Grp!MemberDelete(t)
    PROVE  GrpInv'
<1>1. PICK n, s : n = thr[t].n /\ s = thr[t].s
  OBVIOUS
<1>0. PICK status, r : status = thr[t].status /\ r = [at |-> "status", n |-> n, status |-> status]
  OBVIOUS
<1>2. /\ t \in DOMAIN thr /\ thr[t].at = "remove" /\ thr' = [thr EXCEPT ![t] = r] /\ UNCHANGED <<inst, left>>
      /\ groups' = [groups EXCEPT ![n].members = Grp!Restrict(@, {x \in DOMAIN @ : x # s \/ @[x].id # thr[t].id})]
  BY <1>0, <1>1 DEF Grp!MemberDelete, Grp!At, Grp!Goes
<1>3. n \in DOMAIN groups /\ s \in Classmates /\ thr[t].status \in Statuses
  BY <1>1, <1>2, GrpThread DEF GrpTyped
<1>4. PICK g \in GroupRow : g = groups[n]
  BY <1>3, GroupTyped
<1>5. g.members \in Members /\ g.max \in Nat /\ g.cap \in Nat /\ g.max <= g.cap
  BY <1>3, <1>4, GroupTyped
<1>6. PICK kept : kept = {x \in DOMAIN g.members : x # s \/ g.members[x].id # thr[t].id}
  OBVIOUS
<1>7. PICK members : members = [x \in kept |-> g.members[x]]
  OBVIOUS
<1>8. PICK new : new = [g EXCEPT !.members = members]
  OBVIOUS
<1>9. groups' = [groups EXCEPT ![n] = new]
  BY <1>2, <1>4, <1>6, <1>7, <1>8 DEF Grp!Restrict
<1>10. members \in Members
  <2>1. kept \subseteq DOMAIN g.members /\ DOMAIN g.members \subseteq Classmates
        /\ \A x \in DOMAIN g.members : g.members[x] \in Member
    BY <1>5, <1>6, MembersTyped
  <2>2. members \in [kept -> Member]
    BY <1>7, <2>1
  <2> QED
    BY <2>1, <2>2 DEF Members
<1>11. /\ new \in GroupRow /\ new.max = g.max /\ new.cap = g.cap /\ new.members = members
       /\ new.deleted = g.deleted /\ new.edited = g.edited /\ new.status = g.status
  BY <1>4, <1>8, <1>10 DEF GroupRow
<1>12. r.at = "status" /\ r.n = n /\ r.status = status /\ GrpTyped(r, DOMAIN groups)
  BY <1>0, <1>3 DEF GrpTyped
<1>13. groups'[n] = new
  BY <1>3, <1>9 DEF GrpInv, GrpFacts, GroupRows
<1>14. ASSUME GrpAlone(t) PROVE GrpKnows(r)'
  <2>1. /\ s \in DOMAIN g.members /\ g.members[s].id = thr[t].id
        /\ status = Grp!MembershipStatus(g.max, Grp!Count(n) - 1)
    BY <1>0, <1>1, <1>2, <1>4, <1>14 DEF GrpAlone, GrpKnows
  <2>2. DOMAIN members = DOMAIN g.members \ {s}
    BY <1>6, <1>7, <2>1
  <2>3. Cardinality(DOMAIN members) = Cardinality(DOMAIN g.members) - 1
    <3>1. IsFiniteSet(DOMAIN g.members)
      BY <1>5, MembersTyped
    <3> QED
      BY <2>1, <2>2, <3>1, FS_RemoveElement
  <2>4. Grp!Count(n) = Cardinality(DOMAIN g.members)
    BY <1>3, <1>4, GroupTyped
  <2>5. Grp!Count(n)' = Cardinality(DOMAIN members)
    BY <1>11, <1>13, SameCardinality DEF Grp!Count
  <2>6. Cardinality(DOMAIN members) \in Nat
    BY <1>10, MembersTyped
  <2>7. status = "forming" <=> Cardinality(DOMAIN members) < g.max
    BY <1>5, <2>1, <2>3, <2>4, <2>6 DEF Grp!MembershipStatus
  <2>8. status = "forming" <=> Grp!Count(n)' < groups'[n].max
    BY <1>11, <1>13, <2>5, <2>7
  <2>9. Tells(n, status)'
    BY <2>8 DEF Tells
  <2> QED
    BY <1>12, <2>9 DEF GrpKnows
<1>15. left' \in Nat
  BY <1>2 DEF GrpInv, GrpFacts
<1>16. DOMAIN members \subseteq DOMAIN g.members /\ \A x \in DOMAIN members : members[x] = g.members[x]
  BY <1>6, <1>7
<1>17. Keeps(new.members, groups[n].members)
  BY <1>4, <1>11, <1>16 DEF Keeps
<1>18. DOMAIN thr = {t} /\ GrpAlone(t) => GrpRight(r, n, new.status)'
  BY <1>12, <1>14 DEF GrpRight
<1>19. r.at \notin {"join", "create"} /\ (thr[t].at = "status" => thr[t].n = n)
  BY <1>2, <1>12
<1>20. new.max <= new.cap /\ groups[n].cap <= new.cap
  BY <1>4, <1>5, <1>11
<1>21. /\ t \in DOMAIN thr /\ thr' = [thr EXCEPT ![t] = r] /\ r.at \notin {"join", "create"}
       /\ GrpTyped(r, DOMAIN groups) /\ n \in DOMAIN groups /\ new \in GroupRow
       /\ groups' = [groups EXCEPT ![n] = new] /\ UNCHANGED inst /\ left' \in Nat
       /\ new.max <= new.cap /\ groups[n].cap <= new.cap
       /\ Keeps(new.members, groups[n].members) /\ (thr[t].at = "status" => thr[t].n = n)
  BY <1>2, <1>3, <1>9, <1>11, <1>12, <1>15, <1>17, <1>19, <1>20, Zenon
<1> QED
  BY <1>18, <1>21, GrpChanges, Zenon

LEMMA GrpMemberInsert ==
    ASSUME GrpInv, NEW t, Grp!MemberInsert(t)
    PROVE  GrpInv'
<1>1. PICK n, s, status, m :
        n = thr[t].n /\ s = thr[t].s /\ status = thr[t].status /\ m = thr[t].member
  OBVIOUS
<1>2. PICK fits \in BOOLEAN : fits <=> Grp!Stored(n) /\ s \notin DOMAIN groups[n].members
  OBVIOUS
<1>3. PICK r : r = IF fits /\ status # thr[t].old THEN [at |-> "status", n |-> n, status |-> status] ELSE Grp!Idle
  OBVIOUS
<1>4. /\ t \in DOMAIN thr /\ thr[t].at = "join" /\ thr' = [thr EXCEPT ![t] = r] /\ UNCHANGED <<inst, left>>
      /\ groups' = IF fits
                    THEN [groups EXCEPT ![n].members = [x \in DOMAIN @ \union {s} |-> IF x = s THEN m ELSE @[x]]]
                    ELSE groups
  BY <1>1, <1>2, <1>3 DEF Grp!MemberInsert, Grp!At, Grp!Goes
<1>5. n \in DOMAIN groups /\ s \in Classmates /\ status \in Statuses /\ m \in Member
  BY <1>1, <1>4, GrpThread DEF GrpTyped
<1>6. /\ r.at \in {"idle", "status"} /\ GrpTyped(r, DOMAIN groups)
      /\ r.at = "status" => r.n = n /\ r.status = status
  BY <1>3, <1>5, GrpIdle DEF GrpTyped
<1>7. inst' \in InstRows /\ Len(inst') = Len(inst) /\ left' \in Nat
  BY <1>4 DEF GrpInv, GrpFacts
<1>8. CASE ~fits
  <2>1. r = Grp!Idle /\ groups' = groups
    BY <1>3, <1>4, <1>8
  <2>2. GrpBounds'
    BY <1>4, <1>6, <2>1, GrpEnters
  <2>3. GrpKnows(r)
    BY <2>1, GrpIdle
  <2> QED
    BY <1>4, <1>6, <1>7, <2>1, <2>2, <2>3, GrpReads
<1>9. CASE fits
  <2>1. PICK g \in GroupRow : g = groups[n]
    BY <1>5, GroupTyped
  <2>2. g.members \in Members /\ g.max \in Nat /\ g.cap \in Nat /\ g.max <= g.cap /\ s \notin DOMAIN g.members
    BY <1>2, <1>5, <1>9, <2>1, GroupTyped
  <2>3. PICK members : members = [x \in DOMAIN g.members \union {s} |-> IF x = s THEN m ELSE g.members[x]]
    OBVIOUS
  <2>5. PICK new : new = [g EXCEPT !.members = members]
    OBVIOUS
  <2>6. groups' = [groups EXCEPT ![n] = new]
    BY <1>4, <1>9, <2>1, <2>3, <2>5
  <2>7. members \in Members
    <3>1. DOMAIN g.members \subseteq Classmates /\ \A x \in DOMAIN g.members : g.members[x] \in Member
      BY <2>2, MembersTyped
    <3>2. members \in [DOMAIN g.members \union {s} -> Member]
      BY <1>5, <2>3, <3>1
    <3> QED
      BY <1>5, <3>1, <3>2 DEF Members
  <2>8. /\ new \in GroupRow /\ new.max = g.max /\ new.cap = g.cap /\ new.members = members
        /\ new.deleted = g.deleted /\ new.edited = g.edited /\ new.status = g.status
    BY <2>1, <2>5, <2>7 DEF GroupRow
  <2>9. groups'[n] = new
    BY <1>5, <2>6 DEF GrpInv, GrpFacts, GroupRows
  <2>10. Gains(thr[t], new.members, groups[n].members)
    BY <1>1, <1>4, <2>1, <2>3, <2>8 DEF Gains
  <2>11. ASSUME GrpAlone(t) PROVE GrpRight(r, n, new.status)'
    <3>1. status = Grp!MembershipStatus(g.max, Grp!Count(n) + 1) /\ thr[t].old = g.status
      BY <1>1, <1>4, <2>1, <2>11 DEF GrpAlone, GrpKnows
    <3>2. Grp!Count(n) = Cardinality(DOMAIN g.members)
      BY <1>5, <2>1, GroupTyped
    <3>3. Cardinality(DOMAIN members) = Cardinality(DOMAIN g.members) + 1
      <4>1. IsFiniteSet(DOMAIN g.members)
        BY <2>2, MembersTyped
      <4>2. DOMAIN members = DOMAIN g.members \union {s}
        BY <2>3
      <4> QED
        BY <2>2, <4>1, <4>2, FS_AddElement
    <3>4. Grp!Count(n)' = Cardinality(DOMAIN members)
      BY <2>8, <2>9, SameCardinality DEF Grp!Count
    <3>5. Cardinality(DOMAIN members) \in Nat
      BY <2>7, MembersTyped
    <3>6. status = "forming" <=> Cardinality(DOMAIN members) < g.max
      BY <2>2, <3>1, <3>2, <3>3, <3>5 DEF Grp!MembershipStatus
    <3>7. status = "forming" <=> Grp!Count(n)' < groups'[n].max
      BY <2>8, <2>9, <3>4, <3>6
    <3>8. Tells(n, status)'
      BY <3>7 DEF Tells
    <3>9. CASE status # g.status
      <4>1. r.at = "status" /\ r.n = n /\ r.status = status
        BY <1>3, <1>9, <3>1, <3>9
      <4> QED
        BY <3>8, <4>1 DEF GrpRight, GrpKnows
    <3>10. CASE status = g.status
      <4>1. r = Grp!Idle /\ new.status = status
        BY <1>3, <2>8, <3>1, <3>10
      <4>2. GrpKnows(r)'
        BY <4>1, GrpIdle
      <4> QED
        BY <3>8, <4>1, <4>2 DEF GrpRight
    <3> QED
      BY <3>9, <3>10
  <2>12. DOMAIN thr = {t} /\ GrpAlone(t) => GrpRight(r, n, new.status)'
    BY <2>11
  <2>13. new.max <= new.cap /\ groups[n].cap <= new.cap /\ r.at \notin {"join", "create"} /\ thr[t].at # "status"
    BY <1>4, <1>6, <2>1, <2>2, <2>8
  <2>14. /\ t \in DOMAIN thr /\ thr' = [thr EXCEPT ![t] = r] /\ r.at \notin {"join", "create"}
         /\ GrpTyped(r, DOMAIN groups) /\ n \in DOMAIN groups /\ new \in GroupRow
         /\ groups' = [groups EXCEPT ![n] = new] /\ UNCHANGED inst /\ left' \in Nat
         /\ new.max <= new.cap /\ groups[n].cap <= new.cap
         /\ thr[t].n = n /\ Gains(thr[t], new.members, groups[n].members)
         /\ (thr[t].at = "status" => thr[t].n = n)
    BY <1>1, <1>4, <1>5, <1>6, <1>7, <2>6, <2>8, <2>10, <2>13, Zenon
  <2> QED
    BY <2>12, <2>14, GrpChanges, Zenon
<1> QED
  BY <1>8, <1>9

LEMMA GrpStatusWrite ==
    ASSUME GrpInv, NEW t, Grp!StatusWrite(t)
    PROVE  GrpInv'
<1>1. PICK n, status : n = thr[t].n /\ status = thr[t].status
  OBVIOUS
<1>2. PICK r : r = Grp!Idle
  OBVIOUS
<1>3. /\ t \in DOMAIN thr /\ thr[t].at = "status" /\ thr' = [thr EXCEPT ![t] = r] /\ UNCHANGED <<inst, left>>
      /\ groups' = IF Grp!Stored(n) THEN [groups EXCEPT ![n].status = status] ELSE groups
  BY <1>1, <1>2 DEF Grp!StatusWrite, Grp!SetStatus, Grp!At, Grp!Goes
<1>4. n \in DOMAIN groups /\ status \in Statuses
  BY <1>1, <1>3, GrpThread DEF GrpTyped
<1>5. PICK g \in GroupRow : g = groups[n]
  BY <1>4, GroupTyped
<1>6. g.max <= g.cap /\ g.cap \in Nat
  BY <1>4, <1>5, GroupTyped
<1>7. PICK new : new = IF Grp!Stored(n) THEN [g EXCEPT !.status = status] ELSE g
  OBVIOUS
<1>8. /\ new \in GroupRow /\ new.max = g.max /\ new.cap = g.cap /\ new.members = g.members
      /\ new.deleted = g.deleted /\ new.edited = g.edited
      /\ Grp!Stored(n) => new.status = status
  BY <1>4, <1>5, <1>7 DEF GroupRow
<1>9. groups' = [groups EXCEPT ![n] = new]
  <2>1. CASE Grp!Stored(n)
    BY <1>3, <1>5, <1>7, <2>1
  <2>2. CASE ~Grp!Stored(n)
    <3>1. groups' = groups /\ new = groups[n]
      BY <1>3, <1>5, <1>7, <2>2
    <3> QED
      BY <1>4, <3>1 DEF GrpInv, GrpFacts, GroupRows
  <2> QED
    BY <2>1, <2>2
<1>10. groups'[n] = new
  BY <1>4, <1>9 DEF GrpInv, GrpFacts, GroupRows
<1>11. ASSUME GrpAlone(t) PROVE GrpRight(r, n, new.status)'
  <2>1. Tells(n, status)
    BY <1>1, <1>3, <1>11 DEF GrpAlone, GrpKnows
  <2>2. Grp!Stored(n)' => Grp!Stored(n)
    BY <1>5, <1>8, <1>10 DEF Grp!Stored
  <2>3. Grp!Count(n)' = Grp!Count(n)
    BY <1>5, <1>8, <1>10 DEF Grp!Count
  <2>4. Tells(n, new.status)'
    BY <1>5, <1>8, <1>10, <2>1, <2>2, <2>3 DEF Tells
  <2> QED
    BY <1>2, <2>4, GrpIdle DEF GrpRight
<1>12. DOMAIN thr = {t} /\ GrpAlone(t) => GrpRight(r, n, new.status)'
  BY <1>11
<1>13. Keeps(new.members, groups[n].members)
  BY <1>5, <1>8 DEF Keeps
<1>14. left' \in Nat
  BY <1>3 DEF GrpInv, GrpFacts
<1>15. r.at \notin {"join", "create"} /\ GrpTyped(r, DOMAIN groups)
  BY <1>2, GrpIdle
<1>16. new.max <= new.cap /\ groups[n].cap <= new.cap
  BY <1>5, <1>6, <1>8
<1>17. /\ t \in DOMAIN thr /\ thr' = [thr EXCEPT ![t] = r] /\ r.at \notin {"join", "create"}
       /\ GrpTyped(r, DOMAIN groups) /\ n \in DOMAIN groups /\ new \in GroupRow
       /\ groups' = [groups EXCEPT ![n] = new] /\ UNCHANGED inst /\ left' \in Nat
       /\ new.max <= new.cap /\ groups[n].cap <= new.cap
       /\ Keeps(new.members, groups[n].members) /\ (thr[t].at = "status" => thr[t].n = n)
  BY <1>1, <1>3, <1>4, <1>8, <1>9, <1>13, <1>14, <1>15, <1>16, Zenon
<1> QED
  BY <1>12, <1>17, GrpChanges, Zenon

\* A new group has no more members than its maximum, and says whether it has room.
LEMMA GrpCreateWrite ==
    ASSUME GrpInv, NEW t, Grp!CreateWrite(t)
    PROVE  GrpInv'
<1>1. PICK max, members, k : max = thr[t].max /\ members = thr[t].members /\ k = Len(groups) + 1
  OBVIOUS
<1>2. PICK r : r = Grp!Idle
  OBVIOUS
<1>3. PICK new : new = Grp!NewGroup(max, members)
  OBVIOUS
<1>4. /\ t \in DOMAIN thr /\ thr[t].at = "create" /\ thr' = [thr EXCEPT ![t] = r] /\ left' = left
      /\ groups' = Append(groups, new) /\ inst' = Append(inst, Grp!NoInstance)
  BY <1>1, <1>2, <1>3 DEF Grp!CreateWrite, Grp!At, Grp!Goes
<1>5. /\ max \in Nat /\ members \in Members /\ Cardinality(DOMAIN members) <= max
      /\ \A role \in Roles : Grp!UsedBy(members, role) <= RoleMax
  BY <1>1, <1>4, GrpThread DEF GrpTyped
<1>6. new = [max |-> max, cap |-> max, members |-> members, deleted |-> FALSE, edited |-> FALSE,
             status |-> Grp!MembershipStatus(max, Cardinality(DOMAIN members))]
  BY <1>3, SameCardinality DEF Grp!NewGroup
<1>7. Grp!MembershipStatus(max, Cardinality(DOMAIN members)) \in Statuses
  BY DEF Grp!MembershipStatus, Statuses
<1>8. /\ new \in GroupRow /\ new.max = max /\ new.cap = max /\ new.members = members
      /\ new.status = Grp!MembershipStatus(max, Cardinality(DOMAIN members))
  BY <1>5, <1>6, <1>7 DEF GroupRow
<1>9. Grp!NoInstance \in InstRow
  BY DEF Grp!NoInstance, InstRow
<1>10. groups \in GroupRows /\ inst \in InstRows /\ Len(inst) = Len(groups) /\ Len(groups) \in Nat
  BY GroupTyped DEF GrpInv, GrpFacts
<1>11. groups' \in GroupRows /\ Len(groups') = k
  BY <1>1, <1>4, <1>8, <1>10 DEF GroupRows
<1>12. DOMAIN groups' = DOMAIN groups \union {k} /\ k \notin DOMAIN groups
  BY <1>1, <1>4, <1>8, <1>10 DEF GroupRows
<1>13. groups'[k] = new /\ \A m \in DOMAIN groups : groups'[m] = groups[m]
  BY <1>1, <1>4, <1>8, <1>10 DEF GroupRows
<1>14. inst' \in InstRows /\ Len(inst') = k
  BY <1>1, <1>4, <1>9, <1>10 DEF InstRows
<1>15. ASSUME NEW m \in DOMAIN groups' PROVE groups'[m] \in GroupRow /\ groups'[m].max <= groups'[m].cap
  BY <1>5, <1>8, <1>12, <1>13, <1>15, GroupTyped
<1>16. left' \in Nat
  BY <1>4 DEF GrpInv, GrpFacts
<1>17. GrpFacts'
  BY <1>11, <1>14, <1>15, <1>16 DEF GrpFacts
<1>18. r.at = "idle" /\ (\A ids : GrpTyped(r, ids)) /\ GrpKnows(r)'
  BY <1>2, GrpIdle
<1>19. ASSUME NEW m \in DOMAIN groups
       PROVE  /\ groups[m].cap <= groups'[m].cap /\ groups'[m] = groups[m]
              /\ Cardinality(DOMAIN groups'[m].members) <= Cardinality(DOMAIN groups[m].members)
              /\ \A role \in Roles : Grp!UsedBy(groups'[m].members, role) <= Grp!UsedBy(groups[m].members, role)
  <2>1. groups'[m] = groups[m] /\ groups[m].cap \in Nat /\ Grp!Count(m) = Cardinality(DOMAIN groups[m].members)
    BY <1>13, GroupTyped
  <2>2. Grp!Count(m) \in Nat /\ \A role : Grp!UsedBy(groups[m].members, role) \in Nat
    BY GroupTyped
  <2> QED
    BY <2>1, <2>2
<1>20. ASSUME NEW m \in DOMAIN groups' \ DOMAIN groups
       PROVE  /\ Cardinality(DOMAIN groups'[m].members) <= groups'[m].cap
              /\ \A role \in Roles : Grp!UsedBy(groups'[m].members, role) <= RoleMax
  <2>1. m = k
    BY <1>12, <1>20
  <2> QED
    BY <1>5, <1>8, <1>13, <2>1
<1>21. ASSUME NEW s \in Classmates
       PROVE  In(s)' \subseteq In(s) \/ (t \in Entering(s) /\ \E m : In(s)' \subseteq In(s) \union {m})
  <2>1. In(s)' \subseteq In(s) \union {k}
    BY <1>12, <1>13 DEF In
  <2>2. k \in In(s)' => t \in Entering(s)
    BY <1>1, <1>4, <1>8, <1>13 DEF In, Entering
  <2>3. k \notin In(s)' => In(s)' \subseteq In(s)
    BY <2>1
  <2> QED
    BY <2>1, <2>2, <2>3
<1>22. DOMAIN groups \subseteq DOMAIN groups' /\ r.at \notin {"join", "create"}
  BY <1>12, <1>18
<1>23. GrpBounds'
  BY <1>4, <1>15, <1>19, <1>20, <1>21, <1>22, GrpRoom
<1>24. ASSUME GrpAlone(t) PROVE GrpAlone(t)'
  <2>1. DOMAIN thr' = DOMAIN thr /\ thr'[t] = r
    BY <1>4, GrpMoves
  <2>2. GrpKnows(thr[t])'
    BY <1>18, <2>1 DEF GrpKnows, Tells
  <2>3. ASSUME NEW m \in DOMAIN groups' PROVE Tells(m, groups[m].status)'
    <3>1. CASE m = k
      <4>1. Grp!Count(m)' = Cardinality(DOMAIN members)
        BY <1>8, <1>13, <3>1, SameCardinality DEF Grp!Count
      <4>2. Cardinality(DOMAIN members) \in Nat
        BY <1>5, MembersTyped
      <4>3. groups'[m].status = "forming" <=> Cardinality(DOMAIN members) < groups'[m].max
        BY <1>5, <1>8, <1>13, <3>1, <4>2 DEF Grp!MembershipStatus
      <4> QED
        BY <4>1, <4>3 DEF Tells
    <3>2. CASE m # k
      <4>1. m \in DOMAIN groups /\ groups'[m] = groups[m]
        BY <1>12, <1>13, <3>2
      <4>2. Tells(m, groups[m].status)
        BY <1>4, <1>24, <4>1 DEF GrpAlone
      <4> QED
        BY <4>1, <4>2 DEF Tells, Grp!Stored, Grp!Count
    <3> QED
      BY <3>1, <3>2
  <2> QED
    BY <2>2, <2>3 DEF GrpAlone
<1> QED
  BY <1>4, <1>17, <1>18, <1>22, <1>23, <1>24, GrpFrame

-----------------------------------------------------------------------------
(* The whole service.                                                      *)

LEMMA GrpStays ==
    ASSUME GrpInv, UNCHANGED <<thr, left, groups, inst>>
    PROVE  GrpInv'
<1>1. GrpFacts'
  BY DEF GrpInv, GrpFacts
<1>2. GrpThreads'
  BY DEF GrpInv, GrpThreads, GrpTyped, Grp!UsedBy
<1>3. /\ \A n : /\ Grp!Count(n)' = Grp!Count(n) /\ Coming(n)' = Coming(n)
                /\ \A r : /\ ComingAs(n, r)' = ComingAs(n, r)
                          /\ Grp!UsedBy(groups[n].members, r)' = Grp!UsedBy(groups[n].members, r)
      /\ \A s : In(s)' = In(s) /\ Entering(s)' = Entering(s)
  BY DEF Grp!Count, Grp!UsedBy, Coming, ComingAs, In, Entering
<1>4. GrpBounds'
  BY <1>3 DEF GrpInv, GrpBounds
<1>5. ASSUME NEW u, DOMAIN thr' = {u} PROVE GrpAlone(u)'
  BY <1>5 DEF GrpInv, GrpAlone, GrpKnows, Tells, Grp!Stored, Grp!Count, Grp!MembershipStatus
<1> QED
  BY <1>1, <1>2, <1>4, <1>5 DEF GrpInv

LEMMA GrpInit == Grp!Init => GrpInv
<1> SUFFICES ASSUME Grp!Init PROVE GrpInv
  OBVIOUS
<1>1. PICK crew \in GroupCrews :
        /\ thr = [t \in crew.threads |-> Grp!Idle] /\ left = crew.calls
        /\ groups = [n \in DOMAIN crew.open |-> Grp!NewGroup(crew.open[n], <<>>)]
        /\ inst = [n \in DOMAIN crew.open |-> Grp!NoInstance]
  BY DEF Grp!Init
<1>2. crew.open \in Seq(Nat) /\ crew.calls \in Nat /\ IsFiniteSet(crew.threads) /\ crew.threads # {}
  BY HandlersAssumption, GroupAssumption DEF Handled
<1>3. PICK k \in Nat : k = Len(crew.open) /\ DOMAIN crew.open = 1..k
  BY <1>2
<1>4. Cardinality(DOMAIN <<>>) = 0
  BY FS_EmptySet, NoMembers
<1>5. ASSUME NEW n \in 1..k
      PROVE  /\ groups[n] \in GroupRow /\ groups[n].max <= groups[n].cap
             /\ groups[n].members = <<>> /\ groups[n].cap \in Nat /\ groups[n].max \in Nat
             /\ groups[n].status = "forming" <=> 0 < groups[n].max
  <2>1. PICK max \in Nat : max = crew.open[n]
    BY <1>2, <1>3
  <2>2. groups[n] = [max |-> max, cap |-> max, members |-> <<>>, deleted |-> FALSE, edited |-> FALSE,
                     status |-> Grp!MembershipStatus(max, 0)]
    BY <1>1, <1>3, <1>4, <2>1, SameCardinality DEF Grp!NewGroup
  <2>3. /\ Grp!MembershipStatus(max, 0) \in Statuses
        /\ Grp!MembershipStatus(max, 0) = "forming" <=> 0 < max
    BY <2>1 DEF Grp!MembershipStatus, Statuses
  <2> QED
    BY <2>1, <2>2, <2>3, NoMembers DEF GroupRow
<1>6. groups \in GroupRows /\ DOMAIN groups = 1..k /\ Len(groups) = k
  <2>1. groups \in [1..k -> GroupRow]
    BY <1>1, <1>3, <1>5
  <2>2. groups \in GroupRows
    BY <2>1, SeqDef DEF GroupRows
  <2> QED
    BY <1>1, <1>3, <2>1, <2>2 DEF GroupRows
<1>7. inst \in InstRows /\ Len(inst) = k
  <2>1. Grp!NoInstance \in InstRow
    BY DEF Grp!NoInstance, InstRow
  <2>2. inst \in [1..k -> InstRow]
    BY <1>1, <1>3, <2>1
  <2>3. inst \in InstRows
    BY <2>2, SeqDef DEF InstRows
  <2> QED
    BY <2>2, <2>3 DEF InstRows
<1>8. GrpFacts
  BY <1>1, <1>2, <1>5, <1>6, <1>7 DEF GrpFacts
<1>9. \A t \in DOMAIN thr : thr[t] = Grp!Idle
  BY <1>1
<1>10. GrpThreads
  BY <1>1, <1>2, <1>9, GrpIdle DEF GrpThreads
<1>11. /\ \A n : Coming(n) = {} /\ \A r : ComingAs(n, r) = {}
       /\ \A s : Entering(s) = {}
  BY <1>9, GrpIdle DEF Coming, ComingAs, Entering
<1>12. Cardinality(DOMAIN thr) \in Nat /\ Cardinality(DOMAIN thr) >= 1
  BY <1>1, <1>2, FS_CardinalityType, FS_EmptySet
<1>13. ASSUME NEW n \in DOMAIN groups
       PROVE  /\ Grp!Count(n) = 0 /\ Cardinality(Coming(n)) = 0
              /\ \A r : Grp!UsedBy(groups[n].members, r) = 0 /\ Cardinality(ComingAs(n, r)) = 0
  <2>1. groups[n].members = <<>>
    BY <1>5, <1>6
  <2>2. Grp!Count(n) = 0
    BY <1>4, <2>1, SameCardinality DEF Grp!Count
  <2>3. ASSUME NEW r PROVE Grp!UsedBy(groups[n].members, r) = 0
    <3>1. {s \in DOMAIN groups[n].members : groups[n].members[s].role = r} = {}
      BY <2>1, NoMembers
    <3> QED
      BY <3>1, FS_EmptySet, SameCardinality DEF Grp!UsedBy
  <2> QED
    BY <1>11, <2>2, <2>3, FS_EmptySet
<1>14. ASSUME NEW s PROVE Cardinality(In(s)) = 0 /\ Cardinality(Entering(s)) = 0
  <2>1. In(s) = {}
    BY <1>5, <1>6, NoMembers DEF In
  <2> QED
    BY <1>11, <2>1, FS_EmptySet
<1>15. GrpBounds
  <2>1. ASSUME NEW n \in DOMAIN groups
        PROVE  /\ Grp!Count(n) + Cardinality(Coming(n)) <= groups[n].cap + Cardinality(DOMAIN thr) - 1
               /\ \A r \in Roles : Grp!UsedBy(groups[n].members, r) + Cardinality(ComingAs(n, r))
                                     <= RoleMax + Cardinality(DOMAIN thr) - 1
    <3>1. groups[n].cap \in Nat /\ RoleMax \in Nat
      BY <1>5, <1>6, GroupAssumption
    <3> QED
      BY <1>12, <1>13, <3>1
  <2> QED
    BY <1>12, <1>14, <2>1 DEF GrpBounds
<1>16. ASSUME NEW t, DOMAIN thr = {t} PROVE GrpAlone(t)
  <2>1. ASSUME NEW n \in DOMAIN groups PROVE Tells(n, groups[n].status)
    BY <1>5, <1>6, <1>13 DEF Tells
  <2>2. GrpKnows(thr[t])
    BY <1>9, <1>16, GrpIdle
  <2> QED
    BY <2>1, <2>2 DEF GrpAlone
<1> QED
  BY <1>8, <1>10, <1>15, <1>16 DEF GrpInv

LEMMA GrpStep == GrpInv /\ Grp!Next => GrpInv'
<1> SUFFICES ASSUME GrpInv, NEW t,
               \/ \E max \in Sizes, who \in SUBSET Classmates :
                    \E roles \in [who -> Roles \union {None}] : Grp!CreateGroup(t, max, roles)
               \/ \E n \in DOMAIN groups :
                    \/ \E max \in Sizes, status \in {"forming", "ready"} : Grp!Update(t, n, max, status)
                    \/ Grp!Delete(t, n)
                    \/ \E s \in Classmates :
                         \/ Grp!RemoveMember(t, s, n) \/ Grp!StartInstance(t, s, n)
                         \/ \E r \in Roles \union {None} : Grp!Join(t, s, n, r)
                         \/ \E to \in {"starting", "running", "stopped", "completed"} :
                              Grp!InstanceWrite(t, s, n, to) \/ Grp!InstanceMoves(t, s, n, to)
               \/ Grp!CreateWrite(t) \/ Grp!MemberDelete(t) \/ Grp!MemberInsert(t) \/ Grp!StatusWrite(t)
               \/ Grp!RefreshGroup(t) \/ Grp!RefreshInstances(t)
             PROVE  GrpInv'
  BY DEF Grp!Next
<1>1. CASE \E max \in Sizes, who \in SUBSET Classmates :
             \E roles \in [who -> Roles \union {None}] : Grp!CreateGroup(t, max, roles)
  BY <1>1, GrpCreateGroup
<1>2. CASE \E n \in DOMAIN groups : \E max \in Sizes, status \in {"forming", "ready"} : Grp!Update(t, n, max, status)
  BY <1>2, GrpUpdate
<1>3. CASE \E n \in DOMAIN groups : Grp!Delete(t, n)
  BY <1>3, GrpDelete
<1>4. CASE \E n \in DOMAIN groups, s \in Classmates : Grp!RemoveMember(t, s, n)
  BY <1>4, GrpRemoveMember
<1>5. CASE \E n \in DOMAIN groups, s \in Classmates : \E r \in Roles \union {None} : Grp!Join(t, s, n, r)
  BY <1>5, GrpJoin
<1>6. CASE \E n \in DOMAIN groups, s \in Classmates :
             \/ Grp!StartInstance(t, s, n)
             \/ \E to \in {"starting", "running", "stopped", "completed"} :
                  Grp!InstanceWrite(t, s, n, to) \/ Grp!InstanceMoves(t, s, n, to)
  BY <1>6, GrpInstances
<1>7. CASE Grp!CreateWrite(t) \/ Grp!MemberDelete(t) \/ Grp!MemberInsert(t) \/ Grp!StatusWrite(t)
  BY <1>7, GrpCreateWrite, GrpMemberDelete, GrpMemberInsert, GrpStatusWrite
<1>8. CASE Grp!RefreshGroup(t) \/ Grp!RefreshInstances(t)
  BY <1>8, GrpRefreshGroup, GrpRefreshInstances
<1> QED
  BY <1>1, <1>2, <1>3, <1>4, <1>5, <1>6, <1>7, <1>8

\* The groups keep their invariant.
LEMMA GrpHolds == Spec => [](part = "groups" => GrpInv)
<1> DEFINE I == part = "groups" => GrpInv
<1>1. Init => I
  BY GrpInit DEF Init
<1>2. I /\ [Next]_allVars => I'
  <2> SUFFICES ASSUME I, [Next]_allVars, part' = "groups" PROVE GrpInv'
    OBVIOUS
  <2>1. part = "groups" /\ GrpInv
    BY PartStays
  <2>2. CASE Next
    BY <2>1, <2>2, GrpStep DEF Next
  <2>3. CASE UNCHANGED allVars
    BY <2>1, <2>3, GrpStays DEF allVars, groupVars
  <2> QED
    BY <2>2, <2>3
<1> QED
  BY <1>1, <1>2, PTL DEF Spec, allVars

LEMMA GrpLimits == GrpInv => Grp!WithinLimits
<1> SUFFICES ASSUME GrpInv PROVE Grp!WithinLimits
  OBVIOUS
<1>1. Grp!Overlap = Cardinality(DOMAIN thr) - 1 /\ Cardinality(DOMAIN thr) \in Nat
  BY GrpCounts, SameCardinality DEF Grp!Overlap
<1>2. ASSUME NEW n \in DOMAIN groups
      PROVE  /\ Grp!Count(n) <= groups[n].cap + Grp!Overlap
             /\ \A r \in Roles : Grp!UsedBy(groups[n].members, r) <= RoleMax + Grp!Overlap
  <2>1. Grp!Count(n) + Cardinality(Coming(n)) <= groups[n].cap + Cardinality(DOMAIN thr) - 1
    BY DEF GrpInv, GrpBounds
  <2>2. Grp!Count(n) \in Nat /\ groups[n].cap \in Nat /\ Cardinality(Coming(n)) \in Nat
    BY GroupTyped, GrpCounts
  <2>3. ASSUME NEW r \in Roles PROVE Grp!UsedBy(groups[n].members, r) <= RoleMax + Grp!Overlap
    <3>1. Grp!UsedBy(groups[n].members, r) + Cardinality(ComingAs(n, r)) <= RoleMax + Cardinality(DOMAIN thr) - 1
      BY DEF GrpInv, GrpBounds
    <3>2. Grp!UsedBy(groups[n].members, r) \in Nat /\ Cardinality(ComingAs(n, r)) \in Nat /\ RoleMax \in Nat
      BY GroupTyped, GrpCounts, GroupAssumption
    <3> QED
      BY <1>1, <3>1, <3>2
  <2> QED
    BY <1>1, <2>1, <2>2, <2>3
<1>3. ASSUME NEW n \in DOMAIN groups, Grp!Quiet, Grp!Stored(n), ~groups[n].edited
      PROVE  groups[n].status = "forming" <=> Grp!Count(n) < groups[n].max
  <2>1. Cardinality(DOMAIN thr) = 1 /\ \A t \in DOMAIN thr : thr[t] = Grp!Idle
    BY <1>1, <1>3 DEF Grp!Quiet
  <2>2. PICK t : DOMAIN thr = {t}
    BY <2>1, OneElement, GrpCounts
  <2>3. GrpAlone(t) /\ thr[t].at = "idle"
    BY <2>1, <2>2, GrpIdle DEF GrpInv
  <2>4. Tells(n, groups[n].status)
    BY <2>3 DEF GrpAlone
  <2> QED
    BY <1>3, <2>4 DEF Tells
<1>4. ASSUME NEW s \in Classmates
      PROVE  Grp!Cardinality({n \in DOMAIN groups : s \in DOMAIN groups[n].members}) <= 1 + Grp!Overlap
  <2>1. Cardinality(In(s)) + Cardinality(Entering(s)) <= Cardinality(DOMAIN thr)
    BY DEF GrpInv, GrpBounds
  <2>2. Cardinality(In(s)) \in Nat /\ Cardinality(Entering(s)) \in Nat
    BY GroupTyped, GrpCounts
  <2>3. Grp!Cardinality({n \in DOMAIN groups : s \in DOMAIN groups[n].members}) = Cardinality(In(s))
    BY SameCardinality DEF In
  <2> QED
    BY <1>1, <2>1, <2>2, <2>3
<1> QED
  BY <1>2, <1>3, <1>4 DEF Grp!WithinLimits

(* A team holds no more members than its maximum and a competition no more *)
(* teams; a group no more members than its maximum, a role no more than    *)
(* its own, and a student is in one group: exceeded by the requests that   *)
(* overlap and no more, since none but those can have seen the same room   *)
(* (Join and RegisterCompetition, group_service.go).  Where none overlap,  *)
(* a group is open exactly while it has room.                              *)
THEOREM LimitsAreKept == Spec => []WithinLimits
<1>1. (part = "teams" => TmsInv) /\ (part = "groups" => GrpInv) => WithinLimits
  BY TmsLimits, GrpLimits DEF WithinLimits
<1> QED
  BY <1>1, TmsHolds, GrpHolds, PTL
-----------------------------------------------------------------------------
(* The templates and their image.                                          *)

TplRows == Seq(TplRow)

Defaults == {v \in DOMAIN versions : versions[v]}
Defaulting == {t \in DOMAIN thr : thr[t].at = "default" \/ (thr[t].at = "insert" /\ thr[t].default)}

\* What a request may write into the columns of a row.
TplFields ==
    [mode : Tpl!Modes, edited : {TRUE}] \union [deleted : {TRUE}] \union [shared : BOOLEAN]
    \union [status : {"off"}] \union [status : {"published"}, edited : {FALSE}]

\* What the record of a request is, whatever overlaps.
TplOnRow(r) ==
    /\ r.at \in {"fields", "switch", "validate", "box", "part", "check"} => r.of \in DOMAIN tpls
    /\ r.at = "fields" => r.fields \in TplFields
    /\ r.at = "switch" => r.kind \in Tpl!Kinds
    /\ r.at = "clone" => r.source \in TplRow /\ r.id \in Nat /\ (r.source.boxes # {} => image.approved)
    /\ r.at = "box" => /\ r.new \subseteq TplBox
                       /\ \A box \in r.new : (box.role # None => box.role.of = r.of) /\ image.approved
    /\ r.at = "part" => \/ r.part = "scripts" /\ r.value \in BOOLEAN
                        \/ r.part = "scenes" /\ r.value \in BOOLEAN
                        \/ r.part = "role" /\ r.value \in TplRole /\ (r.value # None => r.value.of = r.of)
    /\ r.at = "check" => r.new \subseteq Tpl!CheckTypes

TplOnImage(r) ==
    /\ r.at = "image" => r.to \in {"normal", "rejected", "off"}
    /\ r.at \in {"clear", "insert", "default"} => image.status # "none" /\ r.ver \in Versions
    /\ r.at = "clear" => r \in [at : {"clear"}, ver : Versions, then : {"insert"}, default : BOOLEAN]
                             \union [at : {"clear"}, ver : Versions, then : {"default"}]
    /\ r.at = "insert" => r.default \in BOOLEAN

TplTyped(r) == TplOnRow(r) /\ TplOnImage(r)

TplFacts ==
    /\ tpls \in TplRows /\ left \in Nat /\ lesson \in DOMAIN tpls \union {None}
    /\ \A i \in DOMAIN tpls : Tpl!OwnRoles(i, tpls[i]) /\ (tpls[i].boxes # {} => image.approved)
    /\ image \in [status : {"none", "pending", "normal", "rejected", "off"}, approved : BOOLEAN, listed : BOOLEAN]
    /\ image.status = "normal" => image.approved
    /\ image.status = "none" => ~image.approved /\ DOMAIN versions = {}
    /\ versions \in [DOMAIN versions -> BOOLEAN] /\ DOMAIN versions \subseteq Versions

TplThreads ==
    /\ thr = [t \in DOMAIN thr |-> thr[t]] /\ IsFiniteSet(DOMAIN thr) /\ DOMAIN thr # {}
    /\ \A t \in DOMAIN thr : TplTyped(thr[t])

\* A request that has cleared the defaults counts as having set its own.
TplBounds == image.listed \/ Cardinality(Defaults) + Cardinality(Defaulting) <= Cardinality(DOMAIN thr)

\* A template nobody else works on: its parts fit its type, its image is normal, and published
\* as it is it would pass its validation.
TplWhole(T) ==
    /\ Tpl!FitsType(T) /\ (T.boxes # {} => image.status = "normal")
    /\ T.status = "published" /\ ~T.edited => Tpl!DependencyIntegrity(T)

\* What the request of a handler that overlaps no other still knows when it writes.
TplSees(r) ==
    /\ r.at = "fields" /\ r.fields \in [status : {"published"}, edited : {FALSE}] => Tpl!DependencyIntegrity(tpls[r.of])
    /\ r.at = "switch" => Tpl!Stored(r.of)
    /\ r.at = "clone" => Tpl!FitsType(r.source) /\ (r.source.boxes # {} => image.status = "normal")
    /\ r.at = "box" => r.new = {} \/ (Tpl!HasContainers(tpls[r.of].kind) /\ image.status = "normal")
    /\ r.at = "part" =>
         /\ r.part = "scripts" /\ r.value => Tpl!HasContainers(tpls[r.of].kind)
         /\ r.part = "scenes" /\ r.value => Tpl!HasScenes(tpls[r.of].kind)
    /\ r.at = "check" => \A type \in r.new : Tpl!CheckTypeAllowed(tpls[r.of].kind, type)
    /\ r.at = "image" => \A i \in DOMAIN tpls : tpls[i].boxes = {}

TplAlone(t) == TplSees(thr[t]) /\ \A i \in DOMAIN tpls : TplWhole(tpls[i])

TplInv == TplFacts /\ TplThreads /\ TplBounds /\ \A t : DOMAIN thr = {t} => TplAlone(t)

\* A request that lets go of a row, of the image, or of nothing.
LEMMA TplIdle ==
    Tpl!Idle.at = "idle" /\ TplTyped(Tpl!Idle) /\ TplTyped(Tpl!Idle)' /\ TplSees(Tpl!Idle) /\ TplSees(Tpl!Idle)'
BY DEF TplTyped, TplOnRow, TplOnImage, TplSees, Tpl!Idle

LEMMA TplRowTyped ==
    ASSUME TplInv
    PROVE  /\ Len(tpls) \in Nat /\ DOMAIN tpls = 1..Len(tpls)
           /\ \A i \in DOMAIN tpls : tpls[i] \in TplRow
<1>1. tpls \in Seq(TplRow)
  BY DEF TplInv, TplFacts, TplRows
<1> QED
  BY <1>1

LEMMA TplCounts ==
    ASSUME TplInv
    PROVE  /\ Cardinality(DOMAIN thr) \in Nat /\ Cardinality(DOMAIN thr) >= 1 /\ IsFiniteSet(DOMAIN thr)
           /\ IsFiniteSet(Defaults) /\ Cardinality(Defaults) \in Nat
           /\ IsFiniteSet(Defaulting) /\ Cardinality(Defaulting) \in Nat
           /\ Cardinality(Defaulting) <= Cardinality(DOMAIN thr)
<1>1. IsFiniteSet(DOMAIN thr) /\ DOMAIN thr # {}
  BY DEF TplInv, TplThreads
<1>2. Cardinality(DOMAIN thr) \in Nat /\ Cardinality(DOMAIN thr) >= 1
  BY <1>1, FS_CardinalityType, FS_EmptySet
<1>3. Defaulting \subseteq DOMAIN thr
  BY DEF Defaulting
<1>4. Defaults \subseteq Versions
  BY DEF TplInv, TplFacts, Defaults
<1>5. IsFiniteSet(Defaulting) /\ Cardinality(Defaulting) <= Cardinality(DOMAIN thr)
  BY <1>1, <1>3, FS_Subset
<1>6. IsFiniteSet(Defaults)
  BY <1>4, TemplateAssumption, FS_Subset
<1> QED
  BY <1>1, <1>2, <1>5, <1>6, FS_CardinalityType

\* How many are about to set a default after a handler's record has changed.
LEMMA TplMoves ==
    ASSUME TplInv, NEW t \in DOMAIN thr, NEW r, thr' = [thr EXCEPT ![t] = r]
    PROVE  /\ thr' = [u \in DOMAIN thr' |-> thr'[u]] /\ DOMAIN thr' = DOMAIN thr
           /\ thr'[t] = r /\ \A u \in DOMAIN thr \ {t} : thr'[u] = thr[u]
           /\ Cardinality(Defaulting') \in Nat /\ Cardinality(Defaulting') <= Cardinality(DOMAIN thr)
           /\ ~(r.at = "default" \/ (r.at = "insert" /\ r.default)) =>
                /\ Cardinality(Defaulting') <= Cardinality(Defaulting)
                /\ t \in Defaulting => Cardinality(Defaulting') <= Cardinality(Defaulting) - 1
<1>1. /\ thr' = [u \in DOMAIN thr' |-> thr'[u]] /\ DOMAIN thr' = DOMAIN thr
      /\ thr'[t] = r /\ \A u \in DOMAIN thr \ {t} : thr'[u] = thr[u]
  BY DEF TplInv, TplThreads
<1>2. Defaulting' \subseteq DOMAIN thr /\ IsFiniteSet(DOMAIN thr) /\ IsFiniteSet(Defaulting)
  BY <1>1, TplCounts DEF Defaulting
<1>3. Cardinality(Defaulting') \in Nat /\ Cardinality(Defaulting') <= Cardinality(DOMAIN thr)
  BY <1>2, FS_Subset, FS_CardinalityType
<1>4. ASSUME ~(r.at = "default" \/ (r.at = "insert" /\ r.default))
      PROVE  Defaulting' \subseteq Defaulting \ {t}
  BY <1>1, <1>4 DEF Defaulting
<1>5. ASSUME Defaulting' \subseteq Defaulting \ {t}
      PROVE  /\ Cardinality(Defaulting') <= Cardinality(Defaulting)
             /\ t \in Defaulting => Cardinality(Defaulting') <= Cardinality(Defaulting) - 1
  BY <1>2, <1>5, OneMore
<1> QED
  BY <1>1, <1>3, <1>4, <1>5

\* A request's record stays what it is while templates are added and the image moves on.
LEMMA TplTypedStays ==
    ASSUME NEW r, TplTyped(r), DOMAIN tpls \subseteq DOMAIN tpls',
           image.approved => image'.approved, image.status # "none" => image'.status # "none"
    PROVE  TplTyped(r)'
<1>1. TplOnRow(r)'
  BY DEF TplTyped, TplOnRow
<1>2. TplOnImage(r)'
  BY DEF TplTyped, TplOnImage
<1> QED
  BY <1>1, <1>2 DEF TplTyped

\* What a step has to show of the threads.
LEMMA TplThreadsStay ==
    ASSUME TplInv, NEW t \in DOMAIN thr, NEW r, thr' = [thr EXCEPT ![t] = r], TplTyped(r)',
           DOMAIN tpls \subseteq DOMAIN tpls',
           image.approved => image'.approved, image.status # "none" => image'.status # "none"
    PROVE  TplThreads'
<1>1. /\ thr' = [u \in DOMAIN thr' |-> thr'[u]] /\ DOMAIN thr' = DOMAIN thr
      /\ thr'[t] = r /\ \A u \in DOMAIN thr \ {t} : thr'[u] = thr[u]
  BY TplMoves
<1>2. ASSUME NEW u \in DOMAIN thr PROVE TplTyped(thr[u])'
  <2>1. CASE u = t
    BY <1>1, <2>1 DEF TplTyped, TplOnRow, TplOnImage
  <2>2. CASE u # t
    <3>1. PICK o : o = thr[u]
      OBVIOUS
    <3>2. TplTyped(o)
      BY <3>1 DEF TplInv, TplThreads
    <3>3. TplTyped(o)'
      BY <3>2, TplTypedStays
    <3>4. thr'[u] = o
      BY <1>1, <2>2, <3>1
    <3> QED
      BY <3>3, <3>4 DEF TplTyped, TplOnRow, TplOnImage
  <2> QED
    BY <2>1, <2>2
<1> QED
  BY <1>1, <1>2 DEF TplInv, TplThreads

\* A step that only reads: the handler's record becomes r.
LEMMA TplReads ==
    ASSUME TplInv, NEW t \in DOMAIN thr, NEW r, thr' = [thr EXCEPT ![t] = r],
           UNCHANGED tplVars, left' \in Nat, TplTyped(r),
           ~(r.at = "default" \/ (r.at = "insert" /\ r.default)),
           TplAlone(t) => TplSees(r)
    PROVE  TplInv'
<1>1. /\ DOMAIN thr' = DOMAIN thr /\ thr'[t] = r
      /\ Cardinality(Defaulting') \in Nat /\ Cardinality(Defaulting') <= Cardinality(Defaulting)
  BY TplMoves
<1>2. UNCHANGED <<tpls, lesson, image, versions>>
  BY DEF tplVars
<1>3. TplFacts'
  BY <1>2 DEF TplInv, TplFacts, Tpl!OwnRoles
<1>4. TplTyped(r)'
  BY <1>2, TplTypedStays
<1>5. TplThreads'
  BY <1>2, <1>4, TplThreadsStay
<1>6. TplBounds'
  <2>1. Defaults' = Defaults
    BY <1>2 DEF Defaults
  <2> QED
    BY <1>1, <1>2, <2>1, TplCounts DEF TplInv, TplBounds
<1>7. ASSUME NEW u, DOMAIN thr' = {u} PROVE TplAlone(u)'
  <2>1. u = t /\ DOMAIN thr = {t}
    BY <1>1, <1>7
  <2>2. TplAlone(t)
    BY <2>1 DEF TplInv
  <2>3. TplSees(r)'
    BY <1>2, <2>2 DEF TplSees, Tpl!DependencyIntegrity, Tpl!BothScopes, Tpl!UsableVersion, Tpl!Stored
  <2>4. ASSUME NEW i \in DOMAIN tpls PROVE TplWhole(tpls[i])'
    <3>1. TplWhole(tpls[i])
      BY <2>2 DEF TplAlone
    <3> QED
      BY <1>2, <3>1 DEF TplWhole, Tpl!DependencyIntegrity, Tpl!BothScopes, Tpl!UsableVersion, Tpl!FitsType
  <2> QED
    BY <1>1, <1>2, <2>1, <2>3, <2>4 DEF TplAlone
<1> QED
  BY <1>3, <1>5, <1>6, <1>7 DEF TplInv

LEMMA TplStarts ==
    ASSUME TplInv, NEW t, NEW r, Tpl!Begins(t, r), TplTyped(r),
           ~(r.at = "default" \/ (r.at = "insert" /\ r.default)), TplAlone(t) => TplSees(r)
    PROVE  TplInv'
<1>1. t \in DOMAIN thr /\ thr' = [thr EXCEPT ![t] = r] /\ left > 0 /\ left' = left - 1
      /\ UNCHANGED <<tpls, lesson, image, versions>>
  BY DEF Tpl!Begins, Tpl!Free, Tpl!Goes
<1>2. UNCHANGED tplVars /\ left' \in Nat
  BY <1>1 DEF tplVars, TplInv, TplFacts
<1> QED
  BY <1>1, <1>2, TplReads

\* The requests about the row of a template.
LEMMA TplFieldsRead ==
    ASSUME TplInv, NEW t, NEW i, NEW f \in TplFields, i \in DOMAIN tpls, Tpl!Begins(t, Tpl!WillWrite(i, f)),
           f \notin [status : {"published"}, edited : {FALSE}]
    PROVE  TplInv'
<1> DEFINE r == Tpl!WillWrite(i, f)
<1>1. r.at = "fields" /\ r.of = i /\ r.fields = f
  BY DEF Tpl!WillWrite
<1> HIDE DEF r
<1>2. TplTyped(r)
  BY <1>1 DEF TplTyped, TplOnRow, TplOnImage
<1>3. TplSees(r)
  BY <1>1 DEF TplSees
<1>4. Tpl!Begins(t, r)
  BY DEF r
<1> QED
  BY <1>1, <1>2, <1>3, <1>4, TplStarts

LEMMA TplRowRequests ==
    ASSUME TplInv, NEW t, NEW i,
           \/ \E mode \in Tpl!Modes : Tpl!UpdateTopology(t, i, mode)
           \/ Tpl!Delete(t, i) \/ Tpl!Unpublish(t, i)
           \/ \E shared \in BOOLEAN : Tpl!Share(t, i, shared)
    PROVE  TplInv'
<1>1. CASE \E mode \in Tpl!Modes : Tpl!UpdateTopology(t, i, mode)
  <2>1. PICK mode \in Tpl!Modes : Tpl!UpdateTopology(t, i, mode)
    BY <1>1
  <2> DEFINE f == [mode |-> mode, edited |-> TRUE]
  <2>2. i \in DOMAIN tpls /\ Tpl!Begins(t, Tpl!WillWrite(i, f))
    BY <2>1 DEF Tpl!UpdateTopology, Tpl!StructureEditable, Tpl!Stored
  <2>3. f \in TplFields /\ f.edited
    BY DEF TplFields
  <2> HIDE DEF f
  <2>4. f \notin [status : {"published"}, edited : {FALSE}]
    BY <2>3
  <2> QED
    BY <2>2, <2>3, <2>4, TplFieldsRead
<1>2. CASE Tpl!Delete(t, i)
  <2> DEFINE f == [deleted |-> TRUE]
  <2>2. i \in DOMAIN tpls /\ Tpl!Begins(t, Tpl!WillWrite(i, f))
    BY <1>2 DEF Tpl!Delete, Tpl!Stored
  <2>3. f \in TplFields /\ "status" \notin DOMAIN f
    BY DEF TplFields
  <2> HIDE DEF f
  <2>4. f \notin [status : {"published"}, edited : {FALSE}]
    BY <2>3
  <2> QED
    BY <2>2, <2>3, <2>4, TplFieldsRead
<1>3. CASE Tpl!Unpublish(t, i)
  <2> DEFINE f == [status |-> "off"]
  <2>2. i \in DOMAIN tpls /\ Tpl!Begins(t, Tpl!WillWrite(i, f))
    BY <1>3 DEF Tpl!Unpublish, Tpl!Stored
  <2>3. f \in TplFields /\ f.status = "off"
    BY DEF TplFields
  <2> HIDE DEF f
  <2>4. f \notin [status : {"published"}, edited : {FALSE}]
    BY <2>3
  <2> QED
    BY <2>2, <2>3, <2>4, TplFieldsRead
<1>4. CASE \E shared \in BOOLEAN : Tpl!Share(t, i, shared)
  <2>1. PICK shared \in BOOLEAN : Tpl!Share(t, i, shared)
    BY <1>4
  <2> DEFINE f == [shared |-> shared]
  <2>2. i \in DOMAIN tpls /\ Tpl!Begins(t, Tpl!WillWrite(i, f))
    BY <2>1 DEF Tpl!Share, Tpl!Stored
  <2>3. f \in TplFields /\ "status" \notin DOMAIN f
    BY DEF TplFields
  <2> HIDE DEF f
  <2>4. f \notin [status : {"published"}, edited : {FALSE}]
    BY <2>3
  <2> QED
    BY <2>2, <2>3, <2>4, TplFieldsRead
<1> QED
  BY <1>1, <1>2, <1>3, <1>4

LEMMA TplTypeRequests ==
    ASSUME TplInv, NEW t, NEW i, (\E kind \in Tpl!Kinds : Tpl!UpdateType(t, i, kind)) \/ Tpl!Publish(t, i)
    PROVE  TplInv'
<1>1. CASE \E kind \in Tpl!Kinds : Tpl!UpdateType(t, i, kind)
  <2>1. PICK kind \in Tpl!Kinds : Tpl!UpdateType(t, i, kind)
    BY <1>1
  <2> DEFINE r == [at |-> "switch", of |-> i, kind |-> kind]
  <2>2. Tpl!Stored(i) /\ Tpl!Begins(t, r)
    BY <2>1 DEF Tpl!UpdateType, Tpl!StructureEditable
  <2>3. TplTyped(r) /\ TplSees(r)
    BY <2>2 DEF Tpl!Stored, TplTyped, TplOnRow, TplOnImage, TplSees
  <2>4. r.at = "switch"
    OBVIOUS
  <2> HIDE DEF r
  <2> QED
    BY <2>2, <2>3, <2>4, TplStarts
<1>2. CASE Tpl!Publish(t, i)
  <2> DEFINE r == [at |-> "validate", of |-> i]
  <2>2. Tpl!Stored(i) /\ Tpl!Begins(t, r)
    BY <1>2 DEF Tpl!Publish
  <2>3. TplTyped(r) /\ TplSees(r)
    BY <2>2 DEF Tpl!Stored, TplTyped, TplOnRow, TplOnImage, TplSees
  <2>4. r.at = "validate"
    OBVIOUS
  <2> HIDE DEF r
  <2> QED
    BY <2>2, <2>3, <2>4, TplStarts
<1> QED
  BY <1>1, <1>2

LEMMA TplClone ==
    ASSUME TplInv, NEW t, NEW i, Tpl!Clone(t, i)
    PROVE  TplInv'
<1> DEFINE r == [at |-> "clone", source |-> tpls[i], id |-> left]
<1>1. i \in DOMAIN tpls /\ Tpl!Begins(t, r)
  BY DEF Tpl!Clone, Tpl!Stored
<1>2. tpls[i] \in TplRow /\ left \in Nat /\ (tpls[i].boxes # {} => image.approved)
  BY <1>1, TplRowTyped DEF TplInv, TplFacts
<1>3. TplTyped(r)
  BY <1>2 DEF TplTyped, TplOnRow, TplOnImage
<1>4. ASSUME TplAlone(t) PROVE TplSees(r)
  <2>1. TplWhole(tpls[i])
    BY <1>1, <1>4 DEF TplAlone
  <2> QED
    BY <2>1 DEF TplSees, TplWhole
<1>5. r.at = "clone"
  OBVIOUS
<1> HIDE DEF r
<1> QED
  BY <1>1, <1>3, <1>4, <1>5, TplStarts

\* The requests about a container.
LEMMA TplBoxRequest ==
    ASSUME TplInv, NEW t, NEW i, i \in DOMAIN tpls, NEW old, NEW new, new \subseteq TplBox,
           Tpl!Begins(t, [at |-> "box", of |-> i, old |-> old, new |-> new]),
           \A box \in new : (box.role # None => box.role.of = i) /\ image.approved,
           TplAlone(t) => new = {} \/ (Tpl!HasContainers(tpls[i].kind) /\ image.status = "normal")
    PROVE  TplInv'
<1> DEFINE r == [at |-> "box", of |-> i, old |-> old, new |-> new]
<1>1. TplTyped(r)
  BY DEF TplTyped, TplOnRow, TplOnImage
<1>2. TplAlone(t) => TplSees(r)
  BY DEF TplSees
<1>3. r.at = "box" /\ Tpl!Begins(t, r)
  OBVIOUS
<1> HIDE DEF r
<1> QED
  BY <1>1, <1>2, <1>3, TplStarts

LEMMA TplOwnRole ==
    ASSUME TplInv, NEW i \in DOMAIN tpls
    PROVE  /\ tpls[i].role \in TplRole /\ (tpls[i].role # None => tpls[i].role.of = i)
           /\ tpls[i].kind \in Tpl!Kinds
           /\ \A box \in tpls[i].boxes : box \in TplBox /\ (box.role # None => box.role.of = i) /\ image.approved
<1>1. tpls[i] \in TplRow
  BY TplRowTyped
<1>2. tpls[i].role \in TplRole /\ tpls[i].kind \in Tpl!Kinds /\ tpls[i].boxes \subseteq TplBox
  BY <1>1 DEF TplRow
<1> QED
  BY <1>2 DEF TplInv, TplFacts, Tpl!OwnRoles

LEMMA TplContainerRequests ==
    ASSUME TplInv, NEW t, NEW i,
           \/ \E ver \in Versions, scope \in {"instance", "shared"}, role \in Tpl!TemplateRoles \union {None} :
                Tpl!CreateContainer(t, i, ver, scope, role)
           \/ \E box \in tpls[i].boxes :
                \/ \E ver \in Versions \ {box.ver} : Tpl!UpdateContainer(t, i, box, "ver", ver)
                \/ \E scope \in {"instance", "shared"} \ {box.scope} : Tpl!UpdateContainer(t, i, box, "scope", scope)
                \/ \E role \in Tpl!TemplateRoles \ {box.role} : Tpl!UpdateContainer(t, i, box, "role", role)
                \/ Tpl!DeleteContainer(t, i, box)
    PROVE  TplInv'
<1>1. CASE \E ver \in Versions, scope \in {"instance", "shared"}, role \in Tpl!TemplateRoles \union {None} :
             Tpl!CreateContainer(t, i, ver, scope, role)
  <2>1. PICK ver \in Versions, scope \in {"instance", "shared"}, role \in Tpl!TemplateRoles \union {None} :
          Tpl!CreateContainer(t, i, ver, scope, role)
    BY <1>1
  <2> DEFINE box == [id |-> left, ver |-> ver, scope |-> scope, role |-> role]
  <2>2. /\ i \in DOMAIN tpls /\ Tpl!HasContainers(tpls[i].kind) /\ image.status = "normal"
        /\ role # None => role = tpls[i].role
        /\ Tpl!Begins(t, [at |-> "box", of |-> i, old |-> {}, new |-> {box}])
    BY <2>1 DEF Tpl!CreateContainer, Tpl!StructureEditable, Tpl!Stored, Tpl!UsableVersion, Tpl!ResolveRole
  <2>3. left \in Nat /\ image.approved
    BY <2>2 DEF TplInv, TplFacts
  <2>4. role \in TplRole /\ (role # None => role.of = i)
    BY <2>2, TplOwnRole DEF TplRole
  <2>5. box \in TplBox /\ (box.role # None => box.role.of = i)
    BY <2>3, <2>4 DEF TplBox
  <2> HIDE DEF box
  <2> QED
    BY <2>2, <2>3, <2>5, TplBoxRequest
<1>2. ASSUME NEW box \in tpls[i].boxes, NEW field \in {"ver", "scope", "role"}, NEW value,
             Tpl!UpdateContainer(t, i, box, field, value), field = "ver" => value \in Versions,
             field = "scope" => value \in {"instance", "shared"},
             field = "role" => value \in Tpl!TemplateRoles
      PROVE  TplInv'
  <2> DEFINE new == [box EXCEPT ![field] = value]
  <2>1. /\ i \in DOMAIN tpls /\ Tpl!HasContainers(tpls[i].kind)
        /\ field = "role" => Tpl!ResolveRole(i, value, box.scope)
        /\ Tpl!Begins(t, [at |-> "box", of |-> i, old |-> {box}, new |-> {new}])
    BY <1>2 DEF Tpl!UpdateContainer, Tpl!StructureEditable, Tpl!Stored
  <2>2. box \in TplBox /\ (box.role # None => box.role.of = i) /\ image.approved
    BY <2>1, TplOwnRole
  <2>3. field = "role" => value \in TplRole /\ (value # None => value.of = i)
    BY <2>1, TplOwnRole DEF Tpl!ResolveRole, TplRole
  <2>4. new \in TplBox /\ (new.role # None => new.role.of = i)
    <3>1. CASE field = "ver"
      BY <1>2, <2>2, <3>1 DEF TplBox
    <3>2. CASE field = "scope"
      BY <1>2, <2>2, <3>2 DEF TplBox
    <3>3. CASE field = "role"
      BY <2>2, <2>3, <3>3 DEF TplBox
    <3> QED
      BY <3>1, <3>2, <3>3
  <2>5. ASSUME TplAlone(t) PROVE image.status = "normal"
    <3>1. TplWhole(tpls[i])
      BY <2>1, <2>5 DEF TplAlone
    <3> QED
      BY <3>1 DEF TplWhole
  <2> HIDE DEF new
  <2> QED
    BY <2>1, <2>2, <2>4, <2>5, TplBoxRequest
<1>3. ASSUME NEW box \in tpls[i].boxes, Tpl!DeleteContainer(t, i, box) PROVE TplInv'
  <2>1. i \in DOMAIN tpls /\ Tpl!Begins(t, [at |-> "box", of |-> i, old |-> {box}, new |-> {}])
    BY <1>3 DEF Tpl!DeleteContainer, Tpl!StructureEditable, Tpl!Stored
  <2> QED
    BY <2>1, TplBoxRequest
<1> QED
  BY <1>1, <1>2, <1>3

\* The requests about the other parts.
LEMMA TplPartRequest ==
    ASSUME TplInv, NEW t, NEW i \in DOMAIN tpls, NEW p, NEW value, Tpl!Begins(t, Tpl!WillSet(i, p, value)),
           \/ p = "scripts" /\ value \in BOOLEAN /\ (value => Tpl!HasContainers(tpls[i].kind))
           \/ p = "scenes" /\ value \in BOOLEAN /\ (value => Tpl!HasScenes(tpls[i].kind))
           \/ p = "role" /\ value \in TplRole /\ (value # None => value.of = i)
    PROVE  TplInv'
<1> DEFINE r == Tpl!WillSet(i, p, value)
<1>1. r.at = "part" /\ r.of = i /\ r.part = p /\ r.value = value
  BY DEF Tpl!WillSet
<1> HIDE DEF r
<1>2. TplTyped(r)
  BY <1>1 DEF TplTyped, TplOnRow, TplOnImage
<1>3. TplSees(r)
  BY <1>1 DEF TplSees
<1>4. Tpl!Begins(t, r)
  BY DEF r
<1> QED
  BY <1>1, <1>2, <1>3, <1>4, TplStarts

LEMMA TplPartRequests ==
    ASSUME TplInv, NEW t, NEW i,
           \/ Tpl!CreateInitScript(t, i) \/ Tpl!DeleteInitScript(t, i)
           \/ Tpl!CreateSimScene(t, i) \/ Tpl!DeleteSimScene(t, i)
           \/ Tpl!CreateRole(t, i) \/ Tpl!DeleteRole(t, i)
    PROVE  TplInv'
<1>1. CASE Tpl!CreateInitScript(t, i)
  <2>1. i \in DOMAIN tpls /\ Tpl!HasContainers(tpls[i].kind) /\ Tpl!Begins(t, Tpl!WillSet(i, "scripts", TRUE))
    BY <1>1 DEF Tpl!CreateInitScript, Tpl!StructureEditable, Tpl!Stored
  <2> QED
    BY <2>1, TplPartRequest
<1>2. CASE Tpl!DeleteInitScript(t, i)
  <2>1. i \in DOMAIN tpls /\ Tpl!Begins(t, Tpl!WillSet(i, "scripts", FALSE))
    BY <1>2 DEF Tpl!DeleteInitScript, Tpl!StructureEditable, Tpl!Stored
  <2> QED
    BY <2>1, TplPartRequest
<1>3. CASE Tpl!CreateSimScene(t, i)
  <2>1. i \in DOMAIN tpls /\ Tpl!HasScenes(tpls[i].kind) /\ Tpl!Begins(t, Tpl!WillSet(i, "scenes", TRUE))
    BY <1>3 DEF Tpl!CreateSimScene, Tpl!StructureEditable, Tpl!Stored
  <2> QED
    BY <2>1, TplPartRequest
<1>4. CASE Tpl!DeleteSimScene(t, i)
  <2>1. i \in DOMAIN tpls /\ Tpl!Begins(t, Tpl!WillSet(i, "scenes", FALSE))
    BY <1>4 DEF Tpl!DeleteSimScene, Tpl!StructureEditable, Tpl!Stored
  <2> QED
    BY <2>1, TplPartRequest
<1>5. CASE Tpl!CreateRole(t, i)
  <2> DEFINE role == [of |-> i, id |-> left]
  <2>1. i \in DOMAIN tpls /\ Tpl!Begins(t, Tpl!WillSet(i, "role", role))
    BY <1>5 DEF Tpl!CreateRole, Tpl!StructureEditable, Tpl!Stored
  <2>2. i \in Nat /\ left \in Nat
    BY <2>1, TplRowTyped DEF TplInv, TplFacts
  <2>3. role \in TplRole /\ role.of = i
    BY <2>2 DEF TplRole
  <2> HIDE DEF role
  <2> QED
    BY <2>1, <2>3, TplPartRequest
<1>6. CASE Tpl!DeleteRole(t, i)
  <2>1. i \in DOMAIN tpls /\ Tpl!Begins(t, Tpl!WillSet(i, "role", None))
    BY <1>6 DEF Tpl!DeleteRole, Tpl!StructureEditable, Tpl!Stored
  <2>2. None \in TplRole
    BY DEF TplRole
  <2> QED
    BY <2>1, <2>2, TplPartRequest
<1> QED
  BY <1>1, <1>2, <1>3, <1>4, <1>5, <1>6

LEMMA TplCheckRequest ==
    ASSUME TplInv, NEW t, NEW i \in DOMAIN tpls, NEW old, NEW new, new \subseteq Tpl!CheckTypes,
           Tpl!Begins(t, [at |-> "check", of |-> i, old |-> old, new |-> new]),
           \A type \in new : Tpl!CheckTypeAllowed(tpls[i].kind, type)
    PROVE  TplInv'
<1> DEFINE r == [at |-> "check", of |-> i, old |-> old, new |-> new]
<1>1. TplTyped(r)
  BY DEF TplTyped, TplOnRow, TplOnImage
<1>2. TplSees(r)
  BY DEF TplSees
<1>3. r.at = "check" /\ Tpl!Begins(t, r)
  OBVIOUS
<1> HIDE DEF r
<1> QED
  BY <1>1, <1>2, <1>3, TplStarts

LEMMA TplCheckRequests ==
    ASSUME TplInv, NEW t, NEW i,
           \/ \E type \in Tpl!CheckTypes : Tpl!CreateCheckpoint(t, i, type) \/ Tpl!DeleteCheckpoint(t, i, type)
           \/ \E old, type \in Tpl!CheckTypes : Tpl!UpdateCheckpoint(t, i, old, type)
    PROVE  TplInv'
<1>1. ASSUME NEW type \in Tpl!CheckTypes, Tpl!CreateCheckpoint(t, i, type) PROVE TplInv'
  <2>1. /\ i \in DOMAIN tpls /\ Tpl!CheckTypeAllowed(tpls[i].kind, type)
        /\ Tpl!Begins(t, [at |-> "check", of |-> i, old |-> {}, new |-> {type}])
    BY <1>1 DEF Tpl!CreateCheckpoint, Tpl!CheckpointEditable, Tpl!Stored
  <2> QED
    BY <2>1, TplCheckRequest
<1>2. ASSUME NEW type \in Tpl!CheckTypes, Tpl!DeleteCheckpoint(t, i, type) PROVE TplInv'
  <2>1. i \in DOMAIN tpls /\ Tpl!Begins(t, [at |-> "check", of |-> i, old |-> {type}, new |-> {}])
    BY <1>2 DEF Tpl!DeleteCheckpoint, Tpl!CheckpointEditable, Tpl!Stored
  <2> QED
    BY <2>1, TplCheckRequest
<1>3. ASSUME NEW old \in Tpl!CheckTypes, NEW type \in Tpl!CheckTypes, Tpl!UpdateCheckpoint(t, i, old, type) PROVE TplInv'
  <2>1. /\ i \in DOMAIN tpls /\ Tpl!CheckTypeAllowed(tpls[i].kind, type)
        /\ Tpl!Begins(t, [at |-> "check", of |-> i, old |-> {old}, new |-> {type}])
    BY <1>3 DEF Tpl!UpdateCheckpoint, Tpl!CheckpointEditable, Tpl!Stored
  <2> QED
    BY <2>1, TplCheckRequest
<1> QED
  BY <1>1, <1>2, <1>3

\* The requests about the image and its versions.
LEMMA TplImageRequest ==
    ASSUME TplInv, NEW t, NEW to \in {"normal", "rejected", "off"}, Tpl!Begins(t, [at |-> "image", to |-> to]),
           TplAlone(t) => \A i \in DOMAIN tpls : tpls[i].boxes = {}
    PROVE  TplInv'
<1> DEFINE r == [at |-> "image", to |-> to]
<1>1. TplTyped(r)
  BY DEF TplTyped, TplOnRow, TplOnImage
<1>2. TplAlone(t) => TplSees(r)
  BY DEF TplSees
<1>3. r.at = "image" /\ Tpl!Begins(t, r)
  OBVIOUS
<1> HIDE DEF r
<1> QED
  BY <1>1, <1>2, <1>3, TplStarts

LEMMA TplImageRequests ==
    ASSUME TplInv, NEW t, Tpl!DeleteImage(t) \/ \E approve \in BOOLEAN : Tpl!ReviewImage(t, approve)
    PROVE  TplInv'
<1>1. ASSUME NEW approve \in BOOLEAN, Tpl!ReviewImage(t, approve) PROVE TplInv'
  <2>1. image.status = "pending" /\ Tpl!Begins(t, [at |-> "image", to |-> IF approve THEN "normal" ELSE "rejected"])
    BY <1>1 DEF Tpl!ReviewImage
  <2>2. ASSUME TplAlone(t), NEW i \in DOMAIN tpls PROVE tpls[i].boxes = {}
    <3>1. TplWhole(tpls[i])
      BY <2>2 DEF TplAlone
    <3> QED
      BY <2>1, <3>1 DEF TplWhole
  <2>3. (IF approve THEN "normal" ELSE "rejected") \in {"normal", "rejected", "off"}
    OBVIOUS
  <2> QED
    BY <2>1, <2>2, <2>3, TplImageRequest
<1>2. CASE Tpl!DeleteImage(t)
  <2>1. Tpl!Boxes = {} /\ Tpl!Begins(t, [at |-> "image", to |-> "off"])
    BY <1>2 DEF Tpl!DeleteImage
  <2>2. \A i \in DOMAIN tpls : tpls[i].boxes = {}
    BY <2>1 DEF Tpl!Boxes
  <2> QED
    BY <2>1, <2>2, TplImageRequest
<1> QED
  BY <1>1, <1>2

LEMMA TplVersionRequests ==
    ASSUME TplInv, NEW t, NEW v \in Versions,
           \/ \E default \in BOOLEAN : Tpl!CreateVersion(t, v, default)
           \/ Tpl!SetDefaultVersion(t, v) \/ Tpl!DeleteVersion(t, v)
    PROVE  TplInv'
<1>1. ASSUME NEW default \in BOOLEAN, Tpl!CreateVersion(t, v, default) PROVE TplInv'
  <2> DEFINE r == [at |-> IF default THEN "clear" ELSE "insert", ver |-> v, then |-> "insert", default |-> default]
  <2>1. image.status # "none" /\ Tpl!Begins(t, r)
    BY <1>1 DEF Tpl!CreateVersion
  <2>2. TplTyped(r) /\ TplSees(r)
    BY <2>1 DEF TplTyped, TplOnRow, TplOnImage, TplSees
  <2>3. ~(r.at = "default" \/ (r.at = "insert" /\ r.default))
    OBVIOUS
  <2> HIDE DEF r
  <2> QED
    BY <2>1, <2>2, <2>3, TplStarts
<1>2. CASE Tpl!SetDefaultVersion(t, v)
  <2> DEFINE r == [at |-> "clear", ver |-> v, then |-> "default"]
  <2>1. v \in DOMAIN versions /\ Tpl!Begins(t, r)
    BY <1>2 DEF Tpl!SetDefaultVersion
  <2>2. image.status # "none"
    BY <2>1 DEF TplInv, TplFacts
  <2>3. TplTyped(r) /\ TplSees(r)
    BY <2>2 DEF TplTyped, TplOnRow, TplOnImage, TplSees
  <2>4. r.at = "clear"
    OBVIOUS
  <2> HIDE DEF r
  <2> QED
    BY <2>1, <2>3, <2>4, TplStarts
<1>3. CASE Tpl!DeleteVersion(t, v)
  <2> DEFINE r == [at |-> "delete", ver |-> v]
  <2>1. Tpl!Begins(t, r)
    BY <1>3 DEF Tpl!DeleteVersion
  <2>2. TplTyped(r) /\ TplSees(r)
    BY DEF TplTyped, TplOnRow, TplOnImage, TplSees
  <2>3. r.at = "delete"
    OBVIOUS
  <2> HIDE DEF r
  <2> QED
    BY <2>1, <2>2, <2>3, TplStarts
<1> QED
  BY <1>1, <1>2, <1>3

LEMMA TplValidate ==
    ASSUME TplInv, NEW t, Tpl!Validate(t)
    PROVE  TplInv'
<1> DEFINE i == thr[t].of
           f == [status |-> "published", edited |-> FALSE]
           r == IF Tpl!Stored(i) /\ Tpl!DependencyIntegrity(tpls[i]) THEN Tpl!WillWrite(i, f) ELSE Tpl!Idle
<1>1. t \in DOMAIN thr /\ thr' = [thr EXCEPT ![t] = r] /\ UNCHANGED tplVars /\ left' \in Nat
  BY DEF Tpl!Validate, Tpl!At, Tpl!Goes, tplVars, TplInv, TplFacts
<1>2. TplTyped(r) /\ TplSees(r)
  <2>1. CASE Tpl!Stored(i) /\ Tpl!DependencyIntegrity(tpls[i])
    <3>1. r.at = "fields" /\ r.of = i /\ r.fields = f
      BY <2>1 DEF Tpl!WillWrite
    <3>2. f \in TplFields
      BY DEF TplFields
    <3>3. i \in DOMAIN tpls
      BY <2>1 DEF Tpl!Stored
    <3> HIDE DEF i, f, r
    <3> QED
      BY <2>1, <3>1, <3>2, <3>3 DEF TplTyped, TplOnRow, TplOnImage, TplSees
  <2>2. CASE ~(Tpl!Stored(i) /\ Tpl!DependencyIntegrity(tpls[i]))
    BY <2>2, TplIdle
  <2> QED
    BY <2>1, <2>2
<1>3. r.at \in {"fields", "idle"}
  BY TplIdle DEF Tpl!WillWrite
<1> HIDE DEF r
<1> QED
  BY <1>1, <1>2, <1>3, TplReads

\* The writes to the row of a template.
LEMMA TplKept ==
    ASSUME TplInv, NEW t \in DOMAIN thr, thr' = [thr EXCEPT ![t] = Tpl!Idle], UNCHANGED <<left, tpls, lesson, image, versions>>
    PROVE  TplInv'
<1>1. UNCHANGED tplVars /\ left' \in Nat
  BY DEF tplVars, TplInv, TplFacts
<1> QED
  BY <1>1, TplIdle, TplReads

LEMMA TplRowWrite ==
    ASSUME TplInv, NEW t \in DOMAIN thr, thr' = [thr EXCEPT ![t] = Tpl!Idle], UNCHANGED <<left, lesson, image, versions>>,
           NEW i \in DOMAIN tpls, NEW R \in TplRow, tpls' = [tpls EXCEPT ![i] = R],
           Tpl!OwnRoles(i, R), R.boxes # {} => image.approved, TplAlone(t) => TplWhole(R)
    PROVE  TplInv'
<1>1. /\ DOMAIN thr' = DOMAIN thr /\ thr'[t] = Tpl!Idle
      /\ Cardinality(Defaulting') \in Nat /\ Cardinality(Defaulting') <= Cardinality(Defaulting)
  BY TplIdle, TplMoves
<1>2. tpls' \in TplRows /\ DOMAIN tpls' = DOMAIN tpls /\ tpls'[i] = R /\ \A k \in DOMAIN tpls \ {i} : tpls'[k] = tpls[k]
  <2>1. tpls \in Seq(TplRow)
    BY DEF TplInv, TplFacts, TplRows
  <2> QED
    BY <2>1 DEF TplRows
<1>3. TplFacts'
  <2>1. \A k \in DOMAIN tpls' : Tpl!OwnRoles(k, tpls'[k]) /\ (tpls'[k].boxes # {} => image.approved)
    BY <1>2 DEF TplInv, TplFacts
  <2>2. \A k \in DOMAIN tpls' : Tpl!OwnRoles(k, tpls[k])' <=> Tpl!OwnRoles(k, tpls'[k])
    BY DEF Tpl!OwnRoles
  <2> QED
    BY <1>2, <2>1, <2>2 DEF TplInv, TplFacts
<1>4. TplThreads'
  BY <1>2, TplIdle, TplThreadsStay
<1>5. TplBounds'
  <2>1. Defaults' = Defaults
    BY DEF Defaults
  <2> QED
    BY <1>1, <2>1, TplCounts DEF TplInv, TplBounds
<1>6. ASSUME NEW u, DOMAIN thr' = {u} PROVE TplAlone(u)'
  <2>1. u = t /\ DOMAIN thr = {t}
    BY <1>1, <1>6
  <2>2. TplAlone(t)
    BY <2>1 DEF TplInv
  <2>3. \A k \in DOMAIN tpls' : TplWhole(tpls'[k])
    BY <1>2, <2>2 DEF TplAlone
  <2>4. \A k \in DOMAIN tpls' : TplWhole(tpls'[k]) => TplWhole(tpls[k])'
    BY DEF TplWhole, Tpl!FitsType, Tpl!DependencyIntegrity, Tpl!BothScopes, Tpl!UsableVersion
  <2> QED
    BY <1>1, <2>1, <2>3, <2>4, TplIdle DEF TplAlone
<1> QED
  BY <1>3, <1>4, <1>5, <1>6 DEF TplInv

\* Validation looks at these columns only.
LEMMA TplSamePasses ==
    ASSUME NEW T, NEW R, R.kind = T.kind, R.mode = T.mode, R.boxes = T.boxes, R.scenes = T.scenes,
           R.checks = T.checks, R.role = T.role, Tpl!DependencyIntegrity(T)
    PROVE  Tpl!DependencyIntegrity(R)
BY DEF Tpl!DependencyIntegrity, Tpl!BothScopes

LEMMA TplFieldsSet ==
    ASSUME NEW T \in TplRow, NEW f \in TplFields
    PROVE  LET R == [c \in DOMAIN T |-> IF c \in DOMAIN f THEN f[c] ELSE T[c]] IN
           /\ R \in TplRow /\ R.boxes = T.boxes /\ R.role = T.role /\ R.kind = T.kind
           /\ R.scripts = T.scripts /\ R.scenes = T.scenes /\ R.checks = T.checks
           /\ R.status = "published" /\ ~R.edited =>
                R.mode = T.mode /\ (f \in [status : {"published"}, edited : {FALSE}] \/ (T.status = "published" /\ ~T.edited))
<1>1. CASE f \in [mode : Tpl!Modes, edited : {TRUE}]
  BY <1>1 DEF TplRow
<1>2. CASE f \in [deleted : {TRUE}]
  BY <1>2 DEF TplRow
<1>3. CASE f \in [shared : BOOLEAN]
  BY <1>3 DEF TplRow
<1>4. CASE f \in [status : {"off"}]
  BY <1>4 DEF TplRow
<1>5. CASE f \in [status : {"published"}, edited : {FALSE}]
  BY <1>5 DEF TplRow
<1> QED
  BY <1>1, <1>2, <1>3, <1>4, <1>5 DEF TplFields

LEMMA TplFieldsWrite ==
    ASSUME TplInv, NEW t, Tpl!FieldsWrite(t)
    PROVE  TplInv'
<1>1. PICK i : i = thr[t].of
  OBVIOUS
<1>2. PICK f : f = thr[t].fields
  OBVIOUS
<1>3. /\ t \in DOMAIN thr /\ thr[t].at = "fields" /\ thr' = [thr EXCEPT ![t] = Tpl!Idle]
      /\ UNCHANGED <<left, lesson, image, versions>>
  BY DEF Tpl!FieldsWrite, Tpl!Ends, Tpl!At, Tpl!Goes
<1>4. i \in DOMAIN tpls /\ f \in TplFields
  BY <1>1, <1>2, <1>3 DEF TplInv, TplThreads, TplTyped, TplOnRow
<1> DEFINE T == tpls[i]
           R == [c \in DOMAIN T |-> IF c \in DOMAIN f THEN f[c] ELSE T[c]]
<1>5. tpls' = IF Tpl!Stored(i) THEN [tpls EXCEPT ![i] = R] ELSE tpls
  BY <1>1, <1>2, <1>4 DEF Tpl!FieldsWrite, Tpl!Stored
<1>6. T \in TplRow
  BY <1>4, TplRowTyped
<1> HIDE DEF T
<1>7. /\ R \in TplRow /\ R.boxes = T.boxes /\ R.role = T.role /\ R.kind = T.kind
      /\ R.scripts = T.scripts /\ R.scenes = T.scenes /\ R.checks = T.checks
      /\ R.status = "published" /\ ~R.edited =>
           R.mode = T.mode /\ (f \in [status : {"published"}, edited : {FALSE}] \/ (T.status = "published" /\ ~T.edited))
  BY <1>4, <1>6, TplFieldsSet
<1> HIDE DEF R
<1>8. Tpl!OwnRoles(i, T) /\ (T.boxes # {} => image.approved)
  BY <1>4 DEF T, TplInv, TplFacts
<1>9. Tpl!OwnRoles(i, R) /\ (R.boxes # {} => image.approved)
  BY <1>7, <1>8 DEF Tpl!OwnRoles
<1>10. ASSUME TplAlone(t) PROVE TplWhole(R)
  <2>1. TplWhole(T)
    BY <1>4, <1>10 DEF T, TplAlone
  <2>2. Tpl!FitsType(R) /\ (R.boxes # {} => image.status = "normal")
    BY <1>7, <2>1 DEF TplWhole, Tpl!FitsType
  <2>3. ASSUME R.status = "published", ~R.edited PROVE Tpl!DependencyIntegrity(R)
    <3>1. CASE f \in [status : {"published"}, edited : {FALSE}]
      <4>1. Tpl!DependencyIntegrity(T)
        BY <1>1, <1>2, <1>3, <1>10, <3>1 DEF T, TplAlone, TplSees
      <4> QED
        BY <1>7, <2>3, <4>1, TplSamePasses
    <3>2. CASE T.status = "published" /\ ~T.edited
      <4>1. Tpl!DependencyIntegrity(T)
        BY <2>1, <3>2 DEF TplWhole
      <4> QED
        BY <1>7, <2>3, <4>1, TplSamePasses
    <3> QED
      BY <1>7, <2>3, <3>1, <3>2
  <2> QED
    BY <2>2, <2>3 DEF TplWhole
<1>11. CASE Tpl!Stored(i)
  BY <1>3, <1>4, <1>5, <1>7, <1>9, <1>10, <1>11, TplRowWrite
<1>12. CASE ~Tpl!Stored(i)
  BY <1>3, <1>5, <1>12, TplKept
<1> QED
  BY <1>11, <1>12

\* What is left of a row after a change of type.
LEMMA TplLeftovers ==
    ASSUME NEW T \in TplRow, NEW kind \in Tpl!Kinds
    PROVE  LET R == Tpl!WithoutLeftovers(T, kind) IN
           /\ R \in TplRow /\ R.boxes \subseteq T.boxes /\ R.role \in {T.role, None} /\ R.kind = T.kind
           /\ R.edited = T.edited
           /\ kind = "sim" => R.boxes = {} /\ ~R.scripts /\ "script" \notin R.checks
           /\ kind = "real" => ~R.scenes /\ "assert" \notin R.checks
<1>1. CASE kind = "sim"
  <2> DEFINE R == [T EXCEPT !.boxes = {}, !.scripts = FALSE, !.role = None, !.checks = @ \ {"script"}]
  <2>1. Tpl!WithoutLeftovers(T, kind) = R
    BY <1>1 DEF Tpl!WithoutLeftovers
  <2>2. R \in TplRow
    BY DEF TplRow, TplRole
  <2>3. /\ R.boxes = {} /\ ~R.scripts /\ R.role = None /\ R.checks = T.checks \ {"script"}
        /\ R.kind = T.kind /\ R.edited = T.edited
    BY DEF TplRow
  <2> HIDE DEF R
  <2> QED
    BY <1>1, <2>1, <2>2, <2>3
<1>2. CASE kind = "real"
  <2> DEFINE R == [T EXCEPT !.scenes = FALSE, !.checks = @ \ {"assert"}]
  <2>1. Tpl!WithoutLeftovers(T, kind) = R
    BY <1>2 DEF Tpl!WithoutLeftovers
  <2>2. R \in TplRow
    BY DEF TplRow
  <2>3. /\ R.boxes = T.boxes /\ ~R.scenes /\ R.role = T.role /\ R.checks = T.checks \ {"assert"}
        /\ R.kind = T.kind /\ R.edited = T.edited
    BY DEF TplRow
  <2> HIDE DEF R
  <2> QED
    BY <1>2, <2>1, <2>2, <2>3
<1>3. CASE kind = "mixed"
  <2>1. Tpl!WithoutLeftovers(T, kind) = T
    BY <1>3 DEF Tpl!WithoutLeftovers
  <2> QED
    BY <1>3, <2>1
<1> QED
  BY <1>1, <1>2, <1>3 DEF Tpl!Kinds

LEMMA TplTypeSwitchCleanup ==
    ASSUME TplInv, NEW t, Tpl!TypeSwitchCleanup(t)
    PROVE  TplInv'
<1>1. PICK i : i = thr[t].of
  OBVIOUS
<1>2. PICK kind : kind = thr[t].kind
  OBVIOUS
<1>3. /\ t \in DOMAIN thr /\ thr[t].at = "switch" /\ thr' = [thr EXCEPT ![t] = Tpl!Idle]
      /\ UNCHANGED <<left, lesson, image, versions>>
  BY DEF Tpl!TypeSwitchCleanup, Tpl!Ends, Tpl!At, Tpl!Goes
<1>4. i \in DOMAIN tpls /\ kind \in Tpl!Kinds
  BY <1>1, <1>2, <1>3 DEF TplInv, TplThreads, TplTyped, TplOnRow
<1> DEFINE retyped == [tpls[i] EXCEPT !.kind = kind, !.mode = IF kind = "sim" THEN None ELSE @, !.edited = TRUE]
           B == IF Tpl!Stored(i) THEN retyped ELSE tpls[i]
           R == Tpl!WithoutLeftovers(B, kind)
<1>5. tpls' = [tpls EXCEPT ![i] = R]
  BY <1>1, <1>2, <1>4 DEF Tpl!TypeSwitchCleanup
<1>6. tpls[i] \in TplRow
  BY <1>4, TplRowTyped
<1>7. /\ retyped \in TplRow /\ retyped.boxes = tpls[i].boxes /\ retyped.role = tpls[i].role /\ retyped.kind = kind /\ retyped.edited
  BY <1>4, <1>6 DEF TplRow
<1>8. B \in TplRow /\ B.boxes = tpls[i].boxes /\ B.role = tpls[i].role /\ (Tpl!Stored(i) => B.kind = kind /\ B.edited)
  BY <1>6, <1>7
<1> HIDE DEF retyped, B
<1>9. /\ R \in TplRow /\ R.boxes \subseteq tpls[i].boxes /\ R.role \in {tpls[i].role, None}
      /\ Tpl!Stored(i) => R.kind = kind /\ R.edited
      /\ kind = "sim" => R.boxes = {} /\ ~R.scripts /\ "script" \notin R.checks
      /\ kind = "real" => ~R.scenes /\ "assert" \notin R.checks
  BY <1>4, <1>8, TplLeftovers
<1> HIDE DEF R
<1>10. Tpl!OwnRoles(i, R) /\ (R.boxes # {} => image.approved)
  BY <1>4, <1>9 DEF TplInv, TplFacts, Tpl!OwnRoles
<1>11. ASSUME TplAlone(t) PROVE TplWhole(R)
  <2>1. Tpl!Stored(i) /\ TplWhole(tpls[i])
    BY <1>1, <1>3, <1>4, <1>11 DEF TplAlone, TplSees
  <2>2. R.boxes # {} => image.status = "normal"
    BY <1>9, <2>1 DEF TplWhole
  <2>3. Tpl!FitsType(R)
    BY <1>4, <1>9, <2>1 DEF Tpl!FitsType, Tpl!Kinds, Tpl!HasContainers, Tpl!HasScenes, Tpl!CheckTypeAllowed
  <2> QED
    BY <1>9, <2>1, <2>2, <2>3 DEF TplWhole
<1> QED
  BY <1>3, <1>4, <1>5, <1>9, <1>10, <1>11, TplRowWrite

\* The containers a write leaves behind.
LEMMA TplChanged ==
    ASSUME NEW box \in TplBox, NEW new \in TplBox, NEW old
    PROVE  Tpl!Updated(box, new, old) \in TplBox /\ Tpl!Updated(box, new, old).role \in {box.role, new.role}
<1> DEFINE Differs(c) == \E o \in old : o[c] # new[c]
           b == [c \in DOMAIN box |-> IF Differs(c) THEN new[c] ELSE box[c]]
<1> HIDE DEF Differs
<1>1. b \in TplBox /\ b.role \in {box.role, new.role}
  BY DEF TplBox
<1> QED
  BY <1>1 DEF Differs, Tpl!Updated

LEMMA TplBoxesLeft ==
    ASSUME TplInv, NEW r, r.at = "box", TplOnRow(r)
    PROVE  \A box \in Tpl!BoxesAfter(r) : /\ box \in TplBox /\ (box.role # None => box.role.of = r.of) /\ image.approved
                                          /\ r.new # {} \/ tpls[r.of].boxes # {}
<1>1. /\ r.of \in DOMAIN tpls /\ r.new \subseteq TplBox
      /\ \A box \in r.new : (box.role # None => box.role.of = r.of) /\ image.approved
  BY DEF TplOnRow
<1>2. \A box \in tpls[r.of].boxes : box \in TplBox /\ (box.role # None => box.role.of = r.of) /\ image.approved
  BY <1>1, TplOwnRole
<1>3. ASSUME NEW box \in tpls[r.of].boxes, NEW new \in r.new
      PROVE  Tpl!Updated(box, new, r.old) \in TplBox /\ Tpl!Updated(box, new, r.old).role \in {box.role, new.role}
  BY <1>1, <1>2, TplChanged
<1> QED
  BY <1>1, <1>2, <1>3 DEF Tpl!BoxesAfter

LEMMA TplBoxWrite ==
    ASSUME TplInv, NEW t, Tpl!BoxWrite(t)
    PROVE  TplInv'
<1>1. PICK r : r = thr[t]
  OBVIOUS
<1>2. PICK i : i = r.of
  OBVIOUS
<1>3. /\ t \in DOMAIN thr /\ r.at = "box" /\ thr' = [thr EXCEPT ![t] = Tpl!Idle]
      /\ UNCHANGED <<left, lesson, image, versions>>
  BY <1>1 DEF Tpl!BoxWrite, Tpl!Ends, Tpl!At, Tpl!Goes
<1>4. TplOnRow(r) /\ i \in DOMAIN tpls
  BY <1>1, <1>2, <1>3 DEF TplInv, TplThreads, TplTyped, TplOnRow
<1>15. PICK S : S = Tpl!BoxesAfter(r)
  OBVIOUS
<1>5. /\ \A box \in S : /\ box \in TplBox /\ (box.role # None => box.role.of = i) /\ image.approved
                        /\ r.new # {} \/ tpls[i].boxes # {}
      /\ tpls' = [tpls EXCEPT ![i].boxes = S, ![i].edited = TRUE] \/ tpls' = tpls
  <2>1. tpls' = [tpls EXCEPT ![i].boxes = S, ![i].edited = TRUE] \/ tpls' = tpls
    BY <1>1, <1>2, <1>15 DEF Tpl!BoxWrite
  <2> QED
    BY <1>2, <1>3, <1>4, <1>15, <2>1, TplBoxesLeft
<1> DEFINE R == [tpls[i] EXCEPT !.boxes = S, !.edited = TRUE]
<1>6. tpls[i] \in TplRow
  BY <1>4, TplRowTyped
<1>7. tpls' = [tpls EXCEPT ![i] = R] \/ tpls' = tpls
  BY <1>4, <1>5
<1>8. R \in TplRow
  <2>1. S \in SUBSET TplBox
    BY <1>5
  <2> QED
    BY <1>6, <2>1 DEF TplRow
<1>9. /\ R.boxes = S /\ R.edited /\ R.role = tpls[i].role /\ R.kind = tpls[i].kind
      /\ R.scripts = tpls[i].scripts /\ R.scenes = tpls[i].scenes /\ R.checks = tpls[i].checks
  BY <1>6 DEF TplRow
<1> HIDE DEF R
<1>10. tpls[i].role # None => tpls[i].role.of = i
  BY <1>4, TplOwnRole
<1>11. Tpl!OwnRoles(i, R) /\ (R.boxes # {} => image.approved)
  BY <1>5, <1>9, <1>10 DEF Tpl!OwnRoles
<1>12. ASSUME TplAlone(t) PROVE TplWhole(R)
  <2>1. TplWhole(tpls[i]) /\ TplSees(r)
    BY <1>1, <1>4, <1>12 DEF TplAlone
  <2>2. r.new = {} \/ (Tpl!HasContainers(tpls[i].kind) /\ image.status = "normal")
    BY <1>2, <1>3, <2>1 DEF TplSees
  <2>3. /\ ~Tpl!HasContainers(tpls[i].kind) => tpls[i].boxes = {} /\ ~tpls[i].scripts
        /\ tpls[i].boxes # {} => image.status = "normal"
    BY <2>1 DEF TplWhole, Tpl!FitsType
  <2>4. R.boxes # {} => image.status = "normal" /\ Tpl!HasContainers(tpls[i].kind)
    BY <1>5, <1>9, <2>2, <2>3
  <2>5. Tpl!FitsType(R)
    BY <1>9, <2>1, <2>4 DEF TplWhole, Tpl!FitsType
  <2> QED
    BY <1>9, <2>4, <2>5 DEF TplWhole
<1>13. CASE tpls' = [tpls EXCEPT ![i] = R]
  BY <1>3, <1>4, <1>8, <1>11, <1>12, <1>13, TplRowWrite
<1>14. CASE tpls' = tpls
  BY <1>3, <1>14, TplKept
<1> QED
  BY <1>7, <1>13, <1>14

LEMMA TplPartWrite ==
    ASSUME TplInv, NEW t, Tpl!PartWrite(t)
    PROVE  TplInv'
<1>1. PICK r : r = thr[t]
  OBVIOUS
<1>2. PICK i : i = r.of
  OBVIOUS
<1>3. /\ t \in DOMAIN thr /\ r.at = "part" /\ thr' = [thr EXCEPT ![t] = Tpl!Idle]
      /\ UNCHANGED <<left, lesson, image, versions>>
  BY <1>1 DEF Tpl!PartWrite, Tpl!Ends, Tpl!At, Tpl!Goes
<1>4. TplOnRow(r)
  BY <1>1, <1>3 DEF TplInv, TplThreads, TplTyped
<1>5. /\ i \in DOMAIN tpls
      /\ \/ r.part = "scripts" /\ r.value \in BOOLEAN
         \/ r.part = "scenes" /\ r.value \in BOOLEAN
         \/ r.part = "role" /\ r.value \in TplRole /\ (r.value # None => r.value.of = i)
  BY <1>2, <1>3, <1>4 DEF TplOnRow
<1> DEFINE R == [tpls[i] EXCEPT ![r.part] = r.value, !.edited = TRUE]
<1>6. tpls[i] \in TplRow
  BY <1>5, TplRowTyped
<1>7. tpls' = [tpls EXCEPT ![i] = R] \/ tpls' = tpls
  BY <1>1, <1>2, <1>5, Zenon DEF Tpl!PartWrite
<1>8. /\ R \in TplRow /\ R.edited /\ R.boxes = tpls[i].boxes /\ R.kind = tpls[i].kind /\ R.checks = tpls[i].checks
      /\ R.scripts = IF r.part = "scripts" THEN r.value ELSE tpls[i].scripts
      /\ R.scenes = IF r.part = "scenes" THEN r.value ELSE tpls[i].scenes
      /\ R.role = IF r.part = "role" THEN r.value ELSE tpls[i].role
  <2>1. CASE r.part = "scripts" /\ r.value \in BOOLEAN
    BY <1>6, <2>1 DEF TplRow
  <2>2. CASE r.part = "scenes" /\ r.value \in BOOLEAN
    BY <1>6, <2>2 DEF TplRow
  <2>3. CASE r.part = "role" /\ r.value \in TplRole
    BY <1>6, <2>3 DEF TplRow
  <2> QED
    BY <1>5, <2>1, <2>2, <2>3
<1> HIDE DEF R
<1>9. Tpl!OwnRoles(i, R) /\ (R.boxes # {} => image.approved)
  BY <1>5, <1>8, TplOwnRole DEF Tpl!OwnRoles
<1>10. ASSUME TplAlone(t) PROVE TplWhole(R)
  <2>1. TplWhole(tpls[i]) /\ TplSees(r)
    BY <1>1, <1>5, <1>10 DEF TplAlone
  <2>2. /\ r.part = "scripts" /\ r.value => Tpl!HasContainers(tpls[i].kind)
        /\ r.part = "scenes" /\ r.value => Tpl!HasScenes(tpls[i].kind)
    BY <1>2, <1>3, <2>1 DEF TplSees
  <2>3. Tpl!FitsType(R)
    BY <1>8, <2>1, <2>2 DEF TplWhole, Tpl!FitsType
  <2> QED
    BY <1>8, <2>1, <2>3 DEF TplWhole
<1>11. CASE tpls' = [tpls EXCEPT ![i] = R]
  BY <1>3, <1>5, <1>8, <1>9, <1>10, <1>11, TplRowWrite
<1>12. CASE tpls' = tpls
  BY <1>3, <1>12, TplKept
<1> QED
  BY <1>7, <1>11, <1>12

LEMMA TplCheckWrite ==
    ASSUME TplInv, NEW t, Tpl!CheckWrite(t)
    PROVE  TplInv'
<1>1. PICK r : r = thr[t]
  OBVIOUS
<1>2. PICK i : i = r.of
  OBVIOUS
<1>3. /\ t \in DOMAIN thr /\ r.at = "check" /\ thr' = [thr EXCEPT ![t] = Tpl!Idle]
      /\ UNCHANGED <<left, lesson, image, versions>>
  BY <1>1 DEF Tpl!CheckWrite, Tpl!Ends, Tpl!At, Tpl!Goes
<1>4. i \in DOMAIN tpls /\ r.new \subseteq Tpl!CheckTypes
  BY <1>1, <1>2, <1>3 DEF TplInv, TplThreads, TplTyped, TplOnRow
<1> DEFINE R == [tpls[i] EXCEPT !.checks = (@ \ r.old) \union r.new, !.edited = TRUE]
<1>5. tpls[i] \in TplRow
  BY <1>4, TplRowTyped
<1>6. tpls' = [tpls EXCEPT ![i] = R] \/ tpls' = tpls
  BY <1>1, <1>2, <1>4, Zenon DEF Tpl!CheckWrite
<1>7. /\ R \in TplRow /\ R.edited /\ R.boxes = tpls[i].boxes /\ R.kind = tpls[i].kind /\ R.role = tpls[i].role
      /\ R.scripts = tpls[i].scripts /\ R.scenes = tpls[i].scenes
      /\ R.checks \subseteq tpls[i].checks \union r.new
  BY <1>4, <1>5 DEF TplRow
<1> HIDE DEF R
<1>8. Tpl!OwnRoles(i, R) /\ (R.boxes # {} => image.approved)
  BY <1>4, <1>7, TplOwnRole DEF Tpl!OwnRoles
<1>9. ASSUME TplAlone(t) PROVE TplWhole(R)
  <2>1. TplWhole(tpls[i]) /\ TplSees(r)
    BY <1>1, <1>4, <1>9 DEF TplAlone
  <2>2. \A type \in r.new : Tpl!CheckTypeAllowed(tpls[i].kind, type)
    BY <1>2, <1>3, <2>1 DEF TplSees
  <2>3. Tpl!FitsType(R)
    BY <1>7, <2>1, <2>2 DEF TplWhole, Tpl!FitsType
  <2> QED
    BY <1>7, <2>1, <2>3 DEF TplWhole
<1>10. CASE tpls' = [tpls EXCEPT ![i] = R]
  BY <1>3, <1>4, <1>7, <1>8, <1>9, <1>10, TplRowWrite
<1>11. CASE tpls' = tpls
  BY <1>3, <1>11, TplKept
<1> QED
  BY <1>6, <1>10, <1>11

\* A request that is over at once.
LEMMA TplAtOnce ==
    ASSUME TplInv, NEW t, Tpl!AtOnce(t)
    PROVE  t \in DOMAIN thr /\ thr' = [thr EXCEPT ![t] = Tpl!Idle] /\ left' \in Nat
<1>1. t \in DOMAIN thr /\ thr[t] = Tpl!Idle /\ thr' = thr /\ left > 0 /\ left' = left - 1
  BY DEF Tpl!AtOnce, Tpl!Free
<1>2. thr = [u \in DOMAIN thr |-> thr[u]] /\ left \in Nat
  BY DEF TplInv, TplThreads, TplFacts
<1>3. thr = [thr EXCEPT ![t] = thr[t]]
  BY <1>2
<1> QED
  BY <1>1, <1>2, <1>3

\* A template is added.
LEMMA TplAppends ==
    ASSUME TplInv, NEW t \in DOMAIN thr, thr' = [thr EXCEPT ![t] = Tpl!Idle], left' \in Nat, UNCHANGED <<lesson, image, versions>>,
           NEW R \in TplRow, tpls' = Append(tpls, R), Tpl!OwnRoles(Len(tpls) + 1, R), R.boxes # {} => image.approved,
           TplAlone(t) => TplWhole(R)
    PROVE  TplInv'
<1>1. /\ DOMAIN thr' = DOMAIN thr /\ thr'[t] = Tpl!Idle
      /\ Cardinality(Defaulting') \in Nat /\ Cardinality(Defaulting') <= Cardinality(Defaulting)
  BY TplIdle, TplMoves
<1>2. /\ tpls' \in TplRows /\ DOMAIN tpls' = DOMAIN tpls \union {Len(tpls) + 1} /\ tpls'[Len(tpls) + 1] = R
      /\ \A k \in DOMAIN tpls : tpls'[k] = tpls[k]
  <2>1. tpls \in Seq(TplRow)
    BY DEF TplInv, TplFacts, TplRows
  <2> QED
    BY <2>1 DEF TplRows
<1>3. TplFacts'
  <2>1. \A k \in DOMAIN tpls' : Tpl!OwnRoles(k, tpls'[k]) /\ (tpls'[k].boxes # {} => image.approved)
    BY <1>2 DEF TplInv, TplFacts
  <2>2. \A k \in DOMAIN tpls' : Tpl!OwnRoles(k, tpls[k])' <=> Tpl!OwnRoles(k, tpls'[k])
    BY DEF Tpl!OwnRoles
  <2> QED
    BY <1>2, <2>1, <2>2 DEF TplInv, TplFacts
<1>4. TplThreads'
  BY <1>2, TplIdle, TplThreadsStay
<1>5. TplBounds'
  <2>1. Defaults' = Defaults
    BY DEF Defaults
  <2> QED
    BY <1>1, <2>1, TplCounts DEF TplInv, TplBounds
<1>6. ASSUME NEW u, DOMAIN thr' = {u} PROVE TplAlone(u)'
  <2>1. u = t /\ DOMAIN thr = {t}
    BY <1>1, <1>6
  <2>2. TplAlone(t)
    BY <2>1 DEF TplInv
  <2>3. \A k \in DOMAIN tpls' : TplWhole(tpls'[k])
    BY <1>2, <2>2 DEF TplAlone
  <2>4. \A k \in DOMAIN tpls' : TplWhole(tpls'[k]) => TplWhole(tpls[k])'
    BY DEF TplWhole, Tpl!FitsType, Tpl!DependencyIntegrity, Tpl!BothScopes, Tpl!UsableVersion
  <2> QED
    BY <1>1, <2>1, <2>3, <2>4, TplIdle DEF TplAlone
<1> QED
  BY <1>3, <1>4, <1>5, <1>6 DEF TplInv

LEMMA TplCreate ==
    ASSUME TplInv, NEW t, NEW kind \in Tpl!Kinds, NEW mode \in Tpl!Modes, Tpl!Create(t, kind, mode)
    PROVE  TplInv'
<1> DEFINE R == Tpl!NewTemplate(kind, mode)
<1>1. /\ t \in DOMAIN thr /\ thr' = [thr EXCEPT ![t] = Tpl!Idle] /\ left' \in Nat
      /\ UNCHANGED <<lesson, image, versions>> /\ tpls' = Append(tpls, R)
  BY TplAtOnce DEF Tpl!Create
<1>2. R \in TplRow
  BY DEF TplRow, TplRole, Tpl!NewTemplate
<1>3. R.boxes = {} /\ R.checks = {} /\ ~R.scripts /\ ~R.scenes /\ R.status = "draft" /\ R.role = None
  BY DEF Tpl!NewTemplate
<1> HIDE DEF R
<1>4. Tpl!OwnRoles(Len(tpls) + 1, R) /\ TplWhole(R)
  BY <1>3 DEF Tpl!OwnRoles, TplWhole, Tpl!FitsType
<1> QED
  BY <1>1, <1>2, <1>3, <1>4, TplAppends

LEMMA TplCloneWrite ==
    ASSUME TplInv, NEW t, Tpl!CloneWrite(t)
    PROVE  TplInv'
<1>1. PICK r : r = thr[t]
  OBVIOUS
<1>2. PICK T : T = r.source
  OBVIOUS
<1>3. /\ t \in DOMAIN thr /\ r.at = "clone" /\ thr' = [thr EXCEPT ![t] = Tpl!Idle] /\ left' \in Nat
      /\ UNCHANGED <<left, lesson, image, versions>>
  BY <1>1 DEF Tpl!CloneWrite, Tpl!Ends, Tpl!At, Tpl!Goes, TplInv, TplFacts
<1>4. T \in TplRow /\ r.id \in Nat /\ (T.boxes # {} => image.approved)
  BY <1>1, <1>2, <1>3 DEF TplInv, TplThreads, TplTyped, TplOnRow
<1>5. PICK n : n = Len(tpls) + 1 /\ n \in Nat
  BY TplRowTyped
<1>6. PICK role : role = IF T.role = None THEN None ELSE [of |-> n, id |-> r.id]
  OBVIOUS
<1>7. role \in TplRole /\ (role # None => role.of = n)
  BY <1>4, <1>5, <1>6 DEF TplRole
<1> DEFINE copy(box) == [box EXCEPT !.scope = "instance", !.role = Tpl!ClonedRole(@, T.role, role)]
           S == {copy(box) : box \in T.boxes}
           R == [T EXCEPT !.status = "draft", !.shared = FALSE, !.edited = FALSE, !.role = role, !.boxes = S]
<1>8. tpls' = Append(tpls, R) \/ tpls' = tpls
  BY <1>1, <1>2, <1>5, <1>6 DEF Tpl!CloneWrite
<1>9. ASSUME NEW box \in T.boxes PROVE copy(box) \in TplBox /\ copy(box).role \in {role, None}
  <2>1. box \in TplBox
    BY <1>4 DEF TplRow
  <2>2. Tpl!ClonedRole(box.role, T.role, role) \in {role, None}
    BY DEF Tpl!ClonedRole
  <2>3. None \in TplRole
    BY DEF TplRole
  <2> QED
    BY <1>7, <2>1, <2>2, <2>3 DEF TplBox
<1> HIDE DEF copy
<1>10. \A box \in S : box \in TplBox /\ (box.role # None => box.role.of = n)
  BY <1>7, <1>9
<1>11. S # {} => T.boxes # {}
  OBVIOUS
<1> HIDE DEF S
<1>12. R \in TplRow
  <2>1. S \in SUBSET TplBox
    BY <1>10
  <2> QED
    BY <1>4, <1>7, <2>1 DEF TplRow
<1>13. /\ R.status = "draft" /\ R.role = role /\ R.boxes = S /\ R.kind = T.kind
       /\ R.scripts = T.scripts /\ R.scenes = T.scenes /\ R.checks = T.checks
  BY <1>4 DEF TplRow
<1> HIDE DEF R
<1>14. Tpl!OwnRoles(n, R) /\ (R.boxes # {} => image.approved)
  BY <1>4, <1>7, <1>10, <1>11, <1>13 DEF Tpl!OwnRoles
<1>15. ASSUME TplAlone(t) PROVE TplWhole(R)
  <2>1. Tpl!FitsType(T) /\ (T.boxes # {} => image.status = "normal")
    BY <1>1, <1>2, <1>3, <1>15 DEF TplAlone, TplSees
  <2>2. Tpl!FitsType(R)
    BY <1>11, <1>13, <2>1 DEF Tpl!FitsType
  <2> QED
    BY <1>11, <1>13, <2>1, <2>2 DEF TplWhole
<1>16. CASE tpls' = Append(tpls, R)
  BY <1>3, <1>5, <1>12, <1>14, <1>15, <1>16, TplAppends
<1>17. CASE tpls' = tpls
  BY <1>3, <1>17, TplKept
<1> QED
  BY <1>8, <1>16, <1>17

\* The image and its versions.
LEMMA TplStaysWhole ==
    ASSUME NEW T, TplWhole(T),
           T.boxes # {} => /\ image.status = "normal" => image'.status = "normal"
                           /\ \A box \in T.boxes : box.ver \in DOMAIN versions => box.ver \in DOMAIN versions'
    PROVE  TplWhole(T)'
<1>1. Tpl!FitsType(T)'
  BY DEF TplWhole, Tpl!FitsType
<1>2. T.boxes # {} => image'.status = "normal"
  BY DEF TplWhole
<1>3. ASSUME T.status = "published", ~T.edited PROVE Tpl!DependencyIntegrity(T)'
  BY <1>3 DEF TplWhole, Tpl!DependencyIntegrity, Tpl!BothScopes, Tpl!UsableVersion
<1> QED
  BY <1>1, <1>2, <1>3 DEF TplWhole

LEMMA TplImageMoves ==
    ASSUME TplInv, NEW t \in DOMAIN thr, NEW r, thr' = [thr EXCEPT ![t] = r], left' \in Nat, UNCHANGED <<tpls, lesson>>,
           image' \in [status : {"none", "pending", "normal", "rejected", "off"}, approved : BOOLEAN, listed : BOOLEAN],
           image'.status = "normal" => image'.approved, image.approved => image'.approved, image'.status # "none",
           versions' \in [DOMAIN versions' -> BOOLEAN], DOMAIN versions' \subseteq Versions,
           TplTyped(r)', TplBounds', r.at \in {"idle", "insert", "default"},
           TplAlone(t) => \A i \in DOMAIN tpls : tpls[i].boxes # {} =>
                            /\ image.status = "normal" => image'.status = "normal"
                            /\ \A box \in tpls[i].boxes : box.ver \in DOMAIN versions => box.ver \in DOMAIN versions'
    PROVE  TplInv'
<1>1. DOMAIN thr' = DOMAIN thr /\ thr'[t] = r
  BY TplMoves
<1>2. TplFacts'
  BY DEF TplInv, TplFacts, Tpl!OwnRoles
<1>3. TplThreads'
  BY TplThreadsStay
<1>4. ASSUME NEW u, DOMAIN thr' = {u} PROVE TplAlone(u)'
  <2>1. u = t /\ DOMAIN thr = {t}
    BY <1>1, <1>4
  <2>2. TplAlone(t)
    BY <2>1 DEF TplInv
  <2>3. TplSees(r)'
    BY DEF TplSees
  <2>4. ASSUME NEW i \in DOMAIN tpls PROVE TplWhole(tpls[i])'
    <3>1. PICK T : T = tpls[i]
      OBVIOUS
    <3>2. TplWhole(T)
      BY <2>2, <3>1 DEF TplAlone
    <3>3. TplWhole(T)'
      BY <2>2, <3>1, <3>2, TplStaysWhole
    <3> QED
      BY <3>1, <3>3 DEF TplWhole, Tpl!FitsType, Tpl!DependencyIntegrity, Tpl!BothScopes, Tpl!UsableVersion
  <2> QED
    BY <1>1, <2>1, <2>3, <2>4 DEF TplAlone
<1> QED
  BY <1>2, <1>3, <1>4 DEF TplInv

LEMMA TplImageTyped ==
    ASSUME TplInv
    PROVE  /\ image \in [status : {"none", "pending", "normal", "rejected", "off"}, approved : BOOLEAN, listed : BOOLEAN]
           /\ image.status = "normal" => image.approved
           /\ image.status = "none" => ~image.approved /\ DOMAIN versions = {} /\ Defaulting = {}
           /\ versions \in [DOMAIN versions -> BOOLEAN] /\ DOMAIN versions \subseteq Versions
           /\ \A i \in DOMAIN tpls : tpls[i].boxes # {} => image.approved
<1>1. image.status = "none" => Defaulting = {}
  BY DEF TplInv, TplThreads, TplTyped, TplOnImage, Defaulting
<1> QED
  BY <1>1 DEF TplInv, TplFacts

LEMMA TplImageWrite ==
    ASSUME TplInv, NEW t, Tpl!ImageWrite(t)
    PROVE  TplInv'
<1>1. PICK to : to = thr[t].to
  OBVIOUS
<1>2. /\ t \in DOMAIN thr /\ thr[t].at = "image" /\ thr' = [thr EXCEPT ![t] = Tpl!Idle] /\ left' \in Nat
      /\ UNCHANGED <<tpls, lesson, versions>>
      /\ image' = [image EXCEPT !.status = to, !.approved = @ \/ to = "normal"]
  BY <1>1 DEF Tpl!ImageWrite, Tpl!Ends, Tpl!At, Tpl!Goes, TplInv, TplFacts
<1>3. to \in {"normal", "rejected", "off"}
  BY <1>1, <1>2 DEF TplInv, TplThreads, TplTyped, TplOnImage
<1>4. /\ image' \in [status : {"none", "pending", "normal", "rejected", "off"}, approved : BOOLEAN, listed : BOOLEAN]
      /\ image'.status = to /\ image'.approved = (image.approved \/ to = "normal") /\ image'.listed = image.listed
  BY <1>2, <1>3, TplImageTyped
<1>5. TplTyped(Tpl!Idle)' /\ Tpl!Idle.at = "idle"
  BY TplIdle
<1>6. Cardinality(Defaulting') \in Nat /\ Cardinality(Defaulting') <= Cardinality(Defaulting) /\ DOMAIN thr' = DOMAIN thr
  BY <1>2, <1>5, TplMoves
<1>7. TplBounds'
  <2>1. Defaults' = Defaults
    BY <1>2 DEF Defaults
  <2> QED
    BY <1>4, <1>6, <2>1, TplCounts DEF TplInv, TplBounds
<1>8. TplAlone(t) => \A i \in DOMAIN tpls : tpls[i].boxes = {}
  BY <1>2 DEF TplAlone, TplSees
<1>9. versions' \in [DOMAIN versions' -> BOOLEAN] /\ DOMAIN versions' \subseteq Versions
  BY <1>2, TplImageTyped
<1> QED
  BY <1>2, <1>3, <1>4, <1>5, <1>7, <1>8, <1>9, TplImageMoves

\* A step on the versions: the image stays.
LEMMA TplVersionsMove ==
    ASSUME TplInv, NEW t \in DOMAIN thr, NEW r, thr' = [thr EXCEPT ![t] = r], left' \in Nat, UNCHANGED <<tpls, lesson, image>>,
           image.status # "none", versions' \in [DOMAIN versions' -> BOOLEAN], DOMAIN versions' \subseteq Versions,
           TplTyped(r), TplBounds', r.at \in {"idle", "insert", "default"},
           \A v \in DOMAIN versions \ DOMAIN versions' : ~Tpl!InUse(v)
    PROVE  TplInv'
<1>1. TplTyped(r)'
  BY TplTypedStays
<1>2. ASSUME NEW i \in DOMAIN tpls, NEW box \in tpls[i].boxes, box.ver \in DOMAIN versions PROVE box.ver \in DOMAIN versions'
  <2>1. Tpl!InUse(box.ver)
    BY DEF Tpl!InUse, Tpl!Boxes
  <2> QED
    BY <1>2, <2>1
<1> QED
  BY <1>1, <1>2, TplImageTyped, TplImageMoves

LEMMA TplClearDefault ==
    ASSUME TplInv, NEW t, Tpl!ClearDefault(t)
    PROVE  TplInv'
<1>1. PICK o : o = thr[t]
  OBVIOUS
<1>2. PICK r : r = [o EXCEPT !.at = o.then]
  OBVIOUS
<1>3. /\ t \in DOMAIN thr /\ o.at = "clear" /\ thr' = [thr EXCEPT ![t] = r] /\ left' \in Nat
      /\ UNCHANGED <<tpls, lesson, image>> /\ versions' = [v \in DOMAIN versions |-> FALSE]
  BY <1>1, <1>2 DEF Tpl!ClearDefault, Tpl!At, Tpl!Goes, TplInv, TplFacts
<1>4. TplOnImage(o)
  BY <1>1, <1>3 DEF TplInv, TplThreads, TplTyped
<1>5. /\ image.status # "none" /\ o.ver \in Versions
      /\ o \in [at : {"clear"}, ver : Versions, then : {"insert"}, default : BOOLEAN]
               \union [at : {"clear"}, ver : Versions, then : {"default"}]
  BY <1>3, <1>4 DEF TplOnImage
<1>6. r.at \in {"insert", "default"} /\ r.ver \in Versions /\ (r.at = "insert" => r.default \in BOOLEAN)
  <2>1. CASE o \in [at : {"clear"}, ver : Versions, then : {"insert"}, default : BOOLEAN]
    BY <1>2, <2>1
  <2>2. CASE o \in [at : {"clear"}, ver : Versions, then : {"default"}]
    BY <1>2, <2>2
  <2> QED
    BY <1>5, <2>1, <2>2
<1>7. TplTyped(r)
  BY <1>5, <1>6 DEF TplTyped, TplOnRow, TplOnImage
<1>8. TplBounds'
  <2>1. Defaults' = {}
    BY <1>3 DEF Defaults
  <2>2. Cardinality(Defaults') = 0
    BY <2>1, FS_EmptySet
  <2>3. Cardinality(Defaulting') \in Nat /\ Cardinality(Defaulting') <= Cardinality(DOMAIN thr) /\ DOMAIN thr' = DOMAIN thr
    BY <1>3, TplMoves
  <2> QED
    BY <2>2, <2>3, TplCounts DEF TplBounds
<1>9. versions' \in [DOMAIN versions' -> BOOLEAN] /\ DOMAIN versions' = DOMAIN versions /\ DOMAIN versions' \subseteq Versions
  BY <1>3, TplImageTyped
<1> QED
  BY <1>3, <1>5, <1>6, <1>7, <1>8, <1>9, TplVersionsMove

\* The version a request makes the default, or not, when it ends.
LEMMA TplVersionWrite ==
    ASSUME TplInv, NEW t, NEW v \in Versions, t \in DOMAIN thr, thr' = [thr EXCEPT ![t] = Tpl!Idle], UNCHANGED <<left, tpls, lesson, image>>,
           image.status # "none", versions' \in [DOMAIN versions' -> BOOLEAN], DOMAIN versions \subseteq DOMAIN versions',
           DOMAIN versions' \subseteq Versions,
           Defaults' \subseteq Defaults \/ (t \in Defaulting /\ Defaults' \subseteq Defaults \union {v})
    PROVE  TplInv'
<1>1. TplTyped(Tpl!Idle) /\ Tpl!Idle.at = "idle"
  BY TplIdle
<1>2. /\ Cardinality(Defaulting') \in Nat /\ Cardinality(Defaulting') <= Cardinality(Defaulting) /\ DOMAIN thr' = DOMAIN thr
      /\ t \in Defaulting => Cardinality(Defaulting') <= Cardinality(Defaulting) - 1
  BY <1>1, TplMoves
<1>3. IsFiniteSet(Defaults)
  BY TplCounts
<1>4. Defaults' \subseteq Defaults \union {v}
  OBVIOUS
<1>5. /\ Cardinality(Defaults') \in Nat /\ Cardinality(Defaults') <= Cardinality(Defaults) + 1
      /\ Defaults' \subseteq Defaults => Cardinality(Defaults') <= Cardinality(Defaults)
  BY <1>3, <1>4, OneMore
<1>6. TplBounds'
  BY <1>2, <1>5, TplCounts DEF TplInv, TplBounds
<1>7. left' \in Nat
  BY DEF TplInv, TplFacts
<1> QED
  BY <1>1, <1>6, <1>7, TplVersionsMove

LEMMA TplInsertVersion ==
    ASSUME TplInv, NEW t, Tpl!InsertVersion(t)
    PROVE  TplInv'
<1>1. PICK v : v = thr[t].ver
  OBVIOUS
<1>2. PICK d : d = thr[t].default
  OBVIOUS
<1>3. /\ t \in DOMAIN thr /\ thr[t].at = "insert" /\ thr' = [thr EXCEPT ![t] = Tpl!Idle] /\ UNCHANGED <<left, tpls, lesson, image>>
      /\ versions' = IF v \in DOMAIN versions THEN versions
                     ELSE [w \in DOMAIN versions \union {v} |-> IF w = v THEN d ELSE versions[w]]
  BY <1>1, <1>2 DEF Tpl!InsertVersion, Tpl!Ends, Tpl!At, Tpl!Goes
<1>4. image.status # "none" /\ v \in Versions /\ d \in BOOLEAN
  BY <1>1, <1>2, <1>3 DEF TplInv, TplThreads, TplTyped, TplOnImage
<1>5. d => t \in Defaulting
  BY <1>2, <1>3 DEF Defaulting
<1>6. CASE v \in DOMAIN versions
  <2>1. Defaults' = Defaults /\ versions' = versions
    BY <1>3, <1>6 DEF Defaults
  <2> QED
    BY <1>3, <1>4, <2>1, TplImageTyped, TplVersionWrite
<1>7. CASE v \notin DOMAIN versions
  <2>1. /\ DOMAIN versions' = DOMAIN versions \union {v} /\ versions'[v] = d
        /\ \A w \in DOMAIN versions : versions'[w] = versions[w]
    BY <1>3, <1>7
  <2>2. versions' \in [DOMAIN versions' -> BOOLEAN]
    BY <1>3, <1>4, <1>7, TplImageTyped
  <2>3. Defaults' \subseteq Defaults \union {v} /\ (~d => Defaults' \subseteq Defaults)
    BY <2>1 DEF Defaults
  <2>4. DOMAIN versions' \subseteq Versions
    BY <1>4, <2>1, TplImageTyped
  <2>5. Defaults' \subseteq Defaults \/ (t \in Defaulting /\ Defaults' \subseteq Defaults \union {v})
    BY <1>5, <2>3
  <2> QED
    BY <1>3, <1>4, <2>1, <2>2, <2>4, <2>5, TplVersionWrite
<1> QED
  BY <1>6, <1>7

LEMMA TplSetDefault ==
    ASSUME TplInv, NEW t, Tpl!SetDefault(t)
    PROVE  TplInv'
<1>1. PICK v : v = thr[t].ver
  OBVIOUS
<1>2. /\ t \in DOMAIN thr /\ thr[t].at = "default" /\ thr' = [thr EXCEPT ![t] = Tpl!Idle] /\ UNCHANGED <<left, tpls, lesson, image>>
      /\ versions' = [w \in DOMAIN versions |-> w = v \/ versions[w]]
  BY <1>1 DEF Tpl!SetDefault, Tpl!Ends, Tpl!At, Tpl!Goes
<1>3. image.status # "none" /\ v \in Versions
  BY <1>1, <1>2 DEF TplInv, TplThreads, TplTyped, TplOnImage
<1>4. t \in Defaulting
  BY <1>2 DEF Defaulting
<1>5. DOMAIN versions' = DOMAIN versions
  BY <1>2
<1>6. versions' \in [DOMAIN versions' -> BOOLEAN] /\ DOMAIN versions' \subseteq Versions
  BY <1>2, <1>5, TplImageTyped
<1>7. Defaults' \subseteq Defaults \union {v}
  BY <1>2 DEF Defaults
<1> QED
  BY <1>2, <1>3, <1>4, <1>5, <1>6, <1>7, TplVersionWrite

LEMMA TplDeleteVersionWrite ==
    ASSUME TplInv, NEW t, Tpl!DeleteVersionWrite(t)
    PROVE  TplInv'
<1>1. PICK v : v = thr[t].ver
  OBVIOUS
<1>2. /\ t \in DOMAIN thr /\ thr' = [thr EXCEPT ![t] = Tpl!Idle] /\ UNCHANGED <<left, tpls, lesson, image>>
      /\ versions' = IF Tpl!InUse(v) THEN versions ELSE [w \in DOMAIN versions \ {v} |-> versions[w]]
  BY <1>1 DEF Tpl!DeleteVersionWrite, Tpl!Ends, Tpl!At, Tpl!Goes
<1>3. CASE versions' = versions
  BY <1>2, <1>3, TplKept
<1>4. CASE versions' # versions
  <2>1. ~Tpl!InUse(v) /\ versions' = [w \in DOMAIN versions \ {v} |-> versions[w]]
    BY <1>2, <1>4
  <2>2. v \in DOMAIN versions
    <3>1. versions = [w \in DOMAIN versions |-> versions[w]]
      BY TplImageTyped
    <3>2. v \notin DOMAIN versions => DOMAIN versions \ {v} = DOMAIN versions
      OBVIOUS
    <3> QED
      BY <1>4, <2>1, <3>1, <3>2
  <2>3. image.status # "none"
    BY <2>2, TplImageTyped
  <2>4. DOMAIN versions' = DOMAIN versions \ {v} /\ versions' \in [DOMAIN versions' -> BOOLEAN] /\ DOMAIN versions' \subseteq Versions
    BY <2>1, TplImageTyped
  <2>5. TplTyped(Tpl!Idle) /\ Tpl!Idle.at = "idle" /\ left' \in Nat
    BY <1>2, TplIdle DEF TplInv, TplFacts
  <2>6. TplBounds'
    <3>1. /\ Cardinality(Defaulting') \in Nat /\ Cardinality(Defaulting') <= Cardinality(Defaulting) /\ DOMAIN thr' = DOMAIN thr
      BY <1>2, <2>5, TplMoves
    <3>2. Defaults' \subseteq Defaults
      BY <2>1 DEF Defaults
    <3>3. Cardinality(Defaults') \in Nat /\ Cardinality(Defaults') <= Cardinality(Defaults)
      BY <3>2, TplCounts, FS_Subset, FS_CardinalityType
    <3> QED
      BY <1>2, <3>1, <3>3, TplCounts DEF TplInv, TplBounds
  <2>7. \A w \in DOMAIN versions \ DOMAIN versions' : ~Tpl!InUse(w)
    BY <2>1, <2>4
  <2> QED
    BY <1>2, <2>3, <2>4, <2>5, <2>6, <2>7, TplVersionsMove
<1> QED
  BY <1>3, <1>4

LEMMA TplCreateImage ==
    ASSUME TplInv, NEW t, NEW admin \in BOOLEAN, NEW list \in SUBSET Versions, NEW defaults \in SUBSET list,
           Tpl!CreateImage(t, admin, list, defaults)
    PROVE  TplInv'
<1>1. /\ t \in DOMAIN thr /\ thr' = [thr EXCEPT ![t] = Tpl!Idle] /\ left' \in Nat /\ UNCHANGED <<tpls, lesson>>
      /\ image.status = "none"
      /\ image' = [status |-> IF admin THEN "normal" ELSE "pending", approved |-> admin,
                   listed |-> Tpl!Cardinality(defaults) > 1]
      /\ versions' = [v \in list |-> v \in defaults]
  BY TplAtOnce DEF Tpl!CreateImage
<1>2. TplTyped(Tpl!Idle)' /\ Tpl!Idle.at = "idle"
  BY TplIdle
<1>3. ~image.approved /\ Defaulting = {} /\ \A i \in DOMAIN tpls : tpls[i].boxes = {}
  BY <1>1, TplImageTyped
<1>4. IsFiniteSet(defaults) /\ Cardinality(defaults) \in Nat
  <2>1. defaults \subseteq Versions
    OBVIOUS
  <2> QED
    BY <2>1, TemplateAssumption, FS_Subset, FS_CardinalityType
<1>5. /\ image' \in [status : {"none", "pending", "normal", "rejected", "off"}, approved : BOOLEAN, listed : BOOLEAN]
      /\ image'.status # "none" /\ (image'.status = "normal" => image'.approved)
      /\ image'.listed = (Cardinality(defaults) > 1)
  BY <1>1, <1>4, SameCardinality
<1>6. versions' \in [DOMAIN versions' -> BOOLEAN] /\ DOMAIN versions' \subseteq Versions
  BY <1>1
<1>7. TplBounds'
  <2>1. Defaults' = defaults
    BY <1>1 DEF Defaults
  <2>2. Cardinality(Defaulting') <= Cardinality(Defaulting) /\ Cardinality(Defaulting') \in Nat /\ DOMAIN thr' = DOMAIN thr
    BY <1>1, <1>2, TplMoves
  <2>3. Cardinality(Defaulting) = 0
    BY <1>3, FS_EmptySet
  <2> QED
    BY <1>4, <1>5, <2>1, <2>2, <2>3, TplCounts DEF TplBounds
<1> QED
  BY <1>1, <1>2, <1>3, <1>5, <1>6, <1>7, TplImageMoves

LEMMA TplSyncImage ==
    ASSUME TplInv, NEW t, NEW list \in SUBSET Versions, NEW defaults \in SUBSET list,
           Tpl!SyncImageFromManifest(t, list, defaults)
    PROVE  TplInv'
<1>1. /\ t \in DOMAIN thr /\ thr' = [thr EXCEPT ![t] = Tpl!Idle] /\ left' \in Nat /\ UNCHANGED <<tpls, lesson>>
      /\ image' = IF image.status = "none" THEN [status |-> "normal", approved |-> TRUE, listed |-> TRUE]
                  ELSE [image EXCEPT !.listed = TRUE]
      /\ versions' = [v \in DOMAIN versions \union list |-> IF v \in list THEN v \in defaults ELSE versions[v]]
  BY TplAtOnce DEF Tpl!SyncImageFromManifest
<1>2. TplTyped(Tpl!Idle)' /\ Tpl!Idle.at = "idle"
  BY TplIdle
<1>3. /\ image' \in [status : {"none", "pending", "normal", "rejected", "off"}, approved : BOOLEAN, listed : BOOLEAN]
      /\ image'.listed /\ image'.status # "none" /\ (image'.status = "normal" => image'.approved)
      /\ (image.approved => image'.approved) /\ (image.status = "normal" => image'.status = "normal")
  BY <1>1, TplImageTyped
<1>4. DOMAIN versions' = DOMAIN versions \union list
  BY <1>1
<1>5. versions' \in [DOMAIN versions' -> BOOLEAN] /\ DOMAIN versions' \subseteq Versions
  <2>1. \A v \in DOMAIN versions : versions[v] \in BOOLEAN
    BY TplImageTyped
  <2>2. \A v \in DOMAIN versions \union list : (IF v \in list THEN v \in defaults ELSE versions[v]) \in BOOLEAN
    <3>1. \A v : (v \in defaults) \in BOOLEAN
      OBVIOUS
    <3> QED
      BY <2>1, <3>1, Zenon
  <2>3. versions' \in [DOMAIN versions \union list -> BOOLEAN]
    BY <1>1, <2>2, Zenon
  <2> QED
    BY <1>4, <2>3, TplImageTyped
<1>6. TplBounds'
  BY <1>3 DEF TplBounds
<1> QED
  BY <1>1, <1>2, <1>3, <1>4, <1>5, <1>6, TplImageMoves

LEMMA TplSetLesson ==
    ASSUME TplInv, NEW t, NEW i, Tpl!SetLesson(t, i)
    PROVE  TplInv'
<1>1. /\ t \in DOMAIN thr /\ thr' = [thr EXCEPT ![t] = Tpl!Idle] /\ left' \in Nat /\ UNCHANGED <<tpls, image, versions>>
      /\ lesson' \in DOMAIN tpls \union {None}
  BY TplAtOnce DEF Tpl!SetLesson
<1>2. /\ DOMAIN thr' = DOMAIN thr /\ thr'[t] = Tpl!Idle
      /\ Cardinality(Defaulting') \in Nat /\ Cardinality(Defaulting') <= Cardinality(Defaulting)
  BY <1>1, TplIdle, TplMoves
<1>3. TplFacts'
  BY <1>1 DEF TplInv, TplFacts, Tpl!OwnRoles
<1>4. TplThreads'
  BY <1>1, TplIdle, TplThreadsStay
<1>5. TplBounds'
  <2>1. Defaults' = Defaults
    BY <1>1 DEF Defaults
  <2> QED
    BY <1>1, <1>2, <2>1, TplCounts DEF TplInv, TplBounds
<1>6. ASSUME NEW u, DOMAIN thr' = {u} PROVE TplAlone(u)'
  <2>1. u = t /\ DOMAIN thr = {t}
    BY <1>1, <1>2, <1>6
  <2>2. TplAlone(t)
    BY <2>1 DEF TplInv
  <2>3. ASSUME NEW k \in DOMAIN tpls PROVE TplWhole(tpls[k])'
    <3>1. TplWhole(tpls[k])
      BY <2>2 DEF TplAlone
    <3> QED
      BY <1>1, <3>1 DEF TplWhole, Tpl!DependencyIntegrity, Tpl!BothScopes, Tpl!UsableVersion, Tpl!FitsType
  <2> QED
    BY <1>1, <1>2, <2>1, <2>3, TplIdle DEF TplAlone
<1> QED
  BY <1>3, <1>4, <1>5, <1>6 DEF TplInv

LEMMA TplStays == TplInv /\ UNCHANGED <<thr, left, tplVars>> => TplInv'
<1> SUFFICES ASSUME TplInv, UNCHANGED <<thr, left, tplVars>> PROVE TplInv'
  OBVIOUS
<1>1. UNCHANGED <<tpls, lesson, image, versions>>
  BY DEF tplVars
<1>2. TplFacts'
  BY <1>1 DEF TplInv, TplFacts, Tpl!OwnRoles
<1>3. TplThreads'
  BY <1>1 DEF TplInv, TplThreads, TplTyped, TplOnRow, TplOnImage
<1>4. TplBounds'
  <2>1. Defaults' = Defaults /\ Defaulting' = Defaulting
    BY <1>1 DEF Defaults, Defaulting
  <2> QED
    BY <1>1, <2>1 DEF TplInv, TplBounds
<1>5. ASSUME NEW u, DOMAIN thr' = {u} PROVE TplAlone(u)'
  <2>1. TplAlone(u)
    BY <1>5 DEF TplInv
  <2>2. ASSUME NEW k \in DOMAIN tpls PROVE TplWhole(tpls[k])'
    <3>1. TplWhole(tpls[k])
      BY <2>1 DEF TplAlone
    <3> QED
      BY <1>1, <3>1 DEF TplWhole, Tpl!DependencyIntegrity, Tpl!BothScopes, Tpl!UsableVersion, Tpl!FitsType
  <2>3. TplSees(thr[u])'
    <3>1. PICK r : r = thr[u]
      OBVIOUS
    <3>2. TplSees(r)
      BY <2>1, <3>1 DEF TplAlone
    <3>3. TplSees(r)'
      BY <1>1, <3>2 DEF TplSees, Tpl!DependencyIntegrity, Tpl!BothScopes, Tpl!UsableVersion, Tpl!Stored
    <3>4. thr'[u] = r
      BY <3>1
    <3> QED
      BY <3>3, <3>4 DEF TplSees
  <2> QED
    BY <1>1, <2>2, <2>3 DEF TplAlone
<1> QED
  BY <1>2, <1>3, <1>4, <1>5 DEF TplInv

LEMMA TplInit == Tpl!Init => TplInv
<1> SUFFICES ASSUME Tpl!Init PROVE TplInv
  OBVIOUS
<1>1. PICK crew \in TemplateCrews :
        /\ thr = [t \in crew.threads |-> Tpl!Idle] /\ left = crew.calls
        /\ tpls = crew.from.tpls /\ lesson = None /\ versions = crew.from.versions
        /\ image = [status |-> crew.from.image, approved |-> crew.from.image = "normal", listed |-> FALSE]
  BY DEF Tpl!Init
<1>2. /\ crew.calls \in Nat /\ crew.from.image \in {"none", "pending", "normal", "rejected", "off"}
      /\ crew.from.tpls \in Seq(TplRow)
      /\ \A i \in DOMAIN crew.from.tpls :
           /\ crew.from.tpls[i].status = "draft"
           /\ Tpl!OwnRoles(i, crew.from.tpls[i]) /\ Tpl!FitsType(crew.from.tpls[i])
           /\ crew.from.tpls[i].boxes # {} => crew.from.image = "normal"
      /\ crew.from.versions \in [DOMAIN crew.from.versions -> BOOLEAN] /\ DOMAIN crew.from.versions \subseteq Versions
      /\ Cardinality({v \in DOMAIN crew.from.versions : crew.from.versions[v]}) <= 1
      /\ crew.from.image = "none" => DOMAIN crew.from.versions = {}
  BY TemplateAssumption
<1>3. IsFiniteSet(crew.threads) /\ crew.threads # {}
  BY HandlersAssumption DEF Handled
<1>4. TplFacts
  BY <1>1, <1>2 DEF TplFacts, TplRows
<1>5. DOMAIN thr = crew.threads /\ thr = [t \in DOMAIN thr |-> thr[t]] /\ \A t \in DOMAIN thr : thr[t] = Tpl!Idle
  BY <1>1
<1>6. TplThreads
  BY <1>3, <1>5, TplIdle DEF TplThreads
<1>7. TplBounds
  <2>1. Cardinality(Defaults) <= 1
    BY <1>1, <1>2 DEF Defaults
  <2>2. Defaulting = {}
    BY <1>5, TplIdle DEF Defaulting
  <2>3. Cardinality(Defaulting) = 0
    BY <2>2, FS_EmptySet
  <2>4. Cardinality(DOMAIN thr) \in Nat /\ Cardinality(DOMAIN thr) >= 1
    BY <1>3, <1>5, FS_CardinalityType, FS_EmptySet
  <2>5. Cardinality(Defaults) \in Nat
    <3>1. Defaults \subseteq Versions
      BY <1>1, <1>2 DEF Defaults
    <3> QED
      BY <3>1, TemplateAssumption, FS_Subset, FS_CardinalityType
  <2> QED
    BY <2>1, <2>3, <2>4, <2>5 DEF TplBounds
<1>8. ASSUME NEW t, DOMAIN thr = {t} PROVE TplAlone(t)
  <2>1. TplSees(thr[t])
    BY <1>5, <1>8, TplIdle
  <2>2. \A i \in DOMAIN tpls : TplWhole(tpls[i])
    BY <1>1, <1>2 DEF TplWhole
  <2> QED
    BY <2>1, <2>2 DEF TplAlone
<1> QED
  BY <1>4, <1>6, <1>7, <1>8 DEF TplInv

LEMMA TplRequest ==
    ASSUME TplInv, NEW t, Tpl!Request(t)
    PROVE  TplInv'
<1>1. CASE \E kind \in Tpl!Kinds, mode \in Tpl!Modes : Tpl!Create(t, kind, mode)
  BY <1>1, TplCreate
<1>2. CASE \E i \in 1..MaxTemplates :
             \/ \E mode \in Tpl!Modes : Tpl!UpdateTopology(t, i, mode)
             \/ Tpl!Delete(t, i) \/ Tpl!Unpublish(t, i)
             \/ \E shared \in BOOLEAN : Tpl!Share(t, i, shared)
  BY <1>2, TplRowRequests
<1>3. CASE \E i \in 1..MaxTemplates :
             (\E kind \in Tpl!Kinds : Tpl!UpdateType(t, i, kind)) \/ Tpl!Publish(t, i) \/ Tpl!Clone(t, i)
  BY <1>3, TplTypeRequests, TplClone
<1>4. CASE \E i \in 1..MaxTemplates :
             \/ \E ver \in Versions, scope \in {"instance", "shared"}, role \in Tpl!TemplateRoles \union {None} :
                  Tpl!CreateContainer(t, i, ver, scope, role)
             \/ \E box \in tpls[i].boxes :
                  \/ \E ver \in Versions \ {box.ver} : Tpl!UpdateContainer(t, i, box, "ver", ver)
                  \/ \E scope \in {"instance", "shared"} \ {box.scope} : Tpl!UpdateContainer(t, i, box, "scope", scope)
                  \/ \E role \in Tpl!TemplateRoles \ {box.role} : Tpl!UpdateContainer(t, i, box, "role", role)
                  \/ Tpl!DeleteContainer(t, i, box)
  BY <1>4, TplContainerRequests
<1>5. CASE \E i \in 1..MaxTemplates :
             \/ Tpl!CreateInitScript(t, i) \/ Tpl!DeleteInitScript(t, i)
             \/ Tpl!CreateSimScene(t, i) \/ Tpl!DeleteSimScene(t, i)
             \/ Tpl!CreateRole(t, i) \/ Tpl!DeleteRole(t, i)
  BY <1>5, TplPartRequests
<1>6. CASE \E i \in 1..MaxTemplates :
             \/ \E type \in Tpl!CheckTypes : Tpl!CreateCheckpoint(t, i, type) \/ Tpl!DeleteCheckpoint(t, i, type)
             \/ \E old, type \in Tpl!CheckTypes : Tpl!UpdateCheckpoint(t, i, old, type)
  BY <1>6, TplCheckRequests
<1>7. CASE \E i \in 1..MaxTemplates \union {None} : Tpl!SetLesson(t, i)
  BY <1>7, TplSetLesson
<1>8. CASE \E list \in SUBSET Versions : \E defaults \in SUBSET list :
             \/ \E admin \in BOOLEAN : Tpl!CreateImage(t, admin, list, defaults)
             \/ Tpl!SyncImageFromManifest(t, list, defaults)
  BY <1>8, TplCreateImage, TplSyncImage
<1>9. CASE Tpl!DeleteImage(t) \/ \E approve \in BOOLEAN : Tpl!ReviewImage(t, approve)
  BY <1>9, TplImageRequests
<1>10. CASE \E v \in Versions :
              \/ \E default \in BOOLEAN : Tpl!CreateVersion(t, v, default)
              \/ Tpl!SetDefaultVersion(t, v) \/ Tpl!DeleteVersion(t, v)
  BY <1>10, TplVersionRequests
<1> QED
  BY <1>1, <1>2, <1>3, <1>4, <1>5, <1>6, <1>7, <1>8, <1>9, <1>10 DEF Tpl!Request

LEMMA TplStep == TplInv /\ Tpl!Next => TplInv'
<1> SUFFICES ASSUME TplInv, NEW t, Tpl!Request(t) \/ Tpl!Step(t) PROVE TplInv'
  BY DEF Tpl!Next
<1>1. CASE Tpl!Request(t)
  BY <1>1, TplRequest
<1>2. CASE Tpl!Step(t)
  BY <1>2, TplFieldsWrite, TplTypeSwitchCleanup, TplValidate, TplCloneWrite, TplBoxWrite, TplPartWrite, TplCheckWrite,
     TplImageWrite, TplClearDefault, TplInsertVersion, TplSetDefault, TplDeleteVersionWrite DEF Tpl!Step
<1> QED
  BY <1>1, <1>2

\* The templates keep their invariant.
LEMMA TplHolds == Spec => [](part = "templates" => TplInv)
<1> DEFINE I == part = "templates" => TplInv
<1>1. Init => I
  BY TplInit DEF Init
<1>2. I /\ [Next]_allVars => I'
  <2> SUFFICES ASSUME I, [Next]_allVars, part' = "templates" PROVE TplInv'
    OBVIOUS
  <2>1. part = "templates" /\ TplInv
    BY PartStays
  <2>2. CASE Next
    BY <2>1, <2>2, TplStep DEF Next
  <2>3. CASE UNCHANGED allVars
    BY <2>1, <2>3, TplStays DEF allVars
  <2> QED
    BY <2>2, <2>3
<1> QED
  BY <1>1, <1>2, PTL DEF Spec, allVars

LEMMA TplLimits == TplInv => Tpl!TemplatesHold
<1> SUFFICES ASSUME TplInv PROVE Tpl!TemplatesHold
  OBVIOUS
<1>1. Tpl!Overlap = Cardinality(DOMAIN thr) - 1 /\ Cardinality(DOMAIN thr) \in Nat
  BY TplCounts, SameCardinality DEF Tpl!Overlap
<1>2. Tpl!OnlyOwnAndApproved
  <2>1. \A i \in DOMAIN tpls : Tpl!OwnRoles(i, tpls[i]) /\ (tpls[i].boxes # {} => image.approved)
    BY DEF TplInv, TplFacts
  <2> QED
    BY <2>1 DEF Tpl!OnlyOwnAndApproved, Tpl!Boxes
<1>3. Tpl!PublishedIsWhole
  <2> SUFFICES ASSUME Tpl!Alone
               PROVE  /\ \A i \in DOMAIN tpls :
                           /\ Tpl!FitsType(tpls[i])
                           /\ tpls[i].status = "published" /\ ~tpls[i].edited => Tpl!DependencyIntegrity(tpls[i])
                      /\ Tpl!Boxes # {} => image.status = "normal"
    BY DEF Tpl!PublishedIsWhole
  <2>1. Cardinality(DOMAIN thr) = 1
    BY <1>1 DEF Tpl!Alone
  <2>2. PICK t : DOMAIN thr = {t}
    BY <2>1, OneElement, TplCounts
  <2>3. \A i \in DOMAIN tpls : TplWhole(tpls[i])
    BY <2>2 DEF TplInv, TplAlone
  <2>4. Tpl!Boxes # {} => \E i \in DOMAIN tpls : tpls[i].boxes # {}
    BY DEF Tpl!Boxes
  <2> QED
    BY <2>3, <2>4 DEF TplWhole
<1>4. Tpl!OneDefault
  <2>1. Tpl!Cardinality({v \in DOMAIN versions : versions[v]}) = Cardinality(Defaults)
    BY SameCardinality DEF Defaults
  <2> QED
    BY <1>1, <2>1, TplCounts DEF TplInv, TplBounds, Tpl!OneDefault
<1> QED
  BY <1>2, <1>3, <1>4 DEF Tpl!TemplatesHold

(* Once a competition runs, nobody comes into a team or leaves it, except  *)
(* through requests that overlap its start; a template refers only to its  *)
(* own roles and to an image somebody let pass, has one default version    *)
(* for each request that overlaps, and where none overlaps, published as   *)
(* it is it would pass its validation (Publish, CloneWrite, DeleteImage).  *)
THEOREM LockedThingsStay == Spec => []LockedStays
<1>1. (part = "teams" => TmsInv) /\ (part = "templates" => TplInv) => LockedStays
  BY TmsLimits, TplLimits DEF LockedStays
<1> QED
  BY <1>1, TmsHolds, TplHolds, PTL

-----------------------------------------------------------------------------
(* The types of every service.                                             *)

\* What the invariant of the accounts leaves out: times stay below the bound of the
\* clock, and the school is shown with a status it had.
AccTimes ==
    /\ now \in Acc!Times /\ user.validAfter \in Acc!Times \union {Never} /\ validAfter \in Acc!Times \union {Never}
    /\ school.end \in Acc!Times /\ school.frozenAt \in Acc!Times \union {Never}
    /\ shown \in [status : Acc!Statuses, end : Acc!Times] \union {Never}

\* SetLicense shows the status it has read.
AccSeen(r) == r.at = "licence" => r.seen \in Acc!Statuses
AccDated == AccTimes /\ \A t \in DOMAIN thr : AccSeen(thr[t])

LEMMA TimesAre ==
    /\ \A n \in Acc!Times : n \in Nat /\ 2 * Acc!Second(n) \in Acc!Times
    /\ \A n \in Acc!Times : n < MaxNow => n + 1 \in Acc!Times
    /\ MaxNow + 1 \in Acc!Times /\ 3 \in Acc!Times /\ Never \notin Acc!Times
<1>1. MaxNow \in Nat /\ MaxNow >= 3 /\ Never \notin Int
  BY AccountAssumption
<1>2. ASSUME NEW n \in Acc!Times
      PROVE  n \in Nat /\ n <= MaxNow + 1 /\ (n < MaxNow => n + 1 \in Acc!Times)
  BY <1>1 DEF Acc!Times
<1>3. ASSUME NEW n \in Acc!Times
      PROVE  2 * Acc!Second(n) \in Acc!Times
  <2>1. n \in Nat /\ n <= MaxNow + 1
    BY <1>2, <1>3
  <2>2. Acc!Second(n) \in Nat /\ 2 * Acc!Second(n) <= n
    BY <2>1, SecondFacts
  <2> QED
    BY <1>1, <2>1, <2>2 DEF Acc!Times
<1> QED
  BY <1>1, <1>2, <1>3 DEF Acc!Times

LEMMA AccDatedInit == Acc!Init => AccDated
<1> SUFFICES ASSUME Acc!Init PROVE AccDated
  OBVIOUS
<1>1. /\ now = 3 /\ user.validAfter = Never /\ validAfter = Never /\ school.frozenAt = Never
      /\ school.end \in {now, MaxNow + 1} /\ school.status = "active"
      /\ shown = [status |-> "active", end |-> school.end]
  BY DEF Acc!Init
<1>2. \A t \in DOMAIN thr : thr[t].at = "idle"
  BY DEF Acc!Init, Acc!Idle
<1> QED
  BY <1>1, <1>2, TimesAre DEF AccDated, AccTimes, AccSeen, Acc!Statuses

\* What a thread holds after its step: only Decide begins a change of the licence.
LEMMA AccSeenStep ==
    ASSUME AccFacts, NEW t, AccAct(t)
    PROVE  AccSeen(thr'[t])
<1>1. PICK r : NewRec(t, r)
  BY AccThreads
<1>2. thr'[t] = r /\ t \in DOMAIN thr
  BY <1>1 DEF NewRec, AccFacts
<1>3. \A op \in Acc!Operations : Acc!Decide(t, op) => thr'[t].seen \in Acc!Statuses
  BY <1>2 DEF Acc!Decide, Acc!Goes, Acc!Idle, AccFacts, AccSchool
<1>4. ASSUME NEW q, Acc!Goes(t, q), q.at # "licence"
      PROVE  AccSeen(thr'[t])
  BY <1>2, <1>4 DEF Acc!Goes, AccSeen, AccFacts
<1>5. CASE Acc!LoginWrong(t) \/ Acc!LoginRight(t) \/ Acc!LoginSSO(t)
  <2>1. \/ Acc!Goes(t, [Acc!Idle EXCEPT !.at = "wrong"])
        \/ \E b \in {"login", "sso"} :
             Acc!Goes(t, [Acc!Idle EXCEPT !.at = "passed", !.by = b, !.seen = IF user.first THEN "first" ELSE "none"])
    BY <1>5 DEF Acc!LoginWrong, Acc!LoginRight, Acc!LoginSSO
  <2> QED
    BY <1>4, <2>1 DEF Acc!Idle
<1>6. CASE \/ Acc!CountFailure(t) \/ Acc!LockAccount(t) \/ Acc!GrantTemp(t) \/ Acc!StoreSession(t) \/ Acc!RefreshCheck(t)
           \/ \E i \in DOMAIN pairs : Acc!Logout(t, i)
           \/ Acc!Kick(t) \/ Acc!UnlockUser(t)
  <2>1. \E a \in {"idle", "lock", "refresh"} : Acc!Goes(t, [Acc!Idle EXCEPT !.at = a])
    BY <1>6 DEF Acc!CountFailure, Acc!LockAccount, Acc!GrantTemp, Acc!StoreSession, Acc!RefreshCheck, Acc!Logout,
       Acc!Kick, Acc!UnlockUser, Acc!Ends, Acc!Goes, Acc!Idle
  <2> QED
    BY <1>4, <2>1 DEF Acc!Idle
<1>8. CASE Acc!IssueLogin(t) \/ Acc!ForceChangePassword(t) \/ Acc!IssueRefresh(t)
  <2>1. Acc!Goes(t, [Acc!Idle EXCEPT !.at = "store", !.pair = Len(pairs) + 1])
    BY <1>8 DEF Acc!IssueLogin, Acc!ForceChangePassword, Acc!IssueRefresh, Acc!IssuePair
  <2> QED
    BY <1>4, <2>1 DEF Acc!Idle
<1>9. CASE (\E s \in {"active", "disabled", "archived"} : Acc!UpdateStatus(t, s)) \/ Acc!Delete(t) \/ Acc!ResetPassword(t)
  <2>1. \E a \in {"idle", "kick"} : Acc!Goes(t, [Acc!Idle EXCEPT !.at = a])
    BY <1>9 DEF Acc!UpdateStatus, Acc!Delete, Acc!ResetPassword, Acc!ChangeUser, Acc!Ends, Acc!Goes, Acc!Idle
  <2> QED
    BY <1>4, <2>1 DEF Acc!Idle
<1>7. CASE Acc!FreezeSchool(t) \/ Acc!KickSchoolUsers(t) \/ Acc!Unfreeze(t) \/ Acc!Cancel(t) \/ Acc!Restore(t)
           \/ (\E e \in {now, MaxNow + 1} : Acc!SetLicense(t, e)) \/ Acc!ExpireToBuffering(t)
  BY <1>2, <1>7 DEF Acc!FreezeSchool, Acc!KickSchoolUsers, Acc!Unfreeze, Acc!Cancel, Acc!Restore, Acc!SetLicense,
       Acc!ExpireToBuffering, Acc!Goes, Acc!Ends, Acc!Idle, AccSeen, AccFacts
<1> QED
  BY <1>3, <1>5, <1>6, <1>7, <1>8, <1>9 DEF AccAct, AccSeen

\* The time raised is now, whole seconds of it in the cache.
LEMMA AccRaised ==
    ASSUME AccFacts, AccTimes, Acc!RaiseValidAfter
    PROVE  user'.validAfter \in Acc!Times \union {Never} /\ validAfter' \in Acc!Times \union {Never}
BY TimesAre DEF AccFacts, AccTimes, AccUser, Acc!RaiseValidAfter

LEMMA AccLoaded ==
    ASSUME AccFacts, AccTimes
    PROVE  Acc!Loaded \in Acc!Times \union {Never}
BY TimesAre DEF AccFacts, AccTimes, AccUser, Acc!Loaded

LEMMA AccTimesAct ==
    ASSUME AccFacts, AccDated, NEW t, AccAct(t)
    PROVE  AccTimes'
<1> USE DEF AccDated
<1>1. CASE UNCHANGED <<now, user, validAfter, school, shown>>
  BY <1>1 DEF AccTimes
<1>2. CASE /\ UNCHANGED <<now, school, shown>>
           /\ user'.validAfter \in Acc!Times \union {Never} /\ validAfter' \in Acc!Times \union {Never}
  BY <1>2 DEF AccTimes
<1>3. CASE /\ UNCHANGED <<now, validAfter>> /\ user'.validAfter = user.validAfter
           /\ school'.end \in Acc!Times /\ school'.frozenAt \in Acc!Times \union {Never}
           /\ shown' \in [status : Acc!Statuses, end : Acc!Times] \union {Never}
  BY <1>3 DEF AccTimes
<1>4. CASE \/ Acc!LoginWrong(t) \/ Acc!CountFailure(t) \/ Acc!LockAccount(t) \/ Acc!LoginRight(t) \/ Acc!LoginSSO(t)
           \/ Acc!GrantTemp(t) \/ Acc!StoreSession(t) \/ Acc!IssueRefresh(t) \/ Acc!UnlockUser(t)
           \/ \E op \in Acc!Operations : Acc!Decide(t, op)
  <2>1. CASE Acc!LoginWrong(t) \/ Acc!CountFailure(t) \/ Acc!LockAccount(t) \/ Acc!LoginRight(t)
    BY <1>1, <2>1 DEF Acc!LoginWrong, Acc!CountFailure, Acc!LockAccount, Acc!LoginRight, Acc!schoolVars
  <2>2. CASE Acc!LoginSSO(t) \/ Acc!GrantTemp(t) \/ Acc!StoreSession(t)
    BY <1>1, <2>2 DEF Acc!LoginSSO, Acc!GrantTemp, Acc!StoreSession, Acc!userVars, Acc!schoolVars
  <2>3. CASE Acc!IssueRefresh(t) \/ Acc!UnlockUser(t)
    BY <1>1, <2>3 DEF Acc!IssueRefresh, Acc!UnlockUser, Acc!schoolVars
  <2>4. CASE \E op \in Acc!Operations : Acc!Decide(t, op)
    BY <1>1, <2>4 DEF Acc!Decide, Acc!userVars, Acc!schoolVars
  <2> QED
    BY <1>4, <2>1, <2>2, <2>3, <2>4
<1>5. CASE Acc!IssueLogin(t) \/ Acc!Kick(t) \/ \E i \in DOMAIN pairs : Acc!Logout(t, i)
  <2>1. Acc!RaiseValidAfter /\ UNCHANGED <<now, school, shown>>
    BY <1>5 DEF Acc!IssueLogin, Acc!Kick, Acc!Logout, Acc!schoolVars
  <2> QED
    BY <1>2, <2>1, AccRaised
<1>6. CASE Acc!ForceChangePassword(t)
  <2>1. /\ UNCHANGED <<now, school, shown>>
        /\ user' = [user EXCEPT !.first = FALSE, !.validAfter = now] /\ validAfter' = 2 * Acc!Second(now)
    BY <1>6 DEF Acc!ForceChangePassword, Acc!schoolVars
  <2>2. user'.validAfter = now
    BY <2>1 DEF AccFacts, AccUser
  <2> QED
    BY <1>2, <2>1, <2>2, TimesAre DEF AccTimes
<1>7. CASE Acc!RefreshCheck(t)
  <2>1. validAfter' = Acc!Loaded /\ UNCHANGED <<now, user, school, shown>>
    BY <1>7 DEF Acc!RefreshCheck, Acc!schoolVars
  <2>2. validAfter' \in Acc!Times \union {Never}
    BY <2>1, AccLoaded
  <2> QED
    BY <1>2, <2>1, <2>2 DEF AccTimes
<1>8. CASE (\E s \in {"active", "disabled", "archived"} : Acc!UpdateStatus(t, s)) \/ Acc!Delete(t) \/ Acc!ResetPassword(t)
  <2>1. /\ UNCHANGED <<now, validAfter, school, shown>>
        /\ \/ \E s \in {"active", "disabled", "archived"} : user' = [user EXCEPT !.status = s]
           \/ user' = [user EXCEPT !.deleted = TRUE] \/ user' = [user EXCEPT !.first = TRUE]
    BY <1>8 DEF Acc!UpdateStatus, Acc!Delete, Acc!ResetPassword, Acc!ChangeUser, Acc!schoolVars
  <2>2. user'.validAfter = user.validAfter
    BY <2>1 DEF AccFacts, AccUser
  <2> QED
    BY <1>2, <2>1, <2>2 DEF AccTimes
<1>9. CASE Acc!KickSchoolUsers(t)
  <2>1. /\ UNCHANGED <<now, school, shown>>
        /\ UNCHANGED <<user, validAfter>> \/ Acc!RaiseValidAfter
    BY <1>9 DEF Acc!KickSchoolUsers, Acc!schoolVars
  <2> QED
    BY <1>1, <1>2, <2>1, AccRaised
<1>10. CASE Acc!FreezeSchool(t)
  <2>1. /\ UNCHANGED <<now, user, validAfter>> /\ shown' = Never
        /\ school' = school \/ school' = [school EXCEPT !.status = "frozen", !.frozenAt = now]
    BY <1>10 DEF Acc!FreezeSchool, Acc!Becomes, Acc!HideSchool, Acc!userVars
  <2>2. school'.end = school.end /\ school'.frozenAt \in {school.frozenAt, now}
    BY <2>1 DEF AccFacts, AccSchool
  <2> QED
    BY <1>3, <2>1, <2>2 DEF AccTimes
<1>11. CASE Acc!Unfreeze(t) \/ Acc!ExpireToBuffering(t)
  <2>1. /\ UNCHANGED <<now, user, validAfter>>
        /\ \E s \in {"active", "buffering"} : shown' = [status |-> s, end |-> school.end]
        /\ \/ school' = school \/ school' = [school EXCEPT !.status = "active", !.frozenAt = Never]
           \/ school' = [school EXCEPT !.status = "buffering"]
    BY <1>11 DEF Acc!Unfreeze, Acc!ExpireToBuffering, Acc!Becomes, Acc!ShowSchool, Acc!userVars
  <2>2. school'.end = school.end /\ school'.frozenAt \in {school.frozenAt, Never}
    BY <2>1 DEF AccFacts, AccSchool
  <2>3. shown' \in [status : Acc!Statuses, end : Acc!Times]
    BY <2>1 DEF AccTimes, Acc!Statuses
  <2> QED
    BY <1>3, <2>1, <2>2, <2>3 DEF AccTimes
<1>12. CASE Acc!Cancel(t) \/ Acc!Restore(t)
  <2>1. /\ UNCHANGED <<now, validAfter>>
        /\ user' = [user EXCEPT !.deleted = TRUE] \/ user' = [user EXCEPT !.deleted = FALSE]
        /\ shown' \in {Never, [status |-> "active", end |-> school.end]}
        /\ \/ school' = school \/ school' = [school EXCEPT !.status = "cancelled"]
           \/ school' = [school EXCEPT !.status = "active"]
    BY <1>12 DEF Acc!Cancel, Acc!Restore, Acc!Becomes, Acc!ShowSchool, Acc!HideSchool
  <2>2. school'.end = school.end /\ school'.frozenAt = school.frozenAt
    BY <2>1 DEF AccFacts, AccSchool
  <2>3. user'.validAfter = user.validAfter
    BY <2>1 DEF AccFacts, AccUser
  <2>4. shown' \in [status : Acc!Statuses, end : Acc!Times] \union {Never}
    BY <2>1 DEF AccTimes, Acc!Statuses
  <2> QED
    BY <1>3, <2>1, <2>2, <2>3, <2>4 DEF AccTimes
<1>13. CASE \E e \in {now, MaxNow + 1} : Acc!SetLicense(t, e)
  <2>1. PICK e \in {now, MaxNow + 1} : Acc!SetLicense(t, e)
    BY <1>13
  <2>2. /\ UNCHANGED <<now, user, validAfter>> /\ t \in DOMAIN thr /\ thr[t].at = "licence"
        /\ shown' = [status |-> thr[t].seen, end |-> e]
        /\ school' = school \/ school' = [school EXCEPT !.end = e]
    BY <2>1 DEF Acc!SetLicense, Acc!At, Acc!Becomes, Acc!ShowSchool, Acc!userVars
  <2>3. e \in Acc!Times
    BY TimesAre DEF AccTimes
  <2>4. school'.end \in {school.end, e} /\ school'.frozenAt = school.frozenAt
    BY <2>2 DEF AccFacts, AccSchool
  <2>5. shown' \in [status : Acc!Statuses, end : Acc!Times]
    BY <2>2, <2>3 DEF AccSeen
  <2> QED
    BY <1>3, <2>2, <2>3, <2>4, <2>5 DEF AccTimes
<1> QED
  BY <1>4, <1>5, <1>6, <1>7, <1>8, <1>9, <1>10, <1>11, <1>12, <1>13 DEF AccAct

LEMMA AccDatedStep == AccFacts /\ AccDated /\ Acc!Next => AccDated'
<1> SUFFICES ASSUME AccFacts, AccDated, Acc!Next PROVE AccDated'
  OBVIOUS
<1>1. ASSUME NEW t, AccAct(t)
      PROVE  AccDated'
  <2>1. PICK r : NewRec(t, r)
    BY <1>1, AccThreads
  <2>2. DOMAIN thr' = DOMAIN thr /\ \A s \in DOMAIN thr : s # t => thr'[s] = thr[s]
    BY <2>1 DEF NewRec
  <2>3. \A s \in DOMAIN thr' : AccSeen(thr'[s])
    BY <1>1, <2>2, AccSeenStep DEF AccDated
  <2> QED
    BY <1>1, <2>3, AccTimesAct DEF AccDated, AccSeen
<1>2. CASE AccPass
  <2>1. thr' = thr /\ UNCHANGED <<user, school>>
    BY <1>2 DEF AccPass, Acc!UseToken, Acc!Tick, Acc!FailuresExpire, Acc!LockPeriodEnds, Acc!ValidAfterEvicted,
       Acc!ShownExpires, Acc!TempExpires, Acc!userVars, Acc!schoolVars
  <2>2. now' = now \/ (now < MaxNow /\ now' = now + 1)
    BY <1>2 DEF AccPass, Acc!UseToken, Acc!Tick, Acc!FailuresExpire, Acc!LockPeriodEnds, Acc!ValidAfterEvicted,
       Acc!ShownExpires, Acc!TempExpires
  <2>3. validAfter' = validAfter \/ validAfter' = Acc!Loaded \/ validAfter' = Never
    BY <1>2 DEF AccPass, Acc!UseToken, Acc!Tick, Acc!FailuresExpire, Acc!LockPeriodEnds, Acc!ValidAfterEvicted,
       Acc!ShownExpires, Acc!TempExpires, Acc!userVars
  <2>4. shown' = shown \/ shown' = Never
    BY <1>2 DEF AccPass, Acc!UseToken, Acc!Tick, Acc!FailuresExpire, Acc!LockPeriodEnds, Acc!ValidAfterEvicted,
       Acc!ShownExpires, Acc!HideSchool, Acc!TempExpires, Acc!schoolVars
  <2>5. now' \in Acc!Times /\ validAfter' \in Acc!Times \union {Never}
    BY <2>2, <2>3, TimesAre, AccLoaded DEF AccDated, AccTimes
  <2> QED
    BY <2>1, <2>4, <2>5 DEF AccDated, AccTimes, AccSeen
<1> QED
  BY <1>1, <1>2, AccSteps2

\* What the invariant of the challenges leaves out: how many requests are left, which
\* numbers the row that lists the challenge.
ChlNumbers(r) == r.at = "add" => r.id \in Int
ChlNumbered ==
    /\ left \in Nat /\ listed \in Int \union {None}
    /\ \A t \in DOMAIN thr : ChlNumbers(thr[t])

LEMMA ChlNumberedInit == Chl!Init => ChlNumbered
BY ChallengeAssumption DEF Chl!Init, Chl!Idle, ChlNumbered, ChlNumbers

\* A step moves one thread, and the thread that inserts the row is told its number.
LEMMA ChlNumberedStep == ChlThreads /\ ChlNumbered /\ Chl!Next => ChlNumbered'
<1> SUFFICES ASSUME ChlThreads, ChlNumbered, Chl!Next PROVE ChlNumbered'
  OBVIOUS
<1>1. ASSUME NEW t \in DOMAIN thr, NEW r, Chl!Goes(t, r), ChlNumbers(r)
      PROVE  \A u \in DOMAIN thr' : ChlNumbers(thr'[u])
  <2>1. thr' = [u \in DOMAIN thr |-> IF u = t THEN r ELSE thr[u]]
    BY <1>1 DEF Chl!Goes, ChlThreads
  <2> QED
    BY <1>1, <2>1 DEF ChlNumbered
<1>2. ASSUME NEW t, NEW r, Chl!Begins(t, r), ChlNumbers(r)
      PROVE  ChlNumbered'
  <2>1. t \in DOMAIN thr /\ Chl!Goes(t, r) /\ left > 0 /\ left' = left - 1 /\ listed' = listed
    BY <1>2 DEF Chl!Begins, Chl!Free
  <2>2. left' \in Nat
    BY <2>1 DEF ChlNumbered
  <2> QED
    BY <1>1, <1>2, <2>1, <2>2 DEF ChlNumbered, ChlNumbers
<1>3. ASSUME NEW t, NEW step, Chl!Ends(t, step), listed' \in Int \union {None}
      PROVE  ChlNumbered'
  <2>1. t \in DOMAIN thr /\ Chl!Goes(t, Chl!Idle) /\ left' = left
    BY <1>3 DEF Chl!Ends, Chl!At
  <2>2. ChlNumbers(Chl!Idle)
    BY DEF ChlNumbers, Chl!Idle
  <2> QED
    BY <1>1, <1>3, <2>1, <2>2 DEF ChlNumbered, ChlNumbers
<1>4. PICK t \in Chl!Threads : 
      \/ \E draft \in Chl!Drafts : Chl!Create(t, draft)
      \/ \E onchain, public \in BOOLEAN : Chl!Update(t, onchain, public)
      \/ \E piece \in {"contracts", "assertions"}, n \in 0..1 : Chl!EditAssets(t, piece, n)
      \/ Chl!Delete(t) \/ Chl!StartVerification(t) \/ Chl!SubmitReview(t)
      \/ \E action \in {"approved", "rejected"} : Chl!Review(t, action)
      \/ \E old \in SUBSET (1..MaxChecks) : Chl!RunVerificationCleanup(t, old)
      \/ Chl!AddChallenges(t) \/ Chl!RemoveChallenge(t) \/ Chl!Publish(t) \/ Chl!DeleteContest(t)
      \/ Chl!UpdateWrite(t) \/ Chl!AssetsWrite(t) \/ Chl!DeleteWrite(t) \/ Chl!VerificationInsert(t)
      \/ \E ok \in BOOLEAN : Chl!Complete(t, ok)
      \/ Chl!Abandon(t)
      \/ \E i \in 1..MaxChecks : Chl!TimeoutWrite(t, i)
      \/ Chl!SubmitWrite(t) \/ Chl!ReviewWrite(t) \/ Chl!AddWrite(t) \/ Chl!RemoveWrite(t) \/ Chl!ContestWrite(t)
  BY DEF Chl!Next
<1>5. CASE \E draft \in Chl!Drafts : Chl!Create(t, draft)
  BY <1>5 DEF Chl!Create, Chl!Free, ChlNumbered, ChlNumbers
<1>6. \A r : Chl!Begins(t, r) /\ r.at # "add" => ChlNumbered'
  BY <1>2 DEF ChlNumbers
<1>7. CASE \/ \E onchain, public \in BOOLEAN : Chl!Update(t, onchain, public)
           \/ \E piece \in {"contracts", "assertions"}, n \in 0..1 : Chl!EditAssets(t, piece, n)
           \/ Chl!Delete(t) \/ Chl!StartVerification(t) \/ Chl!SubmitReview(t)
           \/ \E action \in {"approved", "rejected"} : Chl!Review(t, action)
           \/ \E old \in SUBSET (1..MaxChecks) : Chl!RunVerificationCleanup(t, old)
           \/ Chl!RemoveChallenge(t) \/ Chl!Publish(t) \/ Chl!DeleteContest(t)
  <2>1. \A o, p : Chl!Update(t, o, p) => ChlNumbered'
    BY <1>6 DEF Chl!Update
  <2>2. \A p, n : Chl!EditAssets(t, p, n) => ChlNumbered'
    BY <1>6 DEF Chl!EditAssets
  <2>3. Chl!Delete(t) \/ Chl!StartVerification(t) \/ Chl!SubmitReview(t) => ChlNumbered'
    BY <1>6 DEF Chl!Delete, Chl!StartVerification, Chl!SubmitReview
  <2>4. \A action : Chl!Review(t, action) => ChlNumbered'
    BY <1>6 DEF Chl!Review
  <2>5. \A old : Chl!RunVerificationCleanup(t, old) => ChlNumbered'
    BY <1>6 DEF Chl!RunVerificationCleanup
  <2>6. Chl!RemoveChallenge(t) \/ Chl!Publish(t) \/ Chl!DeleteContest(t) => ChlNumbered'
    BY <1>6 DEF Chl!RemoveChallenge, Chl!Publish, Chl!DeleteContest
  <2> QED
    BY <1>7, <2>1, <2>2, <2>3, <2>4, <2>5, <2>6
<1>8. CASE Chl!AddChallenges(t)
  <2>1. Chl!Begins(t, [at |-> "add", id |-> left]) /\ left \in Int
    BY <1>8 DEF Chl!AddChallenges, ChlNumbered
  <2> QED
    BY <1>2, <2>1 DEF ChlNumbers
<1>9. CASE \/ Chl!UpdateWrite(t) \/ Chl!AssetsWrite(t) \/ Chl!DeleteWrite(t) \/ \E ok \in BOOLEAN : Chl!Complete(t, ok)
           \/ Chl!Abandon(t) \/ Chl!SubmitWrite(t) \/ Chl!ReviewWrite(t) \/ Chl!ContestWrite(t)
  <2>1. (\E step : Chl!Ends(t, step)) /\ listed' = listed
    BY <1>9 DEF Chl!UpdateWrite, Chl!AssetsWrite, Chl!DeleteWrite, Chl!Complete, Chl!Abandon, Chl!SubmitWrite,
       Chl!ReviewWrite, Chl!ContestWrite
  <2> QED
    BY <1>3, <2>1 DEF ChlNumbered
<1>10. CASE Chl!AddWrite(t) \/ Chl!RemoveWrite(t)
  <2>1. /\ \E step : Chl!Ends(t, step)
        /\ listed' \in {listed, None} \/ (t \in DOMAIN thr /\ thr[t].at = "add" /\ listed' = thr[t].id)
    BY <1>10 DEF Chl!AddWrite, Chl!RemoveWrite, Chl!Ends, Chl!At
  <2>2. listed' \in Int \union {None}
    BY <2>1 DEF ChlNumbered, ChlNumbers
  <2> QED
    BY <1>3, <2>1, <2>2
<1>11. CASE Chl!VerificationInsert(t)
  <2>1. /\ t \in DOMAIN thr /\ left' = left /\ listed' = listed
        /\ Chl!Goes(t, [at |-> "flow", id |-> Len(checks) + 1])
    BY <1>11 DEF Chl!VerificationInsert, Chl!At
  <2>2. \A u \in DOMAIN thr' : ChlNumbers(thr'[u])
    BY <1>1, <2>1 DEF ChlNumbers
  <2> QED
    BY <2>1, <2>2 DEF ChlNumbered, ChlNumbers
<1>12. CASE \E i \in 1..MaxChecks : Chl!TimeoutWrite(t, i)
  <2>1. PICK i \in 1..MaxChecks : Chl!TimeoutWrite(t, i)
    BY <1>12
  <2>2. /\ t \in DOMAIN thr /\ thr[t].at = "cleanup" /\ left' = left /\ listed' = listed
        /\ Chl!Goes(t, IF thr[t].old = {i} THEN Chl!Idle ELSE [thr[t] EXCEPT !.old = @ \ {i}])
    BY <2>1 DEF Chl!TimeoutWrite, Chl!At
  <2>3. thr[t] = [at |-> "cleanup", old |-> thr[t].old]
    BY <2>2 DEF ChlThreads, ChlTyped
  <2>4. \E r : Chl!Goes(t, r) /\ r.at # "add"
    <3>1. CASE thr[t].old = {i}
      BY <2>2, <3>1 DEF Chl!Idle
    <3>2. CASE thr[t].old # {i}
      BY <2>2, <2>3, <3>2
    <3> QED
      BY <3>1, <3>2
  <2>5. \A u \in DOMAIN thr' : ChlNumbers(thr'[u])
    BY <1>1, <2>2, <2>4 DEF ChlNumbers
  <2> QED
    BY <2>2, <2>5 DEF ChlNumbered, ChlNumbers
<1> QED
  BY <1>4, <1>5, <1>7, <1>8, <1>9, <1>10, <1>11, <1>12

\* What the two invariants leave out holds with them, whichever services run.
LEMMA RestHolds ==
    Spec => []((part = "accounts" => AccInv /\ AccDated) /\ (part = "challenges" => ChlInv /\ ChlNumbered))
<1> DEFINE A == part = "accounts" => AccDated
<1> DEFINE C == part = "challenges" => ChlNumbered
<1> DEFINE I == (part = "accounts" => AccInv) /\ (part = "challenges" => ChlInv)
<1>1. Init => A /\ C
  BY AccDatedInit, ChlNumberedInit DEF Init
<1>2. A /\ C /\ I /\ [Next]_allVars => A' /\ C'
  <2> SUFFICES ASSUME A, C, I, [Next]_allVars PROVE A' /\ C'
    OBVIOUS
  <2>1. part' = part
    BY PartStays
  <2>2. ASSUME part = "accounts" PROVE AccDated'
    <3>1. AccDated /\ AccFacts
      BY <2>2 DEF AccInv
    <3>2. CASE Next
      BY <2>2, <3>1, <3>2, AccDatedStep DEF Next
    <3>3. CASE UNCHANGED allVars
      <4>1. UNCHANGED <<thr, now, user, validAfter, school, shown>>
        BY <3>3 DEF allVars, accVars
      <4> QED
        BY <3>1, <4>1 DEF AccDated, AccTimes, AccSeen
    <3> QED
      BY <3>2, <3>3
  <2>3. ASSUME part = "challenges" PROVE ChlNumbered'
    <3>1. ChlNumbered /\ ChlThreads
      BY <2>3 DEF ChlInv
    <3>2. CASE Next
      BY <2>3, <3>1, <3>2, ChlNumberedStep DEF Next
    <3>3. CASE UNCHANGED allVars
      <4>1. UNCHANGED <<thr, left, listed>>
        BY <3>3 DEF allVars, chalVars
      <4> QED
        BY <3>1, <4>1 DEF ChlNumbered, ChlNumbers
    <3> QED
      BY <3>2, <3>3
  <2> QED
    BY <2>1, <2>2, <2>3
<1>3. Spec => []I
  BY AccHolds, ChlHolds, PTL
<1>4. I /\ A /\ C => (part = "accounts" => AccInv /\ AccDated) /\ (part = "challenges" => ChlInv /\ ChlNumbered)
  OBVIOUS
<1> HIDE DEF A, C, I
<1> QED
  BY <1>1, <1>2, <1>3, <1>4, PTL DEF Spec, allVars

\* A behaviour is one of the services.
LEMMA PartIsOne ==
    Spec => [](part \in {"accounts", "learning", "teams", "environments", "groups", "challenges", "templates"})
<1> DEFINE P == part \in {"accounts", "learning", "teams", "environments", "groups", "challenges", "templates"}
<1>1. Init => P
  BY DEF Init
<1>2. P /\ [Next]_allVars => P'
  BY PartStays
<1> QED
  BY <1>1, <1>2, PTL DEF Spec, allVars

\* What each service's invariant says of its types.
LEMMA AccountsTyped == AccInv /\ AccDated => Acc!TypeOK
BY DEF AccInv, AccFacts, AccDated, AccTimes, AccUser, AccLock, AccSchool, Acc!TypeOK

LEMMA LearningTyped == LrnInv => Lrn!TypeOK
<1> SUFFICES ASSUME LrnInv PROVE Lrn!TypeOK
  OBVIOUS
<1>1. \A i \in DOMAIN subs : subs[i] \in LrnRow
  BY DEF LrnInv, HwFacts, LrnRows
<1>2. \A i \in DOMAIN subs :
        /\ subs[i].status \in {"submitted", "graded"} /\ subs[i].days \in 0 .. MaxDays
        /\ subs[i].total \in 0 .. 4 \union {None}
  BY <1>1 DEF LrnRow
<1> QED
  BY <1>2 DEF LrnInv, HwFacts, GrFacts, Lrn!TypeOK

LEMMA TeamsTyped == TmsInv => Tms!TypeOK
<1> SUFFICES ASSUME TmsInv PROVE Tms!TypeOK
  OBVIOUS
<1>1. /\ \A n \in DOMAIN teams : teams[n] \in TeamRow
      /\ \A k \in DOMAIN regs : regs[k] \in RegRow
  BY DEF TmsInv, TmsFacts, TeamRows, RegRows
<1>2. /\ \A n \in DOMAIN teams : teams[n].status \in {"forming", "locked", "disbanded"}
                                 /\ teams[n].members \subseteq Competitors
      /\ \A k \in DOMAIN regs : regs[k].status \in {"registered", "canceled"}
  BY <1>1 DEF TeamRow, RegRow
<1> QED
  BY <1>2 DEF TmsInv, TmsFacts, Tms!TypeOK

LEMMA EnvironmentsTyped == EnvInv => Env!TypeOK
<1> SUFFICES ASSUME EnvInv PROVE Env!TypeOK
  OBVIOUS
<1>1. \A k \in DOMAIN envs : envs[k] \in EnvRow
  BY DEF EnvInv, EnvRows
<1> QED
  BY <1>1 DEF EnvRow, EnvStatuses, EnvInv, Env!TypeOK

LEMMA GroupsTyped == GrpInv => Grp!TypeOK
<1> SUFFICES ASSUME GrpInv PROVE Grp!TypeOK
  OBVIOUS
<1>1. /\ \A n \in DOMAIN groups : groups[n] \in GroupRow
      /\ DOMAIN inst = DOMAIN groups /\ \A n \in DOMAIN groups : inst[n] \in InstRow
  BY DEF GrpInv, GrpFacts, GroupRows, InstRows
<1>2. ASSUME NEW n \in DOMAIN groups
      PROVE  /\ groups[n].status \in Statuses /\ DOMAIN groups[n].members \subseteq Classmates
             /\ \A m \in Grp!Range(groups[n].members) : m.role \in Roles \union {None}
  <2>1. groups[n].status \in Statuses /\ groups[n].members \in Members
    BY <1>1, <1>2 DEF GroupRow
  <2>2. PICK D \in SUBSET Classmates : groups[n].members \in [D -> Member]
    BY <2>1 DEF Members
  <2>3. \A m \in Grp!Range(groups[n].members) : m \in Member
    BY <2>2 DEF Grp!Range
  <2> QED
    BY <2>1, <2>2, <2>3 DEF Member
<1>3. \A n \in DOMAIN groups : inst[n] \in [Classmates -> {None, "starting", "running", "stopped", "completed"}]
  BY <1>1 DEF InstRow
<1> QED
  BY <1>1, <1>2, <1>3 DEF GrpInv, GrpFacts, Statuses, Grp!TypeOK

LEMMA ChallengesTyped == ChlInv /\ ChlNumbered => Chl!TypeOK
<1> SUFFICES ASSUME ChlInv, ChlNumbered PROVE Chl!TypeOK
  OBVIOUS
<1>1. \A k \in DOMAIN checks : checks[k].status \in {"running", "passed", "failed"}
  BY CheckTyped DEF ChlInv, ChlFacts
<1> QED
  BY <1>1 DEF ChlInv, ChlFacts, ChlRow, ChlNumbered, Chl!TypeOK

LEMMA TemplatesTyped == TplInv => Tpl!TypeOK
<1> SUFFICES ASSUME TplInv PROVE Tpl!TypeOK
  OBVIOUS
<1>1. \A i \in DOMAIN tpls : tpls[i] \in TplRow
  BY DEF TplInv, TplFacts, TplRows
<1>2. \A i \in DOMAIN tpls :
        /\ tpls[i].status \in {"draft", "published", "off"} /\ tpls[i].kind \in Tpl!Kinds
        /\ tpls[i].mode \in Tpl!Modes \union {None} /\ tpls[i].checks \subseteq Tpl!CheckTypes
  BY <1>1 DEF TplRow
<1> QED
  BY <1>2 DEF TplInv, TplFacts, Tpl!TypeOK

\* Whichever services run, their state stays well formed: the statuses are the ones the
\* code's enumerations name, every row refers to a row there is, a graded submission has its
\* points and no other has, a team's captain is one of its members, and no time passes the
\* bound of the clock.
THEOREM ServicesStayTyped == Spec => []ServicesTyped
<1>1. /\ part \in {"accounts", "learning", "teams", "environments", "groups", "challenges", "templates"}
      /\ (part = "accounts" => AccInv /\ AccDated) /\ (part = "challenges" => ChlInv /\ ChlNumbered)
      /\ (part = "learning" => LrnInv) /\ (part = "teams" => TmsInv) /\ (part = "environments" => EnvInv)
      /\ (part = "groups" => GrpInv) /\ (part = "templates" => TplInv)
      => ServicesTyped
  BY AccountsTyped, LearningTyped, TeamsTyped, EnvironmentsTyped, GroupsTyped, ChallengesTyped, TemplatesTyped
     DEF ServicesTyped
<1> QED
  BY <1>1, PartIsOne, RestHolds, LrnHolds, TmsHolds, EnvHolds, GrpHolds, TplHolds, PTL
=============================================================================
