------------------------------ MODULE Services ------------------------------
(***************************************************************************)
(* Services of the backend that share no state, side by side: a behaviour  *)
(* is one of them.                                                         *)
(***************************************************************************)
EXTENDS Integers, Sequences, FiniteSets

CONSTANTS
    None, Never, Ungraded,                                            \* no value of each kind
    AccountCrews, MaxFail, Grace, MaxNow,                             \* of Accounts
    LearningCrews, MaxSubmissions, MaxDays, MaxFaults, Pass,          \* of GradeReview
    TeamCrews, Competitors, MaxTeams, MinSize, MaxSize,               \* of CtfTeams
    EnvironmentCrews, Slots, MaxNamespaces,                           \* of CtfEnvironments
    GroupCrews, Classmates, Roles, RoleMax, Sizes, MaxGroups,         \* of ExpGroups
    ChallengeCrews, MaxChecks,                                        \* of CtfChallenges
    TemplateCrews, MaxTemplates, MaxBoxes, Versions                   \* of ExpTemplates

Handled(crews) == \A c \in crews : IsFiniteSet(c.threads) /\ c.threads # {}

ASSUME HandlersAssumption ==
    /\ Handled(AccountCrews) /\ Handled(LearningCrews) /\ Handled(TeamCrews) /\ Handled(EnvironmentCrews)
    /\ Handled(GroupCrews) /\ Handled(ChallengeCrews) /\ Handled(TemplateCrews)

VARIABLE part    \* the services of this run

VARIABLES thr, left                                         \* of all
VARIABLES now, user, locking, validAfter, session, pairs, black, temp, school, shown, kicked
VARIABLES course, policy, day, subs, faults, torn, override, review, row, rows, appeal, warned, granted
VARIABLES comp, teams, regs, roster
VARIABLES ended, count, envs, ns, failed
VARIABLES groups, inst
VARIABLES chal, checks, reviews, contest, listed
VARIABLES tpls, lesson, image, versions

accVars == <<now, user, locking, validAfter, session, pairs, black, temp, school, shown, kicked>>
lrnVars == <<course, policy, day, subs, faults, torn, override, review, row, rows, appeal, warned, granted>>
teamVars == <<comp, teams, regs, roster>>
envVars == <<ended, count, envs, ns, failed>>
groupVars == <<groups, inst>>
chalVars == <<chal, checks, reviews, contest, listed>>
tplVars == <<tpls, lesson, image, versions>>

Acc == INSTANCE Accounts WITH Crews <- AccountCrews
Lrn == INSTANCE GradeReview WITH Crews <- LearningCrews
Tms == INSTANCE CtfTeams WITH Crews <- TeamCrews, Students <- Competitors
Env == INSTANCE CtfEnvironments WITH Crews <- EnvironmentCrews, rows <- envs
Grp == INSTANCE ExpGroups WITH Crews <- GroupCrews, Students <- Classmates
Chl == INSTANCE CtfChallenges WITH Crews <- ChallengeCrews
Tpl == INSTANCE ExpTemplates WITH Crews <- TemplateCrews

ASSUME GroupAssumption ==
    /\ IsFiniteSet(Classmates) /\ None \notin Roles /\ RoleMax \in Nat /\ Sizes \subseteq Nat
    /\ \A c \in GroupCrews : c.calls \in Nat /\ c.open \in Seq(Nat)

\* How far the challenge has come at first.
ASSUME ChallengeAssumption ==
    \A c \in ChallengeCrews : c.calls \in Nat /\ c.from \in {"none", "draft", "pending", "approved"}

\* The clock starts at 3.
ASSUME AccountAssumption == MaxFail \in Nat \ {0} /\ MaxNow \in Nat /\ MaxNow >= 3 /\ Never \notin Int

ASSUME TeamAssumption ==
    /\ MaxTeams \in Nat /\ MaxSize \in Nat \ {0}
    /\ \A c \in TeamCrews : c.mode \in {"individual", "free"}

\* The templates there are at first are drafts of their type, whose image is normal if they use it.
TplRole == [of : Nat, id : Nat] \union {None}
TplBox == [id : Nat, ver : Versions, scope : {"instance", "shared"}, role : TplRole]
TplRow ==
    [status : {"draft", "published", "off"}, kind : Tpl!Kinds, mode : Tpl!Modes \union {None}, shared : BOOLEAN,
     deleted : BOOLEAN, edited : BOOLEAN, boxes : SUBSET TplBox, scripts : BOOLEAN, scenes : BOOLEAN,
     checks : SUBSET Tpl!CheckTypes, role : TplRole]
ASSUME TemplateAssumption ==
    /\ IsFiniteSet(Versions)
    /\ \A c \in TemplateCrews :
         /\ c.calls \in Nat /\ c.from.image \in {"none", "pending", "normal", "rejected", "off"}
         /\ c.from.tpls \in Seq(TplRow)
         /\ \A i \in DOMAIN c.from.tpls :
              LET T == c.from.tpls[i] IN
              /\ T.status = "draft" /\ Tpl!OwnRoles(i, T) /\ Tpl!FitsType(T)
              /\ T.boxes # {} => c.from.image = "normal"
         /\ c.from.versions \in [DOMAIN c.from.versions -> BOOLEAN] /\ DOMAIN c.from.versions \subseteq Versions
         /\ Cardinality({v \in DOMAIN c.from.versions : c.from.versions[v]}) <= 1
         /\ c.from.image = "none" => DOMAIN c.from.versions = {}

\* The submissions there are at first were graded on time.
ASSUME LearningAssumption ==
    /\ MaxSubmissions \in Nat /\ MaxDays \in Nat
    /\ \A c \in LearningCrews :
         /\ c.begun \in Seq([status : {"graded"}, answers : Lrn!Answers, total : 0..4, days : {0}])
         /\ Len(c.begun) <= MaxSubmissions
         /\ \A i \in DOMAIN c.begun : c.begun[i].total = Lrn!Points(c.begun[i].answers)
    /\ None \notin Int \union [score : 0..4, id : Nat]
    /\ None \notin [status : {"pending", "approved", "rejected"}, grade : Nat, new : {0, 4, None}]

NoAccounts ==
    /\ now = None /\ user = None /\ locking = None /\ validAfter = None /\ session = None /\ pairs = None
    /\ black = None /\ temp = None /\ school = None /\ shown = None /\ kicked = None
NoLearning ==
    /\ course = None /\ policy = None /\ day = None /\ subs = None /\ faults = None /\ torn = None /\ override = None
    /\ review = None /\ row = None /\ rows = None /\ appeal = None /\ warned = None /\ granted = None
NoTeams == comp = None /\ teams = None /\ regs = None /\ roster = None
NoEnvironments == ended = None /\ count = None /\ envs = None /\ ns = None /\ failed = None
NoGroups == groups = None /\ inst = None
NoChallenges == chal = None /\ checks = None /\ reviews = None /\ contest = None /\ listed = None
NoTemplates == tpls = None /\ lesson = None /\ image = None /\ versions = None

Init ==
    /\ part \in {"accounts", "learning", "teams", "environments", "groups", "challenges", "templates"}
    /\ IF part = "accounts" THEN Acc!Init ELSE NoAccounts
    /\ IF part = "learning" THEN Lrn!Init ELSE NoLearning
    /\ IF part = "teams" THEN Tms!Init ELSE NoTeams
    /\ IF part = "environments" THEN Env!Init ELSE NoEnvironments
    /\ IF part = "groups" THEN Grp!Init ELSE NoGroups
    /\ IF part = "challenges" THEN Chl!Init ELSE NoChallenges
    /\ IF part = "templates" THEN Tpl!Init ELSE NoTemplates

Next ==
    /\ UNCHANGED part
    /\ \/ part = "accounts" /\ Acc!Next /\ UNCHANGED <<lrnVars, teamVars, envVars, groupVars, chalVars, tplVars>>
       \/ part = "learning" /\ Lrn!Next /\ UNCHANGED <<accVars, teamVars, envVars, groupVars, chalVars, tplVars>>
       \/ part = "teams" /\ Tms!Next /\ UNCHANGED <<accVars, lrnVars, envVars, groupVars, chalVars, tplVars>>
       \/ part = "environments" /\ Env!Next /\ UNCHANGED <<accVars, lrnVars, teamVars, groupVars, chalVars, tplVars>>
       \/ part = "groups" /\ Grp!Next /\ UNCHANGED <<accVars, lrnVars, teamVars, envVars, chalVars, tplVars>>
       \/ part = "challenges" /\ Chl!Next /\ UNCHANGED <<accVars, lrnVars, teamVars, envVars, groupVars, tplVars>>
       \/ part = "templates" /\ Tpl!Next /\ UNCHANGED <<accVars, lrnVars, teamVars, envVars, groupVars, chalVars>>

Spec == Init /\ [][Next]_<<part, thr, left, accVars, lrnVars, teamVars, envVars, groupVars, chalVars, tplVars>>

\* The state of the service that runs is well formed.
ServicesTyped ==
    CASE part = "accounts" -> Acc!TypeOK
      [] part = "learning" -> Lrn!TypeOK
      [] part = "teams" -> Tms!TypeOK
      [] part = "environments" -> Env!TypeOK
      [] part = "groups" -> Grp!TypeOK
      [] part = "challenges" -> Chl!TypeOK
      [] part = "templates" -> Tpl!TypeOK

\* The properties of each service, stated where its module states them.
OnlyTheSession == part = "accounts" => Acc!OnlyTheSession
OutStaysOut == part = "accounts" => Acc!OutStaysOut
FailuresBounded == part = "accounts" => Acc!FailuresBounded
AttemptsBounded == part = "learning" => Lrn!AttemptsBounded
TotalsAddUp == part = "learning" => Lrn!TotalsAddUp
ApprovedIsWritten ==
    (part = "learning" => Lrn!ApprovedIsWritten) /\ (part = "challenges" => Chl!ApprovedIsReviewed)
WarningsTrue == part = "learning" => Lrn!WarningsTrue
WithinLimits == (part = "teams" => Tms!WithinLimits) /\ (part = "groups" => Grp!WithinLimits)
LockedStays == (part = "teams" => Tms!RosterFrozen) /\ (part = "templates" => Tpl!TemplatesHold)
QuotaCounts == part = "environments" => Env!QuotaCounts
RunningHasNamespace == part = "environments" => Env!RunningHasNamespace

-----------------------------------------------------------------------------
(* The crews of each service that TLC checks: long sequences of one handler*)
(* at a time, and two handlers at once.                                    *)

MCAccountCrews ==
    { [threads |-> {1}, pairs |-> 2, changes |-> 2], [threads |-> {1, 2}, pairs |-> 1, changes |-> 1] }

MCGraded == <<[status |-> "graded", answers |-> [q \in {"choice"} |-> 2], total |-> 2, days |-> 0]>>
MCLearningCrews ==
    { [threads |-> {1}, calls |-> 3, jobs |-> {"homework"}, begun |-> <<>>],
      [threads |-> {1, 2}, calls |-> 2, jobs |-> {"homework"}, begun |-> MCGraded],
      [threads |-> {1}, calls |-> 10, jobs |-> {"review"}, begun |-> MCGraded],
      [threads |-> {1, 2}, calls |-> 6, jobs |-> {"review"}, begun |-> MCGraded],
      [threads |-> {1}, calls |-> 2, jobs |-> {"homework", "review"}, begun |-> MCGraded] }

MCTeamCrews ==
    { [threads |-> {1}, calls |-> 6, mode |-> "free"],
      [threads |-> {1, 2}, calls |-> 4, mode |-> "free"],
      [threads |-> {1, 2}, calls |-> 4, mode |-> "individual"] }

MCEnvironmentCrews == { [threads |-> {1}, calls |-> 4], [threads |-> {1, 2}, calls |-> 3] }

MCGroupCrews ==
    { [threads |-> {1}, calls |-> 5, open |-> <<>>], [threads |-> {1, 2}, calls |-> 3, open |-> <<2>>] }

MCChallengeCrews ==
    { [threads |-> {1}, calls |-> 8, from |-> "none"], [threads |-> {1, 2}, calls |-> 4, from |-> "draft"],
      [threads |-> {1, 2}, calls |-> 4, from |-> "pending"], [threads |-> {1, 2}, calls |-> 4, from |-> "approved"] }

MCBox(n, scope, role) == [id |-> 10 + n, ver |-> 1, scope |-> scope, role |-> role]
MCRole == [of |-> 1, id |-> 10]
MCRipe(mode, boxes, role) ==
    [status |-> "draft", kind |-> "mixed", mode |-> mode, shared |-> FALSE, deleted |-> FALSE, edited |-> FALSE,
     boxes |-> boxes, scripts |-> TRUE, scenes |-> TRUE, checks |-> {"script"}, role |-> role]
MCEmpty(status) == [tpls |-> <<>>, image |-> status, versions |-> IF status = "none" THEN <<>> ELSE <<TRUE>>]
MCCollab == [MCEmpty("normal") EXCEPT !.tpls = <<MCRipe("collab", {MCBox(1, "instance", MCRole)}, MCRole)>>]
MCShared == [MCEmpty("normal") EXCEPT !.tpls = <<MCRipe("shared", {MCBox(1, "instance", None), MCBox(2, "shared", None)}, None)>>]
MCTemplateCrews ==
    { [threads |-> {1}, calls |-> 3, from |-> MCEmpty("none")], [threads |-> {1}, calls |-> 3, from |-> MCCollab],
      [threads |-> {1}, calls |-> 2, from |-> MCShared], [threads |-> {1, 2}, calls |-> 2, from |-> MCCollab],
      [threads |-> {1, 2}, calls |-> 3, from |-> MCEmpty("pending")] }
=============================================================================
