--------------------------- MODULE CtfChallenges ---------------------------
(***************************************************************************)
(* One challenge from its draft to a published competition: the challenge   *)
(* service of service/ctf with its reviews and verifications, and what the  *)
(* competition service does to the challenges of a competition.             *)
(*                                                                          *)
(* Every request checks what it has read and then writes without a          *)
(* condition; only the index of competition_challenges refuses a row.       *)
(***************************************************************************)
EXTENDS Integers, Sequences, FiniteSets

CONSTANTS
    Crews,        \* the threads, the requests they may start and how far the challenge
                  \* has come: [threads, calls, from]
    MaxChecks,    \* bound: the verifications started
    None          \* no row

VARIABLES
    chal,       \* the row of the challenge, with the number of its contracts and assertions
    checks,     \* the rows of challenge_verifications; ok is history: what the flow returned
    reviews,    \* the rows of challenge_reviews; onchain is history: the flag type it read
    contest,    \* the competition: its status and whether it is attack-defence
    listed,     \* the id of the row of competition_challenges
    thr,        \* what each handler has read
    left        \* requests that may still start

vars == <<chal, checks, reviews, contest, listed, thr, left>>

Idle == [at |-> "idle"]
Threads == UNION {c.threads : c \in Crews}
Free(t) == t \in DOMAIN thr /\ thr[t] = Idle /\ left > 0
At(t, step) == t \in DOMAIN thr /\ thr[t].at = step
Goes(t, r) == thr' = [thr EXCEPT ![t] = r]
Begins(t, r) == Free(t) /\ left' = left - 1 /\ Goes(t, r) /\ UNCHANGED <<chal, checks, reviews, contest, listed>>
Ends(t, step) == At(t, step) /\ Goes(t, Idle) /\ UNCHANGED left

Stored == chal.status # "none" /\ ~chal.deleted
Editable == Stored /\ chal.status \in {"draft", "rejected"}
ContestDraft == contest.status = "draft"
Running == {i \in DOMAIN checks : checks[i].status = "running"}
HasPassedVerification == \E i \in DOMAIN checks : checks[i].status = "passed"
Proven == chal.onchain => HasPassedVerification

\* The writes touch a row that is not deleted, whatever its status has become.
Write(row) == chal' = IF Stored THEN row ELSE chal
WriteContest(status) == contest' = IF contest.status = "deleted" THEN contest ELSE [contest EXCEPT !.status = status]

NewChallenge(onchain, contracts, assertions) ==
    [status |-> "draft", onchain |-> onchain, public |-> FALSE, deleted |-> FALSE,
     contracts |-> contracts, assertions |-> assertions]

\* By hand or from a source of grade C, from a template or a source of grade B, and from a
\* registry, a template or a source of grade A.
Drafts == {NewChallenge(o, 0, 0) : o \in BOOLEAN} \union {NewChallenge(TRUE, 1, n) : n \in 0..1}

\* A step of the flow fails, or the proof breaks the contracts and nothing else does.
Outcome(ok) == [status |-> IF ok THEN "passed" ELSE "failed", ok |-> ok]

Whole == NewChallenge(TRUE, 1, 1)
Approval == [action |-> "approved", onchain |-> TRUE]

Init ==
    \E crew \in Crews, ad \in BOOLEAN :
        /\ thr = [t \in crew.threads |-> Idle] /\ left = crew.calls
        /\ contest = [status |-> "draft", ad |-> ad] /\ listed = None
        /\ CASE crew.from = "none" ->
                  chal = [NewChallenge(FALSE, 0, 0) EXCEPT !.status = "none"] /\ checks = <<>> /\ reviews = <<>>
             [] crew.from = "draft" ->
                  chal \in {Whole, NewChallenge(FALSE, 0, 0)} /\ checks = <<>> /\ reviews = <<>>
             [] crew.from = "pending" ->
                  chal = [Whole EXCEPT !.status = "pending"] /\ checks = <<Outcome(TRUE)>> /\ reviews = <<>>
             [] crew.from = "approved" ->
                  /\ chal = [Whole EXCEPT !.status = "approved", !.public = TRUE]
                  /\ checks = <<Outcome(TRUE)>> /\ reviews = <<Approval>>

-----------------------------------------------------------------------------
(* The author.                                                              *)

Create(t, draft) ==
    /\ chal.status = "none" /\ Free(t)
    /\ chal' = draft /\ left' = left - 1
    /\ UNCHANGED <<checks, reviews, contest, listed, thr>>

Update(t, onchain, public) ==
    Editable /\ Begins(t, [at |-> "update", onchain |-> onchain, public |-> public])

UpdateWrite(t) ==
    /\ Ends(t, "update")
    /\ Write([chal EXCEPT !.onchain = thr[t].onchain, !.public = thr[t].public])
    /\ UNCHANGED <<checks, reviews, contest, listed>>

\* A contract or an assertion is added or removed, of a draft alone.
EditAssets(t, part, n) ==
    /\ Stored /\ chal.status = "draft" /\ chal[part] # n
    /\ Begins(t, [at |-> "assets", part |-> part, n |-> n])

AssetsWrite(t) ==
    /\ Ends(t, "assets")
    /\ chal' = [chal EXCEPT ![thr[t].part] = thr[t].n]
    /\ UNCHANGED <<checks, reviews, contest, listed>>

\* The count of uses that would refuse it is never raised.
Delete(t) == Stored /\ Begins(t, [at |-> "delete"])

DeleteWrite(t) ==
    /\ Ends(t, "delete")
    /\ chal' = [chal EXCEPT !.deleted = TRUE, !.contracts = 0, !.assertions = 0]
    /\ UNCHANGED <<checks, reviews, contest, listed>>

-----------------------------------------------------------------------------
(* Verification.                                                            *)

StartVerification(t) ==
    /\ Stored /\ chal.onchain /\ Running = {} /\ chal.contracts > 0 /\ chal.assertions > 0
    /\ Len(checks) < MaxChecks
    /\ Begins(t, [at |-> "verify"])

VerificationInsert(t) ==
    /\ At(t, "verify")
    /\ checks' = Append(checks, [status |-> "running", ok |-> FALSE])
    /\ Goes(t, [at |-> "flow", id |-> Len(checks) + 1])
    /\ UNCHANGED <<chal, reviews, contest, listed, left>>

\* The flow runs within the request and its result is stored over whatever is there.
Complete(t, ok) ==
    /\ Ends(t, "flow")
    /\ checks' = [checks EXCEPT ![thr[t].id] = Outcome(ok)]
    /\ UNCHANGED <<chal, reviews, contest, listed>>

\* The client is gone: the writes under the context of the request fail.
Abandon(t) == Ends(t, "flow") /\ UNCHANGED <<chal, checks, reviews, contest, listed>>

\* The rows that have been running for an hour, which is any of them.
RunVerificationCleanup(t, old) ==
    old # {} /\ old \subseteq Running /\ Begins(t, [at |-> "cleanup", old |-> old])

TimeoutWrite(t, i) ==
    /\ At(t, "cleanup") /\ i \in thr[t].old
    /\ checks' = [checks EXCEPT ![i].status = "failed"]
    /\ Goes(t, IF thr[t].old = {i} THEN Idle ELSE [thr[t] EXCEPT !.old = @ \ {i}])
    /\ UNCHANGED <<chal, reviews, contest, listed, left>>

-----------------------------------------------------------------------------
(* Review.                                                                  *)

SubmitReview(t) == Editable /\ Proven /\ Begins(t, [at |-> "submit"])

SubmitWrite(t) ==
    /\ Ends(t, "submit")
    /\ Write([chal EXCEPT !.status = "pending"])
    /\ UNCHANGED <<checks, reviews, contest, listed>>

Review(t, action) ==
    /\ Stored /\ chal.status = "pending"
    /\ action = "approved" => Proven
    /\ Begins(t, [at |-> "review", row |-> [action |-> action, onchain |-> chal.onchain]])

ReviewWrite(t) ==
    /\ Ends(t, "review")
    /\ reviews' = Append(reviews, thr[t].row)
    /\ LET action == thr[t].row.action IN
       Write([chal EXCEPT !.status = action, !.public = action = "approved"])
    /\ UNCHANGED <<checks, contest, listed>>

-----------------------------------------------------------------------------
(* The competition.                                                         *)

AddChallenges(t) ==
    /\ ContestDraft /\ Stored /\ chal.status = "approved" /\ listed = None
    /\ contest.ad => chal.onchain /\ chal.contracts > 0 /\ chal.assertions > 0
    /\ Begins(t, [at |-> "add", id |-> left])

AddWrite(t) ==
    /\ Ends(t, "add")
    /\ listed' = IF listed = None THEN thr[t].id ELSE listed
    /\ UNCHANGED <<chal, checks, reviews, contest>>

RemoveChallenge(t) == ContestDraft /\ listed # None /\ Begins(t, [at |-> "drop", id |-> listed])

RemoveWrite(t) ==
    /\ Ends(t, "drop")
    /\ listed' = IF listed = thr[t].id THEN None ELSE listed
    /\ UNCHANGED <<chal, checks, reviews, contest>>

Publish(t) == ContestDraft /\ listed # None /\ Begins(t, [at |-> "contest", to |-> "registration"])

DeleteContest(t) == ContestDraft /\ Begins(t, [at |-> "contest", to |-> "deleted"])

ContestWrite(t) ==
    /\ Ends(t, "contest")
    /\ WriteContest(thr[t].to)
    /\ UNCHANGED <<chal, checks, reviews, listed>>

Next ==
    \E t \in Threads :
      \/ \E draft \in Drafts : Create(t, draft)
      \/ \E onchain, public \in BOOLEAN : Update(t, onchain, public)
      \/ \E part \in {"contracts", "assertions"}, n \in 0..1 : EditAssets(t, part, n)
      \/ Delete(t) \/ StartVerification(t) \/ SubmitReview(t)
      \/ \E action \in {"approved", "rejected"} : Review(t, action)
      \/ \E old \in SUBSET (1..MaxChecks) : RunVerificationCleanup(t, old)
      \/ AddChallenges(t) \/ RemoveChallenge(t) \/ Publish(t) \/ DeleteContest(t)
      \/ UpdateWrite(t) \/ AssetsWrite(t) \/ DeleteWrite(t) \/ VerificationInsert(t)
      \/ \E ok \in BOOLEAN : Complete(t, ok)
      \/ Abandon(t)
      \/ \E i \in 1..MaxChecks : TimeoutWrite(t, i)
      \/ SubmitWrite(t) \/ ReviewWrite(t) \/ AddWrite(t) \/ RemoveWrite(t) \/ ContestWrite(t)

Spec == Init /\ [][Next]_vars

-----------------------------------------------------------------------------
Overlap == Cardinality(DOMAIN thr) - 1
Alone == Overlap = 0 /\ \A t \in DOMAIN thr : thr[t] = Idle

\* Every variable is in its domain.
TypeOK ==
    /\ chal.status \in {"none", "draft", "pending", "approved", "rejected"}
    /\ chal.contracts \in 0..1 /\ chal.assertions \in 0..1
    /\ \A i \in DOMAIN checks : checks[i].status \in {"running", "passed", "failed"}
    /\ contest.status \in {"draft", "registration", "deleted"}
    /\ listed \in Int \union {None} /\ left \in Nat

\* AC-12 and AC-13, whatever overlaps: a competition lists a challenge only after a review
\* approved it, and a review that saw an on-chain challenge approved it only after the flow
\* had succeeded once.
ListedWasApproved ==
    /\ listed # None \/ chal.status = "approved" => \E i \in DOMAIN reviews : reviews[i].action = "approved"
    /\ \A i \in DOMAIN reviews :
         reviews[i] = Approval => \E k \in DOMAIN checks : checks[k].ok

\* And while no requests overlap, an approved challenge is public, one under review is
\* proven, a listed one stays approved and fit for attack-defence until its author deletes
\* it, and a published competition keeps it.
StaysAsReviewed ==
    Alone =>
      /\ chal.status = "approved" => chal.public
      /\ chal.status \in {"pending", "approved"} => Proven
      /\ listed # None /\ Stored =>
           chal.status = "approved" /\ (contest.ad => chal.onchain /\ chal.contracts > 0 /\ chal.assertions > 0)
      /\ contest.status = "registration" => listed # None

\* A challenge has one verification running, and no more than the requests that overlap add.
OneVerification == Cardinality(Running) <= 1 + Overlap

ApprovedIsReviewed == ListedWasApproved /\ StaysAsReviewed /\ OneVerification
=============================================================================
