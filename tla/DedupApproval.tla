--------------------------- MODULE DedupApproval ---------------------------
(***************************************************************************)
(* From a finding to the permission to act on it: detection of duplicates, *)
(* the reviews recorded from it, the decision a person takes, the plans    *)
(* generated from an approved review, and the authorization of a plan.     *)
(*                                                                         *)
(*   DeduplicationService            ExactGroups, NearPairs                *)
(*   DedupReviewService              CreateExact, CreateNear, AskApprove,  *)
(*                                   AskReject, Decide                     *)
(*   DedupExecutionPlanService       AskPlan, Observe, InsertPlan, Check   *)
(*   DedupPlanAuthorizationService   AskAuthorize, Grant, Revoke           *)
(*                                                                         *)
(* A request reads its rows, decides on them, hashes files one after the   *)
(* other and then writes, with no lock on what it has read; other requests *)
(* and other programs come in between.  What becomes of an authorization   *)
(* is in DedupExecution.                                                   *)
(***************************************************************************)
EXTENDS Integers, Sequences, FiniteSets

CONSTANTS
    Docs,          \* ids of documents, numbers as their order breaks ties
    Contents,      \* what a file may hold
    Callers,       \* requests that may be under way at a time
    None,          \* SQL NULL, no file
    CreatedAt,     \* [Docs -> Nat]
    Recorded,      \* [Docs -> Contents \cup {None}]: Document.content_hash
    Similar,       \* pairs <<a, b>> whose first chunks are close enough
    Scenarios      \* what may happen, see ScopeAssumption

ReviewStatus == {"PENDING", "APPROVED", "REJECTED"}
MatchTypes == {"EXACT", "NEAR"}

ASSUME DocsAssumption ==
    /\ IsFiniteSet(Docs) /\ Docs \subseteq Nat
    /\ CreatedAt \in [Docs -> Nat]
    /\ Recorded \in [Docs -> Contents \cup {None}]
    /\ Similar \subseteq Docs \X Docs
ASSUME NoneAssumption == None \notin Docs /\ None \notin Contents

\* A scenario says whether decisions on one review may overlap, and authorizations
\* of one plan; of which documents the source_type is the suffix of their path (of
\* one without a suffix it is "unknown"); and it bounds the rows and how often other
\* programs touch a file.
ASSUME ScopeAssumption ==
    \A s \in Scenarios : /\ s.rivals \in BOOLEAN
                         /\ s.typed \subseteq Docs
                         /\ {s.reviews, s.plans, s.grants, s.touches} \subseteq Nat

VARIABLES
    file,      \* [Docs -> Contents \cup {None}]: what is at Document.source
    reviews,   \* duplicate_reviews with their members
    plans,     \* dedup_execution_plans with their actions
    auths,     \* dedup_plan_authorizations
    call,      \* [Callers -> what the request is doing and has read]
    \* history: requests during which a file was touched, plans none of whose
    \* files was touched since they were observed, touches
    dirty, fresh, touches,
    scenario

rowVars == <<reviews, plans, auths>>
vars == <<file, rowVars, call, dirty, fresh, touches, scenario>>

-----------------------------------------------------------------------------
(* Detection. *)

\* find_exact_duplicates: documents of one recorded hash, where there are more
\* than one.  Its limit leaves groups out.
ExactGroups ==
    {g \in {{d \in Docs : Recorded[d] = h} : h \in Contents} : Cardinality(g) > 1}

\* find_near_duplicate_documents: every pair once.
NearPairs == {p \in Similar : p[1] < p[2]}

\* Oldest first, ties by id.
Recommended(group) ==
    CHOOSE d \in group :
        \A e \in group \ {d} :
            \/ CreatedAt[d] < CreatedAt[e]
            \/ CreatedAt[d] = CreatedAt[e] /\ d < e

-----------------------------------------------------------------------------
Pending(match, members, recommended) ==
    [match |-> match, members |-> members, recommended |-> recommended,
     status |-> "PENDING", canonical |-> None]

Idle == [at |-> "idle"]

Busy(c) == call[c].at # "idle"

\* No two requests of one kind work on the same row.
Alone(at, id) ==
    scenario.rivals \/ \A b \in Callers : ~(call[b].at = at /\ call[b].id = id)

Active(p) == \E a \in DOMAIN auths : auths[a] = [plan |-> p, status |-> "AUTHORIZED"]

\* The canonical document is read first, then those of the actions.
Concerned(p) == DOMAIN plans[p].seen \cup {plans[p].canonical}

\* What check_plan_validity compares: the file is there, was there when the plan
\* was generated, and is the same; and its path has the suffix of its type.
AsPlanned(p, d) ==
    LET seen == IF d = plans[p].canonical THEN plans[p].canonicalSeen ELSE plans[p].seen[d]
    IN  seen # None /\ file[d] = seen /\ d \in scenario.typed

PlanValid(p) == \A d \in Concerned(p) : AsPlanned(p, d)

Init ==
    /\ file = [d \in Docs |-> Recorded[d]]
    /\ reviews = <<>>
    /\ plans = <<>>
    /\ auths = <<>>
    /\ call = [c \in Callers |-> Idle]
    /\ dirty = {}
    /\ fresh = {}
    /\ touches = 0
    /\ scenario \in Scenarios

-----------------------------------------------------------------------------
(* Reviews. *)

Create(review) ==
    /\ Len(reviews) < scenario.reviews
    /\ reviews' = Append(reviews, review)
    /\ UNCHANGED <<file, plans, auths, call, dirty, fresh, touches, scenario>>

\* create_review_from_exact_group
CreateExact == \E g \in ExactGroups : Create(Pending("EXACT", g, Recommended(g)))

\* create_review_from_near_pair: nothing is recommended.
CreateNear == \E p \in NearPairs : Create(Pending("NEAR", {p[1], p[2]}, None))

\* A request begins, having read its rows; no file has changed under it yet.
Begin(c, task) ==
    /\ ~Busy(c)
    /\ call' = [call EXCEPT ![c] = task]
    /\ dirty' = dirty \ {c}
    /\ UNCHANGED <<file, rowVars, fresh, touches, scenario>>

\* The canonical document has to be a member; for an exact finding one has to be
\* named.
Keepable(r) == reviews[r].members \cup {d \in {None} : reviews[r].match = "NEAR"}

\* approve_review up to its assignments: the review is PENDING.
AskApprove(c, r) ==
    /\ reviews[r].status = "PENDING"
    /\ Alone("decide", r)
    /\ \E d \in Keepable(r) :
          Begin(c, [at |-> "decide", id |-> r, verdict |-> "APPROVED", canonical |-> d])

\* Mutant: rejecting an approved review takes the approval back.
AskRejectAny(c, r) ==
    /\ reviews[r].status # "REJECTED"
    /\ Alone("decide", r)
    /\ Begin(c, [at |-> "decide", id |-> r, verdict |-> "REJECTED", canonical |-> None])

\* reject_review up to its assignments.
AskReject(c, r) ==
    /\ reviews[r].status = "PENDING"
    /\ Alone("decide", r)
    /\ Begin(c, [at |-> "decide", id |-> r, verdict |-> "REJECTED", canonical |-> None])

Return(c) == call' = [call EXCEPT ![c] = Idle]

\* The assignments and the commit, by primary key.  A canonical document that is
\* not named is no change to the row as the request has read it, so the UPDATE
\* leaves the column alone, as every rejection does.
Decide(c) ==
    /\ call[c].at = "decide"
    /\ LET r == call[c].id
           d == call[c].canonical
       IN  reviews' = [reviews EXCEPT
               ![r].status = call[c].verdict,
               ![r].canonical = IF d = None THEN @ ELSE d]
    /\ Return(c)
    /\ UNCHANGED <<file, plans, auths, dirty, fresh, touches, scenario>>

-----------------------------------------------------------------------------
(* Plans. *)

\* generate_plan_for_review up to its first look at a file.
AskPlan(c, r) ==
    /\ reviews[r].status = "APPROVED"
    /\ reviews[r].canonical \in reviews[r].members
    /\ Len(plans) < scenario.plans
    /\ Begin(c, [at |-> "observe", id |-> r, canonical |-> reviews[r].canonical,
                 todo |-> reviews[r].members \ {reviews[r].canonical},
                 seen |-> <<>>])

\* _observe_file of one of the other members.
Observe(c) ==
    /\ call[c].at = "observe"
    /\ \E d \in call[c].todo :
          call' = [call EXCEPT
              ![c].todo = @ \ {d},
              ![c].seen = [e \in DOMAIN @ \cup {d} |-> IF e = d THEN file[d] ELSE @[e]]]
    /\ UNCHANGED <<file, rowVars, dirty, fresh, touches, scenario>>

\* Mutant: a missing file gets an action like any other.
PlannableAll(seen) == IF \E d \in DOMAIN seen : seen[d] # None THEN DOMAIN seen ELSE {}

\* Members whose file is missing are left out of the plan.
Plannable(seen) == {d \in DOMAIN seen : seen[d] # None}

\* The row with its actions, one for every document that is left.
Plan(c) ==
    [review |-> call[c].id,
     canonical |-> call[c].canonical,
     canonicalSeen |-> file[call[c].canonical],
     seen |-> [d \in Plannable(call[c].seen) |-> call[c].seen[d]]]

\* The last file is observed, the canonical one; a plan with an action for every
\* other file that was there is stored, unless there was none.
InsertPlan(c) ==
    /\ call[c].at = "observe"
    /\ call[c].todo = {}
    /\ IF Plannable(call[c].seen) = {}
       THEN UNCHANGED <<plans, fresh>>
       ELSE /\ Len(plans) < scenario.plans
            /\ plans' = Append(plans, Plan(c))
            /\ fresh' = IF c \in dirty THEN fresh ELSE fresh \cup {Len(plans')}
    /\ Return(c)
    /\ UNCHANGED <<file, reviews, auths, dirty, touches, scenario>>

-----------------------------------------------------------------------------
(* Authorizations. *)

\* Mutant: the canonical document is taken as it was planned.
AskAuthorizeLightly(c, p) ==
    /\ reviews[plans[p].review].status = "APPROVED"
    /\ ~Active(p)
    /\ Alone("check", p)
    /\ Len(auths) < scenario.grants
    /\ Begin(c, [at |-> "check", id |-> p, todo |-> DOMAIN plans[p].seen])

\* authorize_plan up to check_plan_validity.
AskAuthorize(c, p) ==
    /\ reviews[plans[p].review].status = "APPROVED"
    /\ ~Active(p)
    /\ Alone("check", p)
    /\ Len(auths) < scenario.grants
    /\ Begin(c, [at |-> "check", id |-> p, todo |-> Concerned(p)])

\* check_plan_validity looks at one more file; one that differs refuses the request.
Check(c) ==
    /\ call[c].at = "check"
    /\ \E d \in call[c].todo :
          /\ plans[call[c].id].canonical \in call[c].todo => d = plans[call[c].id].canonical
          /\ IF AsPlanned(call[c].id, d)
             THEN call' = [call EXCEPT ![c].todo = @ \ {d}]
             ELSE Return(c)
    /\ UNCHANGED <<file, rowVars, dirty, fresh, touches, scenario>>

\* The plan was found valid; its authorization is stored.
Grant(c) ==
    /\ call[c].at = "check"
    /\ call[c].todo = {}
    /\ Len(auths) < scenario.grants
    /\ auths' = Append(auths, [plan |-> call[c].id, status |-> "AUTHORIZED"])
    /\ Return(c)
    /\ UNCHANGED <<file, reviews, plans, dirty, fresh, touches, scenario>>

\* revoke_authorization
Revoke ==
    /\ \E a \in DOMAIN auths :
          /\ auths[a].status = "AUTHORIZED"
          /\ auths' = [auths EXCEPT ![a].status = "REVOKED"]
    /\ UNCHANGED <<file, reviews, plans, call, dirty, fresh, touches, scenario>>

-----------------------------------------------------------------------------
\* The executor moves a file away, or another program removes or rewrites one.
Touch ==
    /\ touches < scenario.touches
    /\ \E d \in Docs : \E x \in (Contents \cup {None}) \ {file[d]} :
          /\ file' = [file EXCEPT ![d] = x]
          /\ fresh' = {p \in fresh : d \notin Concerned(p)}
    /\ dirty' = {c \in Callers : Busy(c)}
    /\ touches' = touches + 1
    /\ UNCHANGED <<rowVars, call, scenario>>

Request(c) ==
    \/ \E r \in DOMAIN reviews : AskApprove(c, r) \/ AskReject(c, r) \/ AskPlan(c, r)
    \/ \E p \in DOMAIN plans : AskAuthorize(c, p)
    \/ Decide(c) \/ Observe(c) \/ InsertPlan(c) \/ Check(c) \/ Grant(c)

Next ==
    \/ CreateExact \/ CreateNear \/ Revoke \/ Touch
    \/ \E c \in Callers : Request(c)

Spec == Init /\ [][Next]_vars

-----------------------------------------------------------------------------
(* Properties. *)

\* Rows and requests have the values their columns and locals can take; the
\* canonical document of a review is one of its members, and an exact finding is
\* never APPROVED without one.
TypeOK ==
    /\ file \in [Docs -> Contents \cup {None}]
    /\ \A r \in DOMAIN reviews :
          /\ reviews[r].match \in MatchTypes
          /\ reviews[r].status \in ReviewStatus
          /\ Cardinality(reviews[r].members) >= 2
          /\ reviews[r].canonical \in reviews[r].members \cup {None}
          /\ reviews[r].recommended \in reviews[r].members \cup {None}
          /\ reviews[r].match = "EXACT" /\ reviews[r].status = "APPROVED"
                => reviews[r].canonical # None
    /\ \A p \in DOMAIN plans : plans[p].review \in DOMAIN reviews
    /\ \A a \in DOMAIN auths : /\ auths[a].plan \in DOMAIN plans
                               /\ auths[a].status \in {"AUTHORIZED", "REVOKED"}
    /\ \A c \in Callers : call[c].at \in {"idle", "decide", "observe", "check"}
    /\ dirty \subseteq Callers
    /\ fresh \subseteq DOMAIN plans

\* A review is decided once: where no two requests decide on it at a time, neither
\* the verdict nor the canonical document changes after the decision
\* (_require_pending in approve_review and reject_review).
Settled ==
    \A r \in DOMAIN reviews : reviews[r].status # "PENDING" => reviews'[r] = reviews[r]
DecisionStands == [][~scenario.rivals => Settled]_vars

\* The canonical file was there to be observed, and since then nobody has touched a
\* file the plan is about.
Undisturbed(p) == p \in fresh /\ plans[p].canonicalSeen # None

\* A plan always proposes something, never the document to be kept, and as long
\* as its files stay as they were when it was generated it can be authorized,
\* however many files of the review were gone by then (generate_plan_for_review
\* leaves them out), provided that all the documents it is about have a suffix.
FreshPlanUsable ==
    \A p \in DOMAIN plans :
        /\ DOMAIN plans[p].seen # {}
        /\ plans[p].canonical \notin DOMAIN plans[p].seen
        /\ Undisturbed(p) /\ Concerned(p) \subseteq scenario.typed => PlanValid(p)

\* An authorization is stored only for a plan that holds at that moment, unless a
\* file was touched during the request, and only once while it is in force, unless
\* two requests overlap (authorize_plan, _get_active_authorization).
GrantIsSound ==
    [][\A c \in Callers :
          Len(auths') > Len(auths) /\ call'[c] # call[c] =>
              /\ c \notin dirty => PlanValid(call[c].id)
              /\ ~scenario.rivals => ~Active(call[c].id)]_vars

=============================================================================
