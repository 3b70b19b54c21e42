---------------------------- MODULE ReviewProofs ----------------------------
(***************************************************************************)
(* Theorems about the two components in which people decide on what the    *)
(* program proposes: DedupApproval, for every set of documents, findings   *)
(* and requests, and whatever other programs do to the files; ChatTurn,    *)
(* for every number of turns, tool calls and reviews.                      *)
(***************************************************************************)
EXTENDS DedupApproval, ChatTurn, SumTheorems

Seen == Contents \cup {None}

\* What a request, and then a plan, has observed of some documents.
Observations == UNION {[D -> Seen] : D \in SUBSET Docs}

ReviewRows ==
    [match : MatchTypes, members : SUBSET Docs, recommended : Docs \cup {None},
     status : ReviewStatus, canonical : Docs \cup {None}]

PlanRows == [review : Nat, canonical : Docs, canonicalSeen : Seen, seen : Observations]

AuthRows == [plan : Nat, status : {"AUTHORIZED", "REVOKED"}]

Decisions ==
    [at : {"decide"}, id : Nat, verdict : {"APPROVED", "REJECTED"}, canonical : Docs \cup {None}]

Plannings ==
    [at : {"observe"}, id : Nat, canonical : Docs, todo : SUBSET Docs, seen : Observations]

Checks == [at : {"check"}, id : Nat, todo : SUBSET Docs]

Tasks == {Idle} \cup Decisions \cup Plannings \cup Checks

Types ==
    /\ file \in [Docs -> Seen]
    /\ reviews \in Seq(ReviewRows)
    /\ plans \in Seq(PlanRows)
    /\ auths \in Seq(AuthRows)
    /\ call \in [Callers -> Tasks]
    /\ dirty \subseteq Callers
    /\ fresh \subseteq DOMAIN plans

\* What the columns of a row have to do with each other.
ReviewsOK ==
    \A r \in DOMAIN reviews :
        /\ Cardinality(reviews[r].members) >= 2
        /\ reviews[r].canonical \in reviews[r].members \cup {None}
        /\ reviews[r].recommended \in reviews[r].members \cup {None}
        /\ reviews[r].match = "EXACT" /\ reviews[r].status = "APPROVED"
              => reviews[r].canonical # None

PlansOK ==
    \A p \in DOMAIN plans :
        /\ plans[p].review \in DOMAIN reviews
        /\ DOMAIN plans[p].seen # {}
        /\ plans[p].canonical \notin DOMAIN plans[p].seen
        /\ \A d \in DOMAIN plans[p].seen : plans[p].seen[d] # None

AuthsOK == \A a \in DOMAIN auths : auths[a].plan \in DOMAIN plans

\* What every request knows about its own locals.
DecisionsOK ==
    \A c \in Callers : call[c].at = "decide" =>
        /\ call[c].id \in DOMAIN reviews
        /\ call[c].canonical \in reviews[call[c].id].members \cup {None}
        /\ reviews[call[c].id].match = "EXACT" /\ call[c].verdict = "APPROVED"
              => call[c].canonical # None

PlanningsOK ==
    \A c \in Callers : call[c].at = "observe" =>
        /\ call[c].id \in DOMAIN reviews
        /\ call[c].canonical \notin call[c].todo \cup DOMAIN call[c].seen

ChecksOK ==
    \A c \in Callers : call[c].at = "check" => call[c].id \in DOMAIN plans

\* What a request has seen of a file still holds, unless one was touched since
\* the request began.
ObservedHolds ==
    \A c \in Callers : call[c].at = "observe" /\ c \notin dirty =>
        \A d \in DOMAIN call[c].seen : call[c].seen[d] = file[d]

CheckedHolds ==
    \A c \in Callers : call[c].at = "check" /\ c \notin dirty =>
        \A d \in Concerned(call[c].id) \ call[c].todo : AsPlanned(call[c].id, d)

FreshHolds ==
    \A p \in fresh :
        /\ file[plans[p].canonical] = plans[p].canonicalSeen
        /\ \A d \in DOMAIN plans[p].seen : file[d] = plans[p].seen[d]

\* Where requests do not overlap, what a request read before it began to decide
\* or to check is still so.
Unrivalled(at) ==
    \A b, c \in Callers :
        call[b].at = at /\ call[c].at = at /\ call[b].id = call[c].id => b = c

UndecidedHolds ==
    ~scenario.rivals =>
        /\ Unrivalled("decide")
        /\ \A c \in Callers : call[c].at = "decide" => reviews[call[c].id].status = "PENDING"

InactiveHolds ==
    ~scenario.rivals =>
        /\ Unrivalled("check")
        /\ \A c \in Callers : call[c].at = "check" => ~Active(call[c].id)

\* The induction hypothesis of all theorems.
IInv ==
    /\ Types /\ ReviewsOK /\ PlansOK /\ AuthsOK /\ DecisionsOK /\ PlanningsOK /\ ChecksOK
    /\ ObservedHolds /\ CheckedHolds /\ FreshHolds /\ UndecidedHolds /\ InactiveHolds
-----------------------------------------------------------------------------
(* Findings                                                                *)

\* A group has an oldest document, and it is a member.
LEMMA RecommendedIsMember ==
    ASSUME NEW group \in SUBSET Docs, group # {}
    PROVE  Recommended(group) \in group
<1>1. PICK t \in {CreatedAt[d] : d \in group} : \A u \in {CreatedAt[d] : d \in group} : t <= u
  <2>1. \A d \in group : CreatedAt[d] \in Nat
    BY DocsAssumption
  <2>2. {CreatedAt[d] : d \in group} \in SUBSET Nat /\ {CreatedAt[d] : d \in group} # {}
    BY <2>1
  <2>. QED
    BY <2>2, Least
<1>2. PICK m \in {d \in group : CreatedAt[d] = t} : \A n \in {d \in group : CreatedAt[d] = t} : m <= n
  <2>1. {d \in group : CreatedAt[d] = t} \in SUBSET Nat /\ {d \in group : CreatedAt[d] = t} # {}
    BY DocsAssumption
  <2>2. QED
    BY <2>1, Least
<1>3. \A e \in group \ {m} :
         \/ CreatedAt[m] < CreatedAt[e]
         \/ CreatedAt[m] = CreatedAt[e] /\ m < e
  <2> SUFFICES ASSUME NEW e \in group \ {m}
               PROVE  \/ CreatedAt[m] < CreatedAt[e]
                      \/ CreatedAt[m] = CreatedAt[e] /\ m < e
    OBVIOUS
  <2>1. /\ e \in Nat /\ m \in Nat /\ m # e
        /\ CreatedAt[e] \in Nat /\ CreatedAt[m] \in Nat /\ t \in Nat
    BY DocsAssumption
  <2>2. CreatedAt[m] = t /\ t <= CreatedAt[e]
    BY <1>1
  <2>3. CreatedAt[e] = t => m <= e
    BY <1>2
  <2>4. QED
    BY <2>1, <2>2, <2>3
<1>4. QED
  BY <1>3 DEF Recommended

\* A group of equal files makes a review row with two files and a keeper among them.
LEMMA ExactFindings ==
    ASSUME NEW g \in ExactGroups
    PROVE  Pending("EXACT", g, Recommended(g)) \in ReviewRows /\ Cardinality(g) >= 2
             /\ Recommended(g) \in g
<1>1. g \subseteq Docs /\ Cardinality(g) > 1
  BY DEF ExactGroups
<1>2. IsFiniteSet(g) /\ Cardinality(g) \in Nat
  BY <1>1, DocsAssumption, FS_Subset, FS_CardinalityType
<1>3. g # {}
  BY <1>1, FS_EmptySet
<1>4. Recommended(g) \in g
  BY <1>1, <1>3, RecommendedIsMember
<1>5. QED
  BY <1>1, <1>2, <1>4 DEF Pending, ReviewRows, MatchTypes, ReviewStatus

\* A near pair makes a review row with two files.
LEMMA NearFindings ==
    ASSUME NEW p \in NearPairs
    PROVE  Pending("NEAR", {p[1], p[2]}, None) \in ReviewRows /\ Cardinality({p[1], p[2]}) >= 2
<1>1. p[1] \in Docs /\ p[2] \in Docs /\ p[1] # p[2]
  <2>1. p \in Docs \X Docs /\ p[1] < p[2]
    BY DocsAssumption DEF NearPairs
  <2>2. p[1] \in Docs /\ p[2] \in Docs
    BY <2>1
  <2>3. p[1] \in Nat /\ p[2] \in Nat
    BY <2>2, DocsAssumption
  <2>4. QED
    BY <2>1, <2>2, <2>3
<1>2. IsFiniteSet({p[1]}) /\ Cardinality({p[1]}) = 1
  BY FS_Singleton
<1>3. Cardinality({p[1]} \cup {p[2]}) = 2
  <2>1. p[2] \notin {p[1]}
    BY <1>1
  <2>2. Cardinality({p[1]} \cup {p[2]}) = Cardinality({p[1]}) + 1
    BY <1>2, <2>1, FS_AddElement
  <2>3. QED
    BY <1>2, <2>2
<1>4. {p[1]} \cup {p[2]} = {p[1], p[2]}
  OBVIOUS
<1>5. QED
  BY <1>1, <1>3, <1>4 DEF Pending, ReviewRows, MatchTypes, ReviewStatus

\* What detection records: a pending review of two documents or more.
NewReview(review) ==
    /\ review \in ReviewRows
    /\ review.status = "PENDING" /\ review.canonical = None
    /\ Cardinality(review.members) >= 2
    /\ review.recommended \in review.members \cup {None}

\* Detection makes one new review at a time.
LEMMA CreationSteps ==
    ASSUME CreateExact \/ CreateNear
    PROVE  \E review : NewReview(review) /\ Create(review)
<1>1. CASE CreateExact
  <2>1. PICK g \in ExactGroups : Create(Pending("EXACT", g, Recommended(g)))
    BY <1>1 DEF CreateExact
  <2>2. NewReview(Pending("EXACT", g, Recommended(g)))
    BY ExactFindings DEF NewReview, Pending
  <2>3. QED
    BY <2>1, <2>2
<1>2. CASE CreateNear
  <2>1. PICK p \in NearPairs : Create(Pending("NEAR", {p[1], p[2]}, None))
    BY <1>2 DEF CreateNear
  <2>2. NewReview(Pending("NEAR", {p[1], p[2]}, None))
    BY NearFindings DEF NewReview, Pending
  <2>3. QED
    BY <2>1, <2>2
<1>3. QED
  BY <1>1, <1>2
-----------------------------------------------------------------------------
(* Every step keeps the invariant                                          *)

\* There is nothing to be inconsistent at first.
LEMMA InitInv == Init => IInv
<1> SUFFICES ASSUME Init PROVE IInv
  OBVIOUS
<1> USE DEF Init
<1>1. Types
  BY DocsAssumption DEF Types, Seen, Tasks
<1>2. ReviewsOK /\ PlansOK /\ AuthsOK /\ FreshHolds
  BY DEF ReviewsOK, PlansOK, AuthsOK, FreshHolds
<1>3. DecisionsOK /\ PlanningsOK /\ ChecksOK
  BY DEF DecisionsOK, PlanningsOK, ChecksOK, Idle
<1>4. ObservedHolds /\ CheckedHolds /\ UndecidedHolds /\ InactiveHolds
  BY DEF ObservedHolds, CheckedHolds, UndecidedHolds, InactiveHolds, Unrivalled, Idle
<1>5. QED
  BY <1>1, <1>2, <1>3, <1>4 DEF IInv

\* Detection keeps the invariant,
LEMMA CreateKeeps ==
    ASSUME IInv, CreateExact \/ CreateNear
    PROVE  IInv'
<1>1. PICK review : NewReview(review) /\ Create(review)
  BY CreationSteps
<1>2. /\ reviews \in Seq(ReviewRows) /\ review \in ReviewRows
      /\ reviews' = Append(reviews, review)
      /\ UNCHANGED <<file, plans, auths, call, dirty, fresh, touches, scenario>>
  BY <1>1 DEF IInv, Types, Create, NewReview
<1>3. /\ reviews' \in Seq(ReviewRows)
      /\ DOMAIN reviews' = DOMAIN reviews \cup {Len(reviews) + 1}
      /\ \A r \in DOMAIN reviews : reviews'[r] = reviews[r]
      /\ reviews'[Len(reviews) + 1] = review
  BY <1>2
<1>4. Types'
  BY <1>2, <1>3 DEF IInv, Types
<1>5. ReviewsOK'
  BY <1>1, <1>3 DEF IInv, ReviewsOK, NewReview
<1>6. PlansOK' /\ AuthsOK' /\ ChecksOK' /\ PlanningsOK' /\ DecisionsOK'
  BY <1>2, <1>3 DEF IInv, PlansOK, AuthsOK, ChecksOK, PlanningsOK, DecisionsOK
<1>7. ObservedHolds' /\ FreshHolds' /\ InactiveHolds'
  BY <1>2 DEF IInv, ObservedHolds, FreshHolds, InactiveHolds, Unrivalled, Active
<1>8. CheckedHolds'
  BY <1>2 DEF IInv, CheckedHolds, AsPlanned, Concerned
<1>9. UndecidedHolds'
  BY <1>2, <1>3 DEF IInv, UndecidedHolds, Unrivalled, DecisionsOK
<1>10. QED
  BY <1>4, <1>5, <1>6, <1>7, <1>8, <1>9 DEF IInv

\* A request begins, and no other is disturbed.
LEMMA BeginKeeps ==
    ASSUME IInv, NEW c \in Callers, NEW task \in Tasks \ {Idle}, Begin(c, task),
           task.at = "decide" =>
              /\ Alone("decide", task.id)
              /\ task.id \in DOMAIN reviews /\ reviews[task.id].status = "PENDING"
              /\ task.canonical \in reviews[task.id].members \cup {None}
              /\ reviews[task.id].match = "EXACT" /\ task.verdict = "APPROVED"
                    => task.canonical # None,
           task.at = "observe" =>
              /\ task.id \in DOMAIN reviews
              /\ task.canonical \notin task.todo /\ task.seen = <<>>,
           task.at = "check" =>
              /\ Alone("check", task.id)
              /\ task.id \in DOMAIN plans /\ ~Active(task.id)
              /\ task.todo = Concerned(task.id)
    PROVE  IInv'
<1>1. /\ call \in [Callers -> Tasks]
      /\ call' = [call EXCEPT ![c] = task]
      /\ dirty' = dirty \ {c}
      /\ UNCHANGED <<file, reviews, plans, auths, fresh, touches, scenario>>
  BY DEF IInv, Types, Begin, rowVars
<1>2. /\ call'[c] = task
      /\ \A b \in Callers \ {c} : call'[b] = call[b] /\ (b \notin dirty' => b \notin dirty)
  BY <1>1
<1>3. Types'
  BY <1>1 DEF IInv, Types
<1>4. ReviewsOK' /\ PlansOK' /\ AuthsOK' /\ FreshHolds'
  BY <1>1 DEF IInv, ReviewsOK, PlansOK, AuthsOK, FreshHolds
<1>5. DecisionsOK' /\ PlanningsOK' /\ ChecksOK'
  BY <1>1, <1>2 DEF IInv, DecisionsOK, PlanningsOK, ChecksOK
<1>6. ObservedHolds'
  BY <1>1, <1>2 DEF IInv, ObservedHolds
<1>7. CheckedHolds'
  BY <1>1, <1>2 DEF IInv, CheckedHolds, AsPlanned, Concerned
<1>8. UndecidedHolds'
  BY <1>1, <1>2 DEF IInv, UndecidedHolds, Unrivalled, Alone
<1>9. InactiveHolds'
  BY <1>1, <1>2 DEF IInv, InactiveHolds, Unrivalled, Alone, Active
<1>10. QED
  BY <1>3, <1>4, <1>5, <1>6, <1>7, <1>8, <1>9 DEF IInv

\* so do a request that is read and checked,
LEMMA AskKeeps ==
    ASSUME IInv, NEW c \in Callers,
           \/ \E r \in DOMAIN reviews : AskApprove(c, r) \/ AskReject(c, r) \/ AskPlan(c, r)
           \/ \E p \in DOMAIN plans : AskAuthorize(c, p)
    PROVE  IInv'
<1>1. ASSUME NEW r \in DOMAIN reviews, AskApprove(c, r)
      PROVE  IInv'
  <2>1. PICK d \in Keepable(r) :
            Begin(c, [at |-> "decide", id |-> r, verdict |-> "APPROVED", canonical |-> d])
    BY <1>1 DEF AskApprove
  <2>2. /\ r \in Nat /\ reviews[r] \in ReviewRows
        /\ d \in reviews[r].members \cup {None}
        /\ reviews[r].match = "EXACT" => d # None
    <3>1. r \in Nat /\ reviews[r] \in ReviewRows
      BY <1>1 DEF IInv, Types
    <3>2. reviews[r].members \subseteq Docs /\ None \notin Docs
      BY <3>1, NoneAssumption DEF ReviewRows
    <3>3. QED
      BY <2>1, <3>1, <3>2 DEF Keepable
  <2>3. [at |-> "decide", id |-> r, verdict |-> "APPROVED", canonical |-> d] \in Tasks \ {Idle}
    BY <2>2 DEF Tasks, Decisions, Idle, ReviewRows
  <2>4. QED
    BY <1>1, <2>1, <2>2, <2>3, BeginKeeps DEF AskApprove
<1>2. ASSUME NEW r \in DOMAIN reviews, AskReject(c, r)
      PROVE  IInv'
  <2>1. [at |-> "decide", id |-> r, verdict |-> "REJECTED", canonical |-> None] \in Tasks \ {Idle}
    BY <1>2 DEF IInv, Types, Tasks, Decisions, Idle
  <2>2. QED
    BY <1>2, <2>1, BeginKeeps DEF AskReject
<1>3. ASSUME NEW r \in DOMAIN reviews, AskPlan(c, r)
      PROVE  IInv'
  <2> DEFINE task == [at |-> "observe", id |-> r, canonical |-> reviews[r].canonical,
                      todo |-> reviews[r].members \ {reviews[r].canonical}, seen |-> <<>>]
  <2>1. Begin(c, task) /\ reviews[r].canonical \in reviews[r].members
    BY <1>3 DEF AskPlan
  <2>2. r \in Nat /\ reviews[r] \in ReviewRows
    BY <1>3 DEF IInv, Types
  <2>3. <<>> \in Observations
    <3>1. <<>> \in [{} -> Seen]
      OBVIOUS
    <3>2. QED
      BY <3>1 DEF Observations
  <2>4. task \in Tasks \ {Idle}
    BY <2>1, <2>2, <2>3 DEF Tasks, Plannings, Idle, ReviewRows
  <2>5. task.at = "observe" /\ task.id = r /\ task.canonical \notin task.todo /\ task.seen = <<>>
    OBVIOUS
  <2> HIDE DEF task
  <2>6. QED
    BY <1>3, <2>1, <2>4, <2>5, BeginKeeps
<1>4. ASSUME NEW p \in DOMAIN plans, AskAuthorize(c, p)
      PROVE  IInv'
  <2> DEFINE task == [at |-> "check", id |-> p, todo |-> Concerned(p)]
  <2>1. Begin(c, task) /\ Alone("check", p) /\ ~Active(p)
    BY <1>4 DEF AskAuthorize
  <2>2. p \in Nat /\ plans[p] \in PlanRows
    BY <1>4 DEF IInv, Types
  <2>3. Concerned(p) \subseteq Docs
    BY <2>2 DEF Concerned, PlanRows, Observations
  <2>4. task \in Tasks \ {Idle}
    BY <2>2, <2>3 DEF Tasks, Checks, Idle
  <2>5. task.at = "check" /\ task.id = p /\ task.todo = Concerned(p)
    OBVIOUS
  <2> HIDE DEF task
  <2>6. QED
    BY <1>4, <2>1, <2>4, <2>5, BeginKeeps
<1>5. QED
  BY <1>1, <1>2, <1>3, <1>4

\* A request returns, and no other is disturbed.
LEMMA Returns ==
    ASSUME IInv, NEW c \in Callers, Return(c)
    PROVE  /\ call' \in [Callers -> Tasks]
           /\ call'[c].at = "idle"
           /\ \A b \in Callers \ {c} : call'[b] = call[b]
BY DEF IInv, Types, Return, Tasks, Idle

\* a decision that is written,
LEMMA DecideKeeps ==
    ASSUME IInv, NEW c \in Callers, Decide(c)
    PROVE  IInv'
<1> DEFINE r == call[c].id
           d == call[c].canonical
           choice == IF d = None THEN reviews[r].canonical ELSE d
<1>1. /\ call' \in [Callers -> Tasks] /\ call'[c].at = "idle"
      /\ \A b \in Callers \ {c} : call'[b] = call[b]
      /\ UNCHANGED <<file, plans, auths, dirty, fresh, touches, scenario>>
  BY Returns DEF Decide
<1>2. /\ reviews \in Seq(ReviewRows) /\ r \in DOMAIN reviews
      /\ call[c] \in Decisions
      /\ d \in reviews[r].members \cup {None}
      /\ reviews[r].match = "EXACT" /\ call[c].verdict = "APPROVED" => d # None
  BY DEF IInv, Types, DecisionsOK, Decide, Tasks, Idle, Plannings, Checks
<1>3. reviews' = [reviews EXCEPT ![r].status = call[c].verdict, ![r].canonical = choice]
  BY DEF Decide
<1>4. reviews'[r] = [reviews[r] EXCEPT !.status = call[c].verdict, !.canonical = choice]
  BY <1>2, <1>3
<1>5. \A q \in DOMAIN reviews \ {r} : reviews'[q] = reviews[q]
  BY <1>2, <1>3
<1>6. reviews[r] \in ReviewRows /\ choice \in Docs \cup {None}
  <2>1. reviews[r] \in ReviewRows
    BY <1>2
  <2>2. reviews[r].members \subseteq Docs /\ reviews[r].canonical \in Docs \cup {None}
    BY <2>1 DEF ReviewRows
  <2>3. QED
    BY <1>2, <2>1, <2>2
<1>7. reviews'[r] \in ReviewRows
  BY <1>2, <1>4, <1>6 DEF ReviewRows, Decisions, ReviewStatus
<1>8. reviews' \in Seq(ReviewRows) /\ DOMAIN reviews' = DOMAIN reviews
  BY <1>2, <1>3, <1>5, <1>7
<1>9. \A q \in DOMAIN reviews : /\ reviews'[q].members = reviews[q].members
                               /\ reviews'[q].match = reviews[q].match
                               /\ reviews'[q].recommended = reviews[q].recommended
  <2>1. /\ reviews'[r].members = reviews[r].members /\ reviews'[r].match = reviews[r].match
        /\ reviews'[r].recommended = reviews[r].recommended
    BY <1>4, <1>6 DEF ReviewRows
  <2>. QED
    BY <1>5, <2>1
<1>10. reviews'[r].status = call[c].verdict /\ reviews'[r].canonical = choice
  BY <1>4, <1>6 DEF ReviewRows
<1> HIDE DEF choice
<1>11. Types'
  BY <1>1, <1>8 DEF IInv, Types
<1>12. ReviewsOK'
  <2> SUFFICES ASSUME NEW q \in DOMAIN reviews
               PROVE  /\ Cardinality(reviews'[q].members) >= 2
                      /\ reviews'[q].canonical \in reviews'[q].members \cup {None}
                      /\ reviews'[q].recommended \in reviews'[q].members \cup {None}
                      /\ reviews'[q].match = "EXACT" /\ reviews'[q].status = "APPROVED"
                            => reviews'[q].canonical # None
    BY <1>8 DEF ReviewsOK
  <2>1. CASE q = r
    BY <1>2, <1>9, <1>10, <2>1 DEF IInv, ReviewsOK, choice
  <2>2. CASE q # r
    BY <1>5, <2>2 DEF IInv, ReviewsOK
  <2>3. QED
    BY <2>1, <2>2
<1>13. PlansOK' /\ AuthsOK' /\ FreshHolds'
  BY <1>1, <1>8 DEF IInv, PlansOK, AuthsOK, FreshHolds
<1>14. DecisionsOK' /\ PlanningsOK' /\ ChecksOK'
  BY <1>1, <1>8, <1>9, SMTT(30) DEF IInv, DecisionsOK, PlanningsOK, ChecksOK
<1>15. ObservedHolds' /\ CheckedHolds'
  BY <1>1, SMTT(30) DEF IInv, ObservedHolds, CheckedHolds, AsPlanned, Concerned
<1>16. UndecidedHolds'
  <2>1. call[c].at = "decide"
    BY DEF Decide
  <2>2. QED
    BY <1>1, <1>5, <2>1 DEF IInv, UndecidedHolds, Unrivalled, DecisionsOK
<1>17. InactiveHolds'
  BY <1>1 DEF IInv, InactiveHolds, Unrivalled, Active
<1>18. QED
  BY <1>11, <1>12, <1>13, <1>14, <1>15, <1>16, <1>17 DEF IInv

\* a file that is hashed,
LEMMA ObserveKeeps ==
    ASSUME IInv, NEW c \in Callers, Observe(c)
    PROVE  IInv'
<1>1. PICK d \in call[c].todo :
         call' = [call EXCEPT
              ![c].todo = @ \ {d},
              ![c].seen = [e \in DOMAIN @ \cup {d} |-> IF e = d THEN file[d] ELSE @[e]]]
  BY DEF Observe
<1>2. UNCHANGED <<file, reviews, plans, auths, dirty, fresh, touches, scenario>>
  BY DEF Observe, rowVars
<1>3. call[c] \in Plannings /\ call \in [Callers -> Tasks] /\ file \in [Docs -> Seen]
  BY DEF IInv, Types, Observe, Tasks, Idle, Decisions, Checks
<1> DEFINE seen == [e \in DOMAIN call[c].seen \cup {d} |-> IF e = d THEN file[d] ELSE call[c].seen[e]]
<1>4. /\ call'[c] = [call[c] EXCEPT !.todo = call[c].todo \ {d}, !.seen = seen]
      /\ \A b \in Callers \ {c} : call'[b] = call[b]
  BY <1>1, <1>3
<1>5. seen \in Observations
  <2>1. PICK D \in SUBSET Docs : call[c].seen \in [D -> Seen]
    BY <1>3 DEF Plannings, Observations
  <2>2. d \in Docs
    BY <1>3 DEF Plannings
  <2>3. D \cup {d} \in SUBSET Docs /\ seen \in [D \cup {d} -> Seen]
    BY <1>3, <2>1, <2>2
  <2>4. QED
    BY <2>3 DEF Observations
<1>6. /\ call'[c].at = "observe" /\ call'[c].id = call[c].id
      /\ call'[c].canonical = call[c].canonical
      /\ call'[c].todo = call[c].todo \ {d} /\ call'[c].seen = seen
      /\ DOMAIN seen = DOMAIN call[c].seen \cup {d}
      /\ \A e \in DOMAIN seen : seen[e] = IF e = d THEN file[d] ELSE call[c].seen[e]
  BY <1>3, <1>4 DEF Plannings
<1>7. call'[c] \in Plannings
  BY <1>3, <1>4, <1>5, <1>6 DEF Plannings
<1> HIDE DEF seen
<1>8. \A b \in Callers : call'[b].at = call[b].at /\ call'[b].id = call[b].id
  BY <1>4, <1>6 DEF Observe
<1>9. \A b \in Callers : b # c => call'[b] = call[b]
  BY <1>4
<1>10. Types'
  <2>1. call' \in [Callers -> Tasks]
    BY <1>1, <1>3, <1>4, <1>7 DEF Tasks
  <2>2. QED
    BY <1>2, <2>1 DEF IInv, Types
<1>11. ReviewsOK' /\ PlansOK' /\ AuthsOK' /\ FreshHolds'
  BY <1>2 DEF IInv, ReviewsOK, PlansOK, AuthsOK, FreshHolds
<1>12. DecisionsOK'
  BY <1>2, <1>8, <1>9 DEF IInv, DecisionsOK, Observe
<1>13. PlanningsOK'
  <2> SUFFICES ASSUME NEW b \in Callers, call'[b].at = "observe"
               PROVE  /\ call'[b].id \in DOMAIN reviews
                      /\ call'[b].canonical \notin call'[b].todo \cup DOMAIN call'[b].seen
    BY <1>2 DEF PlanningsOK
  <2>1. CASE b = c
    BY <1>6, <1>8, <2>1 DEF IInv, PlanningsOK
  <2>2. CASE b # c
    BY <1>9, <2>2 DEF IInv, PlanningsOK
  <2>3. QED
    BY <2>1, <2>2
<1>14. ChecksOK' /\ CheckedHolds'
  <2>1. \A b \in Callers : call'[b].at = "check" => call'[b] = call[b]
    BY <1>6, <1>9
  <2>2. QED
    BY <1>2, <1>8, <2>1, SMTT(30) DEF IInv, ChecksOK, CheckedHolds, AsPlanned, Concerned
<1>15. ObservedHolds'
  <2> SUFFICES ASSUME NEW b \in Callers, call'[b].at = "observe", b \notin dirty,
                      NEW e \in DOMAIN call'[b].seen
               PROVE  call'[b].seen[e] = file[e]
    BY <1>2 DEF ObservedHolds
  <2>1. CASE b = c
    BY <1>6, <1>8, <2>1 DEF IInv, ObservedHolds
  <2>2. CASE b # c
    BY <1>9, <2>2 DEF IInv, ObservedHolds
  <2>3. QED
    BY <2>1, <2>2
<1>16. UndecidedHolds'
  BY <1>2, <1>8 DEF IInv, UndecidedHolds, Unrivalled
<1>17. InactiveHolds'
  BY <1>2, <1>8 DEF IInv, InactiveHolds, Unrivalled, Active
<1>18. QED
  BY <1>10, <1>11, <1>12, <1>13, <1>14, <1>15, <1>16, <1>17 DEF IInv

\* Plans are only ever added.
LEMMA InsertKeeps ==
    ASSUME IInv, NEW c \in Callers, InsertPlan(c)
    PROVE  IInv'
<1>1. /\ call' \in [Callers -> Tasks] /\ call'[c].at = "idle"
      /\ \A b \in Callers \ {c} : call'[b] = call[b]
      /\ UNCHANGED <<file, reviews, auths, dirty, touches, scenario>>
  BY Returns DEF InsertPlan
<1>2. /\ call[c] \in Plannings /\ plans \in Seq(PlanRows) /\ fresh \subseteq DOMAIN plans
      /\ reviews \in Seq(ReviewRows) /\ file \in [Docs -> Seen]
  BY DEF IInv, Types, InsertPlan, Tasks, Idle, Decisions, Checks
<1>3. /\ call[c].id \in DOMAIN reviews
      /\ call[c].canonical \notin DOMAIN call[c].seen
      /\ c \notin dirty => \A d \in DOMAIN call[c].seen : call[c].seen[d] = file[d]
  BY DEF IInv, PlanningsOK, ObservedHolds, InsertPlan
<1>4. CASE Plannable(call[c].seen) = {}
  <2>1. UNCHANGED <<plans, fresh>>
    BY <1>4 DEF InsertPlan
  <2>2. Types' /\ ReviewsOK' /\ PlansOK' /\ AuthsOK' /\ FreshHolds'
    BY <1>1, <2>1 DEF IInv, Types, ReviewsOK, PlansOK, AuthsOK, FreshHolds
  <2>3. DecisionsOK' /\ PlanningsOK' /\ ChecksOK'
    BY <1>1, <2>1 DEF IInv, DecisionsOK, PlanningsOK, ChecksOK
  <2>4. ObservedHolds' /\ CheckedHolds'
    BY <1>1, <2>1 DEF IInv, ObservedHolds, CheckedHolds, AsPlanned, Concerned
  <2>5. UndecidedHolds' /\ InactiveHolds'
    BY <1>1, <2>1 DEF IInv, UndecidedHolds, InactiveHolds, Unrivalled, Active
  <2>6. QED
    BY <2>2, <2>3, <2>4, <2>5 DEF IInv
<1>5. CASE Plannable(call[c].seen) # {}
  <2> DEFINE n == Len(plans) + 1
  <2>1. /\ plans' = Append(plans, Plan(c))
        /\ fresh' = IF c \in dirty THEN fresh ELSE fresh \cup {Len(plans')}
    BY <1>5 DEF InsertPlan
  <2>2. /\ Plan(c).review = call[c].id /\ Plan(c).canonical = call[c].canonical
        /\ Plan(c).canonicalSeen = file[call[c].canonical]
        /\ DOMAIN Plan(c).seen = Plannable(call[c].seen)
        /\ \A d \in Plannable(call[c].seen) : Plan(c).seen[d] = call[c].seen[d]
    BY DEF Plan
  <2>3. Plan(c) \in PlanRows
    <3>1. PICK D \in SUBSET Docs : call[c].seen \in [D -> Seen]
      BY <1>2 DEF Plannings, Observations
    <3>2. Plannable(call[c].seen) \in SUBSET Docs
      BY <3>1 DEF Plannable
    <3>3. [d \in Plannable(call[c].seen) |-> call[c].seen[d]] \in [Plannable(call[c].seen) -> Seen]
      BY <3>1 DEF Plannable
    <3>4. [d \in Plannable(call[c].seen) |-> call[c].seen[d]] \in Observations
      BY <3>2, <3>3 DEF Observations
    <3>5. call[c].id \in Nat /\ call[c].canonical \in Docs /\ file[call[c].canonical] \in Seen
      BY <1>2 DEF Plannings
    <3>6. QED
      BY <3>4, <3>5 DEF Plan, PlanRows
  <2>4. /\ plans' \in Seq(PlanRows)
        /\ DOMAIN plans' = DOMAIN plans \cup {n}
        /\ \A p \in DOMAIN plans : plans'[p] = plans[p]
        /\ plans'[n] = Plan(c) /\ Len(plans') = n
    BY <1>2, <2>1, <2>3
  <2>5. \A p \in DOMAIN plans, d \in Docs :
           Concerned(p)' = Concerned(p) /\ AsPlanned(p, d)' = AsPlanned(p, d)
    BY <1>1, <2>4 DEF Concerned, AsPlanned
  <2> HIDE DEF n
  <2>6. Types'
    <3>1. fresh' \subseteq DOMAIN plans'
      BY <1>2, <2>1, <2>4
    <3>2. QED
      BY <1>1, <2>4, <3>1 DEF IInv, Types
  <2>7. ReviewsOK'
    BY <1>1 DEF IInv, ReviewsOK
  <2>8. PlansOK'
    <3>1. /\ Plan(c).review \in DOMAIN reviews
          /\ DOMAIN Plan(c).seen # {}
          /\ Plan(c).canonical \notin DOMAIN Plan(c).seen
          /\ \A d \in DOMAIN Plan(c).seen : Plan(c).seen[d] # None
      BY <1>3, <1>5, <2>2 DEF Plannable
    <3>2. QED
      BY <1>1, <2>4, <3>1 DEF IInv, PlansOK
  <2>9. AuthsOK' /\ DecisionsOK' /\ PlanningsOK' /\ ChecksOK'
    BY <1>1, <2>4 DEF IInv, AuthsOK, DecisionsOK, PlanningsOK, ChecksOK
  <2>10. ObservedHolds'
    BY <1>1 DEF IInv, ObservedHolds
  <2>11. CheckedHolds'
    BY <1>1, <2>4, SMTT(30) DEF IInv, CheckedHolds, ChecksOK, Concerned, AsPlanned
  <2>12. FreshHolds'
    <3> SUFFICES ASSUME NEW p \in fresh'
                 PROVE  /\ file[plans'[p].canonical] = plans'[p].canonicalSeen
                        /\ \A d \in DOMAIN plans'[p].seen : file[d] = plans'[p].seen[d]
      BY <1>1 DEF FreshHolds
    <3>1. CASE p \in fresh
      BY <1>2, <2>4, <3>1 DEF IInv, FreshHolds
    <3>2. CASE p \notin fresh
      <4>1. p = n /\ c \notin dirty
        BY <2>1, <2>4, <3>2
      <4>2. QED
        BY <1>3, <2>2, <2>4, <4>1 DEF Plannable
    <3>3. QED
      BY <3>1, <3>2
  <2>13. UndecidedHolds' /\ InactiveHolds'
    BY <1>1 DEF IInv, UndecidedHolds, InactiveHolds, Unrivalled, Active
  <2>14. QED
    BY <2>6, <2>7, <2>8, <2>9, <2>10, <2>11, <2>12, <2>13 DEF IInv
<1>6. QED
  BY <1>4, <1>5

\* a planned file that is looked at again,
LEMMA CheckKeeps ==
    ASSUME IInv, NEW c \in Callers, Check(c)
    PROVE  IInv'
<1>1. UNCHANGED <<file, reviews, plans, auths, dirty, fresh, touches, scenario>>
  BY DEF Check, rowVars
<1>2. call[c] \in Checks /\ call \in [Callers -> Tasks] /\ call[c].at = "check"
  BY DEF IInv, Types, Check, Tasks, Idle, Decisions, Plannings
<1>3. PICK d \in call[c].todo :
         IF AsPlanned(call[c].id, d)
         THEN call' = [call EXCEPT ![c].todo = @ \ {d}]
         ELSE Return(c)
  BY DEF Check
<1>4. CASE AsPlanned(call[c].id, d)
  <2>1. /\ call'[c] = [call[c] EXCEPT !.todo = call[c].todo \ {d}]
        /\ \A b \in Callers : b # c => call'[b] = call[b]
        /\ call' = [call EXCEPT ![c].todo = @ \ {d}]
    BY <1>2, <1>3, <1>4
  <2>2. call'[c] \in Checks /\ call'[c].todo = call[c].todo \ {d}
    BY <1>2, <2>1 DEF Checks
  <2>3. /\ \A b \in Callers : call'[b].at = call[b].at /\ call'[b].id = call[b].id
        /\ \A b \in Callers : call'[b].at # "check" => call'[b] = call[b]
    BY <1>2, <2>1 DEF Checks
  <2>4. Types'
    <3>1. call' \in [Callers -> Tasks]
      BY <1>2, <2>1, <2>2 DEF Tasks
    <3>2. QED
      BY <1>1, <3>1 DEF IInv, Types
  <2>5. ReviewsOK' /\ PlansOK' /\ AuthsOK' /\ FreshHolds'
    BY <1>1 DEF IInv, ReviewsOK, PlansOK, AuthsOK, FreshHolds
  <2>6. DecisionsOK' /\ PlanningsOK' /\ ChecksOK'
    BY <1>1, <2>3 DEF IInv, DecisionsOK, PlanningsOK, ChecksOK
  <2>7. ObservedHolds'
    BY <1>1, <2>3 DEF IInv, ObservedHolds
  <2>8. CheckedHolds'
    <3> SUFFICES ASSUME NEW b \in Callers, call'[b].at = "check", b \notin dirty,
                        NEW e \in Concerned(call'[b].id) \ call'[b].todo
                 PROVE  AsPlanned(call'[b].id, e)
      BY <1>1 DEF CheckedHolds, Concerned, AsPlanned
    <3>1. CASE b = c
      BY <1>2, <1>4, <2>2, <2>3, <3>1 DEF IInv, CheckedHolds
    <3>2. CASE b # c
      BY <2>1, <3>2 DEF IInv, CheckedHolds
    <3>3. QED
      BY <3>1, <3>2
  <2>9. UndecidedHolds' /\ InactiveHolds'
    BY <1>1, <2>3 DEF IInv, UndecidedHolds, InactiveHolds, Unrivalled, Active
  <2>10. QED
    BY <2>4, <2>5, <2>6, <2>7, <2>8, <2>9 DEF IInv
<1>5. CASE ~AsPlanned(call[c].id, d)
  <2>1. /\ call' \in [Callers -> Tasks] /\ call'[c].at = "idle"
        /\ \A b \in Callers \ {c} : call'[b] = call[b]
    BY <1>3, <1>5, Returns
  <2>2. Types' /\ ReviewsOK' /\ PlansOK' /\ AuthsOK' /\ FreshHolds'
    BY <1>1, <2>1 DEF IInv, Types, ReviewsOK, PlansOK, AuthsOK, FreshHolds
  <2>3. DecisionsOK' /\ PlanningsOK' /\ ChecksOK'
    BY <1>1, <2>1 DEF IInv, DecisionsOK, PlanningsOK, ChecksOK
  <2>4. ObservedHolds' /\ CheckedHolds'
    BY <1>1, <2>1, SMTT(30) DEF IInv, ObservedHolds, CheckedHolds, AsPlanned, Concerned
  <2>5. UndecidedHolds' /\ InactiveHolds'
    BY <1>1, <2>1 DEF IInv, UndecidedHolds, InactiveHolds, Unrivalled, Active
  <2>6. QED
    BY <2>2, <2>3, <2>4, <2>5 DEF IInv
<1>6. QED
  BY <1>4, <1>5

\* an authorization that is written
LEMMA GrantKeeps ==
    ASSUME IInv, NEW c \in Callers, Grant(c)
    PROVE  IInv'
<1>1. /\ call' \in [Callers -> Tasks] /\ call'[c].at = "idle"
      /\ \A b \in Callers \ {c} : call'[b] = call[b]
      /\ UNCHANGED <<file, reviews, plans, dirty, fresh, touches, scenario>>
  BY Returns DEF Grant
<1>2. /\ auths \in Seq(AuthRows) /\ call[c] \in Checks /\ call[c].at = "check"
      /\ call[c].id \in DOMAIN plans
      /\ auths' = Append(auths, [plan |-> call[c].id, status |-> "AUTHORIZED"])
  BY DEF IInv, Types, ChecksOK, Grant, Tasks, Idle, Decisions, Plannings
<1>3. [plan |-> call[c].id, status |-> "AUTHORIZED"] \in AuthRows
  BY <1>2 DEF Checks, AuthRows
<1>4. /\ auths' \in Seq(AuthRows)
      /\ DOMAIN auths' = DOMAIN auths \cup {Len(auths) + 1}
      /\ \A a \in DOMAIN auths : auths'[a] = auths[a]
      /\ auths'[Len(auths) + 1] = [plan |-> call[c].id, status |-> "AUTHORIZED"]
  BY <1>2, <1>3
<1>5. Types' /\ ReviewsOK' /\ PlansOK' /\ FreshHolds'
  BY <1>1, <1>4 DEF IInv, Types, ReviewsOK, PlansOK, FreshHolds
<1>6. AuthsOK'
  BY <1>1, <1>2, <1>4 DEF IInv, AuthsOK
<1>7. DecisionsOK' /\ PlanningsOK' /\ ChecksOK'
  BY <1>1 DEF IInv, DecisionsOK, PlanningsOK, ChecksOK
<1>8. ObservedHolds' /\ CheckedHolds'
  BY <1>1, SMTT(30) DEF IInv, ObservedHolds, CheckedHolds, AsPlanned, Concerned
<1>9. UndecidedHolds'
  BY <1>1 DEF IInv, UndecidedHolds, Unrivalled
<1>10. InactiveHolds'
  <2>1. \A p : p # call[c].id /\ Active(p)' => Active(p)
    BY <1>4 DEF Active
  <2>2. QED
    BY <1>1, <1>2, <2>1, SMTT(30) DEF IInv, InactiveHolds, Unrivalled
<1>11. QED
  BY <1>5, <1>6, <1>7, <1>8, <1>9, <1>10 DEF IInv

\* and one that is revoked.
LEMMA RevokeKeeps ==
    ASSUME IInv, Revoke
    PROVE  IInv'
<1>1. UNCHANGED <<file, reviews, plans, call, dirty, fresh, touches, scenario>>
  BY DEF Revoke
<1>2. PICK a \in DOMAIN auths : auths' = [auths EXCEPT ![a].status = "REVOKED"]
  BY DEF Revoke
<1>3. auths \in Seq(AuthRows) /\ auths[a] \in AuthRows
  BY DEF IInv, Types
<1>4. /\ auths' \in Seq(AuthRows) /\ DOMAIN auths' = DOMAIN auths
      /\ \A b \in DOMAIN auths : auths'[b].plan = auths[b].plan
      /\ \A b \in DOMAIN auths : auths'[b] = auths[b] \/ auths'[b].status = "REVOKED"
  BY <1>2, <1>3 DEF AuthRows
<1>5. Types' /\ ReviewsOK' /\ PlansOK' /\ AuthsOK' /\ FreshHolds'
  BY <1>1, <1>4 DEF IInv, Types, ReviewsOK, PlansOK, AuthsOK, FreshHolds
<1>6. DecisionsOK' /\ PlanningsOK' /\ ChecksOK'
  BY <1>1 DEF IInv, DecisionsOK, PlanningsOK, ChecksOK
<1>7. ObservedHolds' /\ CheckedHolds' /\ UndecidedHolds'
  BY <1>1, SMTT(30)
     DEF IInv, ObservedHolds, CheckedHolds, UndecidedHolds, Unrivalled, AsPlanned, Concerned
<1>8. InactiveHolds'
  <2>1. \A p : Active(p)' => Active(p)
    BY <1>4 DEF Active
  <2>2. QED
    BY <1>1, <2>1 DEF IInv, InactiveHolds, Unrivalled
<1>9. QED
  BY <1>5, <1>6, <1>7, <1>8 DEF IInv

\* A file is touched: whoever is at work is no longer sure of anything, and
\* neither is a plan about the file.
LEMMA TouchKeeps ==
    ASSUME IInv, Touch
    PROVE  IInv'
<1>1. /\ UNCHANGED <<reviews, plans, auths, call, scenario>>
      /\ dirty' = {c \in Callers : Busy(c)}
  BY DEF Touch, rowVars
<1>2. PICK d \in Docs, x \in Seen :
         /\ file' = [file EXCEPT ![d] = x]
         /\ fresh' = {p \in fresh : d \notin Concerned(p)}
  BY DEF Touch, Seen
<1>3. file \in [Docs -> Seen] /\ fresh \subseteq DOMAIN plans
  BY DEF IInv, Types
<1>4. file' \in [Docs -> Seen] /\ \A e \in Docs : e # d => file'[e] = file[e]
  BY <1>2, <1>3
<1>5. \A c \in Callers : c \notin dirty' => call[c].at = "idle"
  BY <1>1 DEF Busy
<1>6. Types' /\ ReviewsOK' /\ PlansOK' /\ AuthsOK'
  BY <1>1, <1>2, <1>3, <1>4 DEF IInv, Types, ReviewsOK, PlansOK, AuthsOK
<1>7. DecisionsOK' /\ PlanningsOK' /\ ChecksOK'
  BY <1>1 DEF IInv, DecisionsOK, PlanningsOK, ChecksOK
<1>8. ObservedHolds' /\ CheckedHolds'
  BY <1>1, <1>5 DEF ObservedHolds, CheckedHolds
<1>9. FreshHolds'
  <2> SUFFICES ASSUME NEW p \in fresh, d \notin Concerned(p)
               PROVE  /\ file'[plans[p].canonical] = plans[p].canonicalSeen
                      /\ \A e \in DOMAIN plans[p].seen : file'[e] = plans[p].seen[e]
    BY <1>1, <1>2 DEF FreshHolds
  <2>1. plans[p] \in PlanRows
    BY <1>3 DEF IInv, Types
  <2>2. plans[p].canonical \in Docs /\ DOMAIN plans[p].seen \subseteq Docs
    BY <2>1 DEF PlanRows, Observations
  <2>3. QED
    BY <1>4, <2>2 DEF IInv, FreshHolds, Concerned
<1>10. UndecidedHolds' /\ InactiveHolds'
  BY <1>1 DEF IInv, UndecidedHolds, InactiveHolds, Unrivalled, Active
<1>11. QED
  BY <1>6, <1>7, <1>8, <1>9, <1>10 DEF IInv

\* Every step keeps the invariant.
LEMMA NextKeeps == IInv /\ [Next]_vars => IInv'
<1> SUFFICES ASSUME IInv, [Next]_vars PROVE IInv'
  OBVIOUS
<1>1. CASE CreateExact \/ CreateNear
  BY <1>1, CreateKeeps
<1>2. CASE Revoke
  BY <1>2, RevokeKeeps
<1>3. CASE Touch
  BY <1>3, TouchKeeps
<1>4. ASSUME NEW c \in Callers, Request(c)
      PROVE  IInv'
  BY <1>4, AskKeeps, DecideKeeps, ObserveKeeps, InsertKeeps, CheckKeeps, GrantKeeps DEF Request
<1>5. CASE UNCHANGED vars
  <2>1. UNCHANGED <<file, reviews, plans, auths, call, dirty, fresh, touches, scenario>>
    BY <1>5 DEF vars, rowVars
  <2>2. Types' /\ ReviewsOK' /\ PlansOK' /\ AuthsOK' /\ FreshHolds'
    BY <2>1 DEF IInv, Types, ReviewsOK, PlansOK, AuthsOK, FreshHolds
  <2>3. DecisionsOK' /\ PlanningsOK' /\ ChecksOK'
    BY <2>1 DEF IInv, DecisionsOK, PlanningsOK, ChecksOK
  <2>4. ObservedHolds' /\ CheckedHolds'
    BY <2>1, SMTT(30) DEF IInv, ObservedHolds, CheckedHolds, AsPlanned, Concerned
  <2>5. UndecidedHolds' /\ InactiveHolds'
    BY <2>1 DEF IInv, UndecidedHolds, InactiveHolds, Unrivalled, Active
  <2>6. QED
    BY <2>2, <2>3, <2>4, <2>5 DEF IInv
<1>6. QED
  BY <1>1, <1>2, <1>3, <1>4, <1>5 DEF Next
-----------------------------------------------------------------------------
(* The theorems                                                            *)

\* The invariant holds of every behaviour.
THEOREM Invariance == Spec => []IInv
<1>1. Init => IInv
  BY InitInv
<1>2. IInv /\ [Next]_vars => IInv'
  BY NextKeeps
<1>3. QED
  BY <1>1, <1>2, PTL DEF Spec

\* Rows and requests have the values their columns and locals can take, and what
\* the columns of a review say of each other is true.
THEOREM TypeCorrect == Spec => []TypeOK
<1>1. IInv => TypeOK
  <2> SUFFICES ASSUME IInv PROVE TypeOK
    OBVIOUS
  <2>1. file \in [Docs -> Contents \cup {None}] /\ dirty \subseteq Callers /\ fresh \subseteq DOMAIN plans
    BY DEF IInv, Types, Seen
  <2>2. \A r \in DOMAIN reviews : reviews[r] \in ReviewRows
    BY DEF IInv, Types
  <2>3. \A r \in DOMAIN reviews : reviews[r].match \in MatchTypes /\ reviews[r].status \in ReviewStatus
    BY <2>2 DEF ReviewRows
  <2>4. \A a \in DOMAIN auths : auths[a] \in AuthRows /\ auths[a].plan \in DOMAIN plans
    BY DEF IInv, Types, AuthsOK
  <2>5. \A c \in Callers : call[c] \in Tasks
    BY DEF IInv, Types
  <2>6. \A c \in Callers : call[c].at \in {"idle", "decide", "observe", "check"}
    BY <2>5 DEF Tasks, Idle, Decisions, Plannings, Checks
  <2>7. \A a \in DOMAIN auths : auths[a].status \in {"AUTHORIZED", "REVOKED"}
    BY <2>4 DEF AuthRows
  <2>8. QED
    BY <2>1, <2>3, <2>4, <2>6, <2>7 DEF IInv, ReviewsOK, PlansOK, TypeOK
<1>2. QED
  BY <1>1, Invariance, PTL

\* A plan about documents with a suffix can be authorized for as long as its files
\* stay as they were, whatever was missing when it was generated
\* (generate_plan_for_review).
THEOREM FreshPlansUsable == Spec => []FreshPlanUsable
<1>1. IInv => FreshPlanUsable
  <2> SUFFICES ASSUME IInv, NEW p \in DOMAIN plans
               PROVE  /\ DOMAIN plans[p].seen # {}
                      /\ plans[p].canonical \notin DOMAIN plans[p].seen
                      /\ Undisturbed(p) /\ Concerned(p) \subseteq scenario.typed => PlanValid(p)
    BY DEF FreshPlanUsable
  <2>1. /\ DOMAIN plans[p].seen # {}
        /\ plans[p].canonical \notin DOMAIN plans[p].seen
        /\ \A d \in DOMAIN plans[p].seen : plans[p].seen[d] # None
    BY DEF IInv, PlansOK
  <2>2. p \in fresh => /\ file[plans[p].canonical] = plans[p].canonicalSeen
                       /\ \A d \in DOMAIN plans[p].seen : file[d] = plans[p].seen[d]
    BY DEF IInv, FreshHolds
  <2>3. QED
    BY <2>1, <2>2 DEF PlanValid, AsPlanned, Concerned, Undisturbed
<1>2. QED
  BY <1>1, Invariance, PTL

\* Where no two requests decide on one review at a time, a decision is final: only
\* Decide writes a review, and what it has read is still PENDING (_require_pending).
THEOREM DecisionsStand == Spec => DecisionStands
<1>1. IInv /\ [Next]_vars => [~scenario.rivals => Settled]_vars
  <2> SUFFICES ASSUME IInv, Next, ~scenario.rivals,
                      NEW r \in DOMAIN reviews, reviews[r].status # "PENDING"
               PROVE  reviews'[r] = reviews[r]
    BY DEF Settled
  <2>1. reviews \in Seq(ReviewRows)
    BY DEF IInv, Types
  <2>2. CASE CreateExact \/ CreateNear
    <3>1. PICK review : Create(review)
      BY <2>2 DEF CreateExact, CreateNear
    <3>2. QED
      BY <2>1, <3>1 DEF Create
  <2>3. CASE Revoke \/ Touch
    BY <2>3 DEF Revoke, Touch, rowVars
  <2>4. ASSUME NEW c \in Callers, Request(c)
        PROVE  reviews'[r] = reviews[r]
    <3>1. CASE Decide(c)
      <4>1. call[c].id # r
        BY <3>1 DEF IInv, UndecidedHolds, Decide
      <4>2. QED
        BY <2>1, <3>1, <4>1 DEF Decide
    <3>2. CASE ~Decide(c)
      BY <2>4, <3>2 DEF Request, AskApprove, AskReject, AskPlan, AskAuthorize, Begin, Observe,
                        InsertPlan, Check, Grant, rowVars
    <3>3. QED
      BY <3>1, <3>2
  <2>5. QED
    BY <2>2, <2>3, <2>4 DEF Next
<1>2. QED
  BY <1>1, Invariance, PTL DEF Spec, DecisionStands

\* An authorization is stored for a plan that holds and has none in force, but for
\* files touched and requests that overlap in the meantime (authorize_plan).
THEOREM GrantsAreSound == Spec => GrantIsSound
<1> DEFINE Sound(c) ==
             Len(auths') > Len(auths) /\ call'[c] # call[c] =>
                 /\ c \notin dirty => PlanValid(call[c].id)
                 /\ ~scenario.rivals => ~Active(call[c].id)
<1>1. IInv /\ [Next]_vars => [\A c \in Callers : Sound(c)]_vars
  <2> SUFFICES ASSUME IInv, Next, NEW c \in Callers, Len(auths') > Len(auths), call'[c] # call[c]
               PROVE  /\ c \notin dirty => PlanValid(call[c].id)
                      /\ ~scenario.rivals => ~Active(call[c].id)
    OBVIOUS
  <2>1. auths \in Seq(AuthRows) /\ auths' # auths
    <3>1. auths \in Seq(AuthRows)
      BY DEF IInv, Types
    <3>2. QED
      BY <3>1
  <2>2. ~(CreateExact \/ CreateNear \/ Touch)
    BY <2>1 DEF CreateExact, CreateNear, Create, Touch, rowVars
  <2>3. ~Revoke
    BY <2>1 DEF Revoke
  <2>4. PICK b \in Callers : Request(b)
    BY <2>2, <2>3 DEF Next
  <2>5. Grant(b)
    BY <2>1, <2>4 DEF Request, AskApprove, AskReject, AskPlan, AskAuthorize, Begin, Decide,
                      Observe, InsertPlan, Check, rowVars
  <2>6. b = c
    BY <2>5, Returns DEF Grant
  <2>7. call[c].at = "check" /\ call[c].todo = {}
    BY <2>5, <2>6 DEF Grant
  <2>8. QED
    BY <2>7 DEF IInv, CheckedHolds, InactiveHolds, PlanValid
<1>2. QED
  BY <1>1, Invariance, PTL DEF Spec, GrantIsSound
-----------------------------------------------------------------------------
(* Chat.                                                                   *)

TurnStates ==
    [step : Steps, iteration : Nat, call : Nat, left : Int, aborted : BOOLEAN,
     records : SUBSET (Turns \X Nat), proposed : SUBSET (Turns \X Nat), count : Nat]

Titles == {Null} \cup [by : {"model", "user"}, of : Nat]

Keys == (Turns \cup {0}) \X Nat

MemoryRows == [status : Statuses, linked : BOOLEAN, message : Messages \cup {Null}]

Deletions ==
    [step : {"idle", "memories", "tools", "messages", "row"}, memories : SUBSET Keys,
     tools : SUBSET Keys, messages : Nat]

RowsTyped ==
    /\ conv \in [state : {"none", "live", "gone"}, title : Titles]
    /\ messages \in Seq(Messages)
    /\ DOMAIN tools \subseteq Turns \X Nat
    /\ DOMAIN memories \subseteq Keys
    /\ \A m \in DOMAIN memories : memories[m] \in MemoryRows

ChatTyped ==
    /\ setting \in Settings
    /\ RowsTyped
    /\ turn \in [Turns -> TurnStates]
    /\ deletion \in Deletions
    /\ callsLeft \in Nat

\* Turns are numbered.
LEMMA TurnsAreNumbers == Turns \subseteq Nat \ {0}
<1>1. Cardinality(Turns) \in Nat
  BY TurnsAssumption, FS_CardinalityType
<1>. QED
  BY <1>1, TurnsAssumption

\* A turn that only moves on.
LEMMA Goes ==
    ASSUME turn \in [Turns -> TurnStates], NEW t \in Turns, NEW s \in Steps, Goto(t, s)
    PROVE  /\ turn' \in [Turns -> TurnStates]
           /\ \A u \in Turns : u # t => turn'[u] = turn[u]
           /\ turn'[t].step = s
           /\ turn'[t].iteration = turn[t].iteration /\ turn'[t].call = turn[t].call
           /\ turn'[t].records = turn[t].records /\ turn'[t].proposed = turn[t].proposed
           /\ turn'[t].count = turn[t].count
  BY DEF Goto, TurnStates

\* What is stored after one more message.
LEMMA StoredThen ==
    ASSUME NEW s \in Seq(Messages), NEW m \in Messages
    PROVE  /\ Append(s, m) \in Seq(Messages)
           /\ Len(Append(s, m)) > Len(s)
           /\ ToSet(Append(s, m)) = ToSet(s) \cup {m}
<1>1. /\ Append(s, m) \in Seq(Messages)
      /\ Len(Append(s, m)) = Len(s) + 1
      /\ Append(s, m)[Len(s) + 1] = m
      /\ \A i \in 1..Len(s) : Append(s, m)[i] = s[i]
  OBVIOUS
<1>2. DOMAIN s = 1..Len(s) /\ DOMAIN Append(s, m) = 1..(Len(s) + 1)
  BY <1>1
<1>3. 1..(Len(s) + 1) = (1..Len(s)) \cup {Len(s) + 1}
  OBVIOUS
<1>. QED
  BY <1>1, <1>2, <1>3 DEF ToSet

\* A turn asks, calls tools and counts without touching a row.
Quiet(t) ==
    \/ BeginTurn(t) \/ Retrieve(t) \/ Replies(t) \/ Asks(t) \/ Exhausted(t) \/ Unanswered(t)
    \/ Leave(t) \/ RunTool(t) \/ TouchConversation(t) \/ CountMessages(t)

\* The steps of a turn whose answer has been linked.
Linked == {"linkMemories", "touch", "title", "retitle", "done"}

LEMMA QuietSteps ==
    ASSUME ChatTyped, NEW t \in Turns, Quiet(t)
    PROVE  /\ UNCHANGED <<setting, conv, messages, tools, memories, deletion, callsLeft>>
           /\ turn' \in [Turns -> TurnStates]
           /\ \A u \in Turns : u # t => turn'[u] = turn[u]
           /\ turn'[t].records = turn[t].records /\ turn'[t].proposed = turn[t].proposed
           /\ turn'[t].call >= turn[t].call
           /\ turn'[t].step \in Linked => turn[t].step \in Linked
           /\ turn'[t].step # "linkTools"
           /\ turn'[t].step = "create" =>
                  /\ t = 1 \/ conv.state # "none"
                  /\ conv.state = "none"
<1>. USE DEF ChatTyped, RowsStay, OthersStay, chatRows, Linked, At
<1>1. CASE BeginTurn(t)
  <2>1. PICK s \in {"create", "user", "failed"} :
           Goto(t, s) /\ (s = "create" => conv.state = "none")
    BY <1>1 DEF BeginTurn, Live
  <2>. QED
    BY <1>1, <2>1, Goes DEF BeginTurn, Steps, Over, TurnStates
<1>2. CASE \/ Retrieve(t) \/ Replies(t) \/ Exhausted(t) \/ Unanswered(t)
            \/ Leave(t) \/ TouchConversation(t)
  <2>1. PICK s \in {"model", "failed", "finish", "title"} :
           Goto(t, s) /\ (s = "title" => turn[t].step \in Linked)
    BY <1>2 DEF Retrieve, Replies, Exhausted, Unanswered, Leave, TouchConversation
  <2>2. UNCHANGED <<setting, conv, messages, tools, memories, deletion, callsLeft>>
    BY <1>2 DEF Retrieve, Replies, Exhausted, Unanswered, Leave, TouchConversation
  <2>. QED
    BY <2>1, <2>2, Goes DEF Steps, Over, TurnStates
<1>3. CASE Asks(t)
  BY <1>3 DEF Asks, TurnStates, Steps
<1>4. CASE RunTool(t)
  BY <1>4 DEF RunTool, Breaks, TurnStates, Steps
<1>5. CASE CountMessages(t)
  <2>1. History \in Nat
    BY DEF History, Cut, RowsTyped, MaxHistoryMessages
  <2>. QED
    BY <1>5, <2>1 DEF CountMessages, TurnStates, Steps, Over
<1>. QED
  BY <1>1, <1>2, <1>3, <1>4, <1>5 DEF Quiet

\* What a turn keeps bears its number.
OwnIds == \A t \in Turns : \A id \in turn[t].records \cup turn[t].proposed : id[1] = t

\* The number of the next memory is not in use.
IdsUsed ==
    \A m \in DOMAIN memories :
        /\ m[1] = 0 => m[2] > callsLeft
        /\ m[1] # 0 => m[2] <= turn[m[1]].call

\* Only the first turn creates the conversation, and nobody deletes it before.
CreatedOnce ==
    /\ \A t \in Turns : At(t, "create") => t = 1 /\ conv.state = "none"
    /\ deletion.step # "idle" => conv.state # "none"

RecordsTrue ==
    \A id \in DOMAIN tools : tools[id] # Null => tools[id] = Answer(id[1]) /\ Stored(tools[id])

\* A turn about to link has its answer stored, unless the conversation went.
AnswerThere ==
    \A t \in Turns : At(t, "linkTools") => Stored(Answer(t)) \/ conv.state = "gone"

LinksMade ==
    ~May("insert") =>
        \A t \in Turns : turn[t].step \in Linked =>
            \A id \in turn[t].records \cap DOMAIN tools : tools[id] = Answer(t)

NothingLeft ==
    conv.state = "gone" =>
        /\ messages = << >> /\ DOMAIN tools = {}
        /\ \A m \in DOMAIN memories : ~memories[m].linked /\ memories[m].message = Null

\* Once the messages are deleted, memories that name one are those detached, unless
\* there are new messages, with which the conversation stays.
Detaching ==
    deletion.step = "row" =>
        \/ Len(messages) > deletion.messages
        \/ \A m \in DOMAIN memories : memories[m].message # Null => m \in deletion.memories

ChatInv ==
    /\ ChatTyped /\ OwnIds /\ IdsUsed /\ CreatedOnce
    /\ RecordsTrue /\ AnswerThere /\ LinksMade /\ NothingLeft /\ Detaching

LEMMA QuietKeeps ==
    ASSUME ChatInv, NEW t \in Turns, Quiet(t) PROVE ChatInv'
<1>1. ChatTyped /\ t \in Nat \ {0}
  BY TurnsAreNumbers DEF ChatInv
<1>2. ChatTyped'
  BY <1>1, QuietSteps DEF ChatTyped, RowsTyped
<1>3. OwnIds'
  <2>1. \A u \in Turns : /\ turn'[u].records = turn[u].records
                       /\ turn'[u].proposed = turn[u].proposed
    BY <1>1, QuietSteps
  <2>. QED
    BY <2>1 DEF ChatInv, OwnIds
<1>4. IdsUsed'
  <2> SUFFICES ASSUME NEW m \in DOMAIN memories, m[1] # 0
               PROVE  m[2] <= turn'[m[1]].call
    BY <1>1, QuietSteps DEF ChatInv, IdsUsed
  <2>1. m[1] \in Turns /\ m[2] \in Nat /\ m[2] <= turn[m[1]].call
    BY <1>1 DEF ChatInv, IdsUsed, ChatTyped, RowsTyped, Keys
  <2>2. ASSUME NEW u \in Turns
        PROVE  turn[u].call \in Nat /\ turn'[u].call \in Nat /\ turn'[u].call >= turn[u].call
    <3>1. turn[u].call \in Nat /\ turn'[u].call \in Nat
      BY <1>1, QuietSteps DEF ChatTyped, TurnStates
    <3>. QED
      BY <1>1, <3>1, QuietSteps
  <2>. QED
    BY <2>1, <2>2
<1>5. CreatedOnce'
  <2>1. turn'[t].step = "create" => t = 1 /\ conv.state = "none"
    BY <1>1, QuietSteps
  <2>. QED
    BY <1>1, <2>1, QuietSteps DEF ChatInv, CreatedOnce, At
<1>6. RecordsTrue' /\ NothingLeft' /\ Detaching'
  BY <1>1, QuietSteps DEF ChatInv, RecordsTrue, NothingLeft, Detaching, Stored
<1>7. AnswerThere'
  BY <1>1, QuietSteps DEF ChatInv, AnswerThere, Stored, At
<1>8. LinksMade'
  BY <1>1, QuietSteps DEF ChatInv, LinksMade, May
<1>. QED
  BY <1>2, <1>3, <1>4, <1>5, <1>6, <1>7, <1>8 DEF ChatInv

LEMMA StepsKeep ==
    ASSUME ChatInv, NEW t \in Turns,
           \/ CreateConversation(t) \/ StoreQuestion(t) \/ StoreAnswer(t) \/ Retitle(t)
    PROVE  ChatInv'
<1>1. ChatTyped /\ t \in Nat \ {0} /\ turn[t] \in TurnStates
  BY TurnsAreNumbers DEF ChatInv, ChatTyped
<1>2. PICK s \in {"user", "retrieve", "failed", "linkTools", "done"} :
         /\ Goto(t, s)
         /\ s = "linkTools" => messages' = Append(messages, Answer(t))
         /\ s = "done" => turn[t].step \in Linked
  BY DEF CreateConversation, StoreQuestion, StoreAnswer, Retitle, Linked, At
<1>3. /\ turn' \in [Turns -> TurnStates]
      /\ \A u \in Turns : u # t => turn'[u] = turn[u]
      /\ turn'[t].step = s /\ turn'[t].call = turn[t].call
      /\ turn'[t].records = turn[t].records /\ turn'[t].proposed = turn[t].proposed
  BY <1>1, <1>2, Goes DEF ChatTyped, Steps, Over
<1>4. UNCHANGED <<setting, tools, memories, deletion, callsLeft>>
  BY DEF CreateConversation, StoreQuestion, StoreAnswer, Retitle, OthersStay
<1>5. /\ messages' \in Seq(Messages)
      /\ messages' # messages => Live /\ Len(messages') > Len(messages)
      /\ \A m : Stored(m) => Stored(m)'
      /\ s = "linkTools" => Stored(Answer(t))'
  <2>1. Question(t) \in Messages /\ Answer(t) \in Messages
    BY DEF Question, Answer, Messages
  <2>2. CASE messages' = messages
    BY <1>1, <1>2, <2>1, <2>2, StoredThen DEF ChatTyped, RowsTyped, Stored
  <2>3. CASE Live /\ messages' = Append(messages, Question(t)) /\ s # "linkTools"
    BY <1>1, <2>1, <2>3, StoredThen DEF ChatTyped, RowsTyped, Stored
  <2>4. CASE Live /\ messages' = Append(messages, Answer(t))
    BY <1>1, <2>1, <2>4, StoredThen DEF ChatTyped, RowsTyped, Stored
  <2>. QED
    BY <1>2, <1>3, <2>2, <2>3, <2>4
       DEF CreateConversation, StoreQuestion, StoreAnswer, Retitle, Goto
<1>6. /\ conv' \in [state : {"none", "live", "gone"}, title : Titles]
      /\ \/ conv'.state = conv.state
         \/ At(t, "create") /\ conv'.state = "live"
  BY <1>1 DEF CreateConversation, StoreQuestion, StoreAnswer, Retitle, ChatTyped, RowsTyped,
     Titles, TurnStates
<1>7. ChatTyped'
  BY <1>1, <1>3, <1>4, <1>5, <1>6 DEF ChatTyped, RowsTyped
<1>8. OwnIds'
  BY <1>3, <1>4 DEF ChatInv, OwnIds
<1>8a. Detaching'
  <2>1. {Len(messages), Len(messages'), deletion.messages} \subseteq Nat
    BY <1>1, <1>5 DEF ChatTyped, RowsTyped, Deletions
  <2>. QED
    BY <1>1, <1>4, <1>5, <2>1 DEF ChatInv, Detaching, ChatTyped, RowsTyped, Deletions
<1>9. IdsUsed'
  BY <1>1, <1>3, <1>4 DEF ChatInv, IdsUsed, ChatTyped, RowsTyped, Keys
<1>10. CreatedOnce'
  BY <1>1, <1>3, <1>4, <1>6 DEF ChatInv, CreatedOnce, At
<1>11. RecordsTrue'
  BY <1>4, <1>5 DEF ChatInv, RecordsTrue
<1>12. AnswerThere'
  BY <1>1, <1>3, <1>5, <1>6 DEF ChatInv, AnswerThere, At, CreatedOnce
<1>13. LinksMade'
  BY <1>2, <1>3, <1>4 DEF ChatInv, LinksMade, May, Linked
<1>14. NothingLeft'
  BY <1>4, <1>5, <1>6 DEF ChatInv, NothingLeft, CreatedOnce, Live
<1>. QED
  BY <1>7, <1>8, <1>8a, <1>9, <1>10, <1>11, <1>12, <1>13, <1>14 DEF ChatInv

LEMMA ToolsKeep ==
    ASSUME ChatInv, NEW t \in Turns, Remember(t) \/ Record(t) PROVE ChatInv'
<1>1. ChatTyped /\ t \in Nat \ {0} /\ turn[t] \in TurnStates
  BY TurnsAreNumbers DEF ChatInv, ChatTyped
<1>2. CASE Remember(t)
  <2>. DEFINE id == <<t, turn[t].call + 1>>
  <2>1. /\ turn' \in [Turns -> TurnStates]
        /\ \A u \in Turns : u # t => turn'[u] = turn[u]
        /\ turn'[t].step = "record" /\ turn'[t].call = turn[t].call + 1
        /\ turn'[t].records = turn[t].records
        /\ turn'[t].proposed \in {turn[t].proposed, turn[t].proposed \cup {id}}
    BY <1>1, <1>2 DEF Remember, ChatTyped, TurnStates, Steps
  <2>2. UNCHANGED <<setting, conv, messages, tools, deletion, callsLeft>>
    BY <1>2 DEF Remember, OthersStay
  <2>3. id \in Keys /\ id \notin DOMAIN memories
    <3>1. turn[t].call \in Nat
      BY <1>1 DEF ChatTyped, TurnStates
    <3>2. id \in Keys /\ id[1] = t /\ id[2] = turn[t].call + 1
      BY <1>1, <3>1 DEF Keys
    <3>3. id \in DOMAIN memories => id[2] <= turn[t].call
      BY <1>1, <3>2 DEF ChatInv, IdsUsed
    <3>. QED
      BY <3>1, <3>2, <3>3
  <2>4. \/ memories' = memories
        \/ /\ Live
           /\ DOMAIN memories' = {id} \cup DOMAIN memories
           /\ memories'[id] = [status |-> "PENDING", linked |-> TRUE, message |-> Null]
           /\ \A i \in DOMAIN memories : memories'[i] = memories[i]
    <3>. DEFINE row == [status |-> "PENDING", linked |-> TRUE, message |-> Null]
    <3>1. CASE Live
      <4>1. memories' = With(memories, id, row)
        BY <1>2, <3>1 DEF Remember
      <4>2. /\ DOMAIN memories' = {id} \cup DOMAIN memories
            /\ memories'[id] = row
            /\ \A i \in DOMAIN memories : i # id => memories'[i] = memories[i]
        BY <4>1 DEF With
      <4>. QED
        BY <2>3, <3>1, <4>2
    <3>. QED
      BY <1>2, <3>1 DEF Remember
  <2>. HIDE DEF id
  <2>5. ChatTyped'
    <3>1. \A m \in DOMAIN memories' : m \in Keys /\ memories'[m] \in MemoryRows
      <4>1. [status |-> "PENDING", linked |-> TRUE, message |-> Null] \in MemoryRows
        BY DEF MemoryRows, Statuses
      <4>. QED
        BY <1>1, <2>3, <2>4, <4>1 DEF ChatTyped, RowsTyped
    <3>. QED
      BY <1>1, <2>1, <2>2, <3>1 DEF ChatTyped, RowsTyped
  <2>6. OwnIds'
    BY <2>1 DEF ChatInv, OwnIds, id
  <2>7. IdsUsed'
    <3> SUFFICES ASSUME NEW m \in DOMAIN memories'
                 PROVE  /\ m[1] = 0 => m[2] > callsLeft
                        /\ m[1] # 0 => m[2] <= turn'[m[1]].call
      BY <2>2 DEF IdsUsed
    <3>1. CASE m = id
      BY <1>1, <2>1, <3>1 DEF id, TurnStates
    <3>2. CASE m \in DOMAIN memories
      <4>1. m[1] \in Turns \cup {0} /\ m[2] \in Nat
        BY <1>1, <3>2 DEF ChatTyped, RowsTyped, Keys
      <4>2. CASE m[1] = t
        BY <1>1, <2>1, <3>2, <4>1, <4>2 DEF ChatInv, IdsUsed, TurnStates
      <4>3. CASE m[1] # t
        BY <1>1, <2>1, <3>2, <4>1, <4>3 DEF ChatInv, IdsUsed
      <4>. QED
        BY <4>2, <4>3
    <3>. QED
      BY <2>4, <3>1, <3>2
  <2>8. CreatedOnce' /\ AnswerThere'
    BY <1>1, <2>1, <2>2 DEF ChatInv, CreatedOnce, AnswerThere, At, Stored
  <2>9. RecordsTrue' /\ LinksMade'
    BY <1>1, <2>1, <2>2 DEF ChatInv, RecordsTrue, LinksMade, Linked, Stored, May
  <2>10. NothingLeft'
    BY <2>2, <2>4 DEF ChatInv, NothingLeft, Live
  <2>11. Detaching'
    BY <2>2, <2>4 DEF ChatInv, Detaching
  <2>. QED
    BY <2>5, <2>6, <2>7, <2>8, <2>9, <2>10, <2>11 DEF ChatInv
<1>3. CASE Record(t)
  <2>. DEFINE id == <<t, turn[t].call>>
  <2>1. /\ turn' \in [Turns -> TurnStates]
        /\ \A u \in Turns : u # t => turn'[u] = turn[u]
        /\ turn'[t].step \in {"model", "tool"} /\ turn'[t].call = turn[t].call
        /\ turn'[t].proposed = turn[t].proposed
        /\ turn'[t].records \in {turn[t].records, turn[t].records \cup {id}}
    BY <1>1, <1>3 DEF Record, ChatTyped, TurnStates, Steps
  <2>2. UNCHANGED <<setting, conv, messages, memories, deletion, callsLeft>>
    BY <1>3 DEF Record, OthersStay
  <2>3. \/ tools' = tools
        \/ /\ Live
           /\ DOMAIN tools' = {id} \cup DOMAIN tools
           /\ tools'[id] = Null
           /\ \A i \in DOMAIN tools : i # id => tools'[i] = tools[i]
    <3>1. CASE Live /\ tools' = With(tools, id, Null)
      BY <3>1 DEF With
    <3>. QED
      BY <1>3, <3>1 DEF Record
  <2>4. id \in Turns \X Nat /\ id[1] = t
    BY <1>1 DEF TurnStates
  <2>. HIDE DEF id
  <2>5. ChatTyped'
    BY <1>1, <2>1, <2>2, <2>3, <2>4 DEF ChatTyped, RowsTyped
  <2>6. OwnIds'
    BY <2>1, <2>4 DEF ChatInv, OwnIds
  <2>7. IdsUsed'
    BY <1>1, <2>1, <2>2 DEF ChatInv, IdsUsed, ChatTyped, RowsTyped, Keys
  <2>8. CreatedOnce' /\ AnswerThere'
    BY <1>1, <2>1, <2>2 DEF ChatInv, CreatedOnce, AnswerThere, At, Stored
  <2>9. RecordsTrue'
    BY <2>2, <2>3 DEF ChatInv, RecordsTrue, Stored
  <2>10. LinksMade'
    <3> SUFFICES ASSUME ~May("insert"), NEW u \in Turns, turn'[u].step \in Linked,
                        NEW i \in turn'[u].records \cap DOMAIN tools'
                 PROVE  tools'[i] = Answer(u)
      BY <2>2 DEF LinksMade, May
    <3>1. u # t /\ turn'[u] = turn[u]
      BY <2>1 DEF Linked
    <3>2. i # id
      BY <2>4, <3>1 DEF ChatInv, OwnIds
    <3>. QED
      BY <2>3, <3>1, <3>2 DEF ChatInv, LinksMade
  <2>11. NothingLeft' /\ Detaching'
    BY <2>2, <2>3 DEF ChatInv, NothingLeft, Detaching, Live
  <2>. QED
    BY <2>5, <2>6, <2>7, <2>8, <2>9, <2>10, <2>11 DEF ChatInv
<1>. QED
  BY <1>2, <1>3

LEMMA LinksKeep ==
    ASSUME ChatInv, NEW t \in Turns, LinkTools(t) \/ LinkMemories(t) PROVE ChatInv'
<1>1. ChatTyped /\ t \in Nat \ {0} /\ turn[t] \in TurnStates /\ Answer(t) \in Messages
  BY TurnsAreNumbers DEF ChatInv, ChatTyped, Answer, Messages
<1>2. PICK s \in {"linkMemories", "touch"} :
         /\ Goto(t, s)
         /\ s = "linkMemories" => LinkTools(t)
         /\ s = "touch" => At(t, "linkMemories")
  BY DEF LinkTools, LinkMemories
<1>3. /\ turn' \in [Turns -> TurnStates]
      /\ \A u \in Turns : u # t => turn'[u] = turn[u]
      /\ turn'[t].step = s /\ turn'[t].call = turn[t].call
      /\ turn'[t].records = turn[t].records /\ turn'[t].proposed = turn[t].proposed
  BY <1>1, <1>2, Goes DEF ChatTyped, Steps
<1>4. UNCHANGED <<setting, conv, messages, deletion, callsLeft>>
  BY DEF LinkTools, LinkMemories, OthersStay
<1>5. /\ DOMAIN tools' = DOMAIN tools
      /\ \A id \in DOMAIN tools :
            \/ tools'[id] = tools[id]
            \/ At(t, "linkTools") /\ id \in turn[t].records /\ tools'[id] = Answer(t)
      /\ s = "linkMemories" /\ ~May("insert") =>
            \A id \in turn[t].records \cap DOMAIN tools : tools'[id] = Answer(t)
      /\ s = "touch" => tools' = tools
  BY <1>2, <1>3 DEF LinkTools, LinkMemories, At, May
<1>6. /\ DOMAIN memories' = DOMAIN memories
      /\ \A m \in DOMAIN memories :
            \/ memories'[m] = memories[m]
            \/ /\ ~AnswerLocked(t) /\ Stored(Answer(t))
               /\ memories'[m] = [memories[m] EXCEPT !.message = Answer(t)]
  BY DEF LinkTools, LinkMemories
<1>7. ChatTyped'
  <2>1. ASSUME NEW m \in DOMAIN memories PROVE memories'[m] \in MemoryRows
    <3>1. memories[m] \in MemoryRows
      BY <1>1 DEF ChatTyped, RowsTyped
    <3>2. [memories[m] EXCEPT !.message = Answer(t)] \in MemoryRows
      BY <1>1, <3>1 DEF MemoryRows
    <3>. QED
      BY <1>6, <3>1, <3>2
  <2>. QED
    BY <1>1, <1>3, <1>4, <1>5, <1>6, <2>1 DEF ChatTyped, RowsTyped
<1>8. OwnIds'
  BY <1>3 DEF ChatInv, OwnIds
<1>9. IdsUsed'
  <2>1. \A u \in Turns : turn'[u].call = turn[u].call
    BY <1>3
  <2>2. \A m \in DOMAIN memories : m[1] # 0 => m[1] \in Turns
    BY <1>1 DEF ChatTyped, RowsTyped, Keys
  <2>. QED
    BY <1>4, <1>6, <2>1, <2>2 DEF ChatInv, IdsUsed
<1>10. CreatedOnce' /\ AnswerThere'
  BY <1>1, <1>3, <1>4 DEF ChatInv, CreatedOnce, AnswerThere, At, Stored
<1>11. RecordsTrue'
  <2> SUFFICES ASSUME NEW id \in DOMAIN tools, tools'[id] # Null
               PROVE  tools'[id] = Answer(id[1]) /\ Stored(tools'[id])
    BY <1>4, <1>5 DEF RecordsTrue, Stored
  <2>1. CASE tools'[id] = tools[id]
    BY <2>1 DEF ChatInv, RecordsTrue
  <2>2. CASE At(t, "linkTools") /\ id \in turn[t].records /\ tools'[id] = Answer(t)
    <3>1. id[1] = t
      BY <2>2 DEF ChatInv, OwnIds
    <3>2. Stored(Answer(t))
      BY <2>2 DEF ChatInv, AnswerThere, NothingLeft
    <3>. QED
      BY <2>2, <3>1, <3>2
  <2>. QED
    BY <1>5, <2>1, <2>2
<1>12. LinksMade'
  <2> SUFFICES ASSUME ~May("insert"), NEW u \in Turns, turn'[u].step \in Linked,
                      NEW id \in turn'[u].records \cap DOMAIN tools
               PROVE  tools'[id] = Answer(u)
    BY <1>4, <1>5 DEF LinksMade, May
  <2>1. CASE u = t
    BY <1>2, <1>3, <1>5, <2>1 DEF ChatInv, LinksMade, Linked, At
  <2>2. CASE u # t
    <3>1. turn'[u] = turn[u] /\ id \notin turn[t].records
      BY <1>3, <2>2 DEF ChatInv, OwnIds
    <3>. QED
      BY <1>5, <3>1 DEF ChatInv, LinksMade
  <2>. QED
    BY <2>1, <2>2
<1>13. NothingLeft'
  <2> SUFFICES ASSUME conv.state = "gone"
               PROVE  \A m \in DOMAIN memories : memories'[m] = memories[m]
    BY <1>4, <1>5, <1>6 DEF ChatInv, NothingLeft
  <2>1. ~Stored(Answer(t))
    BY DEF ChatInv, NothingLeft, Stored, ToSet
  <2>. QED
    BY <1>6, <2>1
<1>14. Detaching'
  <2>1. ASSUME deletion.step = "row", ~AnswerLocked(t), Stored(Answer(t))
        PROVE  Len(messages) > deletion.messages
    <3>1. messages \in Seq(Messages) /\ deletion.messages \in Nat
      BY <1>1 DEF ChatTyped, RowsTyped, Deletions
    <3>2. PICK i \in 1..Len(messages) : messages[i] = Answer(t)
      BY <2>1, <3>1 DEF Stored, ToSet
    <3>3. i \notin 1..deletion.messages
      BY <2>1, <3>2 DEF AnswerLocked
    <3>. QED
      BY <3>1, <3>2, <3>3
  <2>2. CASE deletion.step = "row" => Len(messages) > deletion.messages
    BY <1>4, <2>2 DEF Detaching
  <2>3. CASE deletion.step = "row" /\ ~(Len(messages) > deletion.messages)
    <3>1. \A m \in DOMAIN memories : memories'[m] = memories[m]
      BY <1>6, <2>1, <2>3
    <3>. QED
      BY <1>4, <1>6, <2>3, <3>1 DEF ChatInv, Detaching
  <2>. QED
    BY <2>2, <2>3
<1>. QED
  BY <1>7, <1>8, <1>9, <1>10, <1>11, <1>12, <1>13, <1>14 DEF ChatInv

LEMMA DeletionKeeps == ASSUME ChatInv, Deletion PROVE ChatInv'
<1>1. ChatTyped
  BY DEF ChatInv
<1>2. UNCHANGED <<setting, turn, callsLeft>>
  BY DEF Deletion, BeginDeletion, DetachMemories, DeleteTools, DeleteMessages, DeleteRow,
     TurnsStay
<1>3. CASE UNCHANGED chatRows
  <2>1. deletion' \in Deletions
    <3>1. NoDeletion \in Deletions
      BY DEF NoDeletion, Deletions
    <3>2. Len(messages) \in Nat /\ DOMAIN tools \in SUBSET Keys
      BY <1>1 DEF ChatTyped, RowsTyped, Keys
    <3>3. {m \in DOMAIN memories : memories[m].linked} \in SUBSET Keys
      BY <1>1 DEF ChatTyped, RowsTyped
    <3>. QED
      BY <1>1, <3>1, <3>2, <3>3 DEF Deletion, BeginDeletion, DetachMemories, DeleteTools,
         DeleteMessages, DeleteRow, Delete, ChatTyped, Deletions
  <2>2. deletion'.step # "idle" => Live \/ deletion.step # "idle"
    BY <1>1 DEF Deletion, BeginDeletion, DetachMemories, DeleteTools, DeleteMessages,
       DeleteRow, NoDeletion
  <2>3. Detaching'
    <3> SUFFICES ASSUME deletion'.step = "row", NEW m \in DOMAIN memories,
                        memories[m].message # Null
                 PROVE  m \in deletion'.memories
      BY <1>3 DEF Detaching, chatRows
    <3>1. /\ deletion.step = "messages" /\ ~Referred
          /\ deletion' = [deletion EXCEPT !.step = "row", !.messages = Len(messages)]
      <4>1. ~BeginDeletion /\ ~DetachMemories /\ ~DeleteTools
        BY <1>1 DEF BeginDeletion, DetachMemories, DeleteTools, Delete, ChatTyped, Deletions
      <4>2. ~DeleteRow
        BY DEF DeleteRow, NoDeletion
      <4>3. DeleteMessages
        BY <4>1, <4>2 DEF Deletion
      <4>. QED
        BY <4>3 DEF DeleteMessages, NoDeletion
    <3>2. Detached(memories[m]).message = Null
      BY <1>1 DEF Detached, ChatTyped, RowsTyped, MemoryRows
    <3>3. m \in deletion.memories
      BY <3>1, <3>2 DEF Referred
    <3>. QED
      BY <1>1, <3>1, <3>3 DEF ChatTyped, Deletions
  <2>4. ChatTyped'
    BY <1>1, <1>2, <1>3, <2>1 DEF ChatTyped, RowsTyped, chatRows
  <2>5. CreatedOnce'
    BY <1>2, <1>3, <2>2 DEF ChatInv, CreatedOnce, chatRows, At, Live
  <2>. QED
    BY <1>2, <1>3, <2>3, <2>4, <2>5 DEF ChatInv, OwnIds, IdsUsed, RecordsTrue, AnswerThere,
       LinksMade, NothingLeft, chatRows, At, Stored, May
<1>4. CASE ~UNCHANGED chatRows
  <2>1. /\ deletion.step = "row" /\ deletion' = NoDeletion
        /\ ~(Len(messages) > deletion.messages)
        /\ \A m \in DOMAIN memories \ deletion.memories : ~memories[m].linked
        /\ conv' = [state |-> "gone", title |-> Null]
        /\ messages' = << >> /\ tools' = << >>
        /\ memories' = [m \in DOMAIN memories |->
                            IF m \in deletion.memories THEN Detached(memories[m])
                            ELSE memories[m]]
    BY <1>4 DEF Deletion, BeginDeletion, DetachMemories, DeleteTools, DeleteMessages,
       DeleteRow, RowsStay
  <2>2. DOMAIN tools' = {} /\ messages' \in Seq(Messages)
    BY <2>1
  <2>3. ASSUME NEW m \in DOMAIN memories'
        PROVE  /\ m \in DOMAIN memories /\ memories'[m] \in MemoryRows
               /\ ~memories'[m].linked /\ memories'[m].message = Null
    <3>1. m \in DOMAIN memories /\ memories[m] \in MemoryRows
      BY <1>1, <2>1 DEF ChatTyped, RowsTyped
    <3>2. CASE m \in deletion.memories
      BY <2>1, <3>1, <3>2 DEF Detached, MemoryRows
    <3>3. CASE m \notin deletion.memories
      BY <2>1, <3>1, <3>3 DEF ChatInv, Detaching
    <3>. QED
      BY <3>2, <3>3
  <2>4. conv' \in [state : {"none", "live", "gone"}, title : Titles] /\ conv'.state = "gone"
    BY <2>1 DEF Titles
  <2>5. deletion' \in Deletions /\ deletion'.step = "idle"
    BY <2>1 DEF NoDeletion, Deletions
  <2>6. ChatTyped'
    BY <1>1, <1>2, <2>2, <2>3, <2>4, <2>5 DEF ChatTyped, RowsTyped
  <2>7. OwnIds' /\ IdsUsed'
    BY <1>2, <2>3 DEF ChatInv, OwnIds, IdsUsed
  <2>8. CreatedOnce'
    BY <1>2, <2>1, <2>4, <2>5 DEF ChatInv, CreatedOnce, At
  <2>9. RecordsTrue' /\ LinksMade'
    BY <2>2 DEF RecordsTrue, LinksMade
  <2>10. AnswerThere' /\ NothingLeft' /\ Detaching'
    BY <2>1, <2>2, <2>3, <2>4, <2>5 DEF AnswerThere, NothingLeft, Detaching
  <2>. QED
    BY <2>6, <2>7, <2>8, <2>9, <2>10 DEF ChatInv
<1>. QED
  BY <1>3, <1>4

LEMMA ReviewerKeeps == ASSUME ChatInv, Reviewer PROVE ChatInv'
<1>1. ChatTyped
  BY DEF ChatInv
<1>2. /\ callsLeft > 0 /\ callsLeft' = callsLeft - 1 /\ callsLeft' \in Nat
      /\ UNCHANGED <<setting, turn, deletion, messages, tools>>
  <2>1. Call /\ UNCHANGED <<messages, tools>>
    BY DEF Reviewer, Review, Forget, Write, Rename
  <2>. QED
    BY <1>1, <2>1 DEF Call, ChatTyped
<1>3. conv' \in [state : {"none", "live", "gone"}, title : Titles] /\ conv'.state = conv.state
  <2>1. conv' = conv \/ conv' = [conv EXCEPT !.title = [by |-> "user", of |-> 0]]
    BY DEF Reviewer, Review, Forget, Write, Rename
  <2>2. conv \in [state : {"none", "live", "gone"}, title : Titles]
    BY <1>1 DEF ChatTyped, RowsTyped
  <2>3. [by |-> "user", of |-> 0] \in Titles
    BY DEF Titles
  <2>. QED
    BY <2>1, <2>2, <2>3
<1>. DEFINE new == <<0, callsLeft>>
<1>4. ASSUME NEW m \in DOMAIN memories'
      PROVE  \/ m \in DOMAIN memories /\ memories'[m] = memories[m]
             \/ \E verdict \in Statuses :
                    m \in DOMAIN memories /\ memories'[m] = [memories[m] EXCEPT !.status = verdict]
             \/ /\ m = new /\ Live /\ deletion.step # "row"
                /\ memories'[m] \in MemoryRows
  <2>1. ASSUME NEW n \in DOMAIN memories, Review(n)
        PROVE  /\ m \in DOMAIN memories
               /\ \/ memories'[m] = memories[m]
                  \/ \E verdict \in Statuses :
                        memories'[m] = [memories[m] EXCEPT !.status = verdict]
    <3>1. PICK verdict \in {"APPROVED", "REJECTED"} :
             memories' = [memories EXCEPT ![n].status = verdict]
      BY <2>1 DEF Review
    <3>2. m \in DOMAIN memories /\ verdict \in Statuses
      BY <3>1 DEF Statuses
    <3>3. memories'[m] = IF m = n THEN [memories[m] EXCEPT !.status = verdict] ELSE memories[m]
      BY <3>1, <3>2
    <3>4. CASE m = n
      BY <3>2, <3>3, <3>4
    <3>5. CASE m # n
      BY <3>2, <3>3, <3>5
    <3>. QED
      BY <3>4, <3>5
  <2>2. CASE \E n \in DOMAIN memories : Forget(n)
    BY <2>2 DEF Forget
  <2>3. CASE Write
    <3>1. PICK linked \in BOOLEAN :
             memories' = With(memories, new,
                              [status |-> "APPROVED", linked |-> linked, message |-> Head(messages)])
      BY <2>3 DEF Write
    <3>2. Head(messages) \in Messages
      <4>1. messages \in Seq(Messages) /\ messages # << >>
        BY <1>1, <2>3 DEF Write, ChatTyped, RowsTyped
      <4>. QED
        BY <4>1
    <3>3. [status |-> "APPROVED", linked |-> linked, message |-> Head(messages)] \in MemoryRows
      BY <3>2 DEF MemoryRows, Statuses
    <3>. HIDE DEF new
    <3>. QED
      BY <2>3, <3>1, <3>3 DEF Write, With
  <2>4. CASE Rename
    BY <2>4 DEF Rename
  <2>. QED
    BY <2>1, <2>2, <2>3, <2>4 DEF Reviewer
<1>5. new \in Keys
  BY <1>1 DEF Keys, ChatTyped
<1>6. ASSUME NEW m \in DOMAIN memories' PROVE m \in Keys /\ memories'[m] \in MemoryRows
  <2>1. ASSUME m \in DOMAIN memories, NEW verdict \in Statuses
        PROVE  /\ m \in Keys /\ memories[m] \in MemoryRows
               /\ [memories[m] EXCEPT !.status = verdict] \in MemoryRows
    BY <1>1, <2>1 DEF ChatTyped, RowsTyped, MemoryRows
  <2>. QED
    BY <1>4, <1>5, <1>6, <2>1 DEF Statuses
<1>7. ChatTyped'
  BY <1>1, <1>2, <1>3, <1>6 DEF ChatTyped, RowsTyped
<1>8. OwnIds' /\ AnswerThere' /\ RecordsTrue' /\ LinksMade'
  BY <1>2, <1>3 DEF ChatInv, OwnIds, AnswerThere, RecordsTrue, LinksMade, Stored, At, May
<1>9. CreatedOnce'
  BY <1>2, <1>3 DEF ChatInv, CreatedOnce, At
<1>10. IdsUsed'
  <2> SUFFICES ASSUME NEW m \in DOMAIN memories'
               PROVE  /\ m[1] = 0 => m[2] > callsLeft'
                      /\ m[1] # 0 => m[2] <= turn[m[1]].call
    BY <1>2 DEF IdsUsed
  <2>1. CASE m = new
    BY <1>1, <1>2, <2>1 DEF ChatTyped
  <2>2. CASE m \in DOMAIN memories
    <3>1. m[2] \in Nat
      BY <1>1, <2>2 DEF ChatTyped, RowsTyped, Keys
    <3>. QED
      BY <1>1, <1>2, <2>2, <3>1 DEF ChatInv, IdsUsed, ChatTyped
  <2>. QED
    BY <1>4, <2>1, <2>2
<1>11. NothingLeft' /\ Detaching'
  <2>1. ASSUME NEW m \in DOMAIN memories', m # new \/ ~Live \/ deletion.step = "row"
        PROVE  /\ m \in DOMAIN memories
               /\ memories'[m].linked = memories[m].linked
               /\ memories'[m].message = memories[m].message
    <3>1. m \in DOMAIN memories => memories[m] \in MemoryRows
      BY <1>1 DEF ChatTyped, RowsTyped
    <3>. QED
      BY <1>4, <2>1, <3>1 DEF MemoryRows
  <2>. QED
    BY <1>2, <1>3, <2>1 DEF ChatInv, NothingLeft, Detaching, Live
<1>. QED
  BY <1>7, <1>8, <1>9, <1>10, <1>11 DEF ChatInv

\* The cut of the history and the titles within it.
LEMMA TitlesWithin ==
    ASSUME NEW count \in Nat, count >= 2
    PROVE  /\ Cut(count) \in 2..MaxHistoryMessages
           /\ TitleAt(Cut(count)).by = "model"
           /\ TitleAt(Cut(count)).of \in 0..MaxHistoryMessages
           /\ TitleAt(Cut(count)) \in Titles
<1>1. Cut(count) \in 2..MaxHistoryMessages
  BY DEF Cut, MaxHistoryMessages
<1>2. ASSUME NEW k \in 2..20 PROVE k - (k % 6) \in 0..20
  OBVIOUS
<1>3. TitleAt(Cut(count)).of \in 0..MaxHistoryMessages
  BY <1>1, <1>2 DEF TitleAt, MaxHistoryMessages, TitleRefreshInterval
<1>4. TitleAt(Cut(count)) = [by |-> "model", of |-> TitleAt(Cut(count)).of]
  BY DEF TitleAt
<1>. QED
  BY <1>1, <1>3, <1>4 DEF Titles, MaxHistoryMessages

LEMMA ChatStarts == ChatInit => ChatInv
<1> SUFFICES ASSUME ChatInit PROVE ChatInv
  OBVIOUS
<1>1. setting \in Settings /\ setting.before \in Nat /\ setting.reviews \in Nat
  BY SettingsAssumption DEF ChatInit
<1>2. conv \in [state : {"none", "live", "gone"}, title : Titles] /\ conv.state # "gone"
  <2>1. CASE setting.before = 0
    BY <2>1 DEF ChatInit, Titles
  <2>2. CASE setting.before # 0
    <3>1. TitleAt(Cut(2 * setting.before)) \in Titles
      <4>1. 2 * setting.before \in Nat /\ 2 * setting.before >= 2
        BY <1>1, <2>2
      <4>. QED
        BY <4>1, TitlesWithin
    <3>. QED
      BY <2>2, <3>1 DEF ChatInit, Titles
  <2>. QED
    BY <2>1, <2>2
<1>3. messages \in Seq(Messages)
  <2>. DEFINE n == 2 * setting.before
  <2>1. n \in Nat
    BY <1>1
  <2>2. Question(0) \in Messages /\ Answer(0) \in Messages
    BY DEF Question, Answer, Messages
  <2>3. messages = [i \in 1..n |-> IF i % 2 = 1 THEN Question(0) ELSE Answer(0)]
    BY DEF ChatInit
  <2>. HIDE DEF n
  <2>. QED
    BY <2>1, <2>2, <2>3
<1>4. DOMAIN tools = {} /\ DOMAIN memories = {}
  BY DEF ChatInit
<1>5. /\ turn \in [Turns -> TurnStates]
      /\ \A t \in Turns : turn[t].step = "idle" /\ turn[t].records = {} /\ turn[t].proposed = {}
  BY DEF ChatInit, NewTurn, TurnStates, Steps
<1>6. deletion \in Deletions /\ deletion.step = "idle"
  BY DEF ChatInit, NoDeletion, Deletions
<1>7. ChatTyped
  BY <1>1, <1>2, <1>3, <1>4, <1>5, <1>6 DEF ChatTyped, RowsTyped, ChatInit
<1>. QED
  BY <1>2, <1>4, <1>5, <1>6, <1>7 DEF ChatInv, OwnIds, IdsUsed, CreatedOnce, RecordsTrue,
     AnswerThere,
     LinksMade, NothingLeft, Detaching, At, Linked

LEMMA ChatStepKeeps == ChatInv /\ [ChatNext]_chatVars => ChatInv'
<1> SUFFICES ASSUME ChatInv, [ChatNext]_chatVars PROVE ChatInv'
  OBVIOUS
<1>1. ASSUME NEW t \in Turns, Turn(t) PROVE ChatInv'
  BY <1>1, QuietKeeps, StepsKeep, ToolsKeep, LinksKeep DEF Turn, Quiet
<1>2. CASE UNCHANGED chatVars
  BY <1>2 DEF chatVars, ChatInv, ChatTyped, RowsTyped, OwnIds, IdsUsed, CreatedOnce, RecordsTrue,
     AnswerThere, LinksMade, NothingLeft, Detaching, Stored, At, May
<1>. QED
  BY <1>1, <1>2, DeletionKeeps, ReviewerKeeps DEF ChatNext

LEMMA ChatInvHolds == ChatSpec => []ChatInv
<1>. QED
  BY ChatStarts, ChatStepKeeps, PTL DEF ChatSpec

ToolsTable == tools = [id \in DOMAIN tools |-> tools[id]]

LEMMA ToolsAreTable == ChatSpec => []ToolsTable
<1>1. ChatInit => ToolsTable
  BY DEF ChatInit, ToolsTable
<1>2. ToolsTable /\ [ChatNext]_chatVars => ToolsTable'
  <2> SUFFICES ASSUME ToolsTable, [ChatNext]_chatVars PROVE ToolsTable'
    OBVIOUS
  <2>1. CASE tools' = tools
    BY <2>1 DEF ToolsTable
  <2>2. CASE tools' = << >>
    BY <2>2 DEF ToolsTable
  <2>3. ASSUME NEW t \in Turns, Record(t) \/ LinkTools(t) PROVE ToolsTable'
    BY <2>3 DEF ToolsTable, Record, LinkTools, With
  <2>4. CASE Deletion
    BY <2>1, <2>2, <2>4 DEF Deletion, BeginDeletion, DetachMemories, DeleteTools, DeleteMessages,
       DeleteRow, RowsStay, chatRows
  <2>5. CASE Reviewer
    BY <2>1, <2>5 DEF Reviewer, Review, Forget, Write, Rename
  <2>6. ASSUME NEW t \in Turns, Turn(t) PROVE ToolsTable'
    BY <2>1, <2>3, <2>6 DEF Turn, BeginTurn, CreateConversation, StoreQuestion, Retrieve, Replies,
       Asks, Exhausted, Unanswered, Leave, RunTool, Remember, StoreAnswer, LinkMemories,
       TouchConversation, CountMessages, Retitle, RowsStay, chatRows
  <2>7. CASE UNCHANGED chatVars
    BY <2>1, <2>7 DEF chatVars
  <2>. QED
    BY <2>4, <2>5, <2>6, <2>7 DEF ChatNext
<1>. QED
  BY <1>1, <1>2, PTL DEF ChatSpec

\* Records of tool calls name the answers they served, all of them once a turn has
\* linked its own, and nothing outlives its conversation.
THEOREM AuditHolds == ChatSpec => []AuditLinked
<1>1. ChatInv /\ ToolsTable => AuditLinked
  <2> SUFFICES ASSUME ChatInv, ToolsTable PROVE AuditLinked
    OBVIOUS
  <2>1. DOMAIN tools = {} => tools = << >>
    BY DEF ToolsTable
  <2>. QED
    BY <2>1 DEF ChatInv, AuditLinked, RecordsTrue, LinksMade, NothingLeft, At, Linked
<1>. QED
  BY <1>1, ChatInvHolds, ToolsAreTable, PTL

\* Every call a turn has made, and every one it still has to make, is of one of the
\* replies it has asked for.
ToCome(s) ==
    CASE s.step = "tool" -> s.left [] s.step = "record" -> s.left - 1 [] OTHER -> 0

Bounded(s) ==
    /\ s.iteration <= MaxToolIterations /\ s.left \in 0..MaxCalls /\ s.count <= MaxHistoryMessages
    /\ s.step \in {"tool", "record"} => s.left >= 1
    /\ s.step = "record" => s.call >= 1
    /\ s.call + ToCome(s) <= s.iteration * MaxCalls
    /\ s.records \cup s.proposed \subseteq Ids

RowsBounded ==
    /\ conv.title # Null => conv.title.of <= MaxHistoryMessages
    /\ DOMAIN tools \subseteq Ids /\ DOMAIN memories \subseteq MemoryIds
    /\ callsLeft <= setting.reviews

ChatBounded == RowsBounded /\ \A t \in Turns : Bounded(turn[t])

\* Replies times the calls of each.
LEMMA CallsOfReplies ==
    ASSUME NEW i \in Nat, i <= MaxToolIterations
    PROVE  /\ i * MaxCalls \in Nat
           /\ i * MaxCalls <= MaxToolIterations * MaxCalls
           /\ (i + 1) * MaxCalls = i * MaxCalls + MaxCalls
<1>1. MaxToolIterations \in Nat /\ MaxCalls \in Nat
  BY LimitsAssumption
<1>2. PICK k \in Nat : MaxToolIterations = i + k
  BY <1>1
<1>3. ASSUME NEW a \in Nat, NEW b \in Nat
      PROVE  a * MaxCalls \in Nat /\ (a + b) * MaxCalls = a * MaxCalls + b * MaxCalls
  BY <1>1
<1>. QED
  BY <1>1, <1>2, <1>3

\* The number of a call that is under way is one of those a turn may use.
LEMMA CallsHaveIds ==
    ASSUME NEW t \in Turns, NEW s \in TurnStates, Bounded(s)
    PROVE  /\ s.step = "tool" => <<t, s.call + 1>> \in Ids
           /\ s.step = "record" => <<t, s.call>> \in Ids
<1>. DEFINE all == MaxToolIterations * MaxCalls
            used == s.iteration * MaxCalls
<1>1. s.call \in Nat /\ s.left \in Int /\ s.iteration \in Nat
  BY DEF TurnStates
<1>2. used \in Nat /\ used <= all /\ all \in Int
  <2>1. used \in Nat /\ used <= all
    BY <1>1, CallsOfReplies DEF Bounded
  <2>2. MaxToolIterations \in Nat /\ MaxToolIterations <= MaxToolIterations
    BY LimitsAssumption
  <2>3. all \in Nat
    BY <2>2, CallsOfReplies
  <2>. QED
    BY <2>1, <2>3
<1>3. s.call + ToCome(s) <= used
  BY DEF Bounded
<1>4. Ids = Turns \X (1..all)
  BY DEF Ids
<1>. HIDE DEF all, used
<1>5. s.step = "tool" => s.call + 1 \in 1..all
  BY <1>1, <1>2, <1>3 DEF Bounded, ToCome
<1>6. s.step = "record" => s.call \in 1..all
  BY <1>1, <1>2, <1>3 DEF Bounded, ToCome
<1>. QED
  BY <1>4, <1>5, <1>6

\* A turn that moves on past its calls, or fails.
LEMMA MovesBounded ==
    ASSUME NEW s \in TurnStates, NEW step \in Steps \ {"tool", "record"}, Bounded(s)
    PROVE  Bounded([s EXCEPT !.step = step])
<1>. DEFINE r == [s EXCEPT !.step = step]
            used == s.iteration * MaxCalls
<1>1. s.call \in Nat /\ s.left \in Int /\ s.iteration \in Nat
  BY DEF TurnStates
<1>2. /\ r.step = step /\ r.call = s.call /\ r.left = s.left /\ r.iteration = s.iteration
      /\ r.count = s.count /\ r.records = s.records /\ r.proposed = s.proposed
  BY DEF TurnStates
<1>3. used \in Nat
  BY <1>1, CallsOfReplies DEF Bounded
<1>4. s.call + ToCome(s) <= used
  BY DEF Bounded
<1>5. r.iteration * MaxCalls = used
  BY <1>2
<1>. HIDE DEF r, used
<1>6. s.call <= used /\ ToCome(r) = 0
  BY <1>1, <1>2, <1>3, <1>4 DEF ToCome, Bounded
<1>. QED
  BY <1>1, <1>2, <1>3, <1>5, <1>6 DEF Bounded, r

\* A step of a turn keeps its bounds.
LEMMA TurnStaysBounded ==
    ASSUME ChatTyped, ChatBounded, NEW t \in Turns, Turn(t)
    PROVE  /\ Bounded(turn'[t])
           /\ \A u \in Turns : u # t => turn'[u] = turn[u]
<1>. DEFINE s == turn[t]
            r == turn'[t]
            used == s.iteration * MaxCalls
<1>1. /\ s \in TurnStates /\ Bounded(s) /\ turn \in [Turns -> TurnStates]
      /\ s.call \in Nat /\ s.left \in Int /\ s.iteration \in Nat
      /\ MaxCalls \in Nat /\ MaxToolIterations \in Nat
  BY LimitsAssumption DEF ChatTyped, ChatBounded, TurnStates
<1>2. /\ used \in Nat /\ (s.iteration + 1) * MaxCalls = used + MaxCalls
      /\ s.call + ToCome(s) <= used
  BY <1>1, CallsOfReplies DEF Bounded
<1>3. ASSUME NEW step \in Steps \ {"tool", "record"}, Goto(t, step)
      PROVE  Bounded(r) /\ \A u \in Turns : u # t => turn'[u] = turn[u]
  <2>1. r = [s EXCEPT !.step = step] /\ \A u \in Turns : u # t => turn'[u] = turn[u]
    BY <1>1, <1>3 DEF Goto
  <2>. QED
    BY <1>1, <2>1, MovesBounded
<1>4. CASE \E step \in Steps \ {"tool", "record"} : Goto(t, step)
  BY <1>3, <1>4
<1>5. CASE Asks(t)
  <2>1. PICK k \in 1..MaxCalls :
           turn' = [turn EXCEPT ![t].step = "tool", ![t].iteration = @ + 1, ![t].left = k]
    BY <1>5 DEF Asks
  <2>2. /\ r.step = "tool" /\ r.iteration = s.iteration + 1 /\ r.left = k /\ r.call = s.call
        /\ r.count = s.count /\ r.records = s.records /\ r.proposed = s.proposed
        /\ \A u \in Turns : u # t => turn'[u] = turn[u]
    BY <1>1, <2>1 DEF TurnStates
  <2>3. s.step = "model" /\ s.iteration < MaxToolIterations
    BY <1>5 DEF Asks, At
  <2>4. r.iteration * MaxCalls = used + MaxCalls
    BY <1>2, <2>2
  <2>. HIDE DEF used, r, s
  <2>5. s.call <= used /\ ToCome(r) = k
    BY <1>1, <1>2, <2>2, <2>3 DEF ToCome
  <2>6. r.call + ToCome(r) <= r.iteration * MaxCalls
    BY <1>1, <1>2, <2>2, <2>4, <2>5
  <2>7. Bounded(r)
    BY <1>1, <2>2, <2>3, <2>6 DEF Bounded
  <2>. QED
    BY <2>2, <2>7 DEF r
<1>6. CASE RunTool(t) \/ Remember(t)
  <2>1. /\ s.step = "tool"
        /\ r.step = "record" /\ r.iteration = s.iteration /\ r.left = s.left /\ r.call = s.call + 1
        /\ r.count = s.count /\ r.records = s.records
        /\ r.proposed \in {s.proposed, s.proposed \cup {<<t, s.call + 1>>}}
        /\ \A u \in Turns : u # t => turn'[u] = turn[u]
    <3>1. CASE RunTool(t)
      BY <1>1, <3>1 DEF RunTool, Breaks, At, TurnStates
    <3>2. CASE Remember(t)
      BY <1>1, <3>2 DEF Remember, At, TurnStates
    <3>. QED
      BY <1>6, <3>1, <3>2
  <2>2. <<t, s.call + 1>> \in Ids
    BY <1>1, <2>1, CallsHaveIds
  <2>3. r.iteration * MaxCalls = used
    BY <2>1
  <2>. HIDE DEF used, r, s
  <2>4. ToCome(s) = s.left /\ ToCome(r) = s.left - 1
    BY <2>1 DEF ToCome
  <2>5. r.call + ToCome(r) <= r.iteration * MaxCalls
    BY <1>1, <1>2, <2>1, <2>3, <2>4
  <2>6. Bounded(r)
    BY <1>1, <2>1, <2>2, <2>5 DEF Bounded
  <2>. QED
    BY <2>1, <2>6 DEF r
<1>7. CASE Record(t)
  <2>1. /\ s.step = "record"
        /\ r.step = IF s.left = 1 THEN "model" ELSE "tool"
        /\ r.iteration = s.iteration /\ r.left = s.left - 1 /\ r.call = s.call
        /\ r.count = s.count /\ r.proposed = s.proposed
        /\ r.records \in {s.records, s.records \cup {<<t, s.call>>}}
        /\ \A u \in Turns : u # t => turn'[u] = turn[u]
    BY <1>1, <1>7 DEF Record, At, TurnStates
  <2>2. <<t, s.call>> \in Ids
    BY <1>1, <2>1, CallsHaveIds
  <2>3. r.iteration * MaxCalls = used
    BY <2>1
  <2>. HIDE DEF used, r, s
  <2>4. ToCome(s) = s.left - 1 /\ ToCome(r) <= s.left - 1 /\ ToCome(r) \in Int
    BY <1>1, <2>1 DEF ToCome, Bounded
  <2>5. r.call + ToCome(r) <= r.iteration * MaxCalls
    BY <1>1, <1>2, <2>1, <2>3, <2>4
  <2>6. Bounded(r)
    BY <1>1, <2>1, <2>2, <2>5 DEF Bounded
  <2>. QED
    BY <2>1, <2>6 DEF r
<1>8. CASE CountMessages(t)
  <2>1. History \in Nat /\ History <= MaxHistoryMessages
    BY DEF History, Cut, ChatTyped, RowsTyped, MaxHistoryMessages
  <2>2. PICK step \in Steps \ {"tool", "record"} :
           turn' = [turn EXCEPT ![t].count = History, ![t].step = step]
    <3>1. {"retitle", "done"} \subseteq Steps \ {"tool", "record"}
      BY DEF Steps, Over
    <3>2. CASE IsRefreshPoint(History)
      BY <1>8, <3>1, <3>2 DEF CountMessages
    <3>3. CASE ~IsRefreshPoint(History)
      BY <1>8, <3>1, <3>3 DEF CountMessages
    <3>. QED
      BY <3>2, <3>3
  <2>3. Bounded([s EXCEPT !.step = step])
    BY <1>1, MovesBounded
  <2>4. r = [[s EXCEPT !.step = step] EXCEPT !.count = History]
        /\ \A u \in Turns : u # t => turn'[u] = turn[u]
    BY <1>1, <2>2 DEF TurnStates
  <2>5. ASSUME NEW q \in TurnStates, Bounded(q)
        PROVE  Bounded([q EXCEPT !.count = History])
    <3>. DEFINE p == [q EXCEPT !.count = History]
    <3>1. /\ p.step = q.step /\ p.call = q.call /\ p.left = q.left /\ p.iteration = q.iteration
          /\ p.count = History /\ p.records = q.records /\ p.proposed = q.proposed
      BY DEF TurnStates
    <3>. HIDE DEF p
    <3>2. ToCome(p) = ToCome(q)
      BY <3>1 DEF ToCome
    <3>3. Bounded(p)
      BY <2>1, <2>5, <3>1, <3>2 DEF Bounded
    <3>. QED
      BY <3>3 DEF p
  <2>6. [s EXCEPT !.step = step] \in TurnStates
    BY <1>1 DEF TurnStates
  <2>. QED
    BY <2>3, <2>4, <2>5, <2>6
<1>9. \/ \E step \in Steps \ {"tool", "record"} : Goto(t, step)
      \/ Asks(t) \/ RunTool(t) \/ Remember(t) \/ Record(t) \/ CountMessages(t)
  BY DEF Turn, BeginTurn, CreateConversation, StoreQuestion, Retrieve, Replies, Exhausted,
     Unanswered, Leave, StoreAnswer, LinkTools, LinkMemories, TouchConversation, Retitle, Steps,
     Over
<1>. QED
  BY <1>4, <1>5, <1>6, <1>7, <1>8, <1>9

\* And so do the rows it writes.
LEMMA RowsStayBounded ==
    ASSUME ChatTyped, ChatBounded, NEW t \in Turns, Turn(t) PROVE RowsBounded'
<1>1. setting' = setting /\ callsLeft' = callsLeft
  BY DEF Turn, BeginTurn, CreateConversation, StoreQuestion, Retrieve, Replies, Asks, Exhausted,
     Unanswered, Leave, RunTool, Remember, Record, StoreAnswer, LinkTools, LinkMemories,
     TouchConversation, CountMessages, Retitle, OthersStay
<1>2. turn[t] \in TurnStates /\ Bounded(turn[t])
  BY DEF ChatTyped, ChatBounded
<1>3. DOMAIN tools' \subseteq Ids /\ DOMAIN memories' \subseteq MemoryIds
  <2>1. CASE Remember(t)
    <3>1. <<t, turn[t].call + 1>> \in Ids
      BY <1>2, <2>1, CallsHaveIds DEF Remember, At
    <3>2. tools' = tools /\ DOMAIN memories' \subseteq DOMAIN memories \cup {<<t, turn[t].call + 1>>}
      BY <2>1 DEF Remember, With
    <3>. QED
      BY <3>1, <3>2 DEF ChatBounded, RowsBounded, MemoryIds
  <2>2. CASE Record(t)
    <3>1. <<t, turn[t].call>> \in Ids
      BY <1>2, <2>2, CallsHaveIds DEF Record, At
    <3>2. memories' = memories /\ DOMAIN tools' \subseteq DOMAIN tools \cup {<<t, turn[t].call>>}
      BY <2>2 DEF Record, With
    <3>. QED
      BY <3>1, <3>2 DEF ChatBounded, RowsBounded
  <2>3. CASE ~Remember(t) /\ ~Record(t)
    <3>1. DOMAIN tools' = DOMAIN tools /\ DOMAIN memories' = DOMAIN memories
      BY <2>3 DEF Turn, BeginTurn, CreateConversation, StoreQuestion, Retrieve, Replies, Asks,
         Exhausted, Unanswered, Leave, RunTool, StoreAnswer, LinkTools, LinkMemories,
         TouchConversation, CountMessages, Retitle, RowsStay, chatRows
    <3>. QED
      BY <3>1 DEF ChatBounded, RowsBounded
  <2>. QED
    BY <2>1, <2>2, <2>3
<1>4. conv'.title # Null => conv'.title.of <= MaxHistoryMessages
  <2>1. CASE Retitle(t)
    BY <1>2, <2>1 DEF Retitle, Bounded, ChatTyped, RowsTyped, ChatBounded, RowsBounded
  <2>2. CASE CreateConversation(t)
    BY <2>2 DEF CreateConversation
  <2>3. CASE ~Retitle(t) /\ ~CreateConversation(t)
    <3>1. conv' = conv
      BY <2>3 DEF Turn, BeginTurn, StoreQuestion, Retrieve, Replies, Asks, Exhausted, Unanswered,
         Leave, RunTool, Remember, Record, StoreAnswer, LinkTools, LinkMemories,
         TouchConversation,
         CountMessages, RowsStay, chatRows
    <3>. QED
      BY <3>1 DEF ChatBounded, RowsBounded
  <2>. QED
    BY <2>1, <2>2, <2>3
<1>. QED
  BY <1>1, <1>3, <1>4 DEF ChatBounded, RowsBounded, MemoryIds

LEMMA BoundsHold == ChatSpec => []ChatBounded
<1>1. ChatInit => ChatBounded
  <2> SUFFICES ASSUME ChatInit PROVE ChatBounded
    OBVIOUS
  <2>1. \A t \in Turns : Bounded(turn[t])
    <3>1. 0 * MaxCalls = 0
      BY LimitsAssumption
    <3>. QED
      BY <3>1, LimitsAssumption DEF ChatInit, NewTurn, Bounded, ToCome, MaxHistoryMessages
  <2>2. setting.before \in Nat /\ setting.reviews \in Nat
    BY SettingsAssumption DEF ChatInit
  <2>3. conv.title # Null => conv.title.of <= MaxHistoryMessages
    <3>1. CASE setting.before = 0
      BY <3>1 DEF ChatInit
    <3>2. CASE setting.before # 0
      <4>1. 2 * setting.before \in Nat /\ 2 * setting.before >= 2
        BY <2>2, <3>2
      <4>2. conv.title = TitleAt(Cut(2 * setting.before))
        BY <3>2 DEF ChatInit
      <4>. QED
        BY <4>1, <4>2, TitlesWithin DEF MaxHistoryMessages
    <3>. QED
      BY <3>1, <3>2
  <2>4. DOMAIN tools = {} /\ DOMAIN memories = {} /\ callsLeft = setting.reviews
    BY DEF ChatInit
  <2>. QED
    BY <2>1, <2>2, <2>3, <2>4 DEF ChatBounded, RowsBounded
<1>2. ChatInv /\ ChatBounded /\ [ChatNext]_chatVars => ChatBounded'
  <2> SUFFICES ASSUME ChatInv, ChatBounded, [ChatNext]_chatVars PROVE ChatBounded'
    OBVIOUS
  <2>1. ChatTyped
    BY DEF ChatInv
  <2>2. ASSUME NEW t \in Turns, Turn(t) PROVE ChatBounded'
    BY <2>1, <2>2, TurnStaysBounded, RowsStayBounded DEF ChatBounded
  <2>3. CASE Deletion
    <3>1. /\ UNCHANGED <<setting, turn, callsLeft>>
          /\ conv' = conv \/ conv'.title = Null
          /\ DOMAIN tools' \subseteq DOMAIN tools /\ DOMAIN memories' = DOMAIN memories
      BY <2>3 DEF Deletion, BeginDeletion, DetachMemories, DeleteTools, DeleteMessages, DeleteRow,
         RowsStay, TurnsStay, chatRows
    <3>. QED
      BY <3>1 DEF ChatBounded, RowsBounded, MemoryIds
  <2>4. CASE Reviewer
    <3>1. /\ UNCHANGED <<setting, turn>> /\ tools' = tools
          /\ callsLeft \in 1..setting.reviews /\ callsLeft' = callsLeft - 1
      <4>1. callsLeft \in Nat /\ setting.reviews \in Nat
        BY <2>1, SettingsAssumption DEF ChatTyped
      <4>2. Call /\ tools' = tools
        BY <2>4 DEF Reviewer, Review, Forget, Write, Rename
      <4>. QED
        BY <4>1, <4>2 DEF Call, ChatBounded, RowsBounded
    <3>2. DOMAIN memories' \subseteq DOMAIN memories \cup {<<0, callsLeft>>}
      BY <2>4 DEF Reviewer, Review, Forget, Write, Rename, With
    <3>3. <<0, callsLeft>> \in MemoryIds
      BY <3>1 DEF MemoryIds
    <3>4. conv'.title # Null => conv'.title.of <= MaxHistoryMessages
      <4>1. CASE Rename
        BY <2>1, <4>1 DEF Rename, ChatTyped, RowsTyped, MaxHistoryMessages
      <4>2. CASE ~Rename
        BY <2>4, <4>2 DEF Reviewer, Review, Forget, Write, ChatBounded, RowsBounded
      <4>. QED
        BY <4>1, <4>2
    <3>5. callsLeft' <= setting.reviews
      <4>1. setting.reviews \in Nat
        BY <2>1, SettingsAssumption DEF ChatTyped
      <4>. QED
        BY <3>1, <4>1
    <3>. QED
      BY <3>1, <3>2, <3>3, <3>4, <3>5 DEF ChatBounded, RowsBounded, MemoryIds
  <2>5. CASE UNCHANGED chatVars
    BY <2>5 DEF chatVars, ChatBounded, RowsBounded, MemoryIds
  <2>. QED
    BY <2>2, <2>3, <2>4, <2>5 DEF ChatNext
<1>. QED
  BY <1>1, <1>2, ChatInvHolds, PTL DEF ChatSpec

\* Rows, turns and the deletion have their types; no turn makes more tool calls than
\* its replies allow, whatever happens to the conversation meanwhile.
THEOREM ChatTypeCorrect == ChatSpec => []ChatTypeOK
<1>1. ChatInv /\ ChatBounded => ChatTypeOK
  <2> SUFFICES ASSUME ChatInv, ChatBounded PROVE ChatTypeOK
    OBVIOUS
  <2>1. ChatTyped /\ RowsBounded /\ setting.reviews \in Nat
    BY SettingsAssumption DEF ChatInv, ChatTyped, ChatBounded
  <2>2. conv.title # Null => conv.title \in [by : {"model", "user"}, of : 0..MaxHistoryMessages]
    <3> SUFFICES ASSUME conv.title # Null
                 PROVE  conv.title \in [by : {"model", "user"}, of : 0..MaxHistoryMessages]
      OBVIOUS
    <3>1. conv.title \in [by : {"model", "user"}, of : Nat]
      BY <2>1 DEF ChatTyped, RowsTyped, Titles
    <3>2. conv.title.of \in 0..MaxHistoryMessages
      BY <2>1, <3>1 DEF RowsBounded, MaxHistoryMessages
    <3>. QED
      BY <3>1, <3>2
  <2>3. \A id \in DOMAIN tools : tools[id] \in Messages \cup {Null}
    <3> SUFFICES ASSUME NEW id \in DOMAIN tools PROVE tools[id] \in Messages \cup {Null}
      OBVIOUS
    <3>1. id[1] \in Turns
      BY <2>1 DEF ChatTyped, RowsTyped
    <3>2. Answer(id[1]) \in Messages
      BY <3>1 DEF Answer, Messages
    <3>. QED
      BY <3>2 DEF ChatInv, RecordsTrue
  <2>4. ASSUME NEW t \in Turns
        PROVE  /\ turn[t].step \in Steps /\ turn[t].iteration \in 0..MaxToolIterations
               /\ turn[t].left \in 0..MaxCalls
               /\ turn[t].records \cup turn[t].proposed \subseteq Ids
    BY <2>1, LimitsAssumption DEF ChatTyped, TurnStates, ChatBounded, Bounded
  <2>5. callsLeft \in 0..setting.reviews
    BY <2>1 DEF ChatTyped, RowsBounded
  <2>. QED
    BY <2>1, <2>2, <2>3, <2>4, <2>5 DEF ChatTypeOK, ChatTyped, RowsTyped, RowsBounded,
       MemoryRows, Deletions
<1>. QED
  BY <1>1, ChatInvHolds, BoundsHold, PTL

\* Of all steps only a person's review decides, and only a person's deletion takes a
\* memory away.
THEOREM ReviewsStand == ChatSpec => ReviewStands
<1>1. ChatInv /\ [ChatNext]_chatVars =>
        [\A m \in DOMAIN memories :
            /\ m \notin DOMAIN memories' => Forget(m)
            /\ m \in DOMAIN memories' /\ memories'[m].status # memories[m].status => Review(m)]_chatVars
  <2> SUFFICES ASSUME ChatInv, ChatNext, NEW m \in DOMAIN memories
               PROVE  /\ m \notin DOMAIN memories' => Forget(m)
                      /\ m \in DOMAIN memories' /\ memories'[m].status # memories[m].status
                            => Review(m)
    OBVIOUS
  <2>1. memories[m] \in MemoryRows
    BY DEF ChatInv, ChatTyped, RowsTyped
  <2>2. CASE memories' = memories
    BY <2>2
  <2>3. ASSUME NEW t \in Turns, Turn(t), memories' # memories
        PROVE  m \in DOMAIN memories' /\ memories'[m].status = memories[m].status
    <3>1. ~Quiet(t)
      BY <2>3, QuietSteps DEF ChatInv
    <3>2. CASE Remember(t)
      <4>. DEFINE id == <<t, turn[t].call + 1>>
      <4>1. t \in Nat \ {0} /\ turn[t].call \in Nat
        BY TurnsAreNumbers DEF ChatInv, ChatTyped, TurnStates
      <4>2. id \notin DOMAIN memories
        BY <4>1 DEF ChatInv, IdsUsed
      <4>3. PICK row : memories' = With(memories, id, row)
        BY <2>3, <3>2 DEF Remember
      <4>. HIDE DEF id
      <4>. QED
        BY <4>2, <4>3 DEF With
    <3>3. CASE LinkMemories(t)
      <4>1. \/ memories'[m] = memories[m]
            \/ memories'[m] = [memories[m] EXCEPT !.message = Answer(t)]
        BY <3>3 DEF LinkMemories
      <4>2. m \in DOMAIN memories'
        BY <3>3 DEF LinkMemories
      <4>. QED
        BY <2>1, <4>1, <4>2 DEF MemoryRows
    <3>. QED
      BY <2>3, <3>1, <3>2, <3>3 DEF Turn, Quiet, CreateConversation, StoreQuestion, Record,
         StoreAnswer, LinkTools, Retitle
  <2>4. CASE Deletion /\ memories' # memories
    <3>1. DOMAIN memories' = DOMAIN memories
          /\ memories'[m] \in {memories[m], Detached(memories[m])}
      BY <2>4 DEF Deletion, BeginDeletion, DetachMemories, DeleteTools, DeleteMessages,
         DeleteRow, RowsStay, chatRows
    <3>. QED
      BY <2>1, <3>1 DEF Detached, MemoryRows
  <2>5. ASSUME NEW n \in DOMAIN memories, Review(n)
        PROVE  m \in DOMAIN memories' /\ (m # n => memories'[m] = memories[m])
    BY <2>5 DEF Review
  <2>6. ASSUME NEW n \in DOMAIN memories, Forget(n)
        PROVE  IF m = n THEN m \notin DOMAIN memories'
               ELSE m \in DOMAIN memories' /\ memories'[m] = memories[m]
    BY <2>6 DEF Forget
  <2>7. CASE Write
    <3>1. <<0, callsLeft>> # m
      BY DEF ChatInv, IdsUsed, ChatTyped
    <3>2. PICK row : memories' = With(memories, <<0, callsLeft>>, row)
      BY <2>7 DEF Write
    <3>. QED
      BY <3>1, <3>2 DEF With
  <2>8. CASE Rename
    BY <2>2, <2>8 DEF Rename
  <2>. QED
    BY <2>2, <2>3, <2>4, <2>5, <2>6, <2>7, <2>8 DEF ChatNext, Reviewer
<1>. QED
  BY <1>1, ChatInvHolds, PTL DEF ChatSpec, ReviewStands

\* The title of so many messages, of which the cut is counted.
TitleFits(n) == n > 0 => conv.title = TitleAt(Cut(n))

\* All but the last k messages are whole exchanges, and the title is theirs.
Behind(k) == \E n \in Nat : Len(messages) = 2 * n + k /\ TitleFits(2 * n)

Asked == {"retrieve", "model", "tool", "record", "finish"}
Answered == {"linkTools", "linkMemories", "touch", "title", "retitle"}

\* The turns of a calm conversation come one after the other.
InTurn == \A t \in Turns : ~At(t, "idle") => \A u \in Turns : u < t => At(u, "done")

CalmTurns ==
    \A t \in Turns :
        /\ ~At(t, "failed")
        /\ turn[t].step \in {"user"} \cup Asked \cup Answered => Live
        /\ turn[t].step \in Asked => Behind(1)
        /\ turn[t].step \in Answered => Behind(2)
        /\ At(t, "retitle") => turn[t].count = History /\ IsRefreshPoint(History)

NoTurn == \A t \in Turns : turn[t].step \in {"idle", "create", "user", "done"}

Calm ==
    /\ callsLeft = 0 /\ deletion.step = "idle" /\ conv.state # "gone"
    /\ conv.state = "none" => messages = << >>
    /\ InTurn /\ CalmTurns
    /\ NoTurn => Behind(0)

CalmInv == setting.calm => Calm

\* A title changes at a refresh point and at no other count of whole exchanges.
LEMMA TitleMoves ==
    ASSUME NEW n \in Nat, n >= 1
    PROVE  LET h == Cut(2 * n)
           IN  IF IsRefreshPoint(h) THEN TitleAt(h) = [by |-> "model", of |-> h]
               ELSE n >= 2 /\ TitleAt(h) = TitleAt(Cut(2 * (n - 1)))
<1>. USE DEF MaxHistoryMessages, TitleRefreshInterval
<1>1. CASE n > 10
  <2>1. Cut(2 * n) = 20 /\ Cut(2 * (n - 1)) = 20 /\ n >= 2
    BY <1>1 DEF Cut
  <2>2. ~IsRefreshPoint(20)
    BY DEF IsRefreshPoint
  <2>. QED
    BY <2>1, <2>2
<1>2. CASE n \in 1..10
  <2>1. Cut(2 * n) = 2 * n /\ Cut(2 * (n - 1)) = 2 * (n - 1)
    BY <1>2 DEF Cut
  <2>2. CASE n \in {1, 3, 6, 9}
    <3>1. IsRefreshPoint(2 * n)
      BY <2>2 DEF IsRefreshPoint
    <3>2. TitleAt(2 * n) = [by |-> "model", of |-> 2 * n]
      BY <2>2 DEF TitleAt
    <3>. QED
      BY <2>1, <3>1, <3>2
  <2>3. CASE n \in {2, 4, 5, 7, 8, 10}
    <3>1. ~IsRefreshPoint(2 * n)
      BY <2>3 DEF IsRefreshPoint
    <3>2. n >= 2 /\ TitleAt(2 * n) = TitleAt(2 * (n - 1))
      BY <2>3 DEF TitleAt
    <3>. QED
      BY <2>1, <3>1, <3>2
  <2>. QED
    BY <1>2, <2>2, <2>3
<1>. QED
  BY <1>1, <1>2

\* While one turn is under way no other is.
LEMMA OneTurn ==
    ASSUME Calm, NEW t \in Turns, ~At(t, "idle"), ~At(t, "done"),
           NEW u \in Turns, u # t
    PROVE  At(u, "idle") \/ At(u, "done")
<1>1. t \in Nat /\ u \in Nat
  BY TurnsAreNumbers
<1>2. u < t => At(u, "done")
  BY DEF Calm, InTurn
<1>3. t < u => At(u, "idle")
  BY DEF Calm, InTurn
<1>. QED
  BY <1>1, <1>2, <1>3

\* A turn that has the conversation to itself takes one step.
LEMMA CalmMoves ==
    ASSUME ChatTyped, ChatTyped', Calm, NEW t \in Turns, ~At(t, "idle"), ~At(t, "done"),
           UNCHANGED <<deletion, callsLeft>>, conv'.state # "gone",
           conv'.state = "none" => messages' = << >>,
           \A u \in Turns : u # t => turn'[u] = turn[u],
           turn'[t].step \notin {"idle", "failed"},
           turn'[t].step \in {"user"} \cup Asked \cup Answered => Live',
           turn'[t].step \in Asked => Behind(1)',
           turn'[t].step \in Answered => Behind(2)',
           At(t, "retitle")' => turn'[t].count = History' /\ IsRefreshPoint(History'),
           turn'[t].step \in {"create", "user", "done"} => Behind(0)'
    PROVE  Calm'
<1>1. \A u \in Turns : u # t => turn[u].step \in {"idle", "done"}
  BY OneTurn DEF At
<1>2. InTurn'
  <2> SUFFICES ASSUME NEW v \in Turns, ~At(v, "idle")', NEW u \in Turns, u < v
               PROVE  At(u, "done")'
    BY DEF InTurn
  <2>0. t \in Nat /\ u \in Nat /\ v \in Nat
    BY TurnsAreNumbers
  <2>1. ~At(v, "idle")
    BY DEF At
  <2>2. At(u, "done")
    BY <2>1 DEF Calm, InTurn
  <2>. QED
    BY <2>2 DEF At
<1>3. CalmTurns'
  <2> SUFFICES ASSUME NEW u \in Turns, u # t
               PROVE  turn'[u].step \in {"idle", "done"}
    BY DEF CalmTurns, At, Asked, Answered
  <2>. QED
    BY <1>1
<1>4. NoTurn' => Behind(0)'
  BY DEF NoTurn
<1>. QED
  BY <1>2, <1>3, <1>4 DEF Calm

LEMMA CalmBegins ==
    ASSUME ChatTyped, Calm, setting.calm, NEW t \in Turns, BeginTurn(t) PROVE Calm'
<1>1. ~setting.overlap
  BY SettingsAssumption DEF ChatTyped
<1>2. \A u \in Turns : u < t => At(u, "done")
  BY <1>1 DEF BeginTurn, IsOver, Over, At, Calm, CalmTurns
<1>3. \A u \in Turns : u # t => turn[u].step \in {"idle", "done"}
  <2> SUFFICES ASSUME NEW u \in Turns, u # t, ~At(u, "idle") PROVE At(u, "done")
    BY DEF At
  <2>1. t \in Nat /\ u \in Nat
    BY TurnsAreNumbers
  <2>2. ~(t < u)
    BY DEF BeginTurn, At, Calm, InTurn
  <2>. QED
    BY <1>2, <2>1, <2>2
<1>4. UNCHANGED <<setting, conv, messages, deletion, callsLeft>>
  BY DEF BeginTurn, RowsStay, OthersStay, chatRows
<1>5. PICK s \in {"create", "user"} : Goto(t, s) /\ (s = "user" => Live)
  <2>1. conv.state \in {"none", "live"}
    BY DEF ChatTyped, RowsTyped, Calm
  <2>. QED
    BY <2>1 DEF BeginTurn, Live
<1>6. /\ \A u \in Turns : u # t => turn'[u] = turn[u]
      /\ turn'[t].step = s
  BY <1>5, Goes DEF ChatTyped, Steps, Over
<1>7. At(t, "idle")
  BY DEF BeginTurn
<1>8. Behind(0)
  BY <1>3, <1>7 DEF Calm, NoTurn, At
<1>9. Behind(0)'
  BY <1>4, <1>8 DEF Behind, TitleFits
<1>10. InTurn'
  <2> SUFFICES ASSUME NEW v \in Turns, ~At(v, "idle")', NEW u \in Turns, u < v
               PROVE  At(u, "done")'
    BY DEF InTurn
  <2>1. CASE v = t
    <3>1. u # t
      BY <2>1, TurnsAreNumbers
    <3>. QED
      BY <1>2, <1>6, <2>1, <3>1 DEF At
  <2>2. CASE v # t
    BY <1>6, <1>7, <2>2 DEF At, Calm, InTurn
  <2>. QED
    BY <2>1, <2>2
<1>11. CalmTurns'
  <2> SUFFICES ASSUME NEW u \in Turns
               PROVE  turn'[u].step \in {"idle", "done", s}
    BY <1>4, <1>5 DEF CalmTurns, At, Asked, Answered, Live
  <2>. QED
    BY <1>3, <1>6
<1>. QED
  BY <1>4, <1>9, <1>10, <1>11 DEF Calm

\* A message more puts the conversation one further behind.
LEMMA OneMore ==
    ASSUME ChatTyped, NEW k \in Nat, Behind(k), NEW m, messages' = Append(messages, m),
           conv' = conv
    PROVE  Behind(k + 1)'
<1>1. PICK n \in Nat : Len(messages) = 2 * n + k /\ TitleFits(2 * n)
  BY DEF Behind
<1>2. Len(messages') = Len(messages) + 1
  BY DEF ChatTyped, RowsTyped
<1>3. Len(messages') = 2 * n + (k + 1)
  BY <1>1, <1>2
<1>4. TitleFits(2 * n)'
  BY <1>1 DEF TitleFits
<1>. QED
  BY <1>1, <1>3, <1>4 DEF Behind

LEMMA CalmTurnStep ==
    ASSUME ChatInv, ChatInv', Calm, setting.calm, NEW t \in Turns, Turn(t) PROVE Calm'
<1>1. ChatTyped /\ ChatTyped' /\ turn[t] \in TurnStates
  BY DEF ChatInv, ChatTyped
<1>2. \A fault : ~May(fault)
  BY <1>1, SettingsAssumption DEF ChatTyped, May
<1>3. CASE BeginTurn(t)
  BY <1>1, <1>3, CalmBegins
<1>. USE DEF Asked, Answered, At
<1>4. CASE CreateConversation(t)
  <2>1. messages = << >>
    BY <1>4 DEF ChatInv, CreatedOnce, Calm, CreateConversation
  <2>2. /\ messages' = << >> /\ conv'.state = "live"
        /\ turn[t].step = "create" /\ Goto(t, "user")
        /\ UNCHANGED <<deletion, callsLeft>>
    BY <1>4, <2>1 DEF CreateConversation, OthersStay
  <2>3. Behind(0)'
    <3>1. Len(messages') = 2 * 0 + 0
      BY <2>2
    <3>. QED
      BY <3>1 DEF Behind, TitleFits
  <2>4. turn'[t].step = "user" /\ \A u \in Turns : u # t => turn'[u] = turn[u]
    BY <1>1, <2>2, Goes DEF ChatTyped, Steps
  <2>. QED
    BY <1>1, <2>2, <2>3, <2>4, CalmMoves DEF Live
<1>. DEFINE Same == UNCHANGED <<conv, messages, deletion, callsLeft>>
<1>5. CASE StoreQuestion(t)
  <2>1. /\ At(t, "user") /\ Live /\ Goto(t, "retrieve")
        /\ UNCHANGED <<conv, deletion, callsLeft>>
        /\ messages' = Append(messages, Question(t))
    BY <1>5 DEF StoreQuestion, OthersStay, Calm, CalmTurns
  <2>2. /\ \A u \in Turns : u # t => turn'[u] = turn[u]
        /\ turn'[t].step = "retrieve"
    BY <1>1, <2>1, Goes DEF ChatTyped, Steps
  <2>3. Behind(0)
    BY <2>1, OneTurn DEF Calm, NoTurn
  <2>4. Behind(0 + 1)'
    BY <1>1, <2>1, <2>3, OneMore
  <2>. QED
    BY <1>1, <2>1, <2>2, <2>4, CalmMoves DEF Live
<1>5a. CASE StoreAnswer(t)
  <2>1. /\ At(t, "finish") /\ Live /\ Goto(t, "linkTools")
        /\ UNCHANGED <<conv, deletion, callsLeft>>
        /\ messages' = Append(messages, Answer(t))
    BY <1>2, <1>5a DEF StoreAnswer, OthersStay, Calm, CalmTurns
  <2>2. /\ \A u \in Turns : u # t => turn'[u] = turn[u]
        /\ turn'[t].step = "linkTools"
    BY <1>1, <2>1, Goes DEF ChatTyped, Steps
  <2>3. Behind(1)
    BY <2>1 DEF Calm, CalmTurns
  <2>4. Behind(1 + 1)'
    BY <1>1, <2>1, <2>3, OneMore
  <2>. QED
    BY <1>1, <2>1, <2>2, <2>4, CalmMoves DEF Live
<1>6. CASE \/ Retrieve(t) \/ Replies(t) \/ Asks(t) \/ Exhausted(t)
            \/ RunTool(t) \/ Remember(t) \/ Record(t)
  <2>1. Same /\ turn[t].step \in Asked
    BY <1>1, <1>6 DEF Retrieve, Replies, Asks, Exhausted, RunTool, Remember, Record, RowsStay,
       OthersStay, chatRows
  <2>2. /\ \A u \in Turns : u # t => turn'[u] = turn[u]
        /\ turn'[t].step \in Asked
    BY <1>1, <1>2, <1>6 DEF Retrieve, Replies, Asks, Exhausted, RunTool, Remember, Record, Goto,
       ChatTyped, TurnStates
  <2>3. Behind(1)' /\ Live'
    BY <2>1 DEF Calm, CalmTurns, Behind, TitleFits, Live
  <2>. QED
    BY <1>1, <2>1, <2>2, <2>3, CalmMoves DEF Live, Calm
<1>7. CASE LinkTools(t) \/ LinkMemories(t) \/ TouchConversation(t)
  <2>1. Same /\ turn[t].step \in Answered
    BY <1>1, <1>7 DEF LinkTools, LinkMemories, TouchConversation, RowsStay, OthersStay, chatRows
  <2>2. Live /\ Behind(2)
    BY <2>1 DEF Calm, CalmTurns
  <2>3. PICK s \in {"linkMemories", "touch", "title"} : Goto(t, s)
    BY <1>7, <2>2 DEF LinkTools, LinkMemories, TouchConversation
  <2>4. /\ \A u \in Turns : u # t => turn'[u] = turn[u]
        /\ turn'[t].step = s
    BY <1>1, <2>3, Goes DEF ChatTyped, Steps
  <2>5. Behind(2)' /\ Live'
    BY <2>1, <2>2 DEF Behind, TitleFits, Live
  <2>. QED
    BY <1>1, <2>1, <2>4, <2>5, CalmMoves DEF Live, Calm
<1>8. CASE CountMessages(t)
  <2>1. Same /\ At(t, "title") /\ History' = History
    BY <1>8 DEF CountMessages, RowsStay, OthersStay, chatRows, History
  <2>2. Live /\ Behind(2)
    BY <2>1 DEF Calm, CalmTurns
  <2>3. /\ \A u \in Turns : u # t => turn'[u] = turn[u]
        /\ turn'[t].count = History
        /\ turn'[t].step = IF IsRefreshPoint(History) THEN "retitle" ELSE "done"
    BY <1>1, <1>8 DEF CountMessages, ChatTyped, TurnStates
  <2>4. Behind(2)' /\ Live'
    BY <2>1, <2>2 DEF Behind, TitleFits, Live
  <2>5. ~IsRefreshPoint(History) => Behind(0)'
    <3> SUFFICES ASSUME ~IsRefreshPoint(History) PROVE Behind(0)'
      OBVIOUS
    <3>1. PICK n \in Nat : Len(messages) = 2 * n + 2 /\ TitleFits(2 * n)
      BY <2>2 DEF Behind
    <3>2. Len(messages) = 2 * (n + 1) /\ n + 1 \in Nat /\ n + 1 >= 1 /\ (n + 1) - 1 = n
      BY <3>1
    <3>3. n + 1 >= 2 /\ TitleAt(Cut(2 * (n + 1))) = TitleAt(Cut(2 * n))
      BY <3>2, TitleMoves DEF History
    <3>4. conv.title = TitleAt(Cut(2 * (n + 1)))
      BY <3>1, <3>3 DEF TitleFits
    <3>5. Len(messages') = 2 * (n + 1) + 0
      BY <2>1, <3>2
    <3>6. TitleFits(2 * (n + 1))'
      BY <2>1, <3>4 DEF TitleFits
    <3>. QED
      BY <3>2, <3>5, <3>6 DEF Behind
  <2>. QED
    BY <1>1, <2>1, <2>2, <2>3, <2>4, <2>5, CalmMoves DEF Live, Calm
<1>9. CASE Retitle(t)
  <2>1. /\ At(t, "retitle") /\ Live /\ Behind(2)
        /\ turn[t].count = History /\ IsRefreshPoint(History)
    BY <1>9 DEF Retitle, Calm, CalmTurns
  <2>2. /\ conv' = [conv EXCEPT !.title = [by |-> "model", of |-> History]]
        /\ Goto(t, "done") /\ UNCHANGED <<messages, deletion, callsLeft>>
    BY <1>2, <1>9, <2>1 DEF Retitle, OthersStay
  <2>3. conv'.state = "live" /\ conv'.title = [by |-> "model", of |-> History]
    BY <1>1, <2>1, <2>2 DEF ChatTyped, RowsTyped, Live
  <2>4. /\ \A u \in Turns : u # t => turn'[u] = turn[u]
        /\ turn'[t].step = "done"
    BY <1>1, <2>2, Goes DEF ChatTyped, Steps, Over
  <2>5. Behind(0)'
    <3>1. PICK n \in Nat : Len(messages) = 2 * n + 2
      BY <2>1 DEF Behind
    <3>2. Len(messages) = 2 * (n + 1) /\ n + 1 \in Nat /\ n + 1 >= 1
      BY <3>1
    <3>3. TitleAt(Cut(2 * (n + 1))) = [by |-> "model", of |-> History]
      BY <2>1, <3>2, TitleMoves DEF History
    <3>4. Len(messages') = 2 * (n + 1) + 0
      BY <2>2, <3>2
    <3>5. TitleFits(2 * (n + 1))'
      BY <2>3, <3>3 DEF TitleFits
    <3>. QED
      BY <3>2, <3>4, <3>5 DEF Behind
  <2>. QED
    BY <1>1, <2>1, <2>2, <2>3, <2>4, <2>5, CalmMoves DEF Live
<1>10. ~Leave(t) /\ ~Unanswered(t)
  BY <1>2 DEF Leave, Unanswered
<1>. QED
  BY <1>3, <1>4, <1>5, <1>5a, <1>6, <1>7, <1>8, <1>9, <1>10 DEF Turn

LEMMA CalmHolds == ChatSpec => []CalmInv
<1>1. ChatInit => CalmInv
  <2> SUFFICES ASSUME ChatInit, setting.calm PROVE Calm
    BY DEF CalmInv
  <2>1. setting.before \in Nat /\ setting.reviews = 0
    BY SettingsAssumption DEF ChatInit
  <2>2. \A t \in Turns : turn[t].step = "idle"
    BY DEF ChatInit, NewTurn
  <2>. DEFINE n == setting.before
  <2>3. Len(messages) = 2 * n
    <3>1. 2 * n \in Nat
      BY <2>1
    <3>. QED
      BY <3>1, ChatStarts DEF ChatInit, ChatInv, ChatTyped, RowsTyped
  <2>4. TitleFits(2 * n)
    BY <2>1 DEF ChatInit, TitleFits
  <2>5. Behind(0)
    <3>1. n \in Nat /\ Len(messages) = 2 * n + 0
      BY <2>1, <2>3
    <3>. QED
      BY <2>4, <3>1 DEF Behind
  <2>6. conv.state = "none" => messages = << >>
    BY <2>1 DEF ChatInit
  <2>. QED
    BY <2>1, <2>2, <2>5, <2>6 DEF Calm, InTurn, CalmTurns, At, Asked, Answered, ChatInit,
       NoDeletion
<1>2. ChatInv /\ ChatInv' /\ CalmInv /\ [ChatNext]_chatVars => CalmInv'
  <2> SUFFICES ASSUME ChatInv, ChatInv', CalmInv, [ChatNext]_chatVars, setting'.calm PROVE Calm'
    BY DEF CalmInv
  <2>1. CASE UNCHANGED chatVars
    BY <2>1 DEF chatVars, CalmInv, Calm, InTurn, CalmTurns, NoTurn, At, Live, Behind, TitleFits,
       History
  <2>2. CASE ChatNext
    <3>1. setting' = setting
      <4>1. Deletion => setting' = setting
        BY DEF Deletion, BeginDeletion, DetachMemories, DeleteTools, DeleteMessages, DeleteRow,
           TurnsStay
      <4>2. Reviewer => setting' = setting
        BY DEF Reviewer, Review, Forget, Write, Rename, Call
      <4>3. \A t \in Turns : Turn(t) => setting' = setting
        <5>1. \A t \in Turns : Turn(t) => OthersStay
          BY DEF Turn, BeginTurn, CreateConversation, StoreQuestion, Retrieve, Replies, Asks,
             Exhausted, Unanswered, Leave, RunTool, Remember, Record, StoreAnswer, LinkTools,
             LinkMemories, TouchConversation, CountMessages, Retitle
        <5>. QED
          BY <5>1 DEF OthersStay
      <4>. QED
        BY <2>2, <4>1, <4>2, <4>3 DEF ChatNext
    <3>2. Calm /\ setting.calm
      BY <3>1 DEF CalmInv
    <3>3. ~Deletion
      <4>1. ~setting.deletes
        BY <3>2, SettingsAssumption DEF ChatInv, ChatTyped
      <4>. QED
        BY <3>2, <4>1 DEF Calm, Deletion, BeginDeletion, DetachMemories, DeleteTools,
           DeleteMessages, DeleteRow
    <3>4. ~Reviewer
      BY <3>2 DEF Calm, Reviewer, Review, Forget, Write, Rename, Call
    <3>. QED
      BY <2>2, <3>2, <3>3, <3>4, CalmTurnStep DEF ChatNext
  <2>. QED
    BY <2>1, <2>2
<1>. QED
  BY <1>1, <1>2, ChatInvHolds, PTL DEF ChatSpec

\* When nobody interferes and nothing fails, the title of a conversation at rest is of
\* the last refresh point, as long as the cut of the history has not been reached.
THEOREM TitleKeepsUp == ChatSpec => []TitleCurrent
<1>1. ChatInv /\ CalmInv => TitleCurrent
  <2> SUFFICES ASSUME ChatInv, Calm, messages # << >>, Len(messages) <= MaxHistoryMessages,
                      \A t \in Turns : IsOver(t) \/ At(t, "idle")
               PROVE  conv.title = TitleAt(Len(messages))
    BY DEF TitleCurrent, Rest, CalmInv
  <2>1. Behind(0)
    BY DEF Calm, CalmTurns, NoTurn, IsOver, Over, At
  <2>2. PICK n \in Nat : Len(messages) = 2 * n + 0 /\ TitleFits(2 * n)
    BY <2>1 DEF Behind
  <2>3. Len(messages) = 2 * n /\ 2 * n > 0
    BY <2>2 DEF ChatInv, ChatTyped, RowsTyped
  <2>4. Cut(2 * n) = 2 * n
    BY <2>3 DEF Cut, MaxHistoryMessages
  <2>. QED
    BY <2>2, <2>3, <2>4 DEF TitleFits
<1>. QED
  BY <1>1, ChatInvHolds, CalmHolds, PTL
=============================================================================
