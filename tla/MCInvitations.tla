------------------------------ MODULE MCInvitations ------------------------------
(***************************************************************************)
(* One run for what people ask one another and say of one another: the     *)
(* emails with the links of a referral, referrals, reviews of a company,   *)
(* alerts of a saved search, notes on a candidate and pools.  Each         *)
(* behaviour is about one subject, chosen at the start; the variables of   *)
(* the others rest.                                                        *)
(***************************************************************************)
EXTENDS MCEmailOutbox, TLC

CONSTANTS
    \* those of CompanyReviews
    ReviewRows, ReviewAuthor, ReviewKind, Readers, Moderators, LastRevision, PendingLimit,
    \* those of Referrals
    ReferralRows, ReferrerOf, Referrers, CandidateReferrers, DailyCap, LastToken,
    \* those of SavedSearches
    SearchRows, SearchCapacity, PassLimit, AlertPeriod, LastTick,
    \* those of Sourcing
    Members, NoteRows, NoteAuthor, Texts, PoolRows, SmartLimit, TrailLimit, EventLimit,
    Resting, \* rows that rest in the behaviours about others
    None

VARIABLES
    subject, \* what the behaviour is about
    review, ready, met, erased, answered, votes, reports, pending, vetted,
    offered, looking, today, posting, application, attributed,
    now, search, valid, allowed, profile, pass, evaluation, emails, told, unasked,
    active, wide, candidate, note, read, pool, own, changing

Reviews == INSTANCE CompanyReviews WITH
    Reviews <- ReviewRows, AuthorOf <- ReviewAuthor, KindOf <- ReviewKind,
    MaxRevision <- LastRevision, MaxPending <- PendingLimit

ByCandidate(r) == r \in CandidateReferrers
Referrals == INSTANCE Referrals WITH
    invite <- offered, history <- attributed, Candidate <- ByCandidate,
    Invitations <- ReferralRows, Daily <- DailyCap, MaxToken <- LastToken

Searches == INSTANCE SavedSearches WITH
    cur <- evaluation, excused <- unasked,
    Searches <- SearchRows, Capacity <- SearchCapacity, Limit <- PassLimit,
    Period <- AlertPeriod, MaxTime <- LastTick

Shared == INSTANCE Sourcing WITH
    Requests <- NoteRows, AuthorOf <- NoteAuthor, Pools <- PoolRows,
    MaxTrail <- TrailLimit, MaxEvents <- EventLimit

ASSUME ReviewsAssumption ==
    ReviewKind \in [ReviewRows -> {"employee", "interview"}]

ASSUME ReferralsAssumption ==
    /\ IsFiniteSet(ReferralRows) /\ None \notin ReferralRows
    /\ DailyCap \in Nat

ASSUME SearchesAssumption ==
    /\ IsFiniteSet(SearchRows) /\ SearchRows \subseteq Nat
    /\ PassLimit \in Nat /\ AlertPeriod \in Nat \ {0}
    /\ None \notin Nat

\* "own" stands for the list of one's own, None for nothing.
ASSUME SourcingAssumption ==
    /\ IsFiniteSet(PoolRows) /\ "own" \notin PoolRows
    /\ SmartLimit \in Nat
    /\ None \notin Members \cup Texts \cup {"kept", "untagged", "tagged"}
    /\ None \notin [pool : PoolRows \cup {"own"}, tags : {None, "kept", "untagged", "tagged"}]

\* One author writes two reviews as an employee and one of an interview.
MCReviewAuthor == [r \in ReviewRows |-> "author"]
MCReviewKind == [r \in ReviewRows |-> IF r = "i1" THEN "interview" ELSE "employee"]

\* A recruiter refers once, a candidate twice.
MCReferrerOf == [i \in ReferralRows |-> IF i = "i1" THEN "recruiter" ELSE "friend"]

MCNoteAuthor == <<ann, bob>>

Symmetry == Permutations(Workers)

reviewVars == <<review, ready, met, erased, answered, votes, reports, pending, vetted>>
referralVars == <<offered, looking, today, posting, application, attributed>>
searchVars == <<now, search, valid, allowed, profile, pass, evaluation, emails, told, unasked>>
sourcingVars == <<active, wide, candidate, note, read, pool, own, changing>>

MCInit ==
    /\ subject \in {"links", "reviews", "readers", "sources", "rewards", "searches", "notes", "pools"}
    /\ Init /\ Reviews!Init /\ Referrals!Init /\ Searches!Init /\ Shared!Init
    /\ subject \notin {"reviews", "readers"} => ready
    /\ subject # "rewards" => ~posting.rewards
    /\ subject # "searches" => valid = SearchRows

\* Two links with two attempts between them: one for each, or a second attempt at one of
\* them, after a failure or after its lease has run out on a worker.
LinksRun ==
    /\ subject = "links" /\ InvitationsNext
    /\ \A m, n \in Messages : m # n => attempts'[m] + attempts'[n] <= 2
    /\ UNCHANGED <<reviewVars, referralVars, searchVars, sourcingVars>>

\* Two reviews of a kind; and one with its answers, votes and reports.
ReviewsRun ==
    /\ \/ /\ subject = "reviews" /\ Reviews!Next
          /\ \A r \in ReviewRows : ReviewKind[r] = "interview" => review'[r] = review[r]
          /\ answered' = answered /\ votes' = votes /\ reports' = reports
          /\ \A p \in pending' : p.kind = "review"
       \/ /\ subject = "readers" /\ Reviews!Next
          /\ \A r \in ReviewRows : ReviewKind[r] = "employee" => review'[r] = review[r]
    /\ UNCHANGED <<vars, referralVars, searchVars, sourcingVars>>

\* A recruiter's link and a candidate's; and two of a candidate with their rewards.
ReferralsRun ==
    /\ \/ /\ subject = "sources" /\ Referrals!Next
          /\ posting'.rewards = posting.rewards
          /\ \A i \in ReferralRows :
                IF i \in Resting THEN offered'[i] = offered[i]
                ELSE offered'[i].reward = offered[i].reward
       \/ /\ subject = "rewards" /\ Referrals!Next
          /\ looking' = looking
          /\ \A i \in ReferralRows : ~ByCandidate(ReferrerOf[i]) => offered'[i] = offered[i]
    /\ UNCHANGED <<vars, reviewVars, searchVars, sourcingVars>>

\* A candidate who hides while the plan of the company is reduced changes nothing more.
SearchesRun ==
    /\ subject = "searches" /\ Searches!Next
    /\ profile'.visible \/ allowed' = SearchRows
    /\ UNCHANGED <<vars, reviewVars, referralVars, sourcingVars>>

\* The notes of two authors, while Ann's scope is narrowed; and two pools, of which Ann
\* changes one until she is deactivated, and they are handed over.
SourcingRun ==
    /\ \/ /\ subject = "notes" /\ Shared!Next
          /\ active' = active /\ candidate' = candidate /\ bob \in wide'
          /\ pool' = pool /\ own' = own /\ changing' = changing
       \/ /\ subject = "pools" /\ Shared!Next
          /\ wide' = wide /\ note' = note /\ read' = read
          /\ changing'[bob] = None
          /\ IF changing'[ann] = None THEN TRUE ELSE changing'[ann].pool \notin Resting
    /\ UNCHANGED <<vars, reviewVars, referralVars, searchVars>>

MCNext == (LinksRun \/ ReviewsRun \/ ReferralsRun \/ SearchesRun \/ SourcingRun) /\ UNCHANGED subject

MCSpec == MCInit /\ [][MCNext]_<<subject, vars, reviewVars, referralVars, searchVars, sourcingVars>>

-----------------------------------------------------------------------------
\* Everyone reads only what a moderator has read and someone has vouched for.
ReviewsAreVetted ==
    [][(subject \in {"reviews", "readers"} => Reviews!AllVetted)]_reviewVars

\* An application keeps its source, and only its referrer is rewarded for a hire.
ReferralsAreEarned ==
    [][(subject \in {"sources", "rewards"} => Referrals!AllEarned)]_referralVars

\* No update of a profile falls between two alerts of a search.
NothingMissed == subject = "searches" => Searches!NothingMissed

\* What has been read about a candidate can be found again; a pool is changed by its owner.
SourcingIsAccountable ==
    [][(subject \in {"notes", "pools"} => Shared!AllAccountable)]_sourcingVars

=============================================================================
