---------------------------- MODULE CompanyReviews ----------------------------
(***************************************************************************)
(* Reviews of one company (company/reviews.go): candidates write, edit and *)
(* delete them, moderators publish or reject the revision they have read,  *)
(* the company answers, readers find them helpful or report them.          *)
(*                                                                         *)
(* A moderator's request may be about any revision there has been.  The    *)
(* checks of a review, an answer and a report are statements of their own, *)
(* which lock nothing: `pending' holds the requests between them and the   *)
(* write.                                                                  *)
(***************************************************************************)
EXTENDS FiniteSets, Integers

CONSTANTS
    Reviews, AuthorOf,      \* the rows, and who wrote each
    KindOf,                 \* [Reviews -> {"employee", "interview"}]
    Readers, Moderators,    \* accounts
    MaxRevision,            \* bound: revisions of a review
    MaxPending              \* bound: requests at a time

VARIABLES
    review,    \* [Reviews -> row of company_reviews]
    ready,     \* the company is verified
    met,       \* authors with a completed interview at the company
    erased,    \* authors whose account has been erased
    answered,  \* reviews with a row of company_review_responses
    votes,     \* company_review_votes
    reports,   \* pending rows of company_review_reports
    pending,   \* reviews, answers and reports whose check has passed
    vetted     \* observed: [Reviews -> last revision that was published and vouched for]

vars == <<review, ready, met, erased, answered, votes, reports, pending, vetted>>

Absent == [status |-> "none", rev |-> 0, verified |-> FALSE, basis |-> "none", text |-> "none"]

Inputs == [relationship : {"current", "interview"}, text : {"short", "clean", "private"}]

Live(r) == review[r].status \notin {"none", "deleted"}

Init ==
    /\ review = [r \in Reviews |-> Absent]
    /\ ready \in BOOLEAN /\ met = {} /\ erased = {}
    /\ answered = {} /\ votes = {} /\ reports = {} /\ pending = {}
    /\ vetted = [r \in Reviews |-> 0]

-----------------------------------------------------------------------------
\* What surrounds the reviews: the company's verification, interviews that end.
Surroundings ==
    /\ \/ ready' = ~ready /\ UNCHANGED met
       \/ \E r \in Reviews : met' = met \cup {AuthorOf[r]} /\ UNCHANGED ready
    /\ UNCHANGED <<review, erased, answered, votes, reports, pending, vetted>>

\* Texts long enough, and a relationship that fits the kind.
ValidateReview(kind, in) ==
    /\ in.text # "short"
    /\ (kind = "interview") <=> (in.relationship = "interview")

\* The index over live reviews of an author and kind.
Free(r) ==
    \A q \in Reviews \ {r} :
        Live(q) => AuthorOf[q] # AuthorOf[r] \/ KindOf[q] # KindOf[r]

\* Mutant: an edit of a public review is public at once.
WrittenInPublic(r, in) ==
    [status |-> IF review[r].status = "published" THEN "published" ELSE "pending",
     rev |-> review[r].rev + 1, verified |-> review[r].verified,
     basis |-> "manual_review_required", text |-> in.text]

\* An interview vouches for its review; any other waits for a moderator.
Written(r, in) ==
    [status |-> "pending", rev |-> review[r].rev + 1, verified |-> KindOf[r] = "interview",
     basis |-> IF KindOf[r] = "interview" THEN "completed_interview" ELSE "manual_review_required",
     text |-> in.text]

Ask(p) ==
    /\ Cardinality(pending) < MaxPending
    /\ pending' = pending \cup {p}
    /\ UNCHANGED <<review, ready, met, erased, answered, votes, reports, vetted>>

\* The account, the company and the interview are read before the row is written.
CheckAuthor(r, in) ==
    /\ ValidateReview(KindOf[r], in)
    /\ ready /\ AuthorOf[r] \notin erased
    /\ KindOf[r] = "interview" => AuthorOf[r] \in met
    /\ Ask([kind |-> "review", review |-> r, in |-> in])

Refused(p) ==
    /\ pending' = pending \ {p}
    /\ UNCHANGED <<review, ready, met, erased, answered, votes, reports, vetted>>

SaveReview(p) ==
    LET r == p.review IN
    /\ p.kind = "review"
    /\ review[r].rev < MaxRevision
    /\ IF (review[r].status = "none" /\ Free(r)) \/ Live(r)
         THEN /\ review' = [review EXCEPT ![r] = Written(r, p.in)]
              /\ pending' = pending \ {p}
              /\ UNCHANGED <<ready, met, erased, answered, votes, reports, vetted>>
         ELSE Refused(p)

\* The row stays, without its words and without its basis.
Blanked(r) ==
    [review[r] EXCEPT !.status = "deleted", !.rev = @ + 1, !.basis = "none", !.text = "none"]

DeleteReview(r) ==
    /\ Live(r)
    /\ review' = [review EXCEPT ![r] = Blanked(r)]
    /\ UNCHANGED <<ready, met, erased, answered, votes, reports, pending, vetted>>

\* FulfilErasure blanks all of an author's reviews, the deleted ones once more.
EraseAuthor(a) ==
    /\ a \notin erased
    /\ erased' = erased \cup {a}
    /\ review' = [r \in Reviews |->
                    IF AuthorOf[r] = a /\ review[r].status # "none" THEN Blanked(r) ELSE review[r]]
    /\ votes' = {v \in votes : v[2] # a}
    /\ UNCHANGED <<ready, met, answered, reports, pending, vetted>>

-----------------------------------------------------------------------------
\* Mutant: a decision is about whatever the review says now.
ModerableAsItIs(m, r, rev) == Live(r) /\ m # AuthorOf[r]

\* The row is locked, and is still what the moderator has read.
Moderable(m, r, rev) ==
    Live(r) /\ review[r].rev = rev /\ m # AuthorOf[r]

\* Mutant: nobody has to vouch.
PublishableUnvouched(r, vouch) == review[r].text # "private"

\* Nothing private is published, and nothing nobody vouches for.
Publishable(r, vouch) ==
    review[r].text # "private" /\ (review[r].verified \/ vouch)

ModerateReview(m, r, rev, publish, vouch) ==
    /\ rev \in 1 .. review[r].rev
    /\ Moderable(m, r, rev)
    /\ IF publish
         THEN /\ Publishable(r, vouch)
              /\ review' = [review EXCEPT ![r].status = "published", ![r].verified = TRUE,
                    ![r].basis = IF @ = "manual_review_required"
                                   THEN "platform_relationship_review" ELSE @]
              /\ vetted' = IF vouch \/ KindOf[r] = "interview"
                             THEN [vetted EXCEPT ![r] = rev] ELSE vetted
         ELSE /\ review' = [review EXCEPT ![r].status = "rejected",
                    ![r].basis = IF review[r].verified /\ @ = "manual_review_required"
                                   THEN "platform_relationship_review" ELSE @]
              /\ UNCHANGED vetted
    /\ reports' = {p \in reports : p.review # r}
    /\ UNCHANGED <<ready, met, erased, answered, votes, pending>>

-----------------------------------------------------------------------------
Published(r) == review[r].status = "published"

\* ReviewResponse: the owner's answer to a published review replaces the one before.
CheckAnswer(r) ==
    /\ Published(r)
    /\ Ask([kind |-> "answer", review |-> r])

ReviewResponse(p) ==
    /\ p.kind = "answer"
    /\ pending' = pending \ {p}
    /\ answered' = answered \cup {p.review}
    /\ UNCHANGED <<review, ready, met, erased, votes, reports, vetted>>

ReviewVote(reader, r) ==
    /\ Published(r) /\ AuthorOf[r] # reader
    /\ votes' = votes \cup {<<r, reader>>}
    /\ UNCHANGED <<review, ready, met, erased, answered, reports, pending, vetted>>

\* ReportReview: a reader of a published review reports it, the author of a rejected one
\* appeals.
MayReport(who, r, kind) ==
    IF kind = "report" THEN Published(r)
    ELSE AuthorOf[r] = who /\ review[r].status = "rejected"

CheckReport(who, r, kind) ==
    /\ MayReport(who, r, kind)
    /\ Ask([kind |-> kind, review |-> r, by |-> who])

\* The index of pending reports makes a second one nothing.
ReportReview(p) ==
    /\ p.kind \in {"report", "appeal"}
    /\ pending' = pending \ {p}
    /\ reports' = reports \cup {[kind |-> p.kind, review |-> p.review, by |-> p.by]}
    /\ UNCHANGED <<review, ready, met, erased, answered, votes, vetted>>

\* ModerationQueue: what a moderator is shown.
ModerationQueue ==
    {r \in Reviews : review[r].status = "pending" \/ \E p \in reports : p.review = r}

\* Entries nobody can take off the queue: the report outlives the review.
Stuck == {r \in ModerationQueue : ~Live(r)}

-----------------------------------------------------------------------------
Next ==
    \/ Surroundings
    \/ \E r \in Reviews :
          \/ \E in \in Inputs : CheckAuthor(r, in)
          \/ DeleteReview(r) \/ EraseAuthor(AuthorOf[r]) \/ CheckAnswer(r)
          \/ \E m \in Moderators, rev \in 1 .. MaxRevision, publish, vouch \in BOOLEAN :
                ModerateReview(m, r, rev, publish, vouch)
          \/ \E who \in Readers : ReviewVote(who, r) \/ CheckReport(who, r, "report")
          \/ CheckReport(AuthorOf[r], r, "appeal")
    \/ \E p \in pending : SaveReview(p) \/ ReviewResponse(p) \/ ReportReview(p)

Spec == Init /\ [][Next]_vars

-----------------------------------------------------------------------------
\* PublicReviews and CategoryRatings: what everyone reads of the company.
PublicReviews == {r \in Reviews : Published(r) /\ review[r].verified}
CategoryRatings == {r \in PublicReviews : KindOf[r] = "employee"}

\* A moderator has read exactly what is public, and someone has vouched for it.
PublicIsVetted ==
    \A r \in PublicReviews : review[r].text = "clean" /\ vetted[r] = review[r].rev

\* An author has one voice in the ratings.
OneVoice == \A r, q \in CategoryRatings : AuthorOf[r] = AuthorOf[q] => r = q

\* Deleted words do not come back, and only a moderator makes something public.
FromTheModerator ==
    /\ \A r \in Reviews : review[r].status = "deleted" =>
          review'[r].status = "deleted" /\ review'[r].text = "none"
    /\ \A r \in PublicReviews' : r \in PublicReviews \/ review'[r].rev = review[r].rev

\* Everyone reads only what a moderator has read and someone has vouched for.
AllVetted == PublicIsVetted' /\ OneVoice' /\ FromTheModerator
ReviewsAreVetted == [][AllVetted]_vars

=============================================================================
