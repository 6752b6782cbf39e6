-------------------------------- MODULE Referrals --------------------------------
(***************************************************************************)
(* Invitations of one person to one vacancy (recruiter/                    *)
(* referral_invitations.go, candidate_referrals.go): recruiters and other  *)
(* candidates refer, the person opens a link and decides, the company      *)
(* records rewards.  The commands lock the company, the referrer or the    *)
(* person's profile, and the invitation: each is one step, except that     *)
(* looking a link up marks the invitation in a statement of its own.       *)
(*                                                                         *)
(* The delivery of the links by email is in EmailOutbox.                   *)
(***************************************************************************)
EXTENDS FiniteSets, Integers

CONSTANTS
    Referrers, Candidate(_), \* who refers, and which of them are candidates
    Invitations, ReferrerOf, \* the rows, and who creates each
    Daily,                   \* invitations of a candidate in a day (10 in the code)
    MaxToken,                \* bound: tokens of an invitation
    None

VARIABLES
    invite,      \* [Invitations -> row of referral_invitations]
    looking,     \* links whose lookup has not marked the invitation yet
    today,       \* invitations created in the last 24 hours
    posting,     \* the vacancy: [open, rewards]
    application, \* the person's application: [stage, referral]
    history      \* application_referral_history: invitations with consent

vars == <<invite, looking, today, posting, application, history>>

Rewards == {"not_eligible", "pending", "approved", "paid", "cancelled"}

Absent == [token |-> 0, expired |-> FALSE, marks |-> {}, reward |-> "not_eligible"]

Exists(i) == invite[i].token > 0
Has(i, mark) == mark \in invite[i].marks
Ended(i) == Has(i, "cancelled") \/ Has(i, "declined")

Init ==
    /\ invite = [i \in Invitations |-> Absent]
    /\ looking = {} /\ today = {} /\ history = {}
    /\ posting \in [open : {TRUE}, rewards : BOOLEAN]
    /\ application = [stage |-> "none", referral |-> None]

Mark(i, marks) == invite' = [invite EXCEPT ![i].marks = @ \cup marks]

-----------------------------------------------------------------------------
\* The index over the open invitations of a referrer; a candidate gets the earlier one back.
Alone(i) ==
    \A k \in Invitations \ {i} : ReferrerOf[k] = ReferrerOf[i] /\ Exists(k) => Ended(k)

\* The cap is for candidates; the lock on the referrer makes counting and creating one step.
UnderCap(i) ==
    Candidate(ReferrerOf[i]) =>
        Cardinality({k \in today : ReferrerOf[k] = ReferrerOf[i]}) < Daily

\* A posting that is open for referrals, and to candidates in public.
MayRecommend(i) == ~Exists(i) /\ posting.open

CreateReferralInvitation(i) ==
    /\ MayRecommend(i)
    /\ Alone(i) /\ UnderCap(i)
    /\ invite' = [invite EXCEPT ![i].token = 1]
    /\ today' = today \cup {i}
    /\ UNCHANGED <<looking, posting, application, history>>

DayPasses(i) ==
    /\ today' = today \ {i} /\ today' # today
    /\ UNCHANGED <<invite, looking, posting, application, history>>

Expires(i) ==
    /\ Exists(i) /\ ~invite[i].expired
    /\ invite' = [invite EXCEPT ![i].expired = TRUE]
    /\ UNCHANGED <<looking, today, posting, application, history>>

\* ReferralLink(resend): recruiters replace the token of an invitation that is undecided.
ReferralLink(i) ==
    /\ Exists(i) /\ ~Candidate(ReferrerOf[i]) /\ ~Ended(i) /\ ~Has(i, "applied")
    /\ invite[i].token < MaxToken
    /\ invite' = [invite EXCEPT ![i].token = @ + 1, ![i].expired = FALSE]
    /\ UNCHANGED <<looking, today, posting, application, history>>

\* Mutant: a referral may be taken back after the application.
CancellableAlways(i) == ~Has(i, "cancelled")

Cancellable(i) == ~Has(i, "applied") /\ ~Has(i, "cancelled")

CancelReferralInvitation(i) ==
    /\ Exists(i) /\ ~Candidate(ReferrerOf[i]) /\ Cancellable(i)
    /\ Mark(i, {"cancelled"})
    /\ UNCHANGED <<looking, today, posting, application, history>>

-----------------------------------------------------------------------------
\* Mutant: an earlier token still opens the invitation.
GoodAnyToken(i, token) == Exists(i) /\ ~invite[i].expired

\* A link is good while its token is the latest and nobody has ended the invitation.
Good(i, token) ==
    Exists(i) /\ token = invite[i].token /\ ~invite[i].expired /\ ~Ended(i)

InvitationLookup(i, token) ==
    /\ Good(i, token)
    /\ looking' = looking \cup {i}
    /\ UNCHANGED <<invite, today, posting, application, history>>

LookupMarks(i) ==
    /\ i \in looking /\ looking' = looking \ {i}
    /\ Mark(i, {"opened"})
    /\ UNCHANGED <<today, posting, application, history>>

\* The status CandidateReferral decides by, once the account is linked.
Status(i) ==
    IF Has(i, "applied") THEN "application_submitted"
    ELSE IF application.stage # "none" THEN "already_applied"
    ELSE IF Has(i, "accepted") THEN "accepted" ELSE "account_linked"

Seen == {"opened"}

View(i) == Mark(i, Seen) /\ UNCHANGED <<application, history>>

Decline(i) ==
    /\ ~Has(i, "applied")
    /\ Mark(i, Seen \cup {"declined"})
    /\ UNCHANGED <<application, history>>

Accept(i) ==
    /\ Mark(i, IF Status(i) \in {"application_submitted", "already_applied"}
                 THEN Seen ELSE Seen \cup {"accepted"})
    /\ UNCHANGED <<application, history>>

\* An application that was there before keeps its source; the recommendation is history.
Acknowledge(i) ==
    /\ Status(i) = "already_applied"
    /\ Mark(i, Seen \cup {"applied"})
    /\ history' = history \cup {i}
    /\ UNCHANGED application

Apply(i) ==
    \/ /\ Status(i) = "application_submitted" /\ View(i)
    \/ /\ Status(i) = "accepted" /\ posting.open
       /\ application' = [stage |-> "new_application", referral |-> i]
       /\ Mark(i, Seen \cup {"applied"})
       /\ history' = history \cup {i}

\* CandidateReferral, by the account with the invited address, which consents.
CandidateReferral(i, token) ==
    /\ Good(i, token)
    /\ \/ View(i) \/ Decline(i) \/ Accept(i) \/ Acknowledge(i) \/ Apply(i)
    /\ UNCHANGED <<looking, today, posting>>

-----------------------------------------------------------------------------
\* The person applies without a link, withdraws, and the company decides.
ApplyDirectly ==
    /\ application.stage = "none" /\ posting.open
    /\ application' = [application EXCEPT !.stage = "new_application"]
    /\ UNCHANGED <<invite, looking, today, posting, history>>

UpdateStage(stage) ==
    /\ application.stage # "none"
    /\ application' = [application EXCEPT !.stage = stage]
    /\ UNCHANGED <<invite, looking, today, posting, history>>

EditPosting ==
    /\ posting' \in [open : BOOLEAN, rewards : BOOLEAN]
    /\ UNCHANGED <<invite, looking, today, application, history>>

\* Mutant: whoever recommended is rewarded.
EligibleByHistory(i) ==
    Candidate(ReferrerOf[i]) => posting.rewards \/ invite[i].reward # "not_eligible"

\* Candidates are rewarded for the application that came from their own link.
Eligible(i) ==
    Candidate(ReferrerOf[i]) =>
        /\ posting.rewards \/ invite[i].reward \in {"pending", "approved", "paid"}
        /\ application.referral = i

Rewardable(i, reward) ==
    /\ reward \in {"pending", "approved", "paid"} =>
          Has(i, "applied") /\ application.stage = "hired" /\ Eligible(i)
    /\ reward = "paid" => invite[i].reward = "approved"

ReviewReferralReward(i, reward) ==
    /\ Exists(i) /\ Rewardable(i, reward)
    /\ invite' = [invite EXCEPT ![i].reward = reward]
    /\ UNCHANGED <<looking, today, posting, application, history>>

-----------------------------------------------------------------------------
Next ==
    \/ \E i \in Invitations :
          \/ CreateReferralInvitation(i) \/ DayPasses(i) \/ Expires(i)
          \/ ReferralLink(i) \/ CancelReferralInvitation(i) \/ LookupMarks(i)
          \/ \E token \in 1 .. MaxToken : InvitationLookup(i, token) \/ CandidateReferral(i, token)
          \/ \E reward \in Rewards : ReviewReferralReward(i, reward)
    \/ ApplyDirectly \/ EditPosting
    \/ \E stage \in {"new_application", "hired", "rejected", "withdrawn"} : UpdateStage(stage)

Spec == Init /\ [][Next]_vars

-----------------------------------------------------------------------------
\* The company sees who the person is (recruiterInvitation, ReferralInvitations).
CanViewCandidate(i) == Has(i, "applied")

\* What the two parties are told of an invitation (candidateReferralProjection).
Progress(i) ==
    IF Has(i, "applied")
      THEN CASE application.stage = "hired" -> "successful"
             [] application.stage \in {"rejected", "withdrawn"} -> "not_proceeding"
             [] OTHER -> "applied"
    ELSE IF Ended(i) THEN "not_proceeding"
    ELSE IF invite[i].expired THEN "expired"
    ELSE IF Has(i, "accepted") THEN "joined"
    ELSE IF Has(i, "opened") THEN "viewed" ELSE "invited"

\* The application's source never changes (000058: "The canonical application source
\* remains immutable"), is an invitation that was accepted, and its owner is the only
\* candidate who is rewarded.
OneSource ==
    /\ application.stage # "none" => application'.referral = application.referral
    /\ LET i == application'.referral IN
          i # None => {"accepted", "applied"} \subseteq invite'[i].marks
    /\ \A i \in Invitations :
          Candidate(ReferrerOf[i]) /\ invite'[i].reward \in {"pending", "approved", "paid"}
            => application'.referral = i

\* Attribution is the person's: it is kept once given, never of an invitation that has
\* ended or is replaced, and progress is told to the referrer only with it.
Consented ==
    \A i \in Invitations :
        /\ CanViewCandidate(i)' <=> i \in history'
        /\ i \in history => i \in history' /\ invite'[i].token = invite[i].token
        /\ i \in history' => ~Ended(i)'
        /\ Progress(i)' \in {"successful", "applied"} => i \in history'

\* A reward is paid only for a hire, and only after it has been approved.
PaidForHires ==
    \A i \in Invitations :
        invite'[i].reward = "paid" /\ invite[i].reward # "paid" =>
            application.stage = "hired" /\ i \in history /\ invite[i].reward = "approved"

\* A candidate creates no more invitations in a day than the cap.
WithinCap ==
    \A r \in Referrers : Candidate(r) => Cardinality({i \in today' : ReferrerOf[i] = r}) <= Daily

AllEarned == OneSource /\ Consented /\ PaidForHires /\ WithinCap
ReferralsAreEarned == [][AllEarned]_vars

=============================================================================
