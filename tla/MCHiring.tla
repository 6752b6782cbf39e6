-------------------------------- MODULE MCHiring --------------------------------
(***************************************************************************)
(* One run for the specifications of the hiring process: interviews,       *)
(* vacancies and applications, the documents that the AI reads, and the    *)
(* profile that a CV is reviewed into.  Each behaviour is about one        *)
(* subject, chosen at the start; the variables of the others rest.         *)
(***************************************************************************)
EXTENDS Interviews, TLC

CONSTANTS
    \* those of Vacancies
    Jobs, Posting, Texts, PlanLimits, Sources, Tabs, LastDraft,
    \* those of ParseArtifacts
    Keys, TaskOf, From, Calls, ReviewWindows, LastLife, LastStamp, LastReview,
    c1, c2, w1, w2, Null, Bad, YearOnly

VARIABLES
    subject, \* what the behaviour is about
    job, limit, draft, stage, form, tx,
    row, lives, paid, call, window, saving, stamp,
    month, total, jobs, choices, editor

\* Two companies share a candidate, and one of them has another.
MCApplications == {
    [company |-> "a", candidate |-> "c1"], [company |-> "a", candidate |-> "c2"],
    [company |-> "b", candidate |-> "c1"]}
MCCompanyOf == ("r1" :> "a") @@ ("r2" :> "b")
MCTimes == {[at |-> 1, len |-> 2], [at |-> 2, len |-> 1]}

Vacancies == INSTANCE Vacancies WITH Limits <- PlanLimits, LastRev <- LastDraft

\* A CV, and a description of a vacancy that is generated again.
MCTask == ("cv" :> "cv.parse") @@ ("g0" :> "job.generate_description")
    @@ ("g1" :> "job.generate_description")
MCFrom == ("cv" :> Null) @@ ("g0" :> Null) @@ ("g1" :> "g0")

Artifacts == INSTANCE ParseArtifacts WITH
    Windows <- ReviewWindows, LastRev <- LastReview, None <- Null, profile <- stamp

ASSUME VacanciesAssumption ==
    IsFiniteSet(Jobs) /\ Posting \in Jobs /\ PlanLimits \subseteq Nat

ASSUME ArtifactsAssumption ==
    /\ Null \notin {"requires_review", "validation_error", "provider_error"}
    /\ Null \notin [decided : SUBSET ReviewWindows, stamp : Nat]
    /\ Null \notin
          [k : Keys, life : Nat, outcome : {Null, "requires_review", "validation_error", "provider_error"}]
    /\ Null \notin [k : Keys, life : Nat, rev : Nat, stamp : Nat]
    /\ Null \notin
          [decided : SUBSET ReviewWindows, confirm : BOOLEAN,
           plan : [decided : SUBSET ReviewWindows, stamp : Nat] \cup {Null}]
    /\ Null \notin
          [life : Nat,
           status : {"pending", "requires_review", "owner_reviewed", "validation_error",
                     "provider_error"},
           rev : Nat, decided : SUBSET ReviewWindows,
           plan : [decided : SUBSET ReviewWindows, stamp : Nat] \cup {Null},
           applied : BOOLEAN, expired : BOOLEAN]

\* A past role; the same role again, open, beside an earlier one; a role with a year only.
Finished == (<<0, "total">> :> 3) @@ (<<1, "at">> :> "a")
    @@ (<<1, "from">> :> 0) @@ (<<1, "to">> :> 1) @@ (<<1, "current">> :> FALSE)
Overlapping == (<<1, "at">> :> "a") @@ (<<1, "from">> :> 1) @@ (<<1, "current">> :> TRUE)
    @@ (<<2, "at">> :> "b") @@ (<<2, "from">> :> 0) @@ (<<2, "to">> :> 2) @@ (<<2, "current">> :> FALSE)
Vague == (<<0, "total">> :> Bad) @@ (<<1, "at">> :> "b") @@ (<<1, "from">> :> YearOnly)
    @@ (<<1, "to">> :> 0) @@ (<<1, "current">> :> TRUE)

Employment(e, from, to) == [at |-> e, from |-> from, to |-> to, current |-> to = Null]

Profile == INSTANCE CandidateProfile WITH
    LastMonth <- 3, YearLength <- 2, MaxJobs <- 2, Employers <- {"a", "b"},
    CVs <- {Finished, Overlapping, Vague}, Edits <- [to |-> 2],
    Typed <- {Employment("a", 0, 1), Employment("b", 1, Null), Employment("a", 2, 1)},
    Windows <- {w1}, form <- editor

vacancyVars == <<job, limit, draft, stage, form, tx>>
artifactVars == <<row, lives, paid, call, window, saving, stamp>>
profileVars == <<month, total, jobs, choices, editor>>
documentVars == <<artifactVars, profileVars>>
hiringVars == <<interviewVars, vacancyVars>>
all == <<subject, hiringVars, documentVars>>

MCInit ==
    /\ subject \in {"interviews", "vacancies", "application",
                    "cv", "generation", "profile", "choices"}
    /\ Init /\ Vacancies!Init /\ Artifacts!Init /\ Profile!Init
    /\ subject # "vacancies" => limit = 1
    /\ month = 2
    /\ subject \notin {"profile", "choices"} => jobs = <<>>

InterviewsRun ==
    /\ subject = "interviews" /\ Next
    /\ UNCHANGED <<subject, vacancyVars, documentVars>>

\* Two vacancies and a limit that changes, without applications.
VacanciesRun ==
    /\ subject = "vacancies" /\ Vacancies!Next
    /\ UNCHANGED <<subject, interviewVars, draft, stage, form, tx, documentVars>>

\* One vacancy written by hand, and an application to it in two windows.
ApplicationRuns ==
    /\ subject = "application" /\ Vacancies!Next
    /\ job'[Posting].ai = Vacancies!ByHand /\ \A j \in Jobs \ {Posting} : job'[j] = job[j]
    /\ UNCHANGED <<subject, interviewVars, limit, documentVars>>

\* A CV read twice and reviewed in two windows while its owner edits the profile, or in one
\* window while he edits it twice.
CVRun ==
    /\ subject = "cv" /\ Artifacts!Next
    /\ stamp' < 2 \/ window'[w2] = Null
    /\ \A k \in Keys : TaskOf[k] # "cv.parse" => row'[k] = row[k]
    /\ UNCHANGED <<subject, profileVars, hiringVars>>

\* Two descriptions, the second generated from the first, reviewed once in one window.
GenerationRun ==
    /\ subject = "generation" /\ Artifacts!Next
    /\ \A k \in Keys :
          IF TaskOf[k] = "cv.parse" THEN row'[k] = row[k]
          ELSE IF row'[k] = Null THEN TRUE ELSE row'[k].rev <= 1
    /\ window'[w2] = window[w2]
    /\ UNCHANGED <<subject, stamp, profileVars, hiringVars>>

ProfileRun ==
    /\ subject = "profile" /\ Profile!Next /\ choices' = choices
    /\ UNCHANGED <<subject, artifactVars, hiringVars>>

ChoicesRun ==
    /\ subject = "choices" /\ Profile!Next
    /\ UNCHANGED <<subject, artifactVars, total, jobs, month, hiringVars>>

MCSpec ==
    /\ MCInit
    /\ [][InterviewsRun \/ VacanciesRun \/ ApplicationRuns
          \/ CVRun \/ GenerationRun \/ ProfileRun \/ ChoicesRun]_all

-----------------------------------------------------------------------------
\* Vacancies are published and answered as their checks have seen them.
PublishedAndAnsweredAsChecked ==
    [][(subject \in {"vacancies", "application"} =>
          /\ Vacancies!PublishedWasReviewed' /\ Vacancies!ActiveJobsChecked
          /\ Vacancies!SubmittedToOpenPosting /\ Vacancies!NoAnswerLost)]_vacancyVars

\* One row, one payment; a review is saved and applied as its owner has seen it.
ReviewsAreSound ==
    [][(subject \in {"cv", "generation"} =>
          Artifacts!PaidOnce' /\ Artifacts!DecisionsKept /\ Artifacts!AppliedAsConfirmed)]_artifactVars

\* No editor of a profile undoes what belongs to another.
EditorsAgree ==
    [][(subject \in {"profile", "choices"} =>
          Profile!CVsAppend /\ Profile!ExperienceIsDerived /\ Profile!ChoicesAreOwn)]_profileVars

\* What the AI has read, a generated description and a profile stay what their owner has
\* reviewed and typed.
ReviewsAndEditorsAgree == ReviewsAreSound /\ EditorsAgree

=============================================================================
