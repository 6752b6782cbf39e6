-------------------------------- MODULE Vacancies --------------------------------
(***************************************************************************)
(* The vacancies of one company and an application to one of them          *)
(* (internal/recruiter job_*.go, bulk_jobs.go; internal/candidate          *)
(* application_*.go).  Commands of recruiters lock the company and the job *)
(* and are one step, but they may come from an old screen.  An application *)
(* is a transaction that locks the candidate's profile, takes a share lock *)
(* on the job, and writes later.                                           *)
(*                                                                         *)
(* A text stands for everything a vacancy says, its screening questions    *)
(* and what the content hash covers included: no two texts ask the same    *)
(* questions.  "thin" is a text that is not complete enough to be          *)
(* published.  No statement writes status 'expired'.                       *)
(***************************************************************************)
EXTENDS Integers, FiniteSets

CONSTANTS
    Jobs,     \* bound: vacancies of the company
    Posting,  \* the one the candidate applies to
    Texts,    \* what a vacancy may say, "thin" among it
    Limits,   \* active vacancies the plans of the company allow
    Sources,  \* what commands may say of a generation by the model
    Tabs,     \* the candidate's windows with the application form
    LastRev,  \* bound: times the draft is saved
    None

VARIABLES
    job,    \* [Jobs -> row of jobs]
    limit,  \* the plan's active_jobs
    draft,  \* candidate_application_drafts, then the answers of the application:
            \* [rev, text, has]; an answer is the window it was typed in and the text it was for
    stage,  \* applications.stage, "none" without a row
    form,   \* [Tabs -> what the window shows]
    tx      \* [Tabs -> "none", "draft" or "submit"]: an open transaction

recruiting == <<job, limit>>
applying == <<draft, stage, form, tx>>
vacancyVars == <<recruiting, applying>>

Stages == {"new_application", "screening", "hired", "rejected", "withdrawn"}

\* ai_generation: written by the model, to be reviewed, and the text reviewed.
ByHand == [by |-> FALSE, needs |-> FALSE, hash |-> None]

\* Who can apply while it is active: everybody, nobody, or nobody any more.
Reaches == {"open", "private", "over"}

Row(status, text, reach, ai) == [status |-> status, text |-> text, reach |-> reach, ai |-> ai]
NoRow == Row("none", "thin", "open", ByHand)
NoForm == [rev |-> None, text |-> "thin", has |-> {}, seen |-> {}]

Init ==
    /\ job = [j \in Jobs |-> NoRow]
    /\ limit \in Limits
    /\ draft = [rev |-> 0, text |-> None, has |-> {}]
    /\ stage = "none"
    /\ form = [t \in Tabs |-> NoForm]
    /\ tx = [t \in Tabs |-> "none"]

-----------------------------------------------------------------------------
(* Vacancies                                                               *)

Exists(j) == job[j].status # "none"
ActiveJobs(rows) == Cardinality({j \in Jobs : rows[j].status = "active"})

\* Mutant: nobody waits for an application under way.
UnlockedAlways(j) == TRUE

\* The row is not held FOR SHARE by an application under way.
Unlocked(j) == j = Posting => \A t \in Tabs : tx[t] = "none"

\* publishableDetailedJob
Publishable(text) == text # "thin"

AllowsPublish(ai) == ~ai.by \/ ~ai.needs

\* What a client may send. source: no generation, the one of the vacancy or another
\* one, and, if checked, one whose owner reviewed this very text; or only the owner's
\* word that he reviewed it.
AnySource == {"none", "word", "same", "sameChecked", "new", "newChecked"}
Input == [publish : BOOLEAN, text : Texts, reach : Reaches, source : Sources]

Reviewed(text) == [by |-> TRUE, needs |-> FALSE, hash |-> text]
Unreviewed == [by |-> TRUE, needs |-> TRUE, hash |-> None]

\* VerifyJobGeneration
Verified(in) ==
    IF in.source \in {"sameChecked", "newChecked"} THEN Reviewed(in.text) ELSE Unreviewed

\* generationForSave
GenerationForSave(in, old) ==
    LET edited == IF old.by /\ old.hash # in.text THEN [old EXCEPT !.needs = TRUE] ELSE old
    IN CASE in.source \in {"new", "newChecked"} -> Verified(in)
         [] old.by /\ in.source = "word" -> Reviewed(in.text)
         [] old.by /\ in.source \in {"same", "sameChecked"} /\ edited.needs -> Verified(in)
         [] OTHER -> edited

\* CheckCapacityTx, under the company's lock.
MayGrow == ActiveJobs(job) + 1 <= limit

CreateDetailedJob(j, in) ==
    LET ai == GenerationForSave(in, ByHand)
    IN /\ job[j] = NoRow /\ in.source \notin {"same", "sameChecked"}
       /\ in.publish => Publishable(in.text) /\ in.reach # "over" /\ AllowsPublish(ai) /\ MayGrow
       /\ job' = [job EXCEPT ![j] =
             Row(IF in.publish THEN "active" ELSE "draft", in.text, in.reach, ai)]
       /\ UNCHANGED <<limit, applying>>

\* CreateJobEfficient: a short form that asks for less.
CreateJob(j, publish, reach) ==
    /\ job[j] = NoRow
    /\ publish => MayGrow
    /\ job' = [job EXCEPT ![j] =
          Row(IF publish THEN "active" ELSE "draft", "thin", reach, ByHand)]
    /\ UNCHANGED <<limit, applying>>

\* Mutant: an edit of a published vacancy needs no review.
UpdateUnreviewed(j, in) ==
    LET r == job[j]
        ai == GenerationForSave(in, r.ai)
        publishing == in.publish /\ r.status # "active"
    IN /\ Exists(j) /\ Unlocked(j)
       /\ in.publish => /\ r.status \in {"draft", "active"} /\ AllowsPublish(ai)
                        /\ Publishable(in.text) /\ in.reach # "over"
       /\ publishing => MayGrow
       /\ r.status = "active" /\ ~Publishable(in.text) => ~Publishable(r.text)
       /\ job' = [job EXCEPT ![j] =
             Row(IF in.publish THEN "active" ELSE r.status, in.text, in.reach, ai)]
       /\ UNCHANGED <<limit, applying>>

UpdateDetailedJob(j, in) ==
    LET r == job[j]
        ai == GenerationForSave(in, r.ai)
        publishing == in.publish /\ r.status # "active"
    IN /\ Exists(j) /\ Unlocked(j)
       /\ in.publish \/ r.status = "active" => AllowsPublish(ai)
       /\ in.publish => r.status \in {"draft", "active"} /\ Publishable(in.text) /\ in.reach # "over"
       /\ publishing => MayGrow
       /\ r.status = "active" /\ ~Publishable(in.text) => ~Publishable(r.text)
       /\ job' = [job EXCEPT ![j] =
             Row(IF in.publish THEN "active" ELSE r.status, in.text, in.reach, ai)]
       /\ UNCHANGED <<limit, applying>>

\* jobLifecycleTransitions
Transitions ==
    {<<"draft", "active">>, <<"draft", "archived">>, <<"active", "paused">>, <<"active", "closed">>,
     <<"paused", "active">>, <<"paused", "closed">>, <<"paused", "archived">>,
     <<"closed", "active">>, <<"closed", "archived">>}

\* Mutant: a vacancy that was published before takes its place back.
ReactivatedFreely(r) == AllowsPublish(r.ai) /\ Publishable(r.text) /\ r.reach # "over"

Reactivated(r) == AllowsPublish(r.ai) /\ MayGrow /\ Publishable(r.text) /\ r.reach # "over"

\* transitionJobStatus: one command, whatever status its screen showed.
Transition(j, next) ==
    /\ Unlocked(j)
    /\ <<job[j].status, next>> \in Transitions
    /\ next = "active" => Reactivated(job[j])
    /\ job' = [job EXCEPT ![j].status = next]
    /\ UNCHANGED <<limit, applying>>

\* An item of a bulk action, a transaction of its own: what is in that status already is
\* left alone, what may not go there fails, and the next item is tried.  Another
\* assignee changes nothing here.
BulkJobAction(j, next) == next \in {"paused", "closed", "archived"} /\ Transition(j, next)

\* The copy of a vacancy by the model is to be reviewed again.
DuplicateJob(j, k) ==
    /\ Exists(j) /\ job[k] = NoRow
    /\ j = Posting => Unlocked(j)
    /\ job' = [job EXCEPT ![k] = Row("draft", job[j].text,
          IF job[j].reach = "private" THEN "private" ELSE "open",
          IF job[j].ai.by THEN Unreviewed ELSE ByHand)]
    /\ UNCHANGED <<limit, applying>>

\* SetJobSkills, SetJobEducation: one statement that changes what the vacancy says,
\* whatever its status, and leaves its review as it is.
SetMatchingFields(j, text) ==
    /\ Exists(j) /\ Unlocked(j)
    /\ ~Publishable(text) => ~Publishable(job[j].text)
    /\ job' = [job EXCEPT ![j].text = text]
    /\ UNCHANGED <<limit, applying>>

MakeJobPublic(j) ==
    /\ job[j].status = "active" /\ job[j].reach = "private" /\ Unlocked(j)
    /\ job' = [job EXCEPT ![j].reach = "open"]
    /\ UNCHANGED <<limit, applying>>

\* By an administrator, whatever its status.
TakedownJob(j) ==
    /\ Exists(j) /\ Unlocked(j)
    /\ job' = [job EXCEPT ![j].status = "closed"]
    /\ UNCHANGED <<limit, applying>>

\* Midnight after application_deadline: no statement, so no lock.
DeadlinePasses(j) ==
    /\ Exists(j)
    /\ job' = [job EXCEPT ![j].reach = "over"]
    /\ UNCHANGED <<limit, applying>>

SetSubscription ==
    /\ limit' \in Limits \ {limit}
    /\ UNCHANGED <<job, applying>>

-----------------------------------------------------------------------------
(* The application                                                         *)

OpenForApplications == job[Posting].status = "active" /\ job[Posting].reach = "open"

\* Mutant: the answers are filled in, whatever they answered.
FilledInAlways == draft.has

\* Answers to questions that have changed are shown apart (previous_answers).
FilledIn == IF draft.text = job[Posting].text THEN draft.has ELSE {}

\* ApplicationStates: the window shows questions and draft, and its user types.
OpenForm(t) ==
    /\ tx[t] = "none" /\ stage = "none"
    /\ Exists(Posting) /\ job[Posting].reach # "private"
    /\ LET text == job[Posting].text
       IN form' = [form EXCEPT ![t] =
             [rev |-> draft.rev, text |-> text, has |-> FilledIn \cup {<<t, text>>}, seen |-> draft.has]]
    /\ UNCHANGED <<recruiting, draft, stage, tx>>

\* Mutant: the revision is not compared.
LatestAlways(t) == TRUE

Latest(t) == form[t].rev = draft.rev

\* journeyTx: the profile's lock, the job's share lock, and everything read under them.
BeginJourney(t, kind) ==
    /\ form[t] # NoForm
    /\ \A u \in Tabs : tx[u] = "none"
    /\ OpenForApplications /\ form[t].text = job[Posting].text
    /\ stage = "none" /\ Latest(t)
    /\ kind = "draft" => draft.rev < LastRev
    /\ tx' = [tx EXCEPT ![t] = kind]
    /\ UNCHANGED <<recruiting, draft, stage, form>>

SaveApplicationDraft(t) ==
    /\ tx[t] = "draft"
    /\ draft' = [rev |-> draft.rev + 1, text |-> form[t].text, has |-> form[t].has]
    /\ form' = [form EXCEPT ![t].rev = draft.rev + 1, ![t].seen = form[t].has]
    /\ tx' = [tx EXCEPT ![t] = "none"]
    /\ UNCHANGED <<recruiting, stage>>

\* The row of the draft goes with the submission.
SubmitApplication(t) ==
    /\ tx[t] = "submit"
    /\ stage' = "new_application"
    /\ draft' = [rev |-> 0, text |-> form[t].text, has |-> form[t].has]
    /\ tx' = [tx EXCEPT ![t] = "none"]
    /\ UNCHANGED <<recruiting, form>>

\* The answers are not valid, or the connection is lost.
RollBack(t) ==
    /\ tx[t] # "none"
    /\ tx' = [tx EXCEPT ![t] = "none"]
    /\ UNCHANGED <<recruiting, draft, stage, form>>

UpdateStage(next) ==
    /\ stage # "none" /\ next # stage
    /\ stage' = next
    /\ UNCHANGED <<recruiting, draft, form, tx>>

WithdrawApplication ==
    /\ stage \notin {"none", "hired", "rejected", "withdrawn"}
    /\ stage' = "withdrawn"
    /\ UNCHANGED <<recruiting, draft, form, tx>>

-----------------------------------------------------------------------------
JobCommand(j) ==
    \/ \E in \in Input : CreateDetailedJob(j, in) \/ UpdateDetailedJob(j, in)
    \/ \E publish \in BOOLEAN, reach \in {"open", "over"} : CreateJob(j, publish, reach)
    \/ \E next \in {"active", "paused", "closed", "archived"} : Transition(j, next) \/ BulkJobAction(j, next)
    \/ \E k \in Jobs : DuplicateJob(j, k)
    \/ \E text \in Texts : SetMatchingFields(j, text)
    \/ MakeJobPublic(j) \/ TakedownJob(j) \/ DeadlinePasses(j)

Journey(t) ==
    \/ OpenForm(t) \/ SaveApplicationDraft(t) \/ SubmitApplication(t) \/ RollBack(t)
    \/ \E kind \in {"draft", "submit"} : BeginJourney(t, kind)

Next ==
    \/ \E j \in Jobs : JobCommand(j)
    \/ SetSubscription
    \/ \E t \in Tabs : Journey(t)
    \/ \E next \in Stages : UpdateStage(next)
    \/ WithdrawApplication

Spec == Init /\ [][Next]_vacancyVars

-----------------------------------------------------------------------------
(* Properties                                                              *)

\* Every variable keeps its shape.
TypeOK ==
    /\ \A j \in Jobs : job[j].text \in Texts /\ job[j].ai.hash \in Texts \cup {None}
    /\ draft.rev \in 0..LastRev /\ draft.has \subseteq Tabs \X Texts
    /\ stage \in Stages \cup {"none"}

\* Whatever edits, copies, pauses and takedowns it went through, no vacancy that the
\* model wrote is published before somebody took responsibility for it.
PublishedWasReviewed == \A j \in Jobs : job[j].status = "active" => AllowsPublish(job[j].ai)

\* "Serialized with policy changes" (capacity.go:14): vacancies become active within
\* the limit of the day; a lower limit later takes none away.
ActiveJobsChecked == ActiveJobs(job') > ActiveJobs(job) => ActiveJobs(job') <= limit

\* "The job share lock prevents a close/private transition racing the application
\* commit" (application_journey.go:105), and a change of its questions.
SubmittedToOpenPosting ==
    \A t \in Tabs :
        stage = "none" /\ stage' # "none" /\ tx[t] = "submit" =>
            /\ job[Posting].status = "active" /\ job[Posting].reach # "private"
            /\ form[t].text = job[Posting].text

\* What one window has saved is part of what another saves or submits for the same
\* questions. Answers to questions that have changed are replaced, by a window that has
\* shown them. No answer is saved or submitted for a question it was not given to.
NoAnswerLost ==
    /\ draft'.text = draft.text => draft.has \subseteq draft'.has
    /\ draft' # draft => \A t \in Tabs : tx[t] # "none" => draft.has \subseteq form[t].seen
    /\ \A answer \in draft'.has : answer[2] = draft'.text

\* A vacancy is published and answered only as its checks have seen it.
PublishedAndAnsweredAsChecked ==
    [][PublishedWasReviewed' /\ ActiveJobsChecked /\ SubmittedToOpenPosting /\ NoAnswerLost]_vacancyVars

=============================================================================
