------------------------------ MODULE AccountErasure ------------------------------
(***************************************************************************)
(* The erasure of one candidate's account (internal/privacy): the          *)
(* transaction of EraseAccount among the candidate's own applications and  *)
(* uploads and the recruiters' offers, the erasure requests it leaves, the *)
(* workers that delete the private CV objects and the administrator who    *)
(* moves requests.                                                         *)
(*                                                                         *)
(* PostgreSQL commits a statement or a transaction in one step; a          *)
(* transaction is several steps only where others can act between its      *)
(* locks.  A transaction may fail at any of them and is then rolled back;  *)
(* so ends a cycle of waiting ones.  An account of another role takes the  *)
(* branch of a candidate with offers.  Requests of other types have no     *)
(* jobs.                                                                   *)
(***************************************************************************)
EXTENDS Integers, FiniteSets

CONSTANTS
    Jobs,          \* bound: vacancies, each of another company
    CVs,           \* bound: keys of uploaded CVs
    Requests,      \* bound: erasure requests
    Workers,       \* API processes that run the fulfilment pass
    MaxAttempts,   \* tries of a deletion (5)
    SlowWorkers,   \* a worker may pause for the retry delay between two statements
    None

ASSUME ErasureAssumption ==
    /\ MaxAttempts \in Nat \ {0} /\ SlowWorkers \in BOOLEAN
    /\ None \notin CVs \cup Requests \cup Jobs /\ "none" \notin CVs \cup {None}

Unresolved == {"received", "in_progress", "awaiting_review"}
Closed == {"fulfilled", "rejected", "cancelled"}

VARIABLES
    account,   \* users: "active" or "erased"
    profile,   \* candidate_profiles: [cv, ready], or Gone
    apps,      \* [Jobs -> CV submitted, None, or NoApp]: applications
    offered,   \* SUBSET Jobs: applications with a recruiter_offers row
    reqs,      \* [Requests -> status]: privacy_requests of type erasure
    review,    \* [Requests -> status]: their erasure_review jobs
    job,       \* [CVs -> row]: delete_private_cv_object jobs
    erase,     \* the transaction of EraseAccount
    submit,    \* the transaction of SubmitApplication
    saving,    \* [Jobs -> phase]: a recruiter's transaction that creates an offer
    at,        \* [Workers -> the deletion it is busy with]
    confirmed  \* history: CVs whose deletion the storage confirmed

candidateVars == <<profile, apps, submit>>
requestVars == <<reqs, review, job>>
workerVars == <<at, confirmed>>
vars == <<account, profile, apps, offered, reqs, review, job, erase, submit, saving, at, confirmed>>

Gone == [cv |-> None, ready |-> FALSE, here |-> FALSE]
Profile(cv, ready) == [cv |-> cv, ready |-> ready, here |-> TRUE]
NoApp == "none"
NoJob == [status |-> "none", attempts |-> 0, req |-> None]
NoErase == [phase |-> "idle", apps |-> {}, keys |-> {}]
NoSubmit == [phase |-> "idle", job |-> None, cv |-> None]
Idle == [phase |-> "idle", cv |-> None, last |-> FALSE]

Init ==
    /\ account = "active"
    /\ profile = Profile(None, FALSE)
    /\ apps = [j \in Jobs |-> NoApp]
    /\ offered = {}
    /\ reqs = [r \in Requests |-> "none"]
    /\ review = [r \in Requests |-> "none"]
    /\ job = [k \in CVs |-> NoJob]
    /\ erase = NoErase
    /\ submit = NoSubmit
    /\ saving = [j \in Jobs |-> "idle"]
    /\ at = [w \in Workers |-> Idle]
    /\ confirmed = {}

-----------------------------------------------------------------------------
Applied == {j \in Jobs : apps[j] # NoApp}

ProfileFree == profile.here /\ submit.phase = "idle"

\* Every key is random: a new upload has one that nothing mentions.
Unused(k) ==
    /\ profile.cv # k /\ job[k] = NoJob /\ submit.cv # k /\ k \notin erase.keys
    /\ \A j \in Jobs : apps[j] # k

PrepareCVUpload ==
    /\ account = "active" /\ ProfileFree
    /\ \E k \in {k \in CVs : Unused(k)} : profile' = Profile(k, FALSE)
    /\ UNCHANGED <<account, apps, offered, erase, submit, saving, requestVars, workerVars>>

CompleteCVUpload ==
    /\ account = "active" /\ ProfileFree /\ profile.cv # None
    /\ profile' = [profile EXCEPT !.ready = TRUE]
    /\ UNCHANGED <<account, apps, offered, erase, submit, saving, requestVars, workerVars>>

\* journeyTx locks the profile.
SubmitLocks(j) ==
    /\ account = "active" /\ ProfileFree /\ apps[j] = NoApp
    /\ submit' = [phase |-> "locked", job |-> j, cv |-> None]
    /\ UNCHANGED <<account, profile, apps, offered, erase, saving, requestVars, workerVars>>

AccountLocked == erase.phase \in {"account", "captured"}

\* Mutant: the new row does not refer to the account.
SubmitInsertsFreely ==
    /\ submit.phase = "locked"
    /\ submit' = [submit EXCEPT !.phase = "inserted", !.cv = IF profile.ready THEN profile.cv ELSE None]
    /\ UNCHANGED <<account, profile, apps, offered, erase, saving, requestVars, workerVars>>

\* The new row refers to the account and waits for its lock; the trigger copies the CV.
SubmitInserts ==
    /\ submit.phase = "locked" /\ ~AccountLocked
    /\ submit' = [submit EXCEPT !.phase = "inserted", !.cv = IF profile.ready THEN profile.cv ELSE None]
    /\ UNCHANGED <<account, profile, apps, offered, erase, saving, requestVars, workerVars>>

SubmitCommits ==
    /\ submit.phase = "inserted"
    /\ apps' = [apps EXCEPT ![submit.job] = submit.cv]
    /\ submit' = NoSubmit
    /\ UNCHANGED <<account, profile, offered, erase, saving, requestVars, workerVars>>

SubmitFails ==
    /\ submit.phase # "idle"
    /\ submit' = NoSubmit
    /\ UNCHANGED <<account, profile, apps, offered, erase, saving, requestVars, workerVars>>

\* Save reads the application with its candidate's profile, then waits for the
\* application's lock: when it gets it, the profile is the one it read.
SaveReads(j) ==
    /\ saving[j] = "idle" /\ j \in Applied \ offered /\ profile.here
    /\ saving' = [saving EXCEPT ![j] = "waiting"]
    /\ UNCHANGED <<account, candidateVars, offered, erase, requestVars, workerVars>>

SaveLocks(j) ==
    /\ saving[j] = "waiting" /\ j \notin erase.apps
    /\ saving' = [saving EXCEPT ![j] = "holding"]
    /\ UNCHANGED <<account, candidateVars, offered, erase, requestVars, workerVars>>

SaveCommits(j) ==
    /\ saving[j] = "holding"
    /\ offered' = offered \cup {j}
    /\ saving' = [saving EXCEPT ![j] = "idle"]
    /\ UNCHANGED <<account, candidateVars, erase, requestVars, workerVars>>

SaveFails(j) ==
    /\ saving[j] # "idle"
    /\ saving' = [saving EXCEPT ![j] = "idle"]
    /\ UNCHANGED <<account, candidateVars, offered, erase, requestVars, workerVars>>

-----------------------------------------------------------------------------
\* ux_privacy_requests_active_user_type: the open request, or a new one.
Upserts(r) == IF \E q \in Requests : reqs[q] \in Unresolved THEN reqs[r] \in Unresolved ELSE reqs[r] = "none"

CreateRequest(r) ==
    /\ account = "active" /\ Upserts(r) /\ reqs[r] = "none"
    /\ reqs' = [reqs EXCEPT ![r] = "received"]
    /\ UNCHANGED <<account, candidateVars, offered, erase, saving, review, job, workerVars>>

\* EraseAccount: the applications first,
LockApplications ==
    /\ account = "active" /\ erase = NoErase
    /\ \A j \in Applied : saving[j] # "holding"
    /\ erase' = [NoErase EXCEPT !.phase = "applications", !.apps = Applied]
    /\ UNCHANGED <<account, candidateVars, offered, saving, requestVars, workerVars>>

\* then the account, which an application being inserted refers to.
LockAccount ==
    /\ erase.phase = "applications" /\ account = "active" /\ submit.phase # "inserted"
    /\ erase' = [erase EXCEPT !.phase = "account"]
    /\ UNCHANGED <<account, candidateVars, offered, saving, requestVars, workerVars>>

\* Mutant: applications made before the account was locked are not looked for.
RecheckedAtFirst == \A j \in erase.apps : saving[j] # "holding"

\* FOR UPDATE NOWAIT: an application made in between that somebody holds sends the
\* candidate away (ErrReview).
Rechecked == \A j \in Applied : saving[j] # "holding"

Captured == ({profile.cv} \cup {apps[j] : j \in Applied}) \ {None}

\* The offers are looked for and the objects noted.
Inspect ==
    /\ erase.phase = "account" /\ Rechecked /\ offered = {}
    /\ erase' = [phase |-> "captured", apps |-> Applied, keys |-> Captured]
    /\ UNCHANGED <<account, candidateVars, offered, saving, requestVars, workerVars>>

\* Offers are retained: the request waits for a review, nothing is erased.
RequireReview(r) ==
    /\ erase.phase = "account" /\ Rechecked /\ offered # {} /\ Upserts(r)
    /\ reqs' = [reqs EXCEPT ![r] = "awaiting_review"]
    /\ review' = [review EXCEPT ![r] = IF @ = "none" THEN "awaiting_review" ELSE @]
    /\ erase' = NoErase
    /\ UNCHANGED <<account, candidateVars, offered, saving, job, workerVars>>

JobsOf(r) == {k \in CVs : job[k].req = r}

\* Mutant: a job that is being tried is not waited for.
DoneIgnoringRunning(r, others) ==
    review[r] \in {"none", "succeeded"} /\ \A k \in others : job[k].status \in {"running", "succeeded"}

\* No job of r but those left out is short of succeeded.
Done(r, others) ==
    review[r] \in {"none", "succeeded"} /\ \A k \in others : job[k].status = "succeeded"

\* The profile is deleted, once its lock is free, the account made anonymous, a
\* deletion queued for every object.
Wipe(r) ==
    /\ erase.phase = "captured" /\ submit.phase = "idle" /\ Upserts(r)
    /\ account' = "erased"
    /\ profile' = Gone
    /\ apps' = [j \in Jobs |-> IF j \in Applied THEN None ELSE NoApp]
    /\ job' = [k \in CVs |-> IF k \in erase.keys THEN [status |-> "pending", attempts |-> 0, req |-> r] ELSE job[k]]
    /\ reqs' = [reqs EXCEPT ![r] = IF erase.keys = {} /\ Done(r, JobsOf(r)) THEN "fulfilled" ELSE "in_progress"]
    /\ erase' = NoErase
    /\ UNCHANGED <<offered, review, submit, saving, workerVars>>

EraseFails ==
    /\ erase # NoErase
    /\ erase' = NoErase
    /\ UNCHANGED <<account, candidateVars, offered, saving, requestVars, workerVars>>

-----------------------------------------------------------------------------
Allowed(from) ==
    CASE from = "received" -> {"in_progress", "awaiting_review", "rejected", "cancelled"}
      [] from = "in_progress" -> {"awaiting_review", "fulfilled", "rejected", "cancelled"}
      [] from = "awaiting_review" -> {"in_progress", "fulfilled", "rejected", "cancelled"}
      [] OTHER -> {}

\* Mutant: work that remains does not keep a request from being closed.
TransitionUnfinished(r, target) ==
    /\ target \in Allowed(reqs[r])
    /\ reqs' = [reqs EXCEPT ![r] = target]
    /\ UNCHANGED <<account, candidateVars, offered, erase, saving, review, job, workerVars>>

\* TransitionRequestStatus: declining settles the review; a review that is open keeps
\* the request from work, and unfinished work from being closed.
Transition(r, target) ==
    LET declined == reqs[r] = "awaiting_review" /\ target \in {"rejected", "cancelled"}
    IN /\ target \in Allowed(reqs[r])
       /\ reqs[r] = "awaiting_review" /\ target = "in_progress" => review[r] # "awaiting_review"
       /\ review' = [review EXCEPT ![r] = IF declined /\ @ = "awaiting_review" THEN "succeeded" ELSE @]
       /\ target \in Closed =>
             /\ review'[r] \in {"none", "succeeded"}
             /\ \A k \in JobsOf(r) : job[k].status = "succeeded"
       /\ reqs' = [reqs EXCEPT ![r] = target]
       /\ UNCHANGED <<account, candidateVars, offered, erase, saving, job, workerVars>>

-----------------------------------------------------------------------------
\* A failed try is run again after minutes: its own worker has gone on by then.
RetryDue(k) == SlowWorkers \/ \A w \in Workers : at[w].cv = k => at[w].phase # "noting"

\* Mutant: what failed once is not tried again.
ClaimableAtFirst(k) == job[k].status = "pending" /\ job[k].attempts < MaxAttempts

\* Mutant: the tries are not counted.
ClaimableForEver(k) == job[k].status \in {"pending", "failed"} /\ RetryDue(k)

Claimable(k) ==
    job[k].status \in {"pending", "failed"} /\ job[k].attempts < MaxAttempts /\ RetryDue(k)

ClaimDeletion(w) ==
    /\ at[w] = Idle
    /\ \E k \in CVs :
          /\ Claimable(k)
          /\ job' = [job EXCEPT ![k].status = "running", ![k].attempts = @ + 1]
          /\ at' = [at EXCEPT ![w] = [Idle EXCEPT !.phase = "claimed", !.cv = k]]
    /\ UNCHANGED <<account, candidateVars, offered, reqs, review, erase, saving, confirmed>>

Moves(w, from, to) == at[w].phase = from /\ at' = [at EXCEPT ![w].phase = to]

DeleteObject(w) ==
    /\ Moves(w, "claimed", "deleted")
    /\ confirmed' = confirmed \cup {at[w].cv}
    /\ UNCHANGED <<account, candidateVars, offered, requestVars, erase, saving>>

DeleteFails(w) ==
    /\ Moves(w, "claimed", "failed")
    /\ UNCHANGED <<account, candidateVars, offered, requestVars, erase, saving, confirmed>>

\* markDeletionFailed: two statements outside a transaction; an error of the second is
\* dropped.
MarkFailed(w) ==
    /\ Moves(w, "failed", "noting")
    /\ job' = [job EXCEPT ![at[w].cv].status = "failed"]
    /\ UNCHANGED <<account, candidateVars, offered, reqs, review, erase, saving, confirmed>>

NoteFailure(w) ==
    LET r == job[at[w].cv].req
    IN /\ at[w].phase = "noting"
       /\ reqs' = IF \E q \in Requests \ {r} : reqs[q] \in Unresolved THEN reqs
                  ELSE [reqs EXCEPT ![r] = "in_progress"]
       /\ at' = [at EXCEPT ![w] = Idle]
       /\ UNCHANGED <<account, candidateVars, offered, review, job, erase, saving, confirmed>>

\* markDeletionSucceeded counts the other jobs, as far as they are committed,
CountOthers(w) ==
    LET r == job[at[w].cv].req
    IN /\ at[w].phase = "deleted"
       /\ at' = [at EXCEPT ![w].phase = "committing", ![w].last = Done(r, JobsOf(r) \ {at[w].cv})]
       /\ UNCHANGED <<account, candidateVars, offered, requestVars, erase, saving, confirmed>>

\* and commits.
MarkSucceeded(w) ==
    LET r == job[at[w].cv].req
    IN /\ at[w].phase = "committing"
       /\ job' = [job EXCEPT ![at[w].cv].status = "succeeded"]
       /\ reqs' = IF at[w].last /\ reqs[r] = "in_progress" THEN [reqs EXCEPT ![r] = "fulfilled"] ELSE reqs
       /\ at' = [at EXCEPT ![w] = Idle]
       /\ UNCHANGED <<account, candidateVars, offered, review, erase, saving, confirmed>>

\* A crash, or an error of the database, which ends the pass.
Interrupt(w) ==
    /\ at[w] # Idle
    /\ at' = [at EXCEPT ![w] = Idle]
    /\ UNCHANGED <<account, candidateVars, offered, requestVars, erase, saving, confirmed>>

-----------------------------------------------------------------------------
Work(w) ==
    \/ ClaimDeletion(w) \/ DeleteObject(w) \/ DeleteFails(w) \/ MarkFailed(w) \/ NoteFailure(w)
    \/ CountOthers(w) \/ MarkSucceeded(w)

Next ==
    \/ PrepareCVUpload \/ CompleteCVUpload \/ SubmitInserts \/ SubmitCommits \/ SubmitFails
    \/ \E j \in Jobs : SubmitLocks(j) \/ SaveReads(j) \/ SaveLocks(j) \/ SaveCommits(j) \/ SaveFails(j)
    \/ LockApplications \/ LockAccount \/ Inspect \/ EraseFails
    \/ \E r \in Requests :
          \/ CreateRequest(r) \/ RequireReview(r) \/ Wipe(r)
          \/ \E target \in Unresolved \cup Closed : Transition(r, target)
    \/ \E w \in Workers : Work(w) \/ Interrupt(w)

Spec == Init /\ [][Next]_vars

\* Every process runs the pass each minute (cmd/api/main.go).
FairSpec == Spec /\ \A w \in Workers : WF_vars(Work(w))

-----------------------------------------------------------------------------
Phases == {"idle", "claimed", "deleted", "failed", "noting", "committing"}

\* Every variable keeps its shape, and no deletion is tried more often than allowed.
TypeOK ==
    /\ account \in {"active", "erased"} /\ offered \subseteq Jobs /\ confirmed \subseteq CVs
    /\ profile \in [cv : CVs \cup {None}, ready : BOOLEAN, here : BOOLEAN]
    /\ apps \in [Jobs -> CVs \cup {None, NoApp}]
    /\ reqs \in [Requests -> Unresolved \cup Closed \cup {"none"}]
    /\ review \in [Requests -> {"none", "awaiting_review", "succeeded"}]
    /\ job \in [CVs -> [status : {"none", "pending", "running", "failed", "succeeded"},
                        attempts : 0..MaxAttempts, req : Requests \cup {None}]]
    /\ erase \in [phase : {"idle", "applications", "account", "captured"}, apps : SUBSET Jobs, keys : SUBSET CVs]
    /\ submit \in [phase : {"idle", "locked", "inserted"}, job : Jobs \cup {None}, cv : CVs \cup {None}]
    /\ saving \in [Jobs -> {"idle", "waiting", "holding"}]
    /\ at \in [Workers -> [phase : Phases, cv : CVs \cup {None}, last : BOOLEAN]]

\* The erasure queues the deletion of every CV submitted with an application, however
\* late, and clears the reference to it.
SubmittedAreQueued ==
    [][account' # account =>
          \A j \in Jobs : apps[j] \in CVs => job'[apps[j]].status = "pending" /\ apps'[j] = None]_vars

\* An account is erased only while none of its applications has an offer or is in the
\* hands of a recruiter who is making one.
OffersReviewed ==
    [][account' # account => offered = {} /\ \A j \in Jobs : saving[j] # "holding"]_vars

\* A request under which objects were to be deleted is closed only when the storage
\* confirmed every one of them.
ClosedIsConfirmed ==
    \A r \in Requests : reqs[r] \in Closed => JobsOf(r) \subseteq confirmed

\* What is closed stays closed, whatever workers and administrators do at the same time.
ClosedStays ==
    [][\A r \in Requests : reqs[r] \in Closed => reqs'[r] = reqs[r]]_vars

\* A deletion comes to an end: it succeeds, fails as often as it may, or is left to
\* nobody by an interruption, which no pass looks for.
Ended(k) ==
    \/ job[k].status \in {"none", "succeeded"}
    \/ job[k].status = "failed" /\ job[k].attempts = MaxAttempts
    \/ job[k].status = "running" /\ \A w \in Workers : at[w].cv # k

DeletionsEnd == account = "erased" ~> \A k \in CVs : Ended(k)

=============================================================================
