-------------------------- MODULE AccountErasureProofs --------------------------
(***************************************************************************)
(* For any vacancies, uploads, requests and workers, fast or slow: an      *)
(* erasure never crosses an offer, every CV an application refers to is    *)
(* queued for deletion, and a request is closed only when the storage      *)
(* confirmed every deletion it stands for.                                 *)
(*                                                                         *)
(* The invariants beside the types: what EraseAccount knows in each of its *)
(* phases (Seen), what the storage confirmed (Deleted) and, for workers    *)
(* that are not slower than the retry delay, what their rows show          *)
(* (InTime), which keeps closed requests closed.                           *)
(***************************************************************************)
EXTENDS AccountErasure, TLAPS

Statuses == Unresolved \cup Closed

\* The actions by the variables they touch.
CandidateStep ==
    \/ PrepareCVUpload \/ CompleteCVUpload \/ SubmitInserts \/ SubmitCommits \/ SubmitFails
    \/ \E j \in Jobs : SubmitLocks(j)

OfferStep == \E j \in Jobs : SaveReads(j) \/ SaveLocks(j) \/ SaveCommits(j) \/ SaveFails(j)

EraseStep ==
    \/ LockApplications \/ LockAccount \/ Inspect \/ EraseFails
    \/ \E r \in Requests : RequireReview(r) \/ Wipe(r)

RequestStep ==
    \E r \in Requests : CreateRequest(r) \/ \E target \in Statuses : Transition(r, target)

WorkerStep == \E w \in Workers : Work(w) \/ Interrupt(w)

LEMMA Steps ==
    ASSUME Next
    PROVE  CandidateStep \/ OfferStep \/ EraseStep \/ RequestStep \/ WorkerStep
BY DEF Next, CandidateStep, OfferStep, EraseStep, RequestStep, WorkerStep, Statuses

-----------------------------------------------------------------------------
LEMMA CandidateTypes ==
    ASSUME TypeOK, CandidateStep
    PROVE  TypeOK'
<1>1. CASE PrepareCVUpload
  BY <1>1 DEF PrepareCVUpload, Profile, TypeOK, requestVars, workerVars
<1>2. CASE CompleteCVUpload
  BY <1>2 DEF CompleteCVUpload, TypeOK, requestVars, workerVars
<1>3. CASE SubmitInserts
  BY <1>3 DEF SubmitInserts, TypeOK, requestVars, workerVars
<1>4. CASE SubmitCommits
  BY <1>4 DEF SubmitCommits, NoSubmit, TypeOK, requestVars, workerVars
<1>5. CASE SubmitFails
  BY <1>5 DEF SubmitFails, NoSubmit, TypeOK, requestVars, workerVars
<1>6. CASE \E j \in Jobs : SubmitLocks(j)
  BY <1>6 DEF SubmitLocks, TypeOK, requestVars, workerVars
<1> QED BY <1>1, <1>2, <1>3, <1>4, <1>5, <1>6 DEF CandidateStep

LEMMA OfferTypes ==
    ASSUME TypeOK, OfferStep
    PROVE  TypeOK'
<1>1. PICK j \in Jobs : SaveReads(j) \/ SaveLocks(j) \/ SaveCommits(j) \/ SaveFails(j)
  BY DEF OfferStep
<1>2. UNCHANGED <<account, candidateVars, erase, requestVars, workerVars>>
  BY <1>1 DEF SaveReads, SaveLocks, SaveCommits, SaveFails
<1>3. \E p \in {"idle", "waiting", "holding"} : saving' = [saving EXCEPT ![j] = p]
  BY <1>1 DEF SaveReads, SaveLocks, SaveCommits, SaveFails
<1>4. offered' \subseteq Jobs
  BY <1>1 DEF SaveReads, SaveLocks, SaveCommits, SaveFails, TypeOK
<1> QED BY <1>2, <1>3, <1>4 DEF TypeOK, candidateVars, requestVars, workerVars

LEMMA EraseTypes ==
    ASSUME TypeOK, EraseStep
    PROVE  TypeOK'
<1> USE DEF candidateVars, requestVars, workerVars
<1>1. CASE LockApplications
  BY <1>1 DEF LockApplications, NoErase, Applied, TypeOK
<1>2. CASE LockAccount
  BY <1>2 DEF LockAccount, TypeOK
<1>3. CASE Inspect
  <2>1. Captured \subseteq CVs
    BY DEF TypeOK, Captured, Applied
  <2> QED BY <1>3, <2>1 DEF Inspect, Applied, TypeOK
<1>4. CASE EraseFails
  BY <1>4 DEF EraseFails, NoErase, TypeOK
<1>5. ASSUME NEW r \in Requests, RequireReview(r) PROVE TypeOK'
  BY <1>5 DEF RequireReview, NoErase, TypeOK, Unresolved
<1>6. ASSUME NEW r \in Requests, Wipe(r) PROVE TypeOK'
  <2>1. account' = "erased" /\ profile' = Gone /\ erase' = NoErase
    BY <1>6 DEF Wipe
  <2>2. apps' \in [Jobs -> CVs \cup {None, NoApp}]
    BY <1>6 DEF Wipe, TypeOK
  <2>3. /\ job' = [k \in CVs |-> IF k \in erase.keys THEN [status |-> "pending", attempts |-> 0, req |-> r] ELSE job[k]]
        /\ 0 \in 0..MaxAttempts
    BY <1>6, ErasureAssumption DEF Wipe
  <2>4. job' \in [CVs -> [status : {"none", "pending", "running", "failed", "succeeded"},
                          attempts : 0..MaxAttempts, req : Requests \cup {None}]]
    BY <2>3 DEF TypeOK
  <2>5. reqs' \in [Requests -> Unresolved \cup Closed \cup {"none"}]
    BY <1>6 DEF Wipe, TypeOK, Unresolved, Closed
  <2>6. UNCHANGED <<offered, review, submit, saving, at, confirmed>>
    BY <1>6 DEF Wipe
  <2> QED BY <2>1, <2>2, <2>4, <2>5, <2>6 DEF TypeOK, Gone, NoErase
<1> QED BY <1>1, <1>2, <1>3, <1>4, <1>5, <1>6 DEF EraseStep

LEMMA RequestTypes ==
    ASSUME TypeOK, RequestStep
    PROVE  TypeOK'
<1> USE DEF candidateVars, requestVars, workerVars, TypeOK
<1>1. ASSUME NEW r \in Requests, CreateRequest(r) PROVE TypeOK'
  BY <1>1 DEF CreateRequest, Unresolved
<1>2. ASSUME NEW r \in Requests, NEW target \in Statuses, Transition(r, target) PROVE TypeOK'
  BY <1>2 DEF Transition, Statuses
<1> QED BY <1>1, <1>2 DEF RequestStep

\* A worker that is not idle has a deletion in hand.
Busy == \A w \in Workers : at[w].phase # "idle" => at[w].cv \in CVs

Phased == [phase : Phases, cv : CVs \cup {None}, last : BOOLEAN]

LEMMA WorkerTypes ==
    ASSUME TypeOK, Busy, WorkerStep
    PROVE  TypeOK' /\ Busy'
<1>1. PICK w \in Workers : Work(w) \/ Interrupt(w)
  BY DEF WorkerStep
<1>2. \/ UNCHANGED job
      \/ \E k \in CVs, s \in {"running", "failed", "succeeded"}, n \in 0..MaxAttempts :
            job' = [job EXCEPT ![k].status = s, ![k].attempts = n]
  <2>1. CASE ClaimDeletion(w)
    <3>1. PICK k \in CVs : /\ job[k].attempts < MaxAttempts
                           /\ job' = [job EXCEPT ![k].status = "running", ![k].attempts = @ + 1]
      BY <2>1 DEF ClaimDeletion, Claimable
    <3>2. job[k].attempts + 1 \in 0..MaxAttempts
      BY <3>1, ErasureAssumption DEF TypeOK
    <3> QED BY <3>1, <3>2
  <2>2. ASSUME NEW s \in {"failed", "succeeded"}, job' = [job EXCEPT ![at[w].cv].status = s],
               at[w].phase # "idle"
        PROVE  \E k \in CVs, t \in {"running", "failed", "succeeded"}, n \in 0..MaxAttempts :
                  job' = [job EXCEPT ![k].status = t, ![k].attempts = n]
    <3> DEFINE k == at[w].cv
    <3>1. k \in CVs
      BY <1>1, <2>2 DEF Busy
    <3>2. job[k].attempts \in 0..MaxAttempts
      BY <3>1 DEF TypeOK
    <3>3. job' = [job EXCEPT ![k].status = s, ![k].attempts = job[k].attempts]
      BY <2>2, <3>1 DEF TypeOK
    <3> QED BY <3>1, <3>2, <3>3
  <2>3. CASE MarkFailed(w)
    BY <2>2, <2>3 DEF MarkFailed, Moves
  <2>4. CASE MarkSucceeded(w)
    BY <2>2, <2>4 DEF MarkSucceeded
  <2>5. CASE DeleteObject(w) \/ DeleteFails(w) \/ NoteFailure(w) \/ CountOthers(w) \/ Interrupt(w)
    BY <2>5 DEF DeleteObject, DeleteFails, NoteFailure, CountOthers, Interrupt, requestVars
  <2> QED BY <1>1, <2>1, <2>3, <2>4, <2>5 DEF Work
<1>3. job' \in [CVs -> [status : {"none", "pending", "running", "failed", "succeeded"},
                        attempts : 0..MaxAttempts, req : Requests \cup {None}]]
  <2>1. CASE UNCHANGED job
    BY <2>1 DEF TypeOK
  <2>2. ASSUME NEW k \in CVs, NEW t \in {"running", "failed", "succeeded"}, NEW n \in 0..MaxAttempts,
               job' = [job EXCEPT ![k].status = t, ![k].attempts = n]
        PROVE  job' \in [CVs -> [status : {"none", "pending", "running", "failed", "succeeded"},
                                attempts : 0..MaxAttempts, req : Requests \cup {None}]]
    <3>1. job[k] \in [status : {"none", "pending", "running", "failed", "succeeded"},
                      attempts : 0..MaxAttempts, req : Requests \cup {None}]
      BY DEF TypeOK
    <3> DEFINE row == [job[k] EXCEPT !.status = t, !.attempts = n]
    <3>2. row \in [status : {"none", "pending", "running", "failed", "succeeded"},
                   attempts : 0..MaxAttempts, req : Requests \cup {None}]
      BY <3>1
    <3>3. job' = [job EXCEPT ![k] = row]
      BY <2>2
    <3> HIDE DEF row
    <3> QED BY <3>2, <3>3 DEF TypeOK
  <2> QED BY <1>2, <2>1, <2>2
<1>4. \E h \in Phased : at' = [at EXCEPT ![w] = h] /\ (h.phase # "idle" => h.cv \in CVs)
  <2>1. at \in [Workers -> Phased]
    BY DEF TypeOK, Phased
  <2>2. ASSUME NEW p \in Phases, Moves(w, at[w].phase, p), at[w].phase # "idle"
        PROVE  [at[w] EXCEPT !.phase = p] \in Phased /\ at[w].cv \in CVs
    BY <2>1, <2>2 DEF Busy, Phased
  <2>3. Idle \in Phased /\ Idle.phase = "idle"
    BY DEF Idle, Phased, Phases
  <2>4. CASE ClaimDeletion(w)
    <3>1. PICK k \in CVs : at' = [at EXCEPT ![w] = [Idle EXCEPT !.phase = "claimed", !.cv = k]]
      BY <2>4 DEF ClaimDeletion
    <3> DEFINE h == [Idle EXCEPT !.phase = "claimed", !.cv = k]
    <3>2. h \in Phased /\ h.cv = k
      BY DEF Idle, Phased, Phases
    <3> HIDE DEF h
    <3> QED BY <3>1, <3>2 DEF h
  <2>5. CASE DeleteObject(w) \/ DeleteFails(w) \/ MarkFailed(w)
    <3>1. PICK p \in Phases : Moves(w, at[w].phase, p) /\ at[w].phase # "idle"
      BY <2>5 DEF DeleteObject, DeleteFails, MarkFailed, Moves, Phases
    <3>2. at[w] \in Phased /\ at[w].cv \in CVs
      BY <2>1, <3>1 DEF Busy
    <3> DEFINE h == [at[w] EXCEPT !.phase = p]
    <3>3. h \in Phased /\ h.cv = at[w].cv
      BY <3>2 DEF Phased
    <3>4. at' = [at EXCEPT ![w] = h]
      BY <3>1 DEF Moves
    <3> HIDE DEF h
    <3> QED BY <3>2, <3>3, <3>4
  <2>6. CASE CountOthers(w)
    <3>1. PICK b \in BOOLEAN : at' = [at EXCEPT ![w].phase = "committing", ![w].last = b]
      BY <2>6 DEF CountOthers, Done
    <3>2. at[w].cv \in CVs
      BY <2>6 DEF CountOthers, Busy
    <3> DEFINE h == [at[w] EXCEPT !.phase = "committing", !.last = b]
    <3>3. h \in Phased /\ h.cv = at[w].cv
      BY <2>1 DEF Phased, Phases
    <3>4. at' = [at EXCEPT ![w] = h]
      BY <3>1
    <3> HIDE DEF h
    <3> QED BY <3>2, <3>3, <3>4
  <2>7. CASE NoteFailure(w) \/ MarkSucceeded(w) \/ Interrupt(w)
    BY <2>3, <2>7 DEF NoteFailure, MarkSucceeded, Interrupt
  <2> QED BY <1>1, <2>4, <2>5, <2>6, <2>7 DEF Work
<1>5. at' \in [Workers -> Phased] /\ Busy'
  BY <1>4 DEF TypeOK, Busy, Phased
<1>6. reqs' \in [Requests -> Unresolved \cup Closed \cup {"none"}]
  <2>1. CASE MarkSucceeded(w)
    BY <2>1 DEF MarkSucceeded, TypeOK, Closed
  <2>2. CASE NoteFailure(w)
    BY <2>2 DEF NoteFailure, TypeOK, Unresolved
  <2>3. CASE ~MarkSucceeded(w) /\ ~NoteFailure(w)
    <3>1. reqs' = reqs
      BY <1>1, <2>3 DEF Work, ClaimDeletion, DeleteObject, DeleteFails, MarkFailed, CountOthers, Interrupt, requestVars
    <3> QED BY <3>1 DEF TypeOK
  <2> QED BY <2>1, <2>2, <2>3
<1>7. confirmed' \subseteq CVs
  <2>1. CASE DeleteObject(w)
    <3>1. at[w].cv \in CVs
      BY <2>1 DEF DeleteObject, Moves, Busy
    <3> QED BY <2>1, <3>1 DEF DeleteObject, TypeOK
  <2>2. CASE ~DeleteObject(w)
    <3>1. confirmed' = confirmed
      BY <1>1, <2>2 DEF Work, ClaimDeletion, DeleteFails, MarkFailed, NoteFailure, CountOthers, MarkSucceeded, Interrupt
    <3> QED BY <3>1 DEF TypeOK
  <2> QED BY <2>1, <2>2
<1>8. UNCHANGED <<account, candidateVars, offered, review, erase, saving>>
  BY <1>1 DEF Work, ClaimDeletion, DeleteObject, DeleteFails, MarkFailed, NoteFailure, CountOthers, MarkSucceeded,
     Interrupt, requestVars
<1> QED BY <1>3, <1>5, <1>6, <1>7, <1>8 DEF TypeOK, candidateVars, Phased

\* The steps of everybody else leave the workers alone.
LEMMA OthersBusy ==
    ASSUME Busy, CandidateStep \/ OfferStep \/ EraseStep \/ RequestStep
    PROVE  Busy' /\ UNCHANGED workerVars
<1>1. UNCHANGED workerVars
  BY DEF CandidateStep, OfferStep, EraseStep, RequestStep, PrepareCVUpload, CompleteCVUpload, SubmitInserts,
     SubmitCommits, SubmitFails, SubmitLocks, SaveReads, SaveLocks, SaveCommits, SaveFails, LockApplications,
     LockAccount, Inspect, EraseFails, RequireReview, Wipe, CreateRequest, Transition
<1> QED BY <1>1 DEF workerVars, Busy

\* The type invariant.
THEOREM ErasureTypes == Spec => [](TypeOK /\ Busy)
<1>1. Init => TypeOK /\ Busy
  BY ErasureAssumption DEF Init, TypeOK, Busy, Profile, NoJob, NoErase, NoSubmit, Idle, Phases
<1>2. TypeOK /\ Busy /\ [Next]_vars => (TypeOK /\ Busy)'
  <2> SUFFICES ASSUME TypeOK, Busy, [Next]_vars PROVE TypeOK' /\ Busy'
    OBVIOUS
  <2>1. CASE Next
    BY <2>1, Steps, CandidateTypes, OfferTypes, EraseTypes, RequestTypes, WorkerTypes, OthersBusy
  <2>2. CASE UNCHANGED vars
    BY <2>2 DEF vars, TypeOK, Busy
  <2> QED BY <2>1, <2>2
<1> QED BY <1>1, <1>2, PTL DEF Spec

-----------------------------------------------------------------------------
\* While the account is locked no application is being inserted.
Settled == AccountLocked => submit.phase # "inserted"

\* Offers belong to applications.
Owned == offered \subseteq Applied /\ \A j \in Jobs : saving[j] # "idle" => j \in Applied

\* What the erasure saw last still holds.
Inspected ==
    erase.phase = "captured" =>
        /\ offered = {} /\ Applied \subseteq erase.apps
        /\ \A j \in Jobs : saving[j] # "holding"
        /\ \A j \in Jobs : apps[j] \in CVs => apps[j] \in erase.keys

StillActive == erase.phase # "idle" => account = "active"

Seen == StillActive /\ Settled /\ Owned /\ Inspected

LEMMA SeenByOthers ==
    ASSUME Seen, UNCHANGED <<account, apps, submit, offered, saving, erase>>
    PROVE  Seen'
BY DEF Seen, StillActive, Settled, Owned, Inspected, Applied, AccountLocked

LEMMA CandidateSeen ==
    ASSUME TypeOK, Seen, CandidateStep
    PROVE  Seen'
<1> USE DEF Seen, StillActive, Settled, Owned, Inspected, Applied, AccountLocked
<1>1. CASE PrepareCVUpload \/ CompleteCVUpload
  BY <1>1, SeenByOthers DEF PrepareCVUpload, CompleteCVUpload
<1>2. CASE SubmitInserts
  BY <1>2 DEF SubmitInserts
<1>3. CASE SubmitCommits
  <2>1. ~AccountLocked /\ UNCHANGED <<account, offered, erase, saving>> /\ submit'.phase = "idle"
    BY <1>3 DEF SubmitCommits, NoSubmit
  <2>2. Applied \subseteq Applied'
    <3>1. submit.cv # NoApp
      BY ErasureAssumption DEF TypeOK, NoApp
    <3> QED BY <1>3, <3>1 DEF SubmitCommits, TypeOK
  <2> QED BY <2>1, <2>2
<1>4. CASE SubmitFails
  BY <1>4 DEF SubmitFails, NoSubmit
<1>5. CASE \E j \in Jobs : SubmitLocks(j)
  BY <1>5 DEF SubmitLocks
<1> QED BY <1>1, <1>2, <1>3, <1>4, <1>5 DEF CandidateStep

LEMMA OfferSeen ==
    ASSUME TypeOK, Seen, OfferStep
    PROVE  Seen'
<1>1. PICK j \in Jobs : SaveReads(j) \/ SaveLocks(j) \/ SaveCommits(j) \/ SaveFails(j)
  BY DEF OfferStep
<1>2. UNCHANGED <<account, apps, submit, erase>>
  BY <1>1 DEF SaveReads, SaveLocks, SaveCommits, SaveFails, candidateVars
<1>3. Applied' = Applied /\ Settled' /\ StillActive'
  BY <1>2 DEF Applied, Seen, StillActive, Settled, AccountLocked
<1>4. CASE SaveReads(j)
  BY <1>2, <1>3, <1>4 DEF SaveReads, Seen, Owned, Inspected, TypeOK
<1>5. CASE SaveLocks(j)
  <2>1. j \in Applied /\ j \notin erase.apps
    BY <1>5 DEF SaveLocks, Seen, Owned
  <2>2. erase.phase # "captured"
    BY <2>1 DEF Seen, Inspected
  <2> QED BY <1>2, <1>3, <1>5, <2>1, <2>2 DEF SaveLocks, Seen, Owned, Inspected, TypeOK
<1>6. CASE SaveCommits(j)
  <2>1. j \in Applied /\ erase.phase # "captured"
    BY <1>6 DEF SaveCommits, Seen, Owned, Inspected
  <2> QED BY <1>2, <1>3, <1>6, <2>1 DEF SaveCommits, Seen, Owned, Inspected, TypeOK
<1>7. CASE SaveFails(j)
  BY <1>2, <1>3, <1>7 DEF SaveFails, Seen, Owned, Inspected, TypeOK
<1> QED BY <1>1, <1>4, <1>5, <1>6, <1>7

LEMMA EraseSeen ==
    ASSUME TypeOK, Seen, EraseStep
    PROVE  Seen'
<1> USE DEF Seen, StillActive, Settled, Owned, AccountLocked, candidateVars
<1>1. CASE LockApplications
  BY <1>1 DEF LockApplications, NoErase, Inspected, Applied, TypeOK
<1>2. CASE LockAccount
  BY <1>2 DEF LockAccount, Inspected, Applied, TypeOK
<1>3. CASE Inspect
  <2>1. erase'.phase = "captured" /\ erase'.apps = Applied /\ erase'.keys = Captured
    BY <1>3 DEF Inspect
  <2>2. \A j \in Jobs : apps[j] \in CVs => apps[j] \in Captured
    BY ErasureAssumption DEF Captured, Applied, NoApp
  <2>3. UNCHANGED <<account, apps, submit, offered, saving>> /\ offered = {} /\ Rechecked /\ AccountLocked
    BY <1>3 DEF Inspect
  <2> QED BY <2>1, <2>2, <2>3 DEF Inspected, Applied, Rechecked
<1>4. CASE EraseFails \/ \E r \in Requests : RequireReview(r)
  BY <1>4 DEF EraseFails, RequireReview, NoErase, Inspected, Applied
<1>5. ASSUME NEW r \in Requests, Wipe(r) PROVE Seen'
  <2>1. Applied' = Applied
    BY <1>5, ErasureAssumption DEF Wipe, Applied, TypeOK, NoApp
  <2> QED BY <1>5, <2>1 DEF Wipe, NoErase, Inspected
<1> QED BY <1>1, <1>2, <1>3, <1>4, <1>5 DEF EraseStep

\* What EraseAccount saw stays as it was until it ends.
THEOREM ErasureInvariant == Spec => [](TypeOK /\ Seen)
<1>1. Init => Seen
  BY DEF Init, Seen, StillActive, Settled, Owned, Inspected, Applied, AccountLocked, NoErase, NoSubmit
<1>2. TypeOK /\ Seen /\ [Next]_vars => Seen'
  <2> SUFFICES ASSUME TypeOK, Seen, [Next]_vars PROVE Seen'
    OBVIOUS
  <2>1. CASE RequestStep \/ WorkerStep
    <3>1. UNCHANGED <<account, candidateVars, offered, saving, erase>>
      BY <2>1 DEF RequestStep, CreateRequest, Transition, WorkerStep, Work, ClaimDeletion, DeleteObject, DeleteFails,
         MarkFailed, NoteFailure, CountOthers, MarkSucceeded, Interrupt
    <3> QED BY <3>1, SeenByOthers DEF candidateVars
  <2>2. CASE UNCHANGED vars
    BY <2>2, SeenByOthers DEF vars
  <2> QED BY <2>1, <2>2, Steps, CandidateSeen, OfferSeen, EraseSeen
<1> QED BY <1>1, <1>2, ErasureTypes, PTL DEF Spec

\* Only the last step of EraseAccount erases.
LEMMA ErasedByWipe ==
    ASSUME [Next]_vars, account' # account
    PROVE  \E r \in Requests : Wipe(r)
BY Steps DEF vars, CandidateStep, OfferStep, EraseStep, RequestStep, WorkerStep, PrepareCVUpload, CompleteCVUpload,
   SubmitInserts, SubmitCommits, SubmitFails, SubmitLocks, SaveReads, SaveLocks, SaveCommits, SaveFails,
   LockApplications, LockAccount, Inspect, EraseFails, RequireReview, CreateRequest, Transition, Work, ClaimDeletion,
   DeleteObject, DeleteFails, MarkFailed, NoteFailure, CountOthers, MarkSucceeded, Interrupt

\* An account is not erased across an offer, made or being made.
THEOREM ErasureOffersReviewed == Spec => OffersReviewed
<1>1. TypeOK /\ Seen /\ [Next]_vars =>
         [account' # account => offered = {} /\ \A j \in Jobs : saving[j] # "holding"]_vars
  BY ErasedByWipe DEF Seen, Inspected, Wipe
<1> QED BY <1>1, ErasureInvariant, PTL DEF Spec, OffersReviewed

\* Every CV that an application refers to is queued for deletion and referred to no more.
THEOREM ErasureQueuesSubmitted == Spec => SubmittedAreQueued
<1>1. TypeOK /\ Seen /\ [Next]_vars =>
         [account' # account =>
             \A j \in Jobs : apps[j] \in CVs => job'[apps[j]].status = "pending" /\ apps'[j] = None]_vars
  <2> SUFFICES ASSUME TypeOK, Seen, [Next]_vars, account' # account, NEW j \in Jobs, apps[j] \in CVs
               PROVE  job'[apps[j]].status = "pending" /\ apps'[j] = None
    OBVIOUS
  <2>1. PICK r \in Requests : Wipe(r)
    BY ErasedByWipe
  <2>2. apps[j] \in erase.keys /\ j \in Applied
    BY <2>1, ErasureAssumption DEF Seen, Inspected, Wipe, Applied, NoApp
  <2> QED BY <2>1, <2>2 DEF Wipe
<1> QED BY <1>1, ErasureInvariant, PTL DEF Spec, SubmittedAreQueued

-----------------------------------------------------------------------------
\* Before the erasure there are no deletions.
NoJobYet == account = "active" => (\A k \in CVs : job[k] = NoJob) /\ \A w \in Workers : at[w] = Idle

\* What is known to be deleted: of a job that succeeded, of the object in a worker's
\* hand, and, when it has counted itself the last, of all the others.
SucceededDeleted == \A k \in CVs : job[k].status = "succeeded" => k \in confirmed
InHandDeleted == \A w \in Workers : at[w].phase \in {"deleted", "committing"} => at[w].cv \in confirmed
OthersDeleted ==
    \A w \in Workers : at[w].phase = "committing" /\ at[w].last =>
        \A k \in CVs \ {at[w].cv} : job[k].req = job[at[w].cv].req => k \in confirmed

Deleted == NoJobYet /\ SucceededDeleted /\ InHandDeleted /\ OthersDeleted /\ ClosedIsConfirmed

LEMMA DeletedByOthers ==
    ASSUME Deleted, UNCHANGED <<account, reqs, job, at, confirmed>>
    PROVE  Deleted'
BY DEF Deleted, NoJobYet, SucceededDeleted, InHandDeleted, OthersDeleted, ClosedIsConfirmed, JobsOf

LEMMA RequestDeleted ==
    ASSUME TypeOK, Deleted, RequestStep \/ \E r \in Requests : RequireReview(r)
    PROVE  Deleted'
<1>1. UNCHANGED <<account, job, at, confirmed>>
  BY DEF RequestStep, CreateRequest, Transition, RequireReview, workerVars
<1>2. \A q \in Requests : reqs'[q] \in Closed =>
         reqs[q] \in Closed \/ \A k \in JobsOf(q) : job[k].status = "succeeded"
  <2>1. ASSUME NEW r \in Requests, CreateRequest(r) \/ RequireReview(r)
        PROVE  \A q \in Requests : reqs'[q] \in Closed => reqs[q] \in Closed
    BY <2>1 DEF CreateRequest, RequireReview, Closed, TypeOK
  <2>2. ASSUME NEW r \in Requests, NEW target \in Statuses, Transition(r, target), NEW q \in Requests,
               reqs'[q] \in Closed, reqs[q] \notin Closed
        PROVE  \A k \in JobsOf(q) : job[k].status = "succeeded"
    BY <2>2 DEF Transition, TypeOK
  <2> QED BY <2>1, <2>2 DEF RequestStep
<1>3. \A q : JobsOf(q)' = JobsOf(q)
  BY <1>1 DEF JobsOf
<1>4. ClosedIsConfirmed'
  BY <1>1, <1>2, <1>3 DEF Deleted, ClosedIsConfirmed, SucceededDeleted, JobsOf
<1> QED BY <1>1, <1>3, <1>4 DEF Deleted, NoJobYet, SucceededDeleted, InHandDeleted, OthersDeleted

LEMMA WipeDeleted ==
    ASSUME TypeOK, Deleted, account = "active", NEW r \in Requests, Wipe(r)
    PROVE  Deleted'
<1>1. \A k \in CVs : job'[k] = IF k \in erase.keys THEN [status |-> "pending", attempts |-> 0, req |-> r] ELSE NoJob
  BY DEF Wipe, Deleted, NoJobYet
<1>2. UNCHANGED <<at, confirmed>> /\ account' = "erased" /\ \A w \in Workers : at[w] = Idle
  BY DEF Wipe, workerVars, Deleted, NoJobYet
<1>3. \A q \in Requests : q # r \/ erase.keys = {} => JobsOf(q)' = {}
  BY <1>1, ErasureAssumption DEF JobsOf, NoJob
<1>4. \A q \in Requests : reqs'[q] \in Closed => q # r \/ erase.keys = {}
  BY DEF Wipe, Closed, TypeOK
<1>5. ClosedIsConfirmed'
  BY <1>3, <1>4 DEF ClosedIsConfirmed
<1>6. SucceededDeleted'
  BY <1>1 DEF SucceededDeleted, NoJob
<1> QED BY <1>2, <1>5, <1>6 DEF Deleted, NoJobYet, InHandDeleted, OthersDeleted, Idle

\* Where a worker's step takes it.
LEMMA WorkerMoves ==
    ASSUME TypeOK, NEW w \in Workers, Work(w) \/ Interrupt(w)
    PROVE  /\ \A v \in Workers \ {w} : at'[v] = at[v]
           /\ at'[w].phase = "deleted" => DeleteObject(w) /\ at'[w].cv = at[w].cv
           /\ at'[w].phase = "committing" => /\ CountOthers(w) /\ at'[w].cv = at[w].cv
                                            /\ at'[w].last = Done(job[at[w].cv].req, JobsOf(job[at[w].cv].req) \ {at[w].cv})
<1>1. at \in [Workers -> Phased]
  BY DEF TypeOK, Phased
<1>2. CASE ClaimDeletion(w)
  BY <1>1, <1>2 DEF ClaimDeletion, Idle
<1>3. CASE DeleteObject(w)
  BY <1>1, <1>3 DEF DeleteObject, Moves, Phased
<1>4. CASE DeleteFails(w) \/ MarkFailed(w)
  BY <1>1, <1>4 DEF DeleteFails, MarkFailed, Moves, Phased
<1>5. CASE NoteFailure(w) \/ MarkSucceeded(w) \/ Interrupt(w)
  BY <1>1, <1>5 DEF NoteFailure, MarkSucceeded, Interrupt, Idle
<1>6. CASE CountOthers(w)
  <2>1. at' = [at EXCEPT ![w].phase = "committing",
                         ![w].last = Done(job[at[w].cv].req, JobsOf(job[at[w].cv].req) \ {at[w].cv})]
    BY <1>6 DEF CountOthers
  <2> QED BY <1>1, <1>6, <2>1 DEF Phased
<1> QED BY <1>2, <1>3, <1>4, <1>5, <1>6 DEF Work

LEMMA WorkerDeleted ==
    ASSUME TypeOK, Busy, Deleted, WorkerStep
    PROVE  Deleted'
<1>1. PICK w \in Workers : Work(w) \/ Interrupt(w)
  BY DEF WorkerStep
<1> DEFINE k == at[w].cv
           r == job[k].req
<1>2. account = "active" => job' = job /\ at' = at
  <2> SUFFICES ASSUME account = "active" PROVE FALSE
    OBVIOUS
  <2>1. at[w] = Idle /\ at[w].phase = "idle" /\ \A c \in CVs : job[c].status = "none"
    <3>1. at[w] = Idle /\ \A c \in CVs : job[c] = NoJob
      BY DEF Deleted, NoJobYet
    <3>2. Idle.phase = "idle" /\ NoJob.status = "none"
      BY DEF Idle, NoJob
    <3> QED BY <3>1, <3>2
  <2> QED BY <1>1, <2>1 DEF Work, ClaimDeletion, Claimable, DeleteObject, DeleteFails, MarkFailed, NoteFailure,
          CountOthers, MarkSucceeded, Interrupt, Moves
<1>3. confirmed \subseteq confirmed' /\ account' = account
  BY <1>1 DEF Work, ClaimDeletion, DeleteObject, DeleteFails, MarkFailed, NoteFailure, CountOthers, MarkSucceeded,
     Interrupt
<1>4. NoJobYet'
  BY <1>2, <1>3 DEF Deleted, NoJobYet
<1>5. \A c \in CVs : /\ job'[c].req = job[c].req
                     /\ job'[c].status = "succeeded" => job[c].status = "succeeded" \/ (MarkSucceeded(w) /\ c = k)
  <2> USE DEF TypeOK
  <2>1. CASE ClaimDeletion(w)
    BY <2>1 DEF ClaimDeletion
  <2>2. CASE MarkFailed(w)
    BY <2>2 DEF MarkFailed
  <2>3. CASE MarkSucceeded(w)
    BY <2>3 DEF MarkSucceeded
  <2>4. CASE DeleteObject(w) \/ DeleteFails(w) \/ NoteFailure(w) \/ CountOthers(w) \/ Interrupt(w)
    BY <2>4 DEF DeleteObject, DeleteFails, NoteFailure, CountOthers, Interrupt, requestVars
  <2> QED BY <1>1, <2>1, <2>2, <2>3, <2>4 DEF Work
<1>6. \A q : JobsOf(q)' = JobsOf(q)
  BY <1>5 DEF JobsOf
<1>7. SucceededDeleted'
  BY <1>3, <1>5 DEF Deleted, SucceededDeleted, InHandDeleted, MarkSucceeded
<1>8. InHandDeleted'
  <2>1. DeleteObject(w) => k \in confirmed'
    BY DEF DeleteObject
  <2>2. CountOthers(w) => k \in confirmed
    BY DEF CountOthers, Deleted, InHandDeleted
  <2> QED BY <1>1, <1>3, <2>1, <2>2, WorkerMoves DEF Deleted, InHandDeleted
<1>9. OthersDeleted'
  <2> SUFFICES ASSUME NEW v \in Workers, at'[v].phase = "committing", at'[v].last,
                      NEW c \in CVs \ {at'[v].cv}, job'[c].req = job'[at'[v].cv].req
               PROVE  c \in confirmed'
    BY DEF OthersDeleted
  <2>1. at'[v].cv \in CVs
    BY WorkerTypes DEF Busy
  <2>2. job[c].req = job[at'[v].cv].req
    BY <1>5, <2>1
  <2>3. CASE v # w
    <3>1. at'[v] = at[v]
      BY <1>1, <2>3, WorkerMoves
    <3>2. c \in confirmed
      BY <2>2, <3>1 DEF Deleted, OthersDeleted
    <3> QED BY <1>3, <3>2
  <2>4. CASE v = w
    <3>1. at'[w].cv = k /\ Done(r, JobsOf(r) \ {k})
      BY <1>1, <2>4, WorkerMoves
    <3> QED BY <1>3, <2>2, <2>4, <3>1 DEF Done, JobsOf, Deleted, SucceededDeleted
  <2> QED BY <2>3, <2>4
<1>10. ClosedIsConfirmed'
  <2> SUFFICES ASSUME NEW q \in Requests, reqs'[q] \in Closed PROVE JobsOf(q) \subseteq confirmed'
    BY <1>6 DEF ClosedIsConfirmed
  <2>1. CASE reqs[q] \in Closed
    BY <1>3, <2>1 DEF Deleted, ClosedIsConfirmed
  <2>2. CASE reqs[q] \notin Closed
    <3>1. MarkSucceeded(w) /\ at[w].last /\ q = r
      <4>1. CASE MarkSucceeded(w)
        BY <2>2, <4>1 DEF MarkSucceeded, TypeOK
      <4>2. CASE NoteFailure(w)
        BY <2>2, <4>2 DEF NoteFailure, TypeOK, Closed
      <4>3. CASE ~MarkSucceeded(w) /\ ~NoteFailure(w)
        <5>1. reqs' = reqs
          BY <1>1, <4>3 DEF Work, ClaimDeletion, DeleteObject, DeleteFails, MarkFailed, CountOthers, Interrupt, requestVars
        <5> QED BY <2>2, <5>1
      <4> QED BY <4>1, <4>2, <4>3
    <3> QED BY <1>3, <3>1 DEF MarkSucceeded, Deleted, InHandDeleted, OthersDeleted, JobsOf
  <2> QED BY <2>1, <2>2
<1> QED BY <1>4, <1>7, <1>8, <1>9, <1>10 DEF Deleted

\* What the storage confirmed, and what workers and requests say of it.
THEOREM FulfilmentInvariant == Spec => []Deleted
<1>1. Init => Deleted
  BY DEF Init, Deleted, NoJobYet, SucceededDeleted, InHandDeleted, OthersDeleted, ClosedIsConfirmed, NoJob, Idle, Closed
<1>2. TypeOK /\ Busy /\ Seen /\ Deleted /\ [Next]_vars => Deleted'
  <2> SUFFICES ASSUME TypeOK, Busy, Seen, Deleted, [Next]_vars PROVE Deleted'
    OBVIOUS
  <2>1. CASE CandidateStep \/ OfferStep
    BY <2>1, DeletedByOthers DEF CandidateStep, OfferStep, PrepareCVUpload, CompleteCVUpload, SubmitInserts,
       SubmitCommits, SubmitFails, SubmitLocks, SaveReads, SaveLocks, SaveCommits, SaveFails, requestVars, workerVars
  <2>2. CASE EraseStep
    <3>1. CASE LockApplications \/ LockAccount \/ Inspect \/ EraseFails
      BY <3>1, DeletedByOthers DEF LockApplications, LockAccount, Inspect, EraseFails, requestVars, workerVars
    <3>2. ASSUME NEW r \in Requests, Wipe(r) PROVE Deleted'
      <4>1. account = "active"
        BY <3>2 DEF Wipe, Seen, StillActive
      <4> QED BY <3>2, <4>1, WipeDeleted
    <3> QED BY <2>2, <3>1, <3>2, RequestDeleted DEF EraseStep
  <2>3. CASE UNCHANGED vars
    BY <2>3, DeletedByOthers DEF vars
  <2> QED BY <2>1, <2>2, <2>3, Steps, RequestDeleted, WorkerDeleted
<1> QED BY <1>1, <1>2, ErasureTypes, ErasureInvariant, PTL DEF Spec

\* No request is closed before the storage confirmed all it stands for, however slow a
\* worker is.
THEOREM ErasureClosedIsConfirmed == Spec => []ClosedIsConfirmed
BY FulfilmentInvariant, PTL DEF Deleted

-----------------------------------------------------------------------------
\* With workers that are not slower than the retry delay, a job in somebody's hand is
\* in nobody else's, and its row shows where he is.
OneHand == \A v, w \in Workers : at[v].phase # "idle" /\ at[w].phase # "idle" /\ at[v].cv = at[w].cv => v = w

RowShows ==
    \A w \in Workers : at[w].phase # "idle" =>
        job[at[w].cv].status = IF at[w].phase = "noting" THEN "failed" ELSE "running"

OthersSucceeded ==
    \A w \in Workers : at[w].phase = "committing" /\ at[w].last =>
        \A k \in CVs \ {at[w].cv} : job[k].req = job[at[w].cv].req => job[k].status = "succeeded"

ClosedSucceeded ==
    \A r \in Requests : reqs[r] \in Closed => \A k \in JobsOf(r) : job[k].status = "succeeded"

InTime == OneHand /\ RowShows /\ OthersSucceeded /\ ClosedSucceeded

LEMMA InTimeByOthers ==
    ASSUME InTime, UNCHANGED <<reqs, job, at>>
    PROVE  InTime'
BY DEF InTime, OneHand, RowShows, OthersSucceeded, ClosedSucceeded, JobsOf

LEMMA RequestInTime ==
    ASSUME TypeOK, InTime, RequestStep \/ \E r \in Requests : RequireReview(r)
    PROVE  InTime' /\ \A q \in Requests : reqs[q] \in Closed => reqs'[q] = reqs[q]
<1>1. UNCHANGED <<job, at>>
  BY DEF RequestStep, CreateRequest, Transition, RequireReview, workerVars
<1>2. ASSUME NEW r \in Requests, CreateRequest(r) \/ RequireReview(r), NEW q \in Requests
      PROVE  (reqs'[q] \in Closed \/ reqs[q] \in Closed) => reqs'[q] = reqs[q]
  BY <1>2 DEF CreateRequest, RequireReview, Upserts, Closed, Unresolved, TypeOK
<1>3. ASSUME NEW r \in Requests, NEW target \in Statuses, Transition(r, target), NEW q \in Requests
      PROVE  /\ reqs[q] \in Closed => reqs'[q] = reqs[q]
             /\ reqs'[q] \in Closed => reqs[q] \in Closed \/ \A k \in JobsOf(q) : job[k].status = "succeeded"
  <2>1. reqs[r] \notin Closed
    BY <1>3 DEF Transition, Allowed, Closed
  <2>2. target \in Closed => \A k \in JobsOf(r) : job[k].status = "succeeded"
    BY <1>3 DEF Transition
  <2>3. reqs' = [reqs EXCEPT ![r] = target]
    BY <1>3 DEF Transition
  <2> QED BY <2>1, <2>2, <2>3 DEF TypeOK
<1>4. ClosedSucceeded'
  BY <1>1, <1>2, <1>3 DEF RequestStep, InTime, ClosedSucceeded, JobsOf
<1> QED BY <1>1, <1>2, <1>3, <1>4 DEF RequestStep, InTime, OneHand, RowShows, OthersSucceeded

LEMMA WipeInTime ==
    ASSUME TypeOK, Deleted, account = "active", NEW r \in Requests, Wipe(r)
    PROVE  InTime' /\ \A q \in Requests : reqs[q] \in Closed => reqs'[q] = reqs[q]
<1>1. \A k \in CVs : job'[k] = IF k \in erase.keys THEN [status |-> "pending", attempts |-> 0, req |-> r] ELSE NoJob
  BY DEF Wipe, Deleted, NoJobYet
<1>2. at' = at /\ \A w \in Workers : at[w].phase = "idle"
  BY DEF Wipe, workerVars, Deleted, NoJobYet, Idle
<1>3. \A q \in Requests : q # r \/ erase.keys = {} => JobsOf(q)' = {}
  BY <1>1, ErasureAssumption DEF JobsOf, NoJob
<1>4. \A q \in Requests : reqs'[q] \in Closed => q # r \/ erase.keys = {}
  BY DEF Wipe, Closed, TypeOK
<1>5. \A q \in Requests : reqs[q] \in Closed => reqs'[q] = reqs[q]
  BY DEF Wipe, Upserts, Closed, Unresolved, TypeOK
<1> QED BY <1>2, <1>3, <1>4, <1>5 DEF InTime, OneHand, RowShows, OthersSucceeded, ClosedSucceeded

LEMMA WorkerInTime ==
    ASSUME ~SlowWorkers, TypeOK, Busy, InTime, WorkerStep
    PROVE  InTime' /\ \A q \in Requests : reqs[q] \in Closed => reqs'[q] = reqs[q]
<1>1. PICK w \in Workers : Work(w) \/ Interrupt(w)
  BY DEF WorkerStep
<1> DEFINE k == at[w].cv
           r == job[k].req
<1>2. at \in [Workers -> Phased] /\ at' \in [Workers -> Phased] /\ Busy' /\ TypeOK'
  BY WorkerTypes DEF TypeOK, Phased
<1>3. /\ \A v \in Workers \ {w} : at'[v] = at[v]
      /\ at'[w].phase = "committing" =>
            at'[w].cv = k /\ at'[w].last = Done(r, JobsOf(r) \ {k})
  BY <1>1, WorkerMoves
<1>4. ASSUME at'[w].phase = "idle" \/ (at[w].phase # "idle" /\ at'[w].cv = k) PROVE OneHand'
  <2> SUFFICES ASSUME NEW v \in Workers, NEW u \in Workers, at'[v].phase # "idle", at'[u].phase # "idle",
                      at'[v].cv = at'[u].cv
               PROVE  v = u
    BY DEF OneHand
  <2>1. at[v].phase # "idle" /\ at[v].cv = at'[v].cv
    BY <1>4, <1>3
  <2>2. at[u].phase # "idle" /\ at[u].cv = at'[u].cv
    BY <1>4, <1>3
  <2> QED BY <2>1, <2>2 DEF InTime, OneHand
<1>5. CASE ClaimDeletion(w)
  <2>1. PICK c \in CVs : /\ Claimable(c)
                         /\ job' = [job EXCEPT ![c].status = "running", ![c].attempts = @ + 1]
                         /\ at' = [at EXCEPT ![w] = [Idle EXCEPT !.phase = "claimed", !.cv = c]]
    BY <1>5 DEF ClaimDeletion
  <2>2. \A v \in Workers : at[v].phase # "idle" => at[v].cv # c
    BY <2>1 DEF Claimable, RetryDue, InTime, RowShows
  <2>3. at'[w].phase = "claimed" /\ at'[w].cv = c
    BY <1>2, <2>1 DEF Idle
  <2>4. OneHand'
    BY <1>3, <2>2, <2>3 DEF InTime, OneHand
  <2>5. /\ \A d \in CVs \ {c} : job'[d] = job[d]
        /\ job'[c].status = "running" /\ job'[c].req = job[c].req
        /\ job[c].status # "succeeded"
    BY <2>1 DEF TypeOK, Claimable
  <2>6. RowShows'
    <3> SUFFICES ASSUME NEW v \in Workers, at'[v].phase # "idle"
                 PROVE  job'[at'[v].cv].status = IF at'[v].phase = "noting" THEN "failed" ELSE "running"
      BY DEF RowShows
    <3>1. CASE v = w
      BY <2>3, <2>5, <3>1
    <3>2. CASE v # w
      <4>1. at'[v] = at[v] /\ at[v].cv \in CVs \ {c}
        BY <1>3, <2>2, <3>2 DEF Busy
      <4> QED BY <2>5, <4>1 DEF InTime, RowShows
    <3> QED BY <3>1, <3>2
  <2>7. OthersSucceeded'
    <3> SUFFICES ASSUME NEW v \in Workers, at'[v].phase = "committing", at'[v].last,
                        NEW d \in CVs \ {at'[v].cv}, job'[d].req = job'[at'[v].cv].req
                 PROVE  job'[d].status = "succeeded"
      BY DEF OthersSucceeded
    <3>1. at'[v] = at[v] /\ at[v].cv \in CVs
      BY <1>3, <2>3 DEF Busy
    <3>2. job'[d].req = job[d].req /\ job'[at[v].cv].req = job[at[v].cv].req
      BY <2>5, <3>1
    <3>3. job[d].status = "succeeded"
      BY <3>1, <3>2 DEF InTime, OthersSucceeded
    <3> QED BY <2>5, <3>3
  <2>8. reqs' = reqs
    BY <1>5 DEF ClaimDeletion
  <2>9. ClosedSucceeded'
    BY <2>5, <2>8 DEF InTime, ClosedSucceeded, JobsOf
  <2> QED BY <2>4, <2>6, <2>7, <2>8, <2>9 DEF InTime
<1>6. CASE DeleteObject(w) \/ DeleteFails(w) \/ CountOthers(w)
  <2>1. UNCHANGED <<reqs, job>> /\ at[w].phase \in {"claimed", "deleted"}
    BY <1>6 DEF DeleteObject, DeleteFails, CountOthers, Moves, requestVars
  <2>2. at'[w].cv = k /\ at'[w].phase \in {"deleted", "failed", "committing"}
    BY <1>2, <1>6 DEF DeleteObject, DeleteFails, CountOthers, Moves, Phased
  <2>3. RowShows'
    <3>1. job[k].status = "running"
      BY <2>1 DEF InTime, RowShows
    <3> QED BY <1>3, <2>1, <2>2, <3>1 DEF InTime, RowShows
  <2>4. OthersSucceeded'
    <3> SUFFICES ASSUME NEW v \in Workers, at'[v].phase = "committing", at'[v].last,
                        NEW d \in CVs \ {at'[v].cv}, job[d].req = job[at'[v].cv].req
                 PROVE  job[d].status = "succeeded"
      BY <2>1 DEF OthersSucceeded
    <3>1. CASE v = w
      BY <1>3, <3>1 DEF Done, JobsOf
    <3>2. CASE v # w
      BY <1>3, <3>2 DEF InTime, OthersSucceeded
    <3> QED BY <3>1, <3>2
  <2> QED BY <1>4, <2>1, <2>2, <2>3, <2>4 DEF InTime, ClosedSucceeded, JobsOf
<1>7. CASE MarkFailed(w) \/ MarkSucceeded(w)
  <2>1. k \in CVs /\ job[k].status = "running"
    BY <1>7 DEF MarkFailed, MarkSucceeded, Moves, Busy, InTime, RowShows
  <2>2. /\ \A d \in CVs \ {k} : job'[d] = job[d]
        /\ job'[k].status = IF MarkFailed(w) THEN "failed" ELSE "succeeded"
        /\ job'[k].req = r
    BY <1>7, <2>1 DEF MarkFailed, MarkSucceeded, Moves, TypeOK
  <2>3. /\ at'[w].phase = IF MarkFailed(w) THEN "noting" ELSE "idle"
        /\ MarkFailed(w) => at'[w].cv = k
        /\ at[w].phase # "idle"
    BY <1>2, <1>7 DEF MarkFailed, MarkSucceeded, Moves, Phased, Idle
  <2>4. \A v \in Workers \ {w} : at'[v] = at[v] /\ (at[v].phase # "idle" => at[v].cv # k)
    BY <1>3, <2>3 DEF InTime, OneHand
  <2>5. RowShows'
    BY <1>2, <2>2, <2>3, <2>4 DEF InTime, RowShows, Busy
  <2>6. \A d \in CVs : job[d].status = "succeeded" => job'[d].status = "succeeded" /\ job'[d].req = job[d].req
    BY <2>1, <2>2
  <2>7. OthersSucceeded'
    BY <1>2, <2>2, <2>3, <2>4, <2>6 DEF InTime, OthersSucceeded, Busy
  <2>8. \A q \in Requests : reqs[q] \in Closed => reqs'[q] = reqs[q]
    BY <1>7 DEF MarkFailed, MarkSucceeded, Closed, TypeOK
  <2>9. \A q \in Requests : reqs'[q] \in Closed => reqs[q] \in Closed \/ (MarkSucceeded(w) /\ at[w].last /\ q = r)
    BY <1>7 DEF MarkFailed, MarkSucceeded, Closed, TypeOK
  <2>10. ASSUME NEW q \in Requests, reqs'[q] \in Closed, NEW d \in CVs, job'[d].req = q
         PROVE  job'[d].status = "succeeded"
    <3>1. job[d].req = q
      BY <2>2, <2>10
    <3>2. CASE reqs[q] \in Closed
      BY <2>6, <3>1, <3>2 DEF InTime, ClosedSucceeded, JobsOf
    <3>3. CASE MarkSucceeded(w) /\ at[w].last /\ q = r
      <4>1. ~MarkFailed(w)
        BY <3>3 DEF MarkSucceeded, MarkFailed, Moves
      <4> QED BY <2>2, <2>6, <3>1, <3>3, <4>1 DEF InTime, OthersSucceeded, MarkSucceeded
    <3> QED BY <2>9, <2>10, <3>2, <3>3
  <2> QED BY <1>4, <2>3, <2>5, <2>7, <2>8, <2>10 DEF InTime, ClosedSucceeded, JobsOf
<1>8. CASE NoteFailure(w) \/ Interrupt(w)
  <2>1. job' = job /\ at'[w].phase = "idle"
    BY <1>2, <1>8 DEF NoteFailure, Interrupt, Idle, requestVars
  <2>2. \A q \in Requests : (reqs[q] \in Closed \/ reqs'[q] \in Closed) => reqs'[q] = reqs[q]
    <3>1. CASE NoteFailure(w)
      <4>1. k \in CVs /\ job[k].status = "failed"
        BY <3>1 DEF NoteFailure, Busy, InTime, RowShows
      <4>2. \A q \in Requests : reqs[q] \in Closed => q # r
        BY <4>1 DEF InTime, ClosedSucceeded, JobsOf
      <4> QED BY <3>1, <4>2 DEF NoteFailure, Closed, TypeOK
    <3>2. CASE Interrupt(w)
      BY <3>2 DEF Interrupt, requestVars
    <3> QED BY <1>8, <3>1, <3>2
  <2>3. RowShows' /\ OthersSucceeded'
    BY <1>3, <2>1 DEF InTime, RowShows, OthersSucceeded
  <2> QED BY <1>4, <2>1, <2>2, <2>3 DEF InTime, ClosedSucceeded, JobsOf
<1> QED BY <1>1, <1>5, <1>6, <1>7, <1>8 DEF Work

\* With workers in time, what is closed has only succeeded jobs, and stays closed.
THEOREM ErasureClosedStays == ~SlowWorkers /\ Spec => ClosedStays
<1> SUFFICES ASSUME ~SlowWorkers PROVE Spec => ClosedStays
  OBVIOUS
<1>1. Init => InTime
  BY DEF Init, InTime, OneHand, RowShows, OthersSucceeded, ClosedSucceeded, Idle, Closed
<1>2. TypeOK /\ Busy /\ Seen /\ Deleted /\ InTime /\ [Next]_vars =>
         InTime' /\ [\A r \in Requests : reqs[r] \in Closed => reqs'[r] = reqs[r]]_vars
  <2> SUFFICES ASSUME TypeOK, Busy, Seen, Deleted, InTime, [Next]_vars
               PROVE  InTime' /\ \A r \in Requests : reqs[r] \in Closed => reqs'[r] = reqs[r]
    OBVIOUS
  <2>1. CASE CandidateStep \/ OfferStep
    BY <2>1, InTimeByOthers DEF CandidateStep, OfferStep, PrepareCVUpload, CompleteCVUpload, SubmitInserts,
       SubmitCommits, SubmitFails, SubmitLocks, SaveReads, SaveLocks, SaveCommits, SaveFails, requestVars, workerVars
  <2>2. CASE EraseStep
    <3>1. CASE LockApplications \/ LockAccount \/ Inspect \/ EraseFails
      BY <3>1, InTimeByOthers DEF LockApplications, LockAccount, Inspect, EraseFails, requestVars, workerVars
    <3>2. ASSUME NEW r \in Requests, Wipe(r)
          PROVE  InTime' /\ \A q \in Requests : reqs[q] \in Closed => reqs'[q] = reqs[q]
      <4>1. account = "active"
        BY <3>2 DEF Wipe, Seen, StillActive
      <4> QED BY <3>2, <4>1, WipeInTime
    <3> QED BY <2>2, <3>1, <3>2, RequestInTime DEF EraseStep
  <2>3. CASE UNCHANGED vars
    BY <2>3, InTimeByOthers DEF vars
  <2> QED BY <2>1, <2>2, <2>3, Steps, RequestInTime, WorkerInTime
<1> QED BY <1>1, <1>2, ErasureTypes, ErasureInvariant, FulfilmentInvariant, PTL DEF Spec, ClosedStays

=============================================================================
