----------------------------- MODULE EmailOutbox -----------------------------
(***************************************************************************)
(* The transactional email outbox (backend/internal/emaildelivery) and the *)
(* invitations that are queued through it.  Request handlers insert rows;  *)
(* every API process runs one delivery worker that expires sensitive       *)
(* content, recovers leases, claims a batch in one transaction and then    *)
(* dispatches the batch row by row, with no transaction open across the    *)
(* provider calls.                                                         *)
(*                                                                         *)
(* Time is abstracted to three facts per row that the SQL tests: when      *)
(* next_attempt_at falls ("now", after a "backoff", or at the "expiry" of  *)
(* the row), expired (expires_at <= now) and leaseOver (updated_at <       *)
(* now - 5 minutes).  Module EmailLease keeps the real durations.          *)
(***************************************************************************)
EXTENDS Naturals, FiniteSets

CONSTANTS
    Messages,       \* outbox rows, one per dedupe_key
    Invitations,    \* the rows that are successive tokens of one referral
    Recipients,     \* addresses, compared in lower case by the code
    RecipientOf,    \* [Messages -> Recipients]
    Workers,        \* API processes, each with one delivery worker
    EnabledWorkers, \* those with EMAIL_DELIVERY_ENABLED and a provider
    MaxAttempts,    \* cfg.MaxAttempts
    BatchSize,      \* cfg.BatchSize
    SlowWorkers,    \* TRUE: a live worker may hold a claim past its lease
    NoItem          \* "this worker is dispatching nothing"

Bodies == {"text", "redacted"}
Statuses == {"absent", "pending", "sending", "sent", "failed", "suppressed", "expired"}
Terminal == {"sent", "suppressed", "expired"}
Steps == {"idle", "claim", "dispatch", "provider", "resolve", "send", "record", "fail", "suppress"}

\* What a worker holds of a claimed row: queuedMessage, read at the claim.
Items == [msg : Messages, attempt : 1..MaxAttempts, body : Bodies]

ASSUME OutboxAssumption ==
    /\ Invitations \subseteq Messages
    /\ RecipientOf \in [Messages -> Recipients]
    /\ EnabledWorkers \subseteq Workers
    /\ MaxAttempts \in Nat \ {0}
    /\ BatchSize \in Nat \ {0}
    /\ SlowWorkers \in BOOLEAN
    /\ NoItem \notin Items

VARIABLES
    status, attempts, body,     \* columns of email_outbox
    nextAttempt, expired, leaseOver, \* the clock, as the SQL conditions see it
    localSup,                   \* email_suppressions
    providerSup,                \* the provider's own suppression list
    referral,                   \* the referral the invitations belong to
    current,                    \* the invitation whose nonce the referral holds
    pc, batch, cur,             \* a worker: its step, claimed rows, row in hand
    submitted,                  \* what the provider accepted (history)
    excused                     \* invitations superseded after being resolved (history)

row == <<status, attempts, body>>
clock == <<nextAttempt, expired, leaseOver>>
supp == <<localSup, providerSup>>
worker == <<pc, batch, cur>>
history == <<submitted, excused>>
invite == <<referral, current>>
vars == <<row, clock, supp, invite, worker, history>>

\* Every variable keeps its shape, and no row is tried more often than allowed.
TypeOK ==
    /\ status \in [Messages -> Statuses]
    /\ attempts \in [Messages -> 0..MaxAttempts]
    /\ body \in [Messages -> Bodies]
    /\ nextAttempt \in [Messages -> {"now", "backoff", "expiry"}]
    /\ expired \in [Messages -> BOOLEAN]
    /\ leaseOver \in [Messages -> BOOLEAN]
    /\ localSup \subseteq Recipients
    /\ providerSup \subseteq Recipients
    /\ referral \in {"none", "open", "declined", "applied", "cancelled"}
    /\ current \subseteq Invitations
    /\ pc \in [Workers -> Steps]
    /\ batch \in [Workers -> SUBSET Items]
    /\ cur \in [Workers -> Items \cup {NoItem}]
    /\ submitted \subseteq Items
    /\ excused \subseteq Invitations

Init ==
    /\ status = [m \in Messages |-> "absent"]
    /\ attempts = [m \in Messages |-> 0]
    /\ body = [m \in Messages |-> "text"]
    /\ nextAttempt = [m \in Messages |-> "now"]
    /\ expired = [m \in Messages |-> FALSE]
    /\ leaseOver = [m \in Messages |-> FALSE]
    /\ localSup = {}
    /\ providerSup = {}
    /\ referral = "none"
    /\ current = {}
    /\ pc = [w \in Workers |-> "idle"]
    /\ batch = [w \in Workers |-> {}]
    /\ cur = [w \in Workers |-> NoItem]
    /\ submitted = {}
    /\ excused = {}

\* Everything worker w has claimed and not finished with.
Held(w) == batch[w] \cup ({cur[w]} \ {NoItem})
HeldBy(w, m) == \E i \in Held(w) : i.msg = m

-----------------------------------------------------------------------------
(* Request handlers.                                                       *)

\* A security email: INSERT ... ON CONFLICT (dedupe_key) DO NOTHING.
EnqueueSecurityEmail(m) ==
    /\ m \notin Invitations
    /\ status[m] = "absent"
    /\ status' = [status EXCEPT ![m] = "pending"]
    /\ UNCHANGED <<attempts, body, clock, supp, invite, worker, history>>

\* Invitations past the resolver when their token is replaced, or already out.
InFlight == {m \in Invitations :
                \/ \E w \in Workers : pc[w] = "send" /\ cur[w].msg = m
                \/ \E i \in submitted : i.msg = m}

Queued == {m \in Invitations : status[m] \in {"pending", "failed"}}

\* ReferralLink(resend): a fresh nonce, older queued rows expired, one row
\* queued for the new nonce, all in one transaction.
SendInvitation(m) ==
    /\ m \in Invitations
    /\ status[m] = "absent"
    /\ referral \in {"none", "open"}
    /\ referral' = "open"
    /\ current' = {m}
    /\ status' = [n \in Messages |-> IF n = m THEN "pending"
                                     ELSE IF n \in Queued THEN "expired" ELSE status[n]]
    /\ body' = [n \in Messages |-> IF n \in Queued THEN "redacted" ELSE body[n]]
    /\ excused' = excused \cup InFlight
    /\ UNCHANGED <<attempts, clock, supp, worker, submitted>>

\* CancelReferralInvitation: also after the candidate declined.
CancelInvitation ==
    /\ referral \in {"open", "declined"}
    /\ referral' = "cancelled"
    /\ current' = {}
    /\ status' = [n \in Messages |-> IF n \in Queued THEN "expired" ELSE status[n]]
    /\ body' = [n \in Messages |-> IF n \in Queued THEN "redacted" ELSE body[n]]
    /\ excused' = excused \cup InFlight
    /\ UNCHANGED <<attempts, clock, supp, worker, submitted>>

\* CandidateReferral with a link that is still valid: decline or apply.  The
\* queued rows stay; only the resolver will refuse them.
CandidateAnswers ==
    /\ referral = "open"
    /\ \E m \in current : ~expired[m]
    /\ referral' \in {"declined", "applied"}
    /\ current' = {}
    /\ excused' = excused \cup InFlight
    /\ UNCHANGED <<row, clock, supp, worker, submitted>>

-----------------------------------------------------------------------------
(* The delivery worker: Run, DispatchPass, claim, dispatchOne.             *)

\* Mutant: failed rows are left to the retry schedule.
LapsedKeepsFailed == {m \in Messages : status[m] \in {"pending", "sending"} /\ expired[m]}

\* expireSensitiveContent runs even where delivery is disabled.
Lapsed == {m \in Messages : status[m] \in {"pending", "failed", "sending"} /\ expired[m]}

ExpireSensitiveContent(w) ==
    /\ pc[w] = "idle"
    /\ status' = [m \in Messages |-> IF m \in Lapsed THEN "expired" ELSE status[m]]
    /\ body' = [m \in Messages |-> IF m \in Lapsed THEN "redacted" ELSE body[m]]
    /\ leaseOver' = [m \in Messages |-> leaseOver[m] /\ m \notin Lapsed]
    /\ pc' = [pc EXCEPT ![w] = IF w \in EnabledWorkers THEN "claim" ELSE "idle"]
    /\ UNCHANGED <<attempts, nextAttempt, expired, supp, invite, batch, cur, history>>

\* Mutant: every row in sending is taken for a dead worker's.
RecoveredNoLease == {m \in Messages : status[m] = "sending"}

\* First half of claim: rows left in sending by a dead worker become failed.
Recovered == {m \in Messages : status[m] = "sending" /\ leaseOver[m]}

\* Mutant: the claim does not look at expires_at.
ClaimableExpired == {m \in Messages :
                /\ \/ status[m] \in {"pending", "failed"} /\ nextAttempt[m] = "now"
                   \/ m \in Recovered
                /\ attempts[m] < MaxAttempts}

\* Mutant: one attempt too many.
ClaimableExhausted == {m \in Messages :
                /\ \/ status[m] \in {"pending", "failed"} /\ nextAttempt[m] = "now"
                   \/ m \in Recovered
                /\ ~expired[m]
                /\ attempts[m] <= MaxAttempts}

\* Second half: what FOR UPDATE SKIP LOCKED may return, after the recovery.
Claimable == {m \in Messages :
                /\ \/ status[m] \in {"pending", "failed"} /\ nextAttempt[m] = "now"
                   \/ m \in Recovered
                /\ ~expired[m]
                /\ attempts[m] < MaxAttempts}

\* Mutant: taking over a row after its lease is not a new attempt.
RecoveryIsFree(m) == IF m \in Recovered THEN attempts[m] ELSE attempts[m] + 1

\* attempts=attempts+1 in the row, item.Attempts++ in the worker.
NextAttempt(m) == attempts[m] + 1

\* One transaction.  SKIP LOCKED may hide rows another claim has locked, so
\* any non-empty part of the claimable rows can come back.
Claim(w) ==
    /\ pc[w] = "claim"
    /\ \E S \in SUBSET Claimable :
        /\ Cardinality(S) <= BatchSize
        /\ (S = {}) => (Claimable = {})
        /\ status' = [m \in Messages |-> IF m \in S THEN "sending"
                                         ELSE IF m \in Recovered THEN "failed" ELSE status[m]]
        /\ attempts' = [m \in Messages |-> IF m \in S THEN NextAttempt(m) ELSE attempts[m]]
        /\ batch' = [batch EXCEPT ![w] =
                        {[msg |-> m, attempt |-> NextAttempt(m), body |-> body[m]] : m \in S}]
    /\ nextAttempt' = [m \in Messages |-> IF m \in Recovered THEN "now" ELSE nextAttempt[m]]
    /\ leaseOver' = [m \in Messages |-> leaseOver[m] /\ m \notin Recovered]
    /\ pc' = [pc EXCEPT ![w] = "dispatch"]
    /\ UNCHANGED <<body, expired, supp, invite, cur, history>>

\* The loop of DispatchPass takes the next row; dispatchOne first looks the
\* recipient up in email_suppressions.
StartDispatch(w) ==
    /\ pc[w] = "dispatch"
    /\ \E i \in batch[w] :
        /\ batch' = [batch EXCEPT ![w] = @ \ {i}]
        /\ cur' = [cur EXCEPT ![w] = i]
        /\ pc' = [pc EXCEPT ![w] = IF RecipientOf[i.msg] \in localSup THEN "suppress" ELSE "provider"]
    /\ UNCHANGED <<row, clock, supp, invite, history>>

EndPass(w) ==
    /\ pc[w] = "dispatch"
    /\ batch[w] = {}
    /\ pc' = [pc EXCEPT ![w] = "idle"]
    /\ UNCHANGED <<row, clock, supp, invite, batch, cur, history>>

\* SESProvider.Suppression: what the provider says of an address, if it answers.
Suppression(r) == {"error", IF r \in providerSup THEN "suppressed" ELSE "clear"}

\* An error fails the attempt, a hit is stored locally before the row is marked.
CheckProvider(w) ==
    /\ pc[w] = "provider"
    /\ LET r == RecipientOf[cur[w].msg] IN
        \E answer \in Suppression(r) :
            \/ /\ answer = "error"
               /\ pc' = [pc EXCEPT ![w] = "fail"]
               /\ UNCHANGED localSup
            \/ /\ answer = "suppressed"
               /\ localSup' = localSup \cup {r}
               /\ pc' = [pc EXCEPT ![w] = "suppress"]
            \/ /\ answer = "clear"
               /\ pc' = [pc EXCEPT ![w] = IF cur[w].msg \in Invitations THEN "resolve" ELSE "send"]
               /\ UNCHANGED localSup
    /\ UNCHANGED <<row, clock, providerSup, invite, batch, cur, history>>

\* Mutant: the resolver only looks at the expiry, not at the nonce.
ResolveAnyNonce(w) ==
    /\ pc[w] = "resolve"
    /\ ~expired[cur[w].msg]
    /\ cur' = [cur EXCEPT ![w].body = "text"]
    /\ pc' = [pc EXCEPT ![w] = "send"]
    /\ UNCHANGED <<row, clock, supp, invite, batch, history>>

\* ReferralDelivery refuses a nonce the referral no longer holds and an expired one.
ReferralDelivery(m) ==
    {"error", IF m \in current /\ ~expired[m] THEN "content" ELSE "unavailable"}

\* The content of an invitation is rebuilt at delivery.
ResolveContent(w) ==
    /\ pc[w] = "resolve"
    /\ \E answer \in ReferralDelivery(cur[w].msg) :
        \/ /\ answer = "content"
           /\ cur' = [cur EXCEPT ![w].body = "text"]
           /\ pc' = [pc EXCEPT ![w] = "send"]
        \/ /\ answer = "unavailable"
           /\ pc' = [pc EXCEPT ![w] = "suppress"]
           /\ UNCHANGED cur
        \/ /\ answer = "error"
           /\ pc' = [pc EXCEPT ![w] = "fail"]
           /\ UNCHANGED cur
    /\ UNCHANGED <<row, clock, supp, invite, batch, history>>

\* SESProvider.Send: what the provider has accepted afterwards. An error may come back
\* although it accepted the message: the answer was lost or late.
ProviderSend(i) ==
    {[accepted |-> submitted \cup {i}, ok |-> TRUE],
     [accepted |-> submitted \cup {i}, ok |-> FALSE],
     [accepted |-> submitted, ok |-> FALSE]}

Send(w) ==
    /\ pc[w] = "send"
    /\ \E answer \in ProviderSend(cur[w]) :
        /\ submitted' = answer.accepted
        /\ pc' = [pc EXCEPT ![w] = IF answer.ok THEN "record" ELSE "fail"]
    /\ UNCHANGED <<row, clock, supp, invite, batch, cur, excused>>

\* Mutant: the row just finished stays in the worker's hands.
FinishKeepsRow(w) ==
    /\ cur' = cur
    /\ pc' = [pc EXCEPT ![w] = "provider"]
    /\ leaseOver' = [leaseOver EXCEPT ![cur[w].msg] = FALSE]

\* The three ways dispatchOne writes its outcome; none looks at the row's
\* present status or attempt count.
Finish(w) ==
    /\ cur' = [cur EXCEPT ![w] = NoItem]
    /\ pc' = [pc EXCEPT ![w] = "dispatch"]
    /\ leaseOver' = [leaseOver EXCEPT ![cur[w].msg] = FALSE]

RecordSent(w) ==
    /\ pc[w] = "record"
    /\ status' = [status EXCEPT ![cur[w].msg] = "sent"]
    /\ body' = [body EXCEPT ![cur[w].msg] = "redacted"]
    /\ Finish(w)
    /\ UNCHANGED <<attempts, nextAttempt, expired, supp, invite, batch, history>>

MarkSuppressed(w) ==
    /\ pc[w] = "suppress"
    /\ status' = [status EXCEPT ![cur[w].msg] = "suppressed"]
    /\ body' = [body EXCEPT ![cur[w].msg] = "redacted"]
    /\ Finish(w)
    /\ UNCHANGED <<attempts, nextAttempt, expired, supp, invite, batch, history>>

MarkFailed(w) ==
    /\ pc[w] = "fail"
    /\ LET m == cur[w].msg
           final == cur[w].attempt >= MaxAttempts
       IN /\ status' = [status EXCEPT ![m] = "failed"]
          /\ body' = [body EXCEPT ![m] = IF final THEN "redacted" ELSE @]
          /\ nextAttempt' = [nextAttempt EXCEPT ![m] =
                IF expired[m] THEN "now" ELSE IF final THEN "expiry" ELSE "backoff"]
    /\ Finish(w)
    /\ UNCHANGED <<attempts, expired, supp, invite, batch, history>>

\* A database error makes dispatchOne return: the row stays in sending.
Abandon(w) ==
    /\ cur[w] # NoItem
    /\ cur' = [cur EXCEPT ![w] = NoItem]
    /\ pc' = [pc EXCEPT ![w] = "dispatch"]
    /\ UNCHANGED <<row, clock, supp, invite, batch, history>>

\* The process stops anywhere (deploy, crash) and starts again.
Restart(w) ==
    /\ pc[w] # "idle"
    /\ pc' = [pc EXCEPT ![w] = "idle"]
    /\ batch' = [batch EXCEPT ![w] = {}]
    /\ cur' = [cur EXCEPT ![w] = NoItem]
    /\ UNCHANGED <<row, clock, supp, invite, history>>

\* SESProvider.Suppressions: every page of the list; of one that fails nothing is used.
Suppressions == providerSup

\* SyncSuppressions copies the list row by row, until one cannot be written; Run calls it
\* between passes.
SyncSuppressions(w) ==
    /\ pc[w] = "idle"
    /\ w \in EnabledWorkers
    /\ \E items \in SUBSET (Suppressions \ localSup) :
          items # {} /\ localSup' = localSup \cup items
    /\ UNCHANGED <<row, clock, providerSup, invite, worker, history>>

-----------------------------------------------------------------------------
(* The environment.                                                        *)

BecomeDue(m) ==
    /\ status[m] = "failed"
    /\ nextAttempt[m] = "backoff"
    /\ nextAttempt' = [nextAttempt EXCEPT ![m] = "now"]
    /\ UNCHANGED <<row, expired, leaseOver, supp, invite, worker, history>>

Expire(m) ==
    /\ status[m] # "absent"
    /\ ~expired[m]
    /\ expired' = [expired EXCEPT ![m] = TRUE]
    /\ nextAttempt' = [nextAttempt EXCEPT ![m] = "now"]
    /\ UNCHANGED <<row, leaseOver, supp, invite, worker, history>>

\* Five minutes pass on a row in sending.  Unless SlowWorkers, that only
\* happens to a claim no live worker is still working on.
LeaseRunsOut(m) ==
    /\ status[m] = "sending"
    /\ ~leaseOver[m]
    /\ SlowWorkers \/ \A w \in Workers : ~HeldBy(w, m)
    /\ leaseOver' = [leaseOver EXCEPT ![m] = TRUE]
    /\ UNCHANGED <<row, nextAttempt, expired, supp, invite, worker, history>>

ProviderSuppresses(r) ==
    /\ r \notin providerSup
    /\ providerSup' = providerSup \cup {r}
    /\ UNCHANGED <<row, clock, localSup, invite, worker, history>>

-----------------------------------------------------------------------------
WorkerStep(w) ==
    \/ ExpireSensitiveContent(w) \/ Claim(w) \/ StartDispatch(w) \/ EndPass(w)
    \/ CheckProvider(w) \/ ResolveContent(w) \/ Send(w)
    \/ RecordSent(w) \/ MarkSuppressed(w) \/ MarkFailed(w)

Next ==
    \/ \E m \in Messages : EnqueueSecurityEmail(m) \/ SendInvitation(m)
    \/ CancelInvitation
    \/ CandidateAnswers
    \/ \E w \in Workers : WorkerStep(w) \/ Abandon(w) \/ Restart(w) \/ SyncSuppressions(w)
    \/ \E m \in Messages : BecomeDue(m) \/ Expire(m) \/ LeaseRunsOut(m)
    \/ \E r \in Recipients : ProviderSuppresses(r)

Spec == Init /\ [][Next]_vars

\* Every call of a worker returns (the provider client has a timeout), the
\* ticker starts the next pass, and time passes.  Nothing makes the provider
\* accept a message, a process stay up, or a handler run.
Fairness ==
    /\ \A w \in Workers : WF_vars(WorkerStep(w) \/ Abandon(w) \/ Restart(w))
    /\ \A m \in Messages : WF_vars(Expire(m))

FairSpec == Spec /\ Fairness

-----------------------------------------------------------------------------
(* Properties.                                                             *)

SameAttempt(i, j) == i.msg = j.msg /\ i.attempt = j.attempt

\* The items a worker may still hand to the provider.
Unsent(w) == batch[w] \cup (IF pc[w] \in {"provider", "resolve", "send"} THEN {cur[w]} ELSE {})

\* One attempt of a row is never worked on by two workers, and is handed to
\* the provider at most once, however late a worker is: the claim counts the
\* attempt in the transaction that takes the row (service.go:164-172).
AttemptSubmittedOnce ==
    /\ \A v, w \in Workers : \A i \in Held(v), j \in Held(w) :
            SameAttempt(i, j) => v = w /\ i = j
    /\ \A w \in Workers : \A i \in Unsent(w), s \in submitted : ~SameAttempt(i, s)
    /\ \A s, t \in submitted : SameAttempt(s, t) => s = t
    /\ \A s \in submitted : s.attempt <= attempts[s.msg]

\* Nobody is mailed the text that replaces an erased code or link: a row is
\* not claimed any more once its body is redacted (service.go:115, 243, 264, 278).
NoRedactedDelivery == \A s \in submitted : s.body = "text"

\* A row recorded as sent or suppressed keeps that outcome, although the
\* updates that write outcomes do not look at the status (service.go:243, 264, 278, 281).
OutcomeIsFinal ==
    [][\A m \in Messages : status[m] \in {"sent", "suppressed"} => status'[m] = status[m]]_vars

\* A replaced or cancelled invitation is not mailed later, unless a worker had
\* already resolved its content when it was replaced.
SupersededStaysSilent ==
    \A s \in submitted : s.msg \in Invitations \ current => s.msg \in excused

\* Every queued row reaches a final status and loses its content for good, even
\* when delivery is disabled, keeps failing, or workers keep crashing.
Settles ==
    \A m \in Messages :
        status[m] # "absent" ~> [](status[m] \in Terminal /\ body[m] = "redacted")

=============================================================================
