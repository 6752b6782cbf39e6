-------------------------------- MODULE Outreach --------------------------------
(***************************************************************************)
(* Outreach of one company (internal/messaging, outreach.go and            *)
(* bulk_inmail.go): a campaign mails a sequence of steps to its            *)
(* candidates.  A launch is three transactions with reads in between, the  *)
(* middle one (BulkInMail) idempotent by the key the client sends; workers *)
(* in every API process send the later steps when they fall due.  Cold     *)
(* messages consume the plan's allowance (internal/company).               *)
(*                                                                         *)
(* Steps are at least an hour apart and a launch request ends earlier, so  *)
(* no step falls due while a launch runs (BecomeDue).  The hourly and      *)
(* daily limits on messages are one limit on one window.                   *)
(***************************************************************************)
EXTENDS Integers, FiniteSets

CONSTANTS
    Candidates,   \* those the campaign enrols
    Applicants,   \* those among them that may apply to a vacancy meanwhile
    LastStep,     \* steps of the sequence
    Requests,     \* launch requests at one time
    Workers,      \* API processes, each with one outreach worker
    KeysEach,     \* bound: idempotency keys the client of each recruiter makes up
    Plans,        \* [managed, outreach, limit, sequences]: effective subscriptions
    LastPeriod,   \* bound: billing periods
    MaxSequences, \* bound: sequences of the company
    WindowLimit,  \* AntiSpamPolicy, one window
    None

VARIABLES
    campaign,  \* its row: [status, owner, key]
    enrolled,  \* [Candidates -> row of outreach_campaign_enrollments]
    contact,   \* [Candidates -> ...]: what the company had to do with him
    batches,   \* bulk_inmail_batches: [LaunchKeys -> result \cup {None}]
    req,       \* [Requests -> ...]: a launch between two of its transactions
    due,       \* [Workers -> set of items]: what a pass has read
    plan, period,
    sequences,      \* rows of outreach_sequences
    charged, used,  \* subscription_usage_events: keys and sums by period
    window,    \* messages of the company within the window
    mailed,    \* [Candidates \X Steps -> Nat]: deliveries (history)
    owed,      \* cold messages sent under a managed plan, by period (history)
    consent    \* what became of the campaign since it was last asked for (history)

campaignVars == <<campaign, enrolled, batches, req, due>>
meterVars == <<plan, period, sequences, charged, used, owed>>
vars == <<campaignVars, meterVars, contact, window, mailed, consent>>

Steps == 1..LastStep
Periods == 0..LastPeriod
Recruiters == {"ann", "bob"}
LaunchKeys == Recruiters \X (1..KeysEach)

\* A row of outreach_campaign_enrollments. "replied": the candidate has written
\* to the thread after last_sent_at.
Enrolment(status, step) == [status |-> status, step |-> step, due |-> FALSE, replied |-> FALSE]

IdleRequest == [at |-> "idle"]

Init ==
    /\ campaign = [status |-> "none", owner |-> "ann", key |-> None]
    /\ enrolled = [c \in Candidates |-> Enrolment("pending", 1)]
    /\ contact = [c \in Candidates |-> "cold"]
    /\ batches = [k \in LaunchKeys |-> None]
    /\ req = [r \in Requests |-> IdleRequest]
    /\ due = [w \in Workers |-> {}]
    /\ plan \in Plans /\ period = 0 /\ sequences = 0
    /\ charged = {} /\ used = [p \in Periods |-> 0] /\ window = 0
    /\ mailed = [x \in Candidates \X Steps |-> 0]
    /\ owed = [p \in Periods |-> 0]
    /\ consent = "stopped"

InFlight == \E r \in Requests : req[r].at # "idle"

-----------------------------------------------------------------------------
(* The allowance                                                           *)

\* RequireFeatureTx: an unmanaged company has every feature.
MayReachOut == ~plan.managed \/ plan.outreach

\* Mutant: the key of a follow-up does not name its step.
FollowUpKeyOfEnrolment(c, step) == <<"followup", c, 0>>

FollowUpKey(c, step) == <<"followup", c, step>>

\* ConsumeOutreachTx: n cold messages under a key, in the caller's transaction.
Consume(n, key) ==
    LET free == n = 0 \/ ~plan.managed \/ <<key, period>> \in charged
    IN /\ n > 0 => MayReachOut
       /\ ~free => used[period] + n <= plan.limit
       /\ charged' = IF free THEN charged ELSE charged \cup {<<key, period>>}
       /\ used' = IF free THEN used ELSE [used EXCEPT ![period] = @ + n]
       /\ owed' = IF plan.managed THEN [owed EXCEPT ![period] = @ + n] ELSE owed
       /\ UNCHANGED <<plan, period, sequences>>

\* SetSubscription, an override, or the end of a period.
SetSubscription ==
    /\ plan' \in Plans
    /\ period' \in {period, period + 1} \cap Periods
    /\ UNCHANGED <<campaignVars, sequences, charged, used, owed, contact, window, mailed, consent>>

\* enforceBulkBudget.
WithinBudget(n) == window + n <= WindowLimit

WindowPasses ==
    /\ window > 0
    /\ window' = 0
    /\ UNCHANGED <<campaignVars, meterVars, contact, mailed, consent>>

-----------------------------------------------------------------------------
(* Other ways the company and the candidate meet                           *)

\* Initiate: a single message; metered unless they already have a relationship.
Initiate(c) ==
    /\ contact[c] # "recent"
    /\ contact' = [contact EXCEPT ![c] = "recent"]
    /\ Consume(IF contact[c] = "cold" THEN 1 ELSE 0, <<"initiate", c>>)
    /\ UNCHANGED <<campaignVars, window, mailed, consent>>

\* Fourteen days without a message of the company.
CooldownEnds(c) ==
    /\ contact[c] = "recent" /\ ~InFlight
    /\ contact' = [contact EXCEPT ![c] = "known"]
    /\ UNCHANGED <<campaignVars, meterVars, window, mailed, consent>>

Apply(c) ==
    /\ c \in Applicants /\ contact[c] = "cold"
    /\ contact' = [contact EXCEPT ![c] = "known"]
    /\ UNCHANGED <<campaignVars, meterVars, window, mailed, consent>>

\* SendMessage by the candidate, to a thread of the campaign.
Reply(c) ==
    /\ mailed[<<c, 1>>] > 0 /\ ~enrolled[c].replied
    /\ enrolled' = [enrolled EXCEPT ![c].replied = TRUE]
    /\ UNCHANGED <<campaign, batches, req, due, meterVars, contact, window, mailed, consent>>

-----------------------------------------------------------------------------
(* Campaign and launch                                                     *)

\* CreateOutreachSequence, under the company's lock (CheckCapacityTx): steps out of templates
\* of the recruiter's own.  A sequence stays as it is.
CreateSequence ==
    /\ MayReachOut
    /\ sequences < MaxSequences /\ (plan.managed => sequences < plan.sequences)
    /\ sequences' = sequences + 1
    /\ UNCHANGED <<campaignVars, plan, period, charged, used, owed, contact, window, mailed, consent>>

\* CreateOutreachCampaign, with the steps of a sequence.
CreateCampaign ==
    /\ campaign.status = "none" /\ sequences > 0
    /\ campaign' = [campaign EXCEPT !.status = "draft"]
    /\ UNCHANGED <<enrolled, batches, req, due, meterVars, contact, window, mailed, consent>>

\* LaunchOutreachCampaign reads the campaign; another key is a conflict, and a
\* campaign that is no draft answers what it answered before.
ReadCampaign(r) ==
    /\ req[r].at = "idle"
    /\ campaign.status = "draft"
    /\ \E k \in LaunchKeys :
          /\ k[1] = campaign.owner /\ campaign.key \in {None, k}
          /\ req' = [req EXCEPT ![r] =
                [at |-> IF campaign.key = None THEN "claim" ELSE "list",
                 by |-> campaign.owner, key |-> k, all |-> {}, sent |-> {}]]
    /\ consent' = "asked"
    /\ UNCHANGED <<campaign, enrolled, batches, due, meterVars, contact, window, mailed>>

\* Mutant: the key is claimed whoever holds it.
ClaimAnyKey(r) ==
    /\ req[r].at = "claim" /\ req[r].by = campaign.owner
    /\ campaign' = [campaign EXCEPT !.key = req[r].key]
    /\ req' = [req EXCEPT ![r].at = "list"]
    /\ UNCHANGED <<enrolled, batches, due, meterVars, contact, window, mailed, consent>>

\* The conditional UPDATE that claims the launch key, or the same key already there.
ClaimKey(r) ==
    /\ req[r].at = "claim" /\ req[r].by = campaign.owner
    /\ \/ /\ campaign.status = "draft" /\ campaign.key = None
          /\ campaign' = [campaign EXCEPT !.key = req[r].key]
       \/ /\ campaign.key = req[r].key
          /\ UNCHANGED campaign
    /\ req' = [req EXCEPT ![r].at = "list"]
    /\ UNCHANGED <<enrolled, batches, due, meterVars, contact, window, mailed, consent>>

ListPending(r) ==
    LET pending == {c \in Candidates : enrolled[c].status = "pending"}
    IN /\ req[r].at = "list" /\ pending # {}
       /\ req' = [req EXCEPT ![r].at = "mail", ![r].all = pending]
       /\ UNCHANGED <<campaign, enrolled, batches, due, meterVars, contact, window, mailed, consent>>

\* Mutant: a key is not looked up.
KnownNever(key) == FALSE

\* loadBulkIdempotentResult.
Known(key) == batches[key] # None

\* recordBulkBatch: the result by which the key is answered from now on.
Record(key, of, sent) == batches' = [batches EXCEPT ![key] = [of |-> of, sent |-> sent]]

\* BulkInMail, one transaction under the company's lock: a known key is answered
\* from its batch if the candidates are the same; else everybody is mailed to whom
\* the company has not written within the cooldown.  The sender is an active member
\* (Can), which one who handed over no longer is: transferResourcesTx is part of his
\* deactivation, and a request ends before he may be reactivated.
BulkInMail(r) ==
    LET q == req[r]
        sent == {c \in q.all : contact[c] # "recent"}
        cold == {c \in sent : contact[c] = "cold"}
        n == Cardinality(sent)
    IN /\ q.at = "mail" /\ q.by = campaign.owner
       /\ \/ /\ Known(q.key) /\ batches[q.key].of = q.all
             /\ req' = [req EXCEPT ![r].at = "record", ![r].sent = batches[q.key].sent]
             /\ UNCHANGED <<batches, meterVars, contact, window, mailed>>
          \/ /\ ~Known(q.key) /\ WithinBudget(n)
             /\ Consume(Cardinality(cold), <<"bulk", q.key>>)
             /\ Record(q.key, q.all, sent)
             /\ req' = [req EXCEPT ![r].at = "record", ![r].sent = sent]
             /\ contact' = [c \in Candidates |-> IF c \in sent THEN "recent" ELSE contact[c]]
             /\ mailed' = [x \in DOMAIN mailed |-> mailed[x] + (IF x[1] \in sent /\ x[2] = 1 THEN 1 ELSE 0)]
             /\ window' = window + n
       /\ UNCHANGED <<campaign, enrolled, due, consent>>

\* What a launch writes to an enrolment: next_run_at counts from now.
Launched(c, sent) ==
    IF c \notin sent THEN Enrolment("stopped", 1)
    ELSE Enrolment(IF LastStep = 1 THEN "completed" ELSE "active", 2)

\* A pause or a cancellation during the launch is written over.
WriteOver == consent' = IF consent = "stopped" THEN "undone" ELSE consent

\* Mutant: the owner is not read again.
RecordAnyOwner(r) ==
    LET q == req[r]
    IN /\ q.at = "record"
       /\ enrolled' = [c \in Candidates |-> IF c \in q.all THEN Launched(c, q.sent) ELSE enrolled[c]]
       /\ campaign' = [campaign EXCEPT !.status = IF LastStep = 1 THEN "completed" ELSE "running",
                                       !.key = q.key]
       /\ req' = [req EXCEPT ![r] = IdleRequest]
       /\ WriteOver
       /\ UNCHANGED <<batches, due, meterVars, contact, window, mailed>>

\* The last transaction of a launch locks the campaign and reads its owner again,
\* not its status.
RecordLaunch(r) ==
    LET q == req[r]
    IN /\ q.at = "record" /\ q.by = campaign.owner
       /\ enrolled' = [c \in Candidates |-> IF c \in q.all THEN Launched(c, q.sent) ELSE enrolled[c]]
       /\ campaign' = [campaign EXCEPT !.status = IF LastStep = 1 THEN "completed" ELSE "running",
                                       !.key = q.key]
       /\ req' = [req EXCEPT ![r] = IdleRequest]
       /\ WriteOver
       /\ UNCHANGED <<batches, due, meterVars, contact, window, mailed>>

\* A refusal, a lost connection or a crash between two transactions.
GiveUp(r) ==
    /\ req[r].at # "idle"
    /\ req' = [req EXCEPT ![r] = IdleRequest]
    /\ UNCHANGED <<campaign, enrolled, batches, due, meterVars, contact, window, mailed, consent>>

\* SetOutreachCampaignStatus. A launch under way does not look at the status again.
Pause ==
    /\ campaign.status = "running"
    /\ campaign' = [campaign EXCEPT !.status = "paused"]
    /\ consent' = "stopped"
    /\ UNCHANGED <<enrolled, batches, req, due, meterVars, contact, window, mailed>>

Resume ==
    /\ campaign.status = "paused"
    /\ campaign' = [campaign EXCEPT !.status = "running"]
    /\ consent' = "asked"
    /\ UNCHANGED <<enrolled, batches, req, due, meterVars, contact, window, mailed>>

Cancel ==
    /\ campaign.status \in {"draft", "running", "paused"}
    /\ campaign' = [campaign EXCEPT !.status = "cancelled"]
    /\ enrolled' = [c \in Candidates |->
          IF enrolled[c].status \in {"pending", "active"}
          THEN [enrolled[c] EXCEPT !.status = "stopped", !.due = FALSE] ELSE enrolled[c]]
    /\ consent' = "stopped"
    /\ UNCHANGED <<batches, req, due, meterVars, contact, window, mailed>>

\* Mutant: a campaign goes on under its new owner.
PausedNever(status) == status

Paused(status) == IF status = "running" THEN "paused" ELSE status

\* transferResourcesTx: campaign, conversations and the rest get a new owner.
HandOver ==
    /\ campaign.status # "none" /\ campaign.owner = "ann"
    /\ campaign' = [campaign EXCEPT !.owner = "bob", !.status = Paused(@)]
    /\ consent' = "handed"
    /\ UNCHANGED <<enrolled, batches, req, due, meterVars, contact, window, mailed>>

-----------------------------------------------------------------------------
(* ProcessDueOutreach                                                      *)

IsDue(c) == campaign.status = "running" /\ enrolled[c].status = "active" /\ enrolled[c].due

\* next_run_at passes: an hour at least after it was set.
BecomeDue(c) ==
    /\ enrolled[c].status = "active" /\ ~enrolled[c].due /\ ~InFlight
    /\ enrolled' = [enrolled EXCEPT ![c].due = TRUE]
    /\ UNCHANGED <<campaign, batches, req, due, meterVars, contact, window, mailed, consent>>

\* A pass reads what is due, without a lock.
StartPass(w) ==
    LET items == {[cand |-> c, step |-> enrolled[c].step, by |-> campaign.owner] : c \in {x \in Candidates : IsDue(x)}}
    IN /\ due[w] = {} /\ items # {}
       /\ due' = [due EXCEPT ![w] = items]
       /\ UNCHANGED <<campaign, enrolled, batches, req, meterVars, contact, window, mailed, consent>>

Drop(w, i) == due' = [due EXCEPT ![w] = @ \ {i}]

\* The candidate has answered: the first look writes by id alone.
StopOnReply(w, i) ==
    /\ enrolled[i.cand].replied
    /\ enrolled' = [enrolled EXCEPT ![i.cand].status = "stopped", ![i.cand].due = FALSE]
    /\ Drop(w, i)
    /\ UNCHANGED <<campaign, batches, req, meterVars, contact, window, mailed, consent>>

\* The step's template cannot be filled in: written by id alone, too.
RenderFails(w, i) ==
    /\ enrolled' = [enrolled EXCEPT ![i.cand].status = "failed", ![i.cand].due = FALSE]
    /\ Drop(w, i)
    /\ UNCHANGED <<campaign, batches, req, meterVars, contact, window, mailed, consent>>

\* Mutant: the rows are not read again under their lock.
StillDueAsRead(i) == ~enrolled[i.cand].replied

\* FOR UPDATE of the enrolment and its campaign, and everything read again.
StillDue(i) ==
    /\ IsDue(i.cand) /\ enrolled[i.cand].step = i.step /\ ~enrolled[i.cand].replied

\* The conversation has moved to another recruiter: taken for a closed thread.
StopClosed(w, i) ==
    /\ StillDue(i) /\ MayReachOut /\ WithinBudget(1) /\ i.by # campaign.owner
    /\ enrolled' = [enrolled EXCEPT ![i.cand].status = "stopped", ![i.cand].due = FALSE]
    /\ Drop(w, i)
    /\ UNCHANGED <<campaign, batches, req, meterVars, contact, window, mailed, consent>>

\* The anti-spam limit: an hour later.
Postpone(w, i) ==
    /\ StillDue(i) /\ MayReachOut /\ ~WithinBudget(1)
    /\ enrolled' = [enrolled EXCEPT ![i.cand].due = FALSE]
    /\ Drop(w, i)
    /\ UNCHANGED <<campaign, batches, req, meterVars, contact, window, mailed, consent>>

Advanced(i) ==
    LET c == enrolled[i.cand]
    IN IF i.step = LastStep THEN [c EXCEPT !.status = "completed", !.step = i.step + 1, !.due = FALSE]
       ELSE [c EXCEPT !.step = i.step + 1, !.due = FALSE]

\* One transaction: message, ledger, next step and allowance.
FollowUp(w, i) ==
    /\ StillDue(i) /\ MayReachOut /\ WithinBudget(1) /\ i.by = campaign.owner
    /\ Consume(1, FollowUpKey(i.cand, i.step))
    /\ enrolled' = [enrolled EXCEPT ![i.cand] = Advanced(i)]
    /\ contact' = [contact EXCEPT ![i.cand] = "recent"]
    /\ window' = window + 1
    /\ mailed' = [mailed EXCEPT ![<<i.cand, i.step>>] = @ + 1]
    /\ Drop(w, i)
    /\ UNCHANGED <<campaign, batches, req, consent>>

\* Overtaken, the plan or its allowance does not permit it, or the pass ended early.
Skip(w, i) ==
    /\ Drop(w, i)
    /\ UNCHANGED <<campaign, enrolled, batches, req, meterVars, contact, window, mailed, consent>>

\* The statement at the end of a pass.
CompleteCampaigns ==
    /\ campaign.status = "running"
    /\ \A c \in Candidates : enrolled[c].status \notin {"pending", "active"}
    /\ campaign' = [campaign EXCEPT !.status = "completed"]
    /\ UNCHANGED <<enrolled, batches, req, due, meterVars, contact, window, mailed, consent>>

Deliver(w, i) ==
    \/ StopOnReply(w, i) \/ RenderFails(w, i) \/ StopClosed(w, i) \/ Postpone(w, i)
    \/ FollowUp(w, i) \/ Skip(w, i)

Launching(r) == ReadCampaign(r) \/ ClaimKey(r) \/ ListPending(r) \/ BulkInMail(r) \/ RecordLaunch(r) \/ GiveUp(r)

Next ==
    \/ SetSubscription \/ WindowPasses
    \/ \E c \in Candidates : Initiate(c) \/ CooldownEnds(c) \/ Apply(c) \/ Reply(c) \/ BecomeDue(c)
    \/ CreateSequence \/ CreateCampaign \/ Pause \/ Resume \/ Cancel \/ HandOver \/ CompleteCampaigns
    \/ \E r \in Requests : Launching(r)
    \/ \E w \in Workers : StartPass(w) \/ \E i \in due[w] : Deliver(w, i)

Spec == Init /\ [][Next]_vars

-----------------------------------------------------------------------------
(* Properties                                                              *)

\* Every variable keeps its shape.
TypeOK ==
    /\ campaign.status \in {"none", "draft", "running", "paused", "completed", "cancelled"}
    /\ \A c \in Candidates : enrolled[c].step \in 1..LastStep + 1
    /\ contact \in [Candidates -> {"cold", "known", "recent"}]
    /\ window \in 0..WindowLimit /\ period \in Periods

\* A candidate gets a step of the campaign once, however often a launch is
\* repeated or taken up after a crash and whatever two workers read.
StepSentOnce == \A x \in DOMAIN mailed : mailed[x] <= 1

\* What is sent under a managed plan is counted in its period, once, and nothing is
\* sent beyond the allowance of the moment.
MeteredWithinLimit ==
    [][/\ used'[period] = used[period] + (owed'[period] - owed[period])
       /\ used' # used => used'[period] <= plan.limit]_vars

\* "Campaigns pause so a new owner cannot trigger sends" (resource_transfer.go:33):
\* after a hand-over nothing goes out until the new owner asks for it. After a pause
\* or a cancellation no later step goes out, and the first one only by a launch that
\* was under way; once such a launch has recorded its result, the campaign runs again.
SentWithConsent ==
    [][\A x \in DOMAIN mailed : mailed'[x] # mailed[x] =>
          consent \in {"asked", "undone"} \/ (consent = "stopped" /\ x[2] = 1)]_vars

=============================================================================
