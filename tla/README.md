# SapienWorx: models and proofs

TLA+ models of the SapienWorx backend (`backend/`, Go), checked by TLC on small
instances, with theorems proved by TLAPS for all instances. The source is the
reference: every definition that models code is listed in `PROJECT.json` ("map")
with the lines it stands for. Paths below are relative to the root of the
repository; Go packages are under `backend/internal/`.

Contents: [the system](#the-system), [inventory](#inventory),
[conventions](#conventions), [modules](#modules), [runs](#runs),
[fairness](#fairness), [proofs](#proofs), [what the models
show](#what-the-models-show-about-the-code), [plan](#plan),
[not modelled](#not-modelled).

## The system

SapienWorx is a recruiting platform: candidates keep a profile and a CV and apply
to vacancies; recruiters of verified companies run a hiring process up to an
offer; administrators govern both. It consists of

- a PostgreSQL database, which holds nearly all state (`database/migrations`,
  with constraints, partial unique indexes and triggers that the code relies on);
- the API process (`cmd/api`), of which several copies may run. Its handlers are
  transactions; beside them it starts periodic loops: the email worker, the
  privacy fulfilment pass (each minute), the expiry of offers and the
  saved-search alerts (each hour);
- the intelligence process (`cmd/intelligence`), which consumes events that
  database triggers insert and writes matches, recommendations and evaluations;
- external services: SES for mail, an object store for CVs, OpenAI behind the AI
  gateway;
- a Next.js web client.

What makes it hard is not in one process. Transactions interleave at their row
locks; workers claim rows under leases that time may run out on; a provider's
answer may be lost after it acted; a process may die between any two statements;
screens and decisions are old when they arrive; a flag an administrator flips
changes what work in progress may do. The handlers know these and answer each
with its own device: `FOR UPDATE` and `SKIP LOCKED`, leases, dedupe and
idempotency keys, optimistic revisions, counters that are given back, circuit
breakers. The models are about these devices.

## Inventory

The full list, with the source files of each part, is `PROJECT.json`
("components"); the hazards, each at its line, are under "hazards".

| Part | State | Operations | Interacts with | Hard behaviour | Correct when |
|---|---|---|---|---|---|
| Email outbox (`emaildelivery`, `auth/email_delivery.go`) | `email_outbox`, `email_suppressions`; a worker's batch | enqueue, claim, dispatch, retry, expire, sync suppressions | every feature that mails; referrals resolve their content at delivery; SES | leases, lost answers, crashes, late outcomes | an attempt is submitted once; no erased text is mailed; every row settles |
| Intelligence events (`intelligence/engine`, `admin/intelligence.go`) | `intelligence.events`, dead letters, review cases, switches | trigger, claim, process, retry, defer, dead-letter, switch | triggers of candidate and job tables; administrators | locks outlived by their processor, switches flipped under way, last attempts | attempts count failures only; what is exhausted is recorded or lost with its processor; the queue drains |
| AI gateway, budget (`intelligence/gateway/sql_budget.go`) | windows and reservations | reserve, settle, erase with the account | account erasure | four row locks per call, midnight, concurrent calls | never overcommitted, held equals reserved, no deadlock |
| AI gateway, calls (`gateway/service.go`, `attempts.go`, `circuit.go`) | slots, breaker, journal | admit, reserve, call, retry, record | budget, provider, switches | half-open probe, outcomes of old calls, gate closed between tries | one reservation per operation, the breaker opens for failures and never shuts for good |
| Company team (`company/membership.go`, `workspace.go`, `team_scope.go`, `overrides.go`) | memberships, invitations, subscription | invite, claim, revoke, transfer, update, deactivate, own seat | registration, account lifecycle | reads before the lock, changing plan, delegation | ownership kept, growth checked, delegation bounded |
| Governed offers (`recruiter/offer_*.go`) | offers, versions, approval requests, settings | create, edit, submit, decide, send, withdraw, view, answer, expire | hiring stage, candidate | commands on old screens, repeated commands, policy, permissions and owner that change | what is sent was approved; agreed on the terms seen; one open offer; answers stand |
| Privacy (`privacy`) | requests, fulfilment jobs, the account | create, erase, delete objects, transition | applications, offers, CVs, storage | long transaction among others, several workers, crash after claim | erased only after review; every submitted CV queued; closed means confirmed |
| Accounts (`auth`, moderation in `admin`) | users, recruiter profiles, sessions, challenges | register, verify, log in, refresh, log out, reset, review, suspend, erase, change the telephone number | outbox, company, privacy, session tokens | a login or rotation under way while the account is reset or suspended; old codes; texts sent between two transactions | active is earned; a live session belongs to the present password and an eligible account |
| Second factor (`admin/mfa.go`, `scoped_access.go`) | credential, proofs of sessions, tries | enrol, confirm, verify, hand on, recover | sessions | codes used twice, a rotation that hands a proof on after its commit | a session that may act has proved the present secret recently |
| Governance (`admin/control_plane*.go`, `intelligence.go`) | approval requests, models, prompts, switches, settings, releases | request, decide, promote, enable, set, roll out | event queue | requests decided or used late, two promotions that do not see each other | three administrators behind whatever comes into force; one in force per slot, and always one |
| Administrators' records (`admin`) | cases, articles, flags, reviews, insights, alerts, telemetry | move, revise, settle, evaluate, ingest | collector | repeated deliveries, two evaluators | a timeline tells what was; accepted is stored once |
| Vacancies and applications (`recruiter/job_*.go`, `candidate/application_*.go`) | jobs, AI review, drafts, applications | write, generate, review, publish, pause, copy, bulk change, apply, withdraw, move | meters, offers, events | the vacancy changes while its form is filled in; limits move; two windows | published was reviewed; submitted to what was open; no answer lost |
| Interviews (`recruiter/interview_*.go`) | interviews, panels, change requests, feedback | schedule, reschedule, respond, cancel, complete | two companies over one candidate | writers under different locks | nobody is expected in two places: one diary |
| Parsing artifacts (`intelligence/parsing`) | operations, reviews, expiry | parse, generate, review, confirm, apply, expire | gateway, profile, vacancies | the provider is called between two statements; several windows | one row pays once; a review is applied as confirmed |
| Profile (`candidate`) | profile, employment, choices | form, own choices, CV projection | parsing, search | old forms, CV reviews, several editors | nobody overwrites what is another's |
| Outreach (`messaging/outreach.go`, `bulk_inmail.go`, `company/consumption.go`) | sequences, campaigns, enrolments, batches, meter | create, launch, deliver, pause, cancel, hand over, initiate | meters, threads | a launch is three transactions; workers of every process | a step is sent once, within the allowance, and after a hand-over only when the new owner asks |
| Live messages (`messaging/hub.go`, handlers) | hub, sockets, channels, receipts | connect, send, read, revoke, shut down | sessions | two goroutines per socket, bounded channels | count and channels agree; revoked sockets leave |
| Offer templates and calculations (`recruiter/offer_templates.go`, `offer_calculations.go`) | templates, versions, settings, permissions, owner; fields and formulas | save, archive, repeat, prepare, set policy, pass on ownership; calculate | offers, team | old windows, repeated commands; permissions that outlive an ownership; missing operands, rounding | nothing lost or doubled; the owner keeps the policy; drafts agree with what is sent |
| Referrals (`recruiter/referral_*.go`, `candidate_referrals.go`) | invitations, attribution, rewards | invite, resend, open, decide, apply, acknowledge, reward | outbox, applications | several invitations of one person, in any order | one source, given by the person; rewards for hires |
| Company reviews (`company/reviews.go`) | reviews, answers, votes, reports | write, edit, delete, moderate, answer, vote, report | privacy | moderation of an older revision; checks outside the write | what is public was read and vouched for |
| Saved searches (`recruiter/sourcing_searches.go`, `saved_search_alert_worker.go`) | searches, alerts | save, edit, evaluate, alert | discovery, outbox | unlocked workers of two processes | no update falls between two alerts |
| Notes and pools (`recruiter/candidate_collaboration.go`, `named_talent_pools.go`, `talent_pool.go`) | notes with history, pools with events, personal lists | write, correct, delete, read, change, hand over | team scope | late repetitions; a pool handed over between look and change | what was read can be found; a pool is changed by its owner |
| Discovery, exports, document parsing, storage signatures, taxonomy, HTTP server, configuration, command-line tools, web client, deployment | – | – | – | queries, I/O, rendering, lookups | not modelled |

## Conventions

- One module per component. A handler that locks what it reads before it decides
  is one action, with every write and trigger it fires; a handler or transaction
  is several actions exactly where others can act between them: between two
  statements outside a transaction, between the locks of one transaction, between
  a read and the lock that should protect it, around a provider call.
- A transaction may fail at every step at which it is modelled in several; it is
  then rolled back. A process may die between any two steps; what PostgreSQL
  committed stays.
- Time appears as the facts the code compares (a lease is over, an event is due,
  a day passed), each with an action that makes it true. Only `EmailLease` counts
  ticks, because there the durations themselves are the question.
- Names follow the code: actions are named for functions, variables for tables
  and columns. History variables are marked as such and read by no guard.
- A definition under a `Mutant:` comment is not part of the specification. It is
  a version of the definition that follows it with a plausible bug; for every
  property of every run `PROJECT.json` ("mutants") names one that breaks it.
- Constants marked "bound" limit the instance, not the program.

## Modules

### `EmailOutbox`, `EmailLease`

`status`, `attempts`, `body` are columns of `email_outbox`; `nextAttempt`,
`expired` and `leaseOver` are what its SQL asks the clock. A worker
(`pc`, `batch`, `cur`) goes through one `RunOnce`: `ExpireSensitiveContent`,
`Claim` (lease recovery and claim, one transaction), then per row
`CheckProvider`, `ResolveContent`, `Send` and one of the outcomes `RecordSent`,
`MarkSuppressed`, `MarkFailed`; the outcome names the row by id alone, so a late
worker's outcome is in the model as the code writes it. `Abandon` is a database
error, `Restart` a crash. The provider accepts and answers, accepts and is not
heard, or refuses. `SendInvitation`, `CancelInvitation` and `CandidateAnswers`
are the referral handlers that replace the nonce under a queued message.
`SyncSuppressions` copies the provider's list row by row, any part of it before an error.

`SlowWorkers` says whether a live worker may exceed its five-minute lease.
`EmailLease` is the argument about that assumption: one batch, two provider calls
per row, each bounded by the client's timeout, against the lease.

### `IntelligenceEvents`

Triggers (`Enqueue`), `ProcessBatch` (`StartBatch`, `ClaimEvent`, `Gate` switch
by switch, `Work`, `Release`, `MarkProcessed`, `Retry`, `DeadLetter`, `Defer`,
`EndBatch`) and the administrator's `TurnOn`, `TurnOff`. The effect of an event
is one step that succeeds, fails, or half succeeds; what it computes is not
modelled. `processEvent` has no deadline, so any lock may age under a processor that is
still at work (`LockAges`), and its last statement, which names the event by id alone,
then writes over what another did: `overrun` remembers such events, `lost` those whose
last attempt ended with its processor.

### `GatewayBudget`, `GatewayCalls`

`GatewayBudget` takes `Reserve` and `Finish` row lock by row lock, together with
the erasure transaction and the trigger of migration 000068 that deletes the same
rows; `NoDeadlock` is the absence of a cycle in who waits for whom.
`GatewayCalls` is one process: slots, circuit breaker, the attempts of an
operation with their reservation, journal entry and settlement. It treats the
budget as a step that grants or refuses.

### `CompanyTeam`

The memberships, invitations and plan of one company. Every governed write locks
the `companies` row, so it is one action; the two reads the code makes before
that lock (the invitation in a registration's claim, the owner in
`OwnTalentSeat`) are actions of their own.

### `OfferStudio`

The offers of one application. Every command locks the company and reads its
facts again, so a command is one action; what is old is the screen it was
composed on. `cmds` holds commands held up or sent again, each with the terms its
author saw and whether the displayed revision is still the present one.

### `AccountErasure`

`EraseAccount` phase by phase (`LockApplications`, `LockAccount`, `Inspect` or
`RequireReview`, `Wipe`) among the candidate's uploads and submissions and the
recruiters' transactions that create offers; the deletion jobs it queues; the
fulfilment workers of every API process, whose claim, deletion, bookkeeping and
note are separate statements; the administrator's `Transition`.

### `Vacancies`, `Interviews`, `Calendar`

`Vacancies` has two vacancies and one application. A recruiter's command locks the
company and the job and is one action; it may come from a screen that is older than
the vacancy. `ai` is the provenance of a generated text with the hash that was
reviewed. An application locks the profile, takes the job's share lock and writes
later: `tx` says where it is. A window opened after the questions have changed starts
without answers and shows the saved ones apart (`FilledIn`, `seen`).

In `Interviews` a writer takes the advisory lock of its company, then the
candidate's, compares, and commits: `Request`, `CheckConflicts`, `Commit`,
`RollBack`. `Calendar` is the abstract specification: one diary, every entry
compared with all others and written in one step. `Interviews!Diary` instantiates
it with the rows' entries, and the run `Hiring` checks `Diary!Spec`.

### `ParseArtifacts`, `CandidateProfile`

A call of the model is three steps (pending row, provider, outcome) that a crash may
separate; windows hold what they read of a review until they save it; `stamp` is the
profile's `updated_at`. `CandidateProfile` has every editor of the profile: forms as
old as the window, choices with endpoints of their own, and the projection of a
reviewed CV, whose calculation of experience is compared with an independent one
(`Sweep`).

### `Outreach`, `LiveMessages`

A launch of a campaign is claim, send and record, each a transaction; workers read
what is due and deliver item by item. `charged`, `used` and `owed` are the meter and
what it should say; `consent` is what the owner last did to the campaign (asked for it,
stopped it, handed it over) and whether a launch has undone that. In `LiveMessages` a socket is its reader, its writer and a
bounded channel; the hub under its mutex is one step per call.

### `Accounts`, `SecondFactor`, `AdminGovernance`, `AdminRecords`

`Accounts`: one transaction per handler, except `Login`, which verifies the password
before it locks, and the change of a telephone number, which sends a text between
two of them. `SecondFactor` counts time in steps of a code; rotation and the handing
on of a proof are two steps. `AdminGovernance`: requests, decisions, and each use of
an approval with the guards of its statement; promotions see what is committed. It starts
from what migration 000038 seeds (`Seeded`): a model in production for each engine and an
active prompt, neither evaluated nor approved.
`AdminRecords`: the evaluation of alerts is two statements, ingestion may be
answered or not.

### `Referrals`, `CompanyReviews`, `SavedSearches`, `Sourcing`

`Referrals`: commands hold the company, the referrer or the person's profile, and
the invitation; looking up a link is a statement of its own. `CompanyReviews`: a
moderation request may be about any revision there has been; `pending` holds
requests between their check and their write. `SavedSearches`: `StartPass`,
`Discover`, `TakeTime`, `RecordAlert`; what processes at the same search may miss
is recorded in `excused`. `Sourcing`: notes under the company's lock, pools in two
steps with a hand-over in between, the personal list without a lock.

### `OfferTemplates`, `OfferCalculations`

Templates are lists of versions; a command carries the version its window shows and
the key by which a repetition is known; the company's lock makes it one step. Who may
save is read from the permissions at each command: a row of them outranks the role and
the ownership, and `TransferOwner` (`company/workspace.go:324`) moves the ownership and
leaves the rows alone.
`OfferCalculations` is the engine of formulas over exact decimals: definitions,
validation, drafts and complete calculations.

### MC modules and proof modules

An MC module names model values, gives constants their values and, where several
small specifications share a run, chooses one of them per behaviour (`subject`,
`scenario`); the variables of the others rest, so such a run is the union of the
runs it stands for. `MCEmailOutbox`, `MCGatewayBudget`, `MCIntelligenceEvents`,
`MCCompanyTeam`, `MCOfferStudio`, `MCAccountErasure` and `MCSavedSearches` are
about one component each (`MCOfferStudio` with what offers are made from: its
`CompanyOffers` puts the templates beside the offers, for the run and for the proofs);
`MCDelivery`, `MCInvitations`, `MCMessaging`, `MCHiring` and `MCAccounts` host
several. These five take the constants of the specifications they host as their own, with
the assumptions these need, so that what is proved about them is about the run's
specification; the configurations give them values. (`CandidateProfile`, about which
nothing is proved, has its values in `MCHiring`.) `EmailOutboxProofs`, `IntelligenceEventsProofs`,
`GatewayBudgetProofs`, `OfferStudioProofs`, `AccountErasureProofs`, `InterviewsProofs`,
`CompanyTeamProofs` and `MessagingProofs` hold the theorems.

## Runs

Run a module with `tlc -config X.cfg M`. Every run passes except `BudgetDeadlock`
and `AlertStarvation`, which exhibit disagreements between a comment and the code.

| Run | Instance | What it shows |
|---|---|---|
| `Delivery` | one security email, two workers, three attempts; three callers of the AI, two slots, two attempts, threshold 3 | nobody is mailed erased text; a recorded outcome is not overwritten; every row settles and is erased, through lost answers, crashes, suppression and expiry. The breaker is open exactly for counted failures, a closed gate stops retries, every operation ends with its reservation settled and the breaker becomes ready again for ever |
| `Invitations` | two tokens of one referral with two attempts between them, batches of two, two workers slower than their lease; three invitations to a vacancy; three reviews of one author; a search evaluated by two processes; two notes; two pools | an attempt is submitted at most once, also when a row is claimed again from a worker that still holds it; a replaced invitation that nobody had resolved stays silent; attribution is given by the person and rewards follow hires; what is public of a company was read as it is; no update falls between two alerts; notes and pools are accountable |
| `EventQueue` | a CV event under two switches and a job event under one before one processor; the CV event before two processors that outlive their locks; two attempts | attempts are the failures plus the present try, whatever is paused; what is exhausted is a dead letter, done, or lost with its processor; dead letters rest; the queue drains when the switches stay on |
| `Accounts` | two calls of a candidate and a recruiter, costs 1 and 2, limits 2 to 4, one midnight, an erasure; a recruiter's account with three sessions; two candidates and two numbers; an administrator's factor over four codes; two requests of three administrators over a seeded model or prompt and two successors, a model of the gateway, a setting, a release; a case, an article, a flag, a review, an insight, alerts, two deliveries | windows never exceed their limit and hold exactly what is reserved; activation is earned, sessions are current, the last text counts, moderation stays; a proof is of the present secret; three administrators stand behind what comes into force, and an engine stays served; records tell what was |
| `BudgetDeadlock` (violation) | one call, one erasure | `Finish` and the erasure wait for each other, against the comment at `sql_budget.go:54` |
| `TeamCapacity` | a legacy recruiter who may be owner, two colleagues, one invitation row, a plan that shrinks and grows | use of a resource grows only within the plan, with three exceptions the code has; seats come from owners; used, revoked and expired invitations are final |
| `TeamDelegation` | three legacy recruiters, two scopes | a sub-admin reaches no further than delegated; the company keeps exactly one, active, owner |
| `OfferStudio` | one offer under three policies and a permission that comes and goes, one held-up command; two offers, days, repeated commands; two templates of two editors, one of them the founder, while permissions and owner change; 176 forms of four fields, and two that are refused | what the candidate has was approved as its frozen policy asks and everyone acted on the terms he saw; one offer is open, answers stand, what is released settles, a command takes effect once; templates lose and double nothing, and an owner who may set the policy goes on to; drafts, saved and sent compensation agree |
| `ErasureFulfilment` | two vacancies, two uploads, two requests, two workers, two tries | an erasure crosses no offer, misses no submitted CV; a closed request stands for confirmed deletions and stays closed; deletions end |
| `Messaging` | ticks of 10 s, lease 30, call timeout 1, batch 10; a company of one or two sequences, a campaign of three steps, two launches, two workers; two sockets of a candidate, a message | with the default batch a lease runs out on dead workers only; each step is sent once and metered; after a hand-over nothing is sent unasked, after a pause or a cancellation no later step unless a launch under way undoes it; the hub's books agree and a revoked session's sockets leave |
| `Hiring` | two writers, two companies, a shared candidate; two vacancies; one application in two windows; a CV and two descriptions; profiles of two employments | interviews are written as in one diary; vacancies are published and answered as checked, and answers kept while their questions stand; reviews and profiles stay what their owners made them |
| `AlertStarvation` (violation) | two searches, passes of one | searches with refused criteria stay at the head of every pass, against the comment at `saved_search_alert_worker.go:140` |

### The bounds, and why they are enough

- Two workers, or callers, are the smallest number at which one can be late with
  respect to another; the third caller of `Delivery` is the old call whose
  outcome arrives while the other two open the breaker and probe it.
- Two or three attempts give a first, a last and, in `Delivery`, one between;
  the code compares attempts only with 0 and the limit.
- `Delivery` has one message because workers interact only over one row;
  `Invitations` has the two rows that supersede each other, and a batch that
  holds both. It allows two attempts in all: each row one, or one row two, so that a row
  is claimed again after a failure (`BecomeDue`) and after a lease that ran out under a
  worker which then submits late.
- `EventQueue` is two instances, chosen at the start (`instance`). With one processor
  inside its locks two events meet in the order of a batch and in the switches; they
  differ in what the code tells apart, whether their switch reschedules them. With two
  processors that may outlive any lock there is one event: an outcome names one row, and
  what happens to the others is proved for all numbers (`IntelligenceEventsProofs`).
- The budgets of `Accounts` admit the sum of some calls and not of others, at
  every level; one midnight that does not end the month separates the two periods.
- `CompanyTeam` needs an actor, a member acted on and a bystander. The two who are
  not founders are interchangeable, hence the symmetry (only in runs without
  liveness).
- One offer suffices for approvals, which look at no other offer; two for what
  concerns the application. `Revocable` and the policies are those that reach all
  modes: none, parallel, and conditional, which is ordered.
- Two CVs are a deletion and another it must wait for; two requests are the one the
  erasure uses and another the unique index keeps from being open beside it.

- Two interviews of a shared candidate, and a writer for each, are the smallest
  double booking; hours 0, 1 and 3 separate before, during and after. Two windows
  over one draft, review or profile: one is old when it saves.
- Three sessions are one login, its rotation and another login; two codes and two
  texts are one that replaces the other; `MaxTime` 3 lets a proof of two steps lapse.
- Two requests for approval name the same or rival targets; three administrators are
  as many as a decision of two takes. One seeded model, two that may follow it and the
  one of the gateway are the kinds that are evaluated differently or not at all; one
  switch stands for those that need an approval, on or off at the start.
- Two editors of templates are a founder and one who may be given everything; two
  templates, a version and its successor, and a permission list of one row at a time.
  Where permissions or the owner change no offer is prepared, since preparing one reads
  neither.
- A campaign of three steps has a first, a later and a last one; one candidate
  suffices because steps of different candidates meet only in the allowance, which
  the limit of two and the change of plan reach. Two sequences are one more than the
  paid plan has, so a changed plan may have fewer than the company. Two keys for each request are a
  repetition and a fresh attempt.
- Two workers of a saved search, three ticks and a period of one: each may be late
  by a window. `AlertStarvation` takes a pass of one row where the code reads twenty;
  the argument is the same with twenty refused searches.
- The forms of `OfferStudio` are all combinations of eleven formulas of the annual
  amount, four of the rate and four rules for the rate: correct, circular, unknown,
  dividing by zero, rounding halves, negative, too large.
- Where subjects share a run, `MCNext` restricts each to the part its bounds are
  made for, with a comment there. What is cut away is a second copy of something that
  stays: other rows of a table, other kinds of request, the actions of another subject.

Deadlock is checked in `Delivery`, `EventQueue`, `TeamCapacity` and `TeamDelegation`.
The others have bounded supplies: when all calls are made and all days have passed,
the account is erased, the campaign is over or the form is saved, the program waits
for requests that the instance has no more of.

## Fairness

| Specification | Fair | Because |
|---|---|---|
| `EmailOutbox!FairSpec` | each worker's next step, abandoning and restarting included; the expiry of each row | calls have a timeout, the ticker starts the next pass, a supervisor restarts the process, time passes. Nothing makes a provider accept, a process stay up, or a handler run |
| `IntelligenceEvents!FairSpec` | each processor's next step or its interruption; availability and lock ages; strongly, the claim of an event that is claimable again and again | `Processor.Run` ticks; the claim takes the oldest first, so an event is not passed over for ever; batches may fail in between, hence strong fairness. `MCIntelligenceEvents` states the same of the steps that an instance has |
| `GatewayCalls!Fairness` | each step of an operation that is under way; the cool-down | calls have a timeout; nobody is obliged to call, and no outcome is favoured |
| `OfferStudio!Fairness` | days; the hourly expiry pass | `cmd/api/main.go` starts it; no person is obliged to act |
| `AccountErasure!FairSpec` | each worker's steps, not its interruption | the pass runs each minute; a crash is possible at any step and required at none |
| `LiveMessages!Fairness` | each socket's goroutines; the read deadline once nothing pings | goroutines run, the ticker ticks; nobody is obliged to read or write |
| `SavedSearches!Fairness` (violation run) | the worker's steps | the hourly pass; the counterexample needs no failure |

In a run of several subjects the fairness of one asks nothing of the behaviours of
another, whose actions are disabled there.

## Proofs

`tlapm M.tla` checks them. The theorems hold for every value of the constants that
satisfies the module's named assumption; further hypotheses are in the statement.

**`EmailOutboxProofs`**: `OutboxTypeCorrect`, `AttemptExclusive`, for any number of
workers however slow. `AttemptSubmittedOnce` alone is not inductive: it must know
that attempts in hand or submitted were counted in the row (`Counted`), so that the
next claim makes a new one; that a worker has a row in hand exactly in the steps of
a dispatch (`Control`); that an attempt is in one hand (`OneHolder`) and not
submitted while it can be sent (`NotYetSubmitted`).

Two more invariants sit on top of that one. `Resolved`, however slow the workers:
whoever is about to submit an invitation that is not current any more was past the
resolver when it was replaced (`SupersededInvitationsSilent`). `Prompt`, with
`~SlowWorkers`: a row is in one hand, not only an attempt (`OneHand`); what is in a
hand is the row as it is (`SoundHands`); and a row whose text is gone is one that no
claim takes again (`SoundRows`). It gives `TextIsDelivered` and, since nobody but the
hand that holds a row writes its outcome, `OutcomeStays`. Both are false when workers
may outlive their lease, which is why the hypothesis is there.

The same module holds what is proved of the other components that share a run with
the outbox; each is proved of the component's own `Init` and `Next`, for any values of
its constants, and then of the run:
- `BreakerStaysHonest` (`GatewayCalls` in `MCDelivery`). The switch needs `Quiet`:
  while the gate is closed an operation is on its only call, or after it, wherever it
  stood when the gate closed.
- `UpdatesAreTold`, `NothingIsMissed` (`SavedSearches`). Processes evaluate a search at
  once and without a lock, so the invariant speaks of rows in hand: a row whose search
  has news was read with a time before them (`Handled`); an evaluation that found
  nothing overlooked nothing (`Evaluation`); and the emails of a search with news are of
  windows that ended before its last time (`Emails`), hence the next alert is a new
  message and no duplicate. The three windows in which the code loses an update are
  excepted by name (`unasked`), see below.
- `PublicReviewsAreVetted`, `ReviewsVetted` (`CompanyReviews`). A request is checked in
  one statement and written in another, so nothing is assumed of what waits between
  them: the row that is there when it lands decides. The invariant ties the revision
  somebody vouched for to the flag (`VouchedFor`) and words to states (`Worded`).
- `SourcesAreEarned`, `ReferralsEarned` (`Referrals`). What one may see of a person is
  tied to the marks of the invitation (`Attributed`): the source of an application is
  one the person accepted, and no other candidate's reward is on the way.
- `SourcingAccountable`, `NotesAndPoolsAccountable` (`Sourcing`). A note that is not
  written yet has no history (`NoteSound`), so a late repetition can only be the first;
  a pool in hand is a manual one and stays (`PoolInv`), while its owner may change:
  what is entered is by the owner of the row that is locked.

**`IntelligenceEventsProofs`**: `PauseIsFree`, `ExhaustedReachDeadLetters`,
`DeadLettersAreFinal`, for any number of processors however slow. What a late processor
does is confined to the event whose lock it outlived: of every other event, a processor
in the middle of it still holds its row as it claimed it (`HoldsRow`) and no two hold it
(`OneProcessor`). The count of attempts is exact for these. For all events, also the
overrun ones, nothing is out of attempts that is not a dead letter, done, at its last
attempt, or lost with the processor of that attempt; and a dead letter is never removed.
A dead letter whose lock held is a failed row without an attempt left (`Buried`): no
claim takes it, and being failed it is in no hand whose last statement could bring it
back.

**`GatewayBudgetProofs`**: `NeverOvercommitted`, `HoldsWhatIsReserved` for any calls,
amounts, limits and calendar, with erasures. A reservation that passed its checks
must still pass them when it commits (`Checked`); that holds because row locks
exclude (`Exclusive`), an erasure takes only its own user's rows (`TakenOwn`,
`OwnWindows`), and each reservation is counted where it was made (`Life`).
`CallsNeverDeadlock` is about `SpecOfCalls`, without erasures: the order of the
locks is then enough, which is what the comment in the code claims in general.

The module extends `MCAccounts`, whose run the budget shares, and goes on with the four
specifications that `MCAccounts` hosts. Each has a theorem of its own, for any people,
sessions, administrators and limits; `AccountsHoldThroughout` and
`AdministratorsHoldThroughout` then say that the run's specification takes steps of these
only.
- `AccountsKept` (`Accounts`). An account deserves its status given the companies that
  are verified (`AccountsDeserved`): a profile is the recruiters', and who has everything
  does not wait, which is why activation may come with the address or with the review.
  That a session lives only on the present password and permission (`LiveAreCurrent`)
  needs that a row is granted under a check that is still true, that whoever takes a
  permission away ends the account's sessions in the same step (`NoneLives`), and that a
  login's first row stays a row (`RootsExist`), so a new login cannot adopt an old family.
- `SecondFactorKept`. A proof on a live session is of the secret the credential has, and so
  is the proof a rotation has read and not yet handed on (`ProofsFollowSecret`); that, and
  not the proof alone, is what recovery and a new enrolment must undo. `CodesInOrder`:
  accepted codes are those up to the last one, so the next is new.
- `GovernanceKept`. The promotion of a model is two steps. Between them it keeps an approval
  for this item and, of a model, the passed evaluation (`PromotionsApproved`); an approved
  request stays vouched for by as many others as it asked for (`RequestsVouched`), since
  votes are only added while it is pending. One in force per slot, and always one, holds of
  the seeded items from the start and is kept by promotions, which retire what they saw
  and are refused by the index if there is something they did not see.
  `GovernanceAssumption` is that two approvals or more are asked for, as `CreateApproval`
  demands, and that the migration seeds one item per slot.
- `RecordsKept`. The journal has a delivery before it is answered (`JournalIsTrue`); the
  statuses told by a case's timeline follow each other; a content's numbers are those before
  it and its own.

**`OfferStudioProofs`**: the five safety properties and type correctness. Every
command is shown to write something `Sound` given what it read; once, for all of
them, a sound write is shown to keep the invariant and to leave closed offers
alone.

`TemplatesKept` is about the templates that offers are prepared from, for any
templates, editors, commands and plans. `RowsAreAnswered` ties every version to the one
command that asked for it: that command has a result, so it is not executed again, and
it named the version before, so nothing was replaced unread. `ShownAfterRow` is the
lemma on sequences that a draft behind the versions there were changes nothing for
recruiters; a creation is counted under the company's lock (`CountOneMore`). That an owner
who may set the policy goes on to is a step property: only he writes permissions, and his
own denial of the policy is refused; what the next owner may do is his rows' affair.

**`AccountErasureProofs`**: three invariants. `Seen` is what an erasure knows in each
phase, and gives `ErasureOffersReviewed` and `ErasureQueuesSubmitted`. `Deleted` ties
rows, workers' hands and requests to what the storage confirmed, and gives
`ErasureClosedIsConfirmed` for workers however slow. `InTime` needs `~SlowWorkers`:
a job is in one hand and its row shows where it is, so a late note finds no closed
request; it gives `ErasureClosedStays`.

**`InterviewsProofs`**: a refinement, then two more specifications of the same run.

`Interviews` implements `Calendar`: `WritesLikeADiary` is `Diary!Spec` under the mapping of each row to its entry,
checked by `Hiring` on two interviews and proved (`InterviewsKeepADiary`) for any
companies, candidates, recruiters, times and writers. It says more than
`NobodyExpectedTwice`: each write is allowed by all entries of the moment at which it
becomes visible. What must be shown is that a comparison is still true at the commit
(`DiaryInv`): whoever writes in between meets it in a recruiter, who is then of the
same company (`PanelsAreLocal`) and would hold its lock, or in the candidate, whose
lock every writer takes that gives an interview a time or a seat; the writers that
take no candidate's lock (a refusal, a cancellation, a completion) only take away
from what was compared before (`Standing`).

- `VacanciesAreChecked`, and `HiringIsChecked` for the run, for any vacancies, plans,
  texts and windows. A command makes at most one vacancy active and counts under the
  company's lock, which is a lemma about cardinalities for each command. An
  application is several statements of one transaction: `JourneyHolds` says that while
  one is open it is the only one, since it holds the candidate's profile, and that the
  posting it has read is still active with the text its questions were read from, since
  its row is locked in share mode. `FormsFollow` is why no answer is lost: no window is
  ahead of the draft, and one that is level with it has seen all that is saved; while the
  questions are those of the draft, it has these answers filled in. When they have changed,
  the next save replaces the old answers, by a window that has shown them.
- `DocumentsAreSound`, and `ReviewsHold` for the run, for any keys, requests and windows.
  The provider is called outside any transaction, so what is counted is per life of a key:
  a call belongs to a life that has begun (`LivesCounted`), no two calls to the same life,
  and one without an answer has not been paid (`PaymentsCounted`); a late answer to an
  expired row finds another life and pays nothing. `ReviewsFollow` relates what a window
  is about to save with the row, which other windows may have changed since: if the
  revision it read is still that of the row, its decisions include the row's. With
  `PlansAreOfDecisions` a CV reaches the profile with the decisions it was confirmed with.

**`CompanyTeamProofs`**: `TeamGoverned` and `TeamGrowth`, for any users, invitations,
scopes and plans. The invariant is small, since every step takes the company's lock
and reads again: rows keep their shape and at most one member is the owner, who is
active (`OneOwner`). The work is in the steps: an update by an owner, by a sub-admin
or by the platform, the acceptance of an invitation, the transfer of ownership, each
shown to write one row and to have asked for what the property demands of it. What
was read before the lock (who asked for an own seat) appears in the property where
the code does not ask again.

**`MessagingProofs`**: three specifications, one after the other.
- `StepsGoOutOnce`, `OutreachWithinBounds`. The launch is three transactions, so the
  invariant says what a launch in between relies on. Whoever is past the claim has
  the campaign's key (`OneKey`), and whoever was mailed the first step was mailed
  under it, so a second launch finds the batch (`FirstStepOnce`). No step is due and
  none has gone out while a launch is under way (`LaunchIsQuiet`), hence rows that the
  last transaction resets were never followed up; later steps are behind the row's
  step (`StepsBehind`). A key that was charged was also used (`ChargedOnce`): the next
  consumption is counted. `AskedFor` says what a step relies on: a campaign runs because
  its owner asked for it, or because a launch recorded its result over his pause or
  cancellation; and after a hand-over no launch is under way that could send, until the
  new owner asks.
- `HubIsConsistent`. The hub's count is that of the sockets present (`Counted`), which
  needs that a socket is registered under its own channel and not before its upgrade
  (`InPlace`), so that it is counted in once and out once by broadcast, shutdown and
  reader. `Asked` is why a revoked session hears nothing: what was broadcast after the
  revocation is marked, and a writer that is writing has an unmarked event in front,
  since queues grow at the end only.
- `LeaseSafe`: if `BatchFits`, i.e. two timeouts per row of a full batch fit in the
  lease, only dead workers lose rows. The invariant bounds the age of a live claim by
  the calls made for it (`AgeBound`). The default batch of ten satisfies the
  hypothesis with a lease of 300 s; the 50 rows that `NewService` accepts do not.

Only model-checked, on the instances above: all liveness (`Settles`, `Drains`,
`CallsReturn`, `AnswersSettle`, `DeletionsEnd`, `RevokedDisconnects`), which is out
of reach of the prover; the calculations of offers, which are recursive; and `EditorsAgree`, the
half of `ReviewsAndEditorsAgree` about `CandidateProfile`: the projection of a CV and the
sweep over a history are folds, and what a fold computes needs induction. `TypeOK` of a
module that has theorems is proved there; the others state the shape of the variables
for the reader.

## What the models show about the code

Two disagreements are checked as runs (`BudgetDeadlock`, `AlertStarvation`). Others
were met while modelling; the models have the code's behaviour and the properties are
worded for what does hold:

- `emaildelivery/service.go:66` accepts batches of 50 rows, which may take 1000 s
  under a lease of 300 s: another worker then takes rows from a live one.
- An event whose eighth attempt is interrupted stays in `processing`: no claim
  takes it and no dead letter records it (`engine/processor.go:120`;
  `docs/intelligence-architecture.md:22` promises both). `Drains` excepts it.
- `processEvent` has no deadline and its outcome names the event by id
  (`engine/processor.go:98`): a processor slower than its five-minute lock writes over
  the outcome of the one that reclaimed the event. A late deferral then gives a dead letter
  an attempt back (`:185`), so that it may be taken up again while it stays in
  `dead_letters`. `ExhaustedIsDeadLettered` and `DeadLettersRest` say what holds even so;
  the status of such an event, and the count of its attempts, are what the code lets them
  become.
- The breaker's probe flag is cleared by any call that ends, so a second probe may
  run beside the first (`gateway/circuit.go:23`; `docs/intelligence-v2-openai.md:71`
  says one). It never shuts the provider out, which `CallsReturn` checks.
- A `Finish` that is lost, to a crash or as the victim of the deadlock, leaves its
  amount held until its windows end.
- Three steps let the use of a plan grow without asking: a registration without an
  invitation, an account the platform reactivates, an owner who becomes a
  recruiter. A sub-admin can release a seat by deactivating its holder
  (`company/workspace.go:334`, against `:339`).
- A candidate can accept an offer whose application has left the offer stage.
- A deletion job whose worker dies stays `running` and is taken by nobody
  (`privacy/fulfilment_worker.go:69`). Two workers that finish the last two
  deletions together each count the other's as open, and nobody closes the request.
  A note of failure delayed beyond the retry delay reopens a request that a later
  try fulfilled; `ClosedStays` is checked and proved without such delays.
- An offer transaction that waits for the application's lock while the account is
  erased goes on with the profile it read before, and keeps the name of an erased
  candidate (`docs/RECRUITER_GOVERNED_WORKSPACE_AUDIT.md:66` says it cannot be
  missed).
- Uploading a new CV forgets the key of the former one: if no application refers to
  it, no erasure deletes its object.
- Some statements of `privacy` bind untyped parameters inside `jsonb_build_object`
  (`fulfilment_worker.go:118`, `:140`, `request_transition.go:106`). Whether
  PostgreSQL can give them a type decides whether these transactions ever commit;
  the model has both outcomes (`Interrupt` leaves the job running).
- The saved-search worker inserts into the outbox without `expires_at`, which
  migration 000051 made mandatory. `SavedSearches` has the transaction as it is meant
  and its failure as a pass that ends early (`Abort`).
- Vacancies: an administrator's takedown leaves a recruiter's reactivation open;
  `SetJobSkills` and `SetJobEducation` do not invalidate the review of a generated
  text (`recruiter/job_skills.go:34`); `bulkReassignJob` validates outside its
  transaction (`bulk_jobs.go:73`, `:100`); no statement writes status `expired`;
  `CreateJobEfficient` publishes without asking for completeness.
- A draft of an application whose questions have changed: the new form is empty and the
  saved answers are shown apart (`candidate/application_journey.go:84`; "Your earlier saved
  answers are preserved below.", `frontend/components/candidate/job-apply-button.tsx:138`),
  but the next save replaces them in the database (`:169`) and nothing shows them again.
- Outreach: the last transaction of a launch reads the owner of the campaign again and not
  its status (`messaging/outreach.go:463`). A campaign that is paused or cancelled while
  its launch is under way still sends its first step, and the launch then writes `running`
  (or `completed`) over the pause or the cancellation and its enrolments active again: later
  steps go out of a campaign its owner has cancelled. `SentWithConsent` names both, the first
  step of a stopped launch and what follows one that was `undone`; `Consented`, what is
  proved, is the same statement.
- Interviews: feedback can precede a reschedule of the interview it is about.
- Parsing: a pending row whose event insertion failed blocks its key for a day
  (`parsing/job_generation_v1.go:270`).
- Profile: rejecting the parts of an end date leaves the date, so the rule about
  current roles blocks the review; `SetContactSharing` does not change `updated_at`;
  a form without an expected stamp overwrites what a CV added.
- Accounts: older reset codes stay usable after the latest is consumed; a pending
  candidate who is suspended before the email is verified can never be verified or
  reactivated; the proof of a second factor is handed on after the rotation has
  committed. `VerifyRecruiterEmailOnly` is reached by no route.
- Governance: migration 000038 (`:417`, `:436`) puts a model in production for six engines
  and a prompt in force that nobody evaluated or approved; `OneInForce` excepts these by
  name. The first promotion in a slot retires its seeded item for good
  (`ServiceContinues`). Only models of `matching` are ever evaluated by the worker, and
  those of OpenAI on a stored baseline: the seeded models of the other engines can never
  be replaced.
- Governance: an approval never expires once given, and may be used again; whether a
  setting is of high risk is the caller's word; a later failed evaluation does not
  undo an earlier pass; two evaluators can open two alerts for a rule.
- Reviews: a deleted review with an open report stays in the queue
  (`company/reviews.go:404`); a review checked before an erasure commits belongs to
  an erased author; an answer stays with a later revision and can land on a deleted
  review.
- Referrals: a candidate's expired invitation can be neither renewed nor cancelled; a
  paid reward can be set back and paid again; acknowledging after a hire makes a
  recruiter's referral rewardable; a lookup can mark `opened` after a cancellation.
- Saved searches: an update between the query and the stamp is lost; two workers over
  the end of a window set `last_alerted_at` back; renaming a search that never alerted
  moves its start. `NothingMissed` excepts exactly these.
- Notes and pools: a late repetition after the author's edit is refused; a change that
  a deactivated owner had opened still lands when nothing is handed over.
- Offers: an optional locked number without a default makes a complete calculation
  fail once something is typed into it; a repeated creation is answered with its
  template even after that was archived; offers may be prepared from an older
  published version; a creation repeated after the offer was withdrawn makes no second
  one (`AppliedOnce`).
- Offer policy: an explicit row of `company_offer_permissions` outranks ownership
  (`recruiter/offer_store.go:60`), and passing on the ownership leaves the rows alone
  (`company/workspace.go:324`). An owner who has denied a colleague the policy and then
  makes him owner leaves a company in which nobody may change the policy unless another
  has a row that allows it. Saving refuses only an owner's own denial of
  `manage_approval_policy` (`recruiter/offer_templates.go:211`): by denying himself
  `view_compensation`, which governing also needs, an owner locks himself out. The way back
  is to pass the ownership on to someone without such a row. `OwnerKeepsPolicy` is what
  holds: from one owner's command to the next, the same owner keeps the policy.
- Team: `OwnTalentSeat` asks who the owner is before the lock (`overrides.go:41`); the
  ownership may have moved by then, and only its audit row is wrong.

## Plan

Written, in this order: outbox, event queue, gateway budget and calls, company team,
offers, erasure; then vacancies, interviews with their calendar, parsing and profile,
outreach and live messages, accounts, second factor, governance and records, reviews,
referrals, saved searches, offer templates and calculations, notes and pools.

What would come next, most important first:

1. Composition: account erasure with company ownership (the question of
   `httpserver/privacy_handlers.go:70` is outside the transaction), with reviews and
   with the budget; offers with the stage of `Vacancies`.
2. The unlock meter and the disclosure of contacts, beside the outreach meter.
3. Scoring (`intelligence/modelbaseline`) as operators against reference definitions.
4. An abstract work queue implemented by the outbox and by the event queue.

## Not modelled

Extraction of text from documents, scoring and matching, search queries, offer
letters and attachments, rendering, HTTP decoding and authorisation by role, rate
limits, configuration, metrics, logging, storage signatures, command-line tools, the
web client and deployment: they compute, read or format and keep no state that the
properties could tell apart, or are run once by an operator. The disclosure of
contacts and its meter, entitlement overrides set by the platform, watch alerts and
saved vacancies keep state of their own and are left out for now. Reference data (taxonomies) is read only. Consents and
exports are single transactions without later steps. Audit rows are left out
everywhere. What part of a modelled component is missing is in its "note" in
`PROJECT.json`.
