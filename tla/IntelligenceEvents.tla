-------------------------- MODULE IntelligenceEvents --------------------------
(***************************************************************************)
(* The event queue of the intelligence engine (backend/internal/           *)
(* intelligence/engine): database triggers insert events, processors claim *)
(* them one at a time under a five minute lock, retry with backoff, defer  *)
(* the events of a paused capability, and move an event that failed its    *)
(* last attempt to the dead letters.  Administrators turn the capability   *)
(* switches on and off (backend/internal/admin/intelligence.go).           *)
(***************************************************************************)
EXTENDS Naturals

CONSTANTS
    Events,       \* rows of intelligence.events
    Capabilities, \* capability switches other than the global one
    SwitchesOf,   \* [Events -> SUBSET Capabilities]: what processEvent tests
    Rescheduled,  \* capabilities whose events the switch reschedules when turned on
    Processors,   \* engine processes
    MaxAttempts,  \* 8 in the code
    BatchLimit,   \* events per ProcessBatch, 25 in the code
    NoHand        \* "this processor has no event in hand"

Global == "global_intelligence"
Review == "human_review_queue"
Switches == Capabilities \cup {Global, Review}

Hands == [event : Events, attempts : 1..MaxAttempts]

ASSUME QueueAssumption ==
    /\ SwitchesOf \in [Events -> SUBSET Capabilities]
    /\ Rescheduled \subseteq Capabilities
    /\ MaxAttempts \in Nat \ {0}
    /\ BatchLimit \in Nat \ {0}
    /\ NoHand \notin Hands

VARIABLES
    status, attempts,  \* columns of intelligence.events
    available, stale,  \* available_at, and locked_at < now() - 5 minutes
    dead,              \* intelligence.dead_letters
    openReviews,       \* open cases of human_review_queue about an event
    on,                \* enabled switches
    pc, hand, left,    \* a processor: its step, event in hand, rest of its batch
    unread,            \* switches a processor still has to read for its event
    done,              \* events whose effect was written (history)
    overrun,           \* events that a processor held past its lock (history)
    failures,          \* attempts of the other events that failed or were lost (history)
    lost               \* events whose last attempt was lost with its processor (history)

event == <<status, attempts, available, stale, failures, overrun, lost>>
letters == <<dead, openReviews>>
processor == <<pc, hand, left, unread>>
vars == <<event, letters, on, processor, done>>

\* Every variable keeps its shape, and no event is claimed more often than allowed.
TypeOK ==
    /\ status \in [Events -> {"absent", "pending", "processing", "processed", "failed"}]
    /\ attempts \in [Events -> 0..MaxAttempts]
    /\ available \in [Events -> {"now", "later", "never"}]
    /\ stale \in [Events -> BOOLEAN]
    /\ dead \subseteq Events
    /\ openReviews \subseteq Events
    /\ on \subseteq Switches
    /\ pc \in [Processors -> {"idle", "claim", "gate", "work", "record", "fail", "defer"}]
    /\ hand \in [Processors -> Hands \cup {NoHand}]
    /\ left \in [Processors -> 0..BatchLimit]
    /\ unread \in [Processors -> SUBSET Switches]
    /\ done \subseteq Events
    /\ failures \in [Events -> 0..MaxAttempts]
    /\ overrun \subseteq Events /\ lost \subseteq Events

Init ==
    /\ status = [e \in Events |-> "absent"]
    /\ attempts = [e \in Events |-> 0]
    /\ available = [e \in Events |-> "now"]
    /\ stale = [e \in Events |-> FALSE]
    /\ dead = {}
    /\ openReviews = {}
    /\ on = {}
    /\ pc = [p \in Processors |-> "idle"]
    /\ hand = [p \in Processors |-> NoHand]
    /\ left = [p \in Processors |-> 0]
    /\ unread = [p \in Processors |-> {}]
    /\ done = {}
    /\ failures = [e \in Events |-> 0]
    /\ overrun = {} /\ lost = {}

Busy(p) == pc[p] \in {"gate", "work", "record", "fail", "defer"}

\* One more failed attempt of e, while they are counted.
Count(e) == failures' = [failures EXCEPT ![e] = IF e \in overrun THEN @ ELSE @ + 1]

-----------------------------------------------------------------------------
\* A trigger of the core tables: intelligence.enqueue_event.
Enqueue(e) ==
    /\ status[e] = "absent"
    /\ status' = [status EXCEPT ![e] = "pending"]
    /\ UNCHANGED <<attempts, available, stale, failures, overrun, lost, letters, on, processor, done>>

\* ProcessBatch does nothing while the global switch is off.
StartBatch(p) ==
    /\ pc[p] = "idle"
    /\ Global \in on
    /\ pc' = [pc EXCEPT ![p] = "claim"]
    /\ left' = [left EXCEPT ![p] = BatchLimit]
    /\ UNCHANGED <<event, letters, on, hand, unread, done>>

\* Mutant: a dead letter is only kept out by its available_at.
ClaimableOnTime(e) ==
    \/ status[e] \in {"pending", "failed"} /\ available[e] = "now"
    \/ status[e] = "processing" /\ stale[e] /\ attempts[e] < MaxAttempts

\* Mutant: a failed event waits for somebody to replay it.
ClaimablePendingOnly(e) ==
    /\ \/ status[e] = "pending" /\ available[e] = "now"
       \/ status[e] = "processing" /\ stale[e]
    /\ attempts[e] < MaxAttempts

Claimable(e) ==
    /\ \/ status[e] \in {"pending", "failed"} /\ available[e] = "now"
       \/ status[e] = "processing" /\ stale[e]
    /\ attempts[e] < MaxAttempts

\* claimEvent: one row, locked, counted and stamped in one transaction.  The
\* oldest row comes first, but SKIP LOCKED passes over rows of other claims;
\* any claimable row may be the one.
ClaimEvent(p, e) ==
    /\ pc[p] = "claim"
    /\ left[p] > 0
    /\ Claimable(e)
    /\ status' = [status EXCEPT ![e] = "processing"]
    /\ attempts' = [attempts EXCEPT ![e] = @ + 1]
    /\ stale' = [stale EXCEPT ![e] = FALSE]
    /\ IF status[e] = "processing" THEN Count(e) ELSE UNCHANGED failures
    /\ hand' = [hand EXCEPT ![p] = [event |-> e, attempts |-> attempts[e] + 1]]
    /\ left' = [left EXCEPT ![p] = @ - 1]
    /\ unread' = [unread EXCEPT ![p] = {Global} \cup SwitchesOf[e]]
    /\ pc' = [pc EXCEPT ![p] = "gate"]
    /\ UNCHANGED <<available, overrun, lost, letters, on, done>>

EndBatch(p) ==
    /\ pc[p] = "claim"
    /\ left[p] = 0 \/ \A e \in Events : ~Claimable(e)
    /\ pc' = [pc EXCEPT ![p] = "idle"]
    /\ left' = [left EXCEPT ![p] = 0]
    /\ UNCHANGED <<event, letters, on, hand, unread, done>>

\* processEvent reads the switches one by one; reading one can fail.
Gate(p) ==
    /\ pc[p] = "gate"
    /\ \/ \E s \in unread[p] \cap on :
             unread' = [unread EXCEPT ![p] = @ \ {s}] /\ UNCHANGED pc
       \/ unread[p] = {} /\ pc' = [pc EXCEPT ![p] = "work"] /\ UNCHANGED unread
       \/ /\ ~(unread[p] \subseteq on)
          /\ pc' = [pc EXCEPT ![p] = "defer"] /\ unread' = [unread EXCEPT ![p] = {}]
       \/ pc' = [pc EXCEPT ![p] = "fail"] /\ unread' = [unread EXCEPT ![p] = {}]
    /\ UNCHANGED <<event, letters, on, hand, left, done>>

\* The work of an event is several statements, each committed by itself: an
\* error can leave all, some or none of them behind.
Work(p) ==
    /\ pc[p] = "work"
    /\ \/ done' = done \cup {hand[p].event} /\ pc' = [pc EXCEPT ![p] = "record"]
       \/ done' \in {done, done \cup {hand[p].event}} /\ pc' = [pc EXCEPT ![p] = "fail"]
    /\ UNCHANGED <<event, letters, on, hand, left, unread>>

\* The event leaves the processor's hand; the batch goes on.
Release(p) ==
    /\ hand' = [hand EXCEPT ![p] = NoHand]
    /\ pc' = [pc EXCEPT ![p] = "claim"]
    /\ stale' = [stale EXCEPT ![hand[p].event] = FALSE]
    /\ UNCHANGED <<overrun, lost>>

MarkProcessed(p) ==
    /\ pc[p] = "record"
    /\ status' = [status EXCEPT ![hand[p].event] = "processed"]
    /\ Release(p)
    /\ UNCHANGED <<attempts, available, failures, letters, on, left, unread, done>>

\* failEvent before the last attempt: exponential backoff.
Retry(p) ==
    /\ pc[p] = "fail"
    /\ hand[p].attempts < MaxAttempts
    /\ LET e == hand[p].event IN
        /\ status' = [status EXCEPT ![e] = "failed"]
        /\ available' = [available EXCEPT ![e] = "later"]
        /\ Count(e)
    /\ Release(p)
    /\ UNCHANGED <<attempts, letters, on, left, unread, done>>

\* Mutant: the dead letter is written while the human review switch is on only.
DeadLetterIfReviewed(p) ==
    /\ pc[p] = "fail"
    /\ hand[p].attempts >= MaxAttempts
    /\ LET e == hand[p].event IN
        /\ status' = [status EXCEPT ![e] = "failed"]
        /\ available' = [available EXCEPT ![e] = "never"]
        /\ Count(e)
        /\ dead' = IF Review \in on THEN dead \cup {e} ELSE dead
        /\ openReviews' = IF Review \in on THEN openReviews \cup {e} ELSE openReviews
    /\ Release(p)
    /\ UNCHANGED <<attempts, on, left, unread, done>>

\* failEvent on the last attempt: dead letter, never available again, and a
\* review case when that switch is on and none is open.
DeadLetter(p) ==
    /\ pc[p] = "fail"
    /\ hand[p].attempts >= MaxAttempts
    /\ LET e == hand[p].event IN
        /\ status' = [status EXCEPT ![e] = "failed"]
        /\ available' = [available EXCEPT ![e] = "never"]
        /\ Count(e)
        /\ dead' = dead \cup {e}
        /\ openReviews' = IF Review \in on THEN openReviews \cup {e} ELSE openReviews
    /\ Release(p)
    /\ UNCHANGED <<attempts, on, left, unread, done>>

\* Mutant: a deferred event keeps the attempt counted at its claim.
RefundNothing(n) == n

\* GREATEST(attempts - 1, 0)
Refund(n) == IF n = 0 THEN 0 ELSE n - 1

\* deferEvent: the pause is not an attempt.
Defer(p) ==
    /\ pc[p] = "defer"
    /\ LET e == hand[p].event IN
        /\ status' = [status EXCEPT ![e] = "pending"]
        /\ attempts' = [attempts EXCEPT ![e] = Refund(@)]
        /\ available' = [available EXCEPT ![e] = "later"]
    /\ Release(p)
    /\ UNCHANGED <<failures, letters, on, left, unread, done>>

\* A database error ends the batch, a crash the process; either way the event
\* in hand stays in processing until its lock is stale.
Interrupt(p) ==
    /\ pc[p] # "idle"
    /\ lost' = IF hand[p] # NoHand /\ hand[p].attempts = MaxAttempts
               THEN lost \cup {hand[p].event} ELSE lost
    /\ pc' = [pc EXCEPT ![p] = "idle"]
    /\ hand' = [hand EXCEPT ![p] = NoHand]
    /\ left' = [left EXCEPT ![p] = 0]
    /\ unread' = [unread EXCEPT ![p] = {}]
    /\ UNCHANGED <<status, attempts, available, stale, failures, overrun, letters, on, done>>

\* UpdateIntelligenceSwitch: turning a switch on reschedules waiting events,
\* dead letters included (they are 'failed' rows).
TurnOn(s) ==
    /\ s \notin on
    /\ on' = on \cup {s}
    /\ available' = [e \in Events |->
          IF /\ status[e] \in {"pending", "failed"}
             /\ s = Global \/ s \in Rescheduled \cap SwitchesOf[e]
          THEN "now" ELSE available[e]]
    /\ UNCHANGED <<status, attempts, stale, failures, overrun, lost, letters, processor, done>>

TurnOff(s) ==
    /\ s \in on
    /\ on' = on \ {s}
    /\ UNCHANGED <<event, letters, processor, done>>

\* An administrator decides a review case; the event itself is not touched.
CloseReview(e) ==
    /\ e \in openReviews
    /\ openReviews' = openReviews \ {e}
    /\ UNCHANGED <<event, dead, on, processor, done>>

BecomeAvailable(e) ==
    /\ available[e] = "later"
    /\ available' = [available EXCEPT ![e] = "now"]
    /\ UNCHANGED <<status, attempts, stale, failures, overrun, lost, letters, on, processor, done>>

Held(e) == \E p \in Processors : hand[p] # NoHand /\ hand[p].event = e

\* Five minutes pass on a locked row, whether a processor still works on it or not.
LockAges(e) ==
    /\ status[e] = "processing"
    /\ ~stale[e]
    /\ stale' = [stale EXCEPT ![e] = TRUE]
    /\ overrun' = IF Held(e) THEN overrun \cup {e} ELSE overrun
    /\ UNCHANGED <<status, attempts, available, failures, lost, letters, on, processor, done>>

-----------------------------------------------------------------------------
ProcessorStep(p) ==
    \/ StartBatch(p) \/ EndBatch(p) \/ Gate(p) \/ Work(p)
    \/ MarkProcessed(p) \/ Retry(p) \/ DeadLetter(p) \/ Defer(p)
    \/ \E e \in Events : ClaimEvent(p, e)

Next ==
    \/ \E e \in Events : Enqueue(e) \/ CloseReview(e) \/ BecomeAvailable(e) \/ LockAges(e)
    \/ \E s \in Switches : TurnOn(s) \/ TurnOff(s)
    \/ \E p \in Processors : ProcessorStep(p) \/ Interrupt(p)

Spec == Init /\ [][Next]_vars

\* Run's ticker starts batches, every statement ends or fails, time passes;
\* an event that keeps being claimable is claimed (ORDER BY created_at),
\* though batches may keep failing in between.
Fairness ==
    /\ \A p \in Processors : WF_vars(ProcessorStep(p) \/ Interrupt(p))
    /\ \A e \in Events : SF_vars(\E p \in Processors : ClaimEvent(p, e))
    /\ \A e \in Events : WF_vars(BecomeAvailable(e)) /\ WF_vars(LockAges(e))

FairSpec == Spec /\ Fairness

-----------------------------------------------------------------------------
(* Properties.  processEvent has no deadline and an outcome names its      *)
(* event by id only: a processor that outlives its lock writes over what   *)
(* the one that reclaimed the event did, and may even give a dead letter   *)
(* an attempt back.  Of such an event (overrun) less can be said.          *)

\* The attempts of an event are exactly its failed ones plus the one in
\* progress or done: pausing a capability for any time costs none of them
\* (processor.go:133, 182-191).
AttemptsCountFailures ==
    \A e \in Events \ overrun :
        attempts[e] = failures[e] + (IF status[e] \in {"processing", "processed"} THEN 1 ELSE 0)

AtLastAttempt(e) ==
    \E p \in Processors : hand[p] # NoHand /\ hand[p].event = e /\ hand[p].attempts = MaxAttempts

\* An event that failed its last attempt is in the dead letters (processor.go:146-176).
\* However slow processors are, no event is out of attempts that is not a dead letter, done,
\* at its last attempt, or lost with the processor of that attempt.
ExhaustedIsDeadLettered ==
    \A e \in Events :
        /\ e \notin overrun /\ status[e] # "processing" /\ failures[e] = MaxAttempts => e \in dead
        /\ attempts[e] = MaxAttempts => e \in dead \cup done \cup lost \/ AtLastAttempt(e)

\* A dead letter is not taken up again, although turning a switch on makes it
\* available now (admin/intelligence.go:438-454, processor.go:120).
DeadLettersRest ==
    [][\A e \in dead : e \in dead' /\ (e \notin overrun' => status'[e] = status[e])]_vars

\* The last attempt was interrupted: nothing in the engine looks at it again.
Stranded(e) == status[e] = "processing" /\ attempts[e] = MaxAttempts

Resolved(e) == (status[e] = "processed" /\ e \in done) \/ e \in dead \/ Stranded(e)

\* With the switches left on, every event ends processed with its work written, dead,
\* or stranded by an interruption of its last attempt.
Drains ==
    \A e \in Events :
        <>[](Switches \subseteq on) /\ <>(status[e] # "absent") => <>[](Resolved(e) \/ e \in overrun)

=============================================================================
