------------------------------ MODULE GatewayCalls ------------------------------
(***************************************************************************)
(* One process of the AI gateway (intelligence/gateway): the callers of    *)
(* Generate, the concurrency slots, the circuit breaker and the attempts   *)
(* of one operation with their budget reservations and journal entries.    *)
(* Limiters, prices, schemas and payloads are inputs that refuse or not;   *)
(* what a reservation does to the budget is GatewayBudget.                 *)
(***************************************************************************)
EXTENDS Integers, FiniteSets

CONSTANTS
    Callers,          \* request handlers, each calls Generate again and again
    MaxConcurrent,    \* capacity of the channel of slots
    MaxAttempts,      \* MaxRetries + 1
    Threshold         \* consecutive failures that open the breaker

VARIABLES
    enabled,    \* what the gate answers: switches, registry, membership
    slots,      \* length of the channel s.concurrency
    failures,   \* consecutiveFailures, not told apart above Threshold
    circuit,    \* openUntil: "zero", "future" or "past"
    probe,
    pc,         \* a caller's step
    attempt,    \* its attempt number
    outcome,    \* how its attempt, then its operation ended
    unsettled,  \* its reservations not given to Finish
    since       \* its provider calls since the gate last closed (history)

breaker == <<failures, circuit, probe>>
operation == <<attempt, outcome, unsettled>>
vars == <<enabled, slots, breaker, pc, operation, since>>

\* Results of an operation: codes that count, codes that do not.
Counted == {"transient", "rejected", "failed"}
Outcomes == {"none", "ok", "ignored"} \cup Counted

Init ==
    /\ enabled \in BOOLEAN
    /\ slots = 0
    /\ failures = 0 /\ circuit = "zero" /\ probe = FALSE
    /\ pc = [c \in Callers |-> "idle"]
    /\ attempt = [c \in Callers |-> 0]
    /\ outcome = [c \in Callers |-> "none"]
    /\ unsettled = [c \in Callers |-> 0]
    /\ since = [c \in Callers |-> 0]

-----------------------------------------------------------------------------
(* Admission                                                               *)

\* Authorize, which a product service asks before it looks for a stored answer, and
\* which Generate and each attempt repeat: configuration and Gate.Allow.
Authorized == enabled

\* Generate asks before anything is consumed.
Enter(c) ==
    /\ pc[c] = "idle" /\ Authorized
    /\ pc' = [pc EXCEPT ![c] = "gated"]
    /\ UNCHANGED <<enabled, slots, breaker, operation, since>>

\* A limiter refuses, or the channel is full.
Turned(c) ==
    /\ pc[c] = "gated"
    /\ pc' = [pc EXCEPT ![c] = "idle"]
    /\ UNCHANGED <<enabled, slots, breaker, operation, since>>

TakeSlot(c) ==
    /\ pc[c] = "gated" /\ slots < MaxConcurrent
    /\ slots' = slots + 1
    /\ pc' = [pc EXCEPT ![c] = "slot"]
    /\ UNCHANGED <<enabled, breaker, operation, since>>

\* beginProviderCall
Begins == circuit # "future" /\ ~probe

Begin(c) ==
    /\ pc[c] = "slot"
    /\ IF Begins
       THEN /\ pc' = [pc EXCEPT ![c] = "attempt"]
            /\ attempt' = [attempt EXCEPT ![c] = 1]
            /\ probe' = (circuit # "zero")
       ELSE /\ pc' = [pc EXCEPT ![c] = "leaving"]
            /\ UNCHANGED <<attempt, probe>>
    /\ UNCHANGED <<enabled, slots, failures, circuit, outcome, unsettled, since>>

-----------------------------------------------------------------------------
(* generateAttempts                                                        *)

\* The operation returns with this result.
Ends(c, o) == pc' = [pc EXCEPT ![c] = "ended"] /\ outcome' = [outcome EXCEPT ![c] = o]

\* Budget.Reserve grants or refuses; the context may have ended before.
Reserve(c) ==
    /\ pc[c] = "attempt"
    /\ \/ /\ unsettled' = [unsettled EXCEPT ![c] = @ + 1]
          /\ pc' = [pc EXCEPT ![c] = "reserved"]
          /\ UNCHANGED outcome
       \/ \E o \in {"ignored", "failed"} : Ends(c, o) /\ UNCHANGED unsettled
    /\ UNCHANGED <<enabled, slots, breaker, attempt, since>>

\* Mutant: the operation that cannot be journalled returns at once.
JournalForgets(c) ==
    /\ pc[c] = "reserved"
    /\ \/ /\ pc' = [pc EXCEPT ![c] = "provider"]
          /\ since' = [since EXCEPT ![c] = @ + 1]
          /\ UNCHANGED outcome
       \/ Ends(c, "ignored") /\ UNCHANGED since
    /\ UNCHANGED <<enabled, slots, breaker, attempt, unsettled>>

\* The pending observation is written, or fails, or the context has ended.
Journal(c) ==
    /\ pc[c] = "reserved"
    /\ \/ /\ pc' = [pc EXCEPT ![c] = "provider"]
          /\ since' = [since EXCEPT ![c] = @ + 1]
          /\ UNCHANGED <<outcome, unsettled>>
       \/ /\ \E o \in {"ignored", "failed"} : Ends(c, o)
          /\ unsettled' = [unsettled EXCEPT ![c] = @ - 1]
          /\ UNCHANGED since
    /\ UNCHANGED <<enabled, slots, breaker, attempt>>

\* The provider answers, fails or is cut off by a deadline or a cancellation.
Answer(c) ==
    /\ pc[c] = "provider"
    /\ \E o \in Outcomes \ {"none"} : outcome' = [outcome EXCEPT ![c] = o]
    /\ pc' = [pc EXCEPT ![c] = "answered"]
    /\ UNCHANGED <<enabled, slots, breaker, attempt, unsettled, since>>

\* Mutant: one attempt more.
RetriesOneMore(c) == outcome[c] = "transient" /\ attempt[c] <= MaxAttempts

\* A transient failure, another attempt left.
Retries(c) == outcome[c] = "transient" /\ attempt[c] < MaxAttempts

\* finish, the completed observation, and what follows from the outcome.
Settle(c) ==
    /\ pc[c] = "answered"
    /\ unsettled' = [unsettled EXCEPT ![c] = @ - 1]
    /\ \/ Ends(c, "ignored")
       \/ Ends(c, outcome[c])
       \/ Retries(c) /\ pc' = [pc EXCEPT ![c] = "waiting"] /\ UNCHANGED outcome
    /\ UNCHANGED <<enabled, slots, breaker, attempt, since>>

\* Mutant: the gate is asked once per operation.
RetryUngated(c) ==
    /\ pc[c] = "waiting"
    /\ \/ /\ pc' = [pc EXCEPT ![c] = "attempt"]
          /\ attempt' = [attempt EXCEPT ![c] = @ + 1]
          /\ UNCHANGED outcome
       \/ \E o \in {"ignored", "failed"} : Ends(c, o) /\ UNCHANGED attempt
    /\ UNCHANGED <<enabled, slots, breaker, unsettled, since>>

\* After the delay the gate is asked again; the context may end first.
Retry(c) ==
    /\ pc[c] = "waiting"
    /\ \/ /\ enabled
          /\ pc' = [pc EXCEPT ![c] = "attempt"]
          /\ attempt' = [attempt EXCEPT ![c] = @ + 1]
          /\ UNCHANGED outcome
       \/ \E o \in {"ignored", "failed"} : Ends(c, o) /\ UNCHANGED attempt
    /\ UNCHANGED <<enabled, slots, breaker, unsettled, since>>

-----------------------------------------------------------------------------
(* The deferred calls of Generate: endProviderCall, then the slot          *)

Bounded(n) == IF n > Threshold THEN Threshold ELSE n

\* Mutant: a result that does not count returns before the probe is cleared.
RecordEarly(c) ==
    /\ pc[c] = "ended"
    /\ probe' = (outcome[c] = "ignored" /\ probe)
    /\ IF outcome[c] = "ok"
       THEN failures' = 0 /\ circuit' = "zero"
       ELSE IF outcome[c] \in Counted
       THEN /\ failures' = Bounded(failures + 1)
            /\ circuit' = IF outcome[c] = "rejected" \/ failures + 1 >= Threshold
                          THEN "future" ELSE circuit
       ELSE UNCHANGED <<failures, circuit>>
    /\ pc' = [pc EXCEPT ![c] = "leaving"]
    /\ UNCHANGED <<enabled, slots, operation, since>>

\* Mutant: a success resets the count and leaves openUntil.
RecordStaysOpen(c) ==
    /\ pc[c] = "ended"
    /\ probe' = FALSE
    /\ IF outcome[c] = "ok"
       THEN failures' = 0 /\ UNCHANGED circuit
       ELSE IF outcome[c] \in Counted
       THEN /\ failures' = Bounded(failures + 1)
            /\ circuit' = IF outcome[c] = "rejected" \/ failures + 1 >= Threshold
                          THEN "future" ELSE circuit
       ELSE UNCHANGED <<failures, circuit>>
    /\ pc' = [pc EXCEPT ![c] = "leaving"]
    /\ UNCHANGED <<enabled, slots, operation, since>>

\* endProviderCall(returned)
Record(c) ==
    /\ pc[c] = "ended"
    /\ probe' = FALSE
    /\ IF outcome[c] = "ok"
       THEN failures' = 0 /\ circuit' = "zero"
       ELSE IF outcome[c] \in Counted
       THEN /\ failures' = Bounded(failures + 1)
            /\ circuit' = IF outcome[c] = "rejected" \/ failures + 1 >= Threshold
                          THEN "future" ELSE circuit
       ELSE UNCHANGED <<failures, circuit>>
    /\ pc' = [pc EXCEPT ![c] = "leaving"]
    /\ UNCHANGED <<enabled, slots, operation, since>>

\* The slot, taken before the breaker was asked, is given back in every case.
Leave(c) ==
    /\ pc[c] = "leaving"
    /\ slots' = slots - 1
    /\ pc' = [pc EXCEPT ![c] = "idle"]
    /\ attempt' = [attempt EXCEPT ![c] = 0]
    /\ outcome' = [outcome EXCEPT ![c] = "none"]
    /\ since' = [since EXCEPT ![c] = 0]
    /\ UNCHANGED <<enabled, breaker, unsettled>>

-----------------------------------------------------------------------------

\* Thirty seconds after the breaker opened.
CooledDown ==
    /\ circuit = "future"
    /\ circuit' = "past"
    /\ UNCHANGED <<enabled, slots, failures, probe, pc, operation, since>>

\* An administrator, or the registry, changes the gate's answer.
SetGate ==
    /\ enabled' = ~enabled
    /\ since' = [c \in Callers |-> 0]
    /\ UNCHANGED <<slots, breaker, pc, operation>>

CallStep(c) ==
    \/ Begin(c) \/ Reserve(c) \/ Journal(c) \/ Answer(c) \/ Settle(c) \/ Retry(c)
    \/ Record(c) \/ Leave(c)

Next ==
    \/ \E c \in Callers : Enter(c) \/ Turned(c) \/ TakeSlot(c) \/ CallStep(c)
    \/ CooledDown
    \/ SetGate

Spec == Init /\ [][Next]_vars

\* An operation that began goes on: its provider calls, its delays and its
\* context have deadlines, and the deferred calls always run.
Fairness == WF_vars(CooledDown) /\ \A c \in Callers : WF_vars(CallStep(c))

-----------------------------------------------------------------------------
(* Properties                                                              *)

\* Every variable keeps its shape; no more slots are taken than there are, no operation
\* calls the provider more often than allowed.
TypeOK ==
    /\ enabled \in BOOLEAN
    /\ slots \in 0..MaxConcurrent
    /\ failures \in 0..Threshold
    /\ circuit \in {"zero", "future", "past"}
    /\ probe \in BOOLEAN
    /\ pc \in [Callers -> {"idle", "gated", "slot", "attempt", "reserved", "provider",
                           "answered", "waiting", "ended", "leaving"}]
    /\ attempt \in [Callers -> 0..MaxAttempts]
    /\ outcome \in [Callers -> Outcomes]
    /\ unsettled \in [Callers -> 0..1]
    /\ since \in [Callers -> 0..MaxAttempts]

\* "Reconcile this attempt BEFORE a retry can reserve another allowance"
\* (attempts.go:106): a caller has a reservation exactly from Reserve to
\* finish, on every way out.
OneReservation ==
    \A c \in Callers : unsettled[c] = IF pc[c] \in {"reserved", "provider", "answered"} THEN 1 ELSE 0

\* The breaker is open exactly while its reason is still counted: no success,
\* however late, leaves one without the other (circuit.go:25-29, 39-44).
OpenedForFailures ==
    /\ circuit # "zero" => failures > 0
    /\ failures = Threshold => circuit # "zero"

\* Switched off, the gateway lets an operation make at most the one provider
\* call it was about to make: a retry asks the gate again (attempts.go:28).
SwitchStopsRetries == ~enabled => \A c \in Callers : since[c] <= 1

\* What a caller may count on: breaker, switch and budget.
BreakerIsHonest == OpenedForFailures /\ SwitchStopsRetries /\ OneReservation

\* The breaker never refuses for ever: it becomes ready to let a call in.
NoLockout == []<>Begins

=============================================================================
