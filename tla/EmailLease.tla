------------------------------ MODULE EmailLease ------------------------------
(***************************************************************************)
(* The five minute lease of an outbox batch against the time its worker    *)
(* can take over it (backend/internal/emaildelivery).  Module EmailOutbox  *)
(* assumes, unless SlowWorkers, that a lease only runs out on rows nobody  *)
(* works on; this module says when that is so.  The worker makes up to two *)
(* provider calls per row, one row after the other, and all rows of a      *)
(* batch were stamped when it was claimed.  Database time is not counted.  *)
(***************************************************************************)
EXTENDS Integers

CONSTANTS
    Lease,       \* interval '5 minutes', in ticks
    CallTimeout, \* the SES client's timeout, in ticks
    MaxBatch     \* cfg.BatchSize after NewService's clamp

ASSUME LeaseAssumption ==
    /\ Lease \in Nat
    /\ CallTimeout \in Nat \ {0}
    /\ MaxBatch \in Nat \ {0}

VARIABLES
    alive,   \* the claiming process is up
    size,    \* rows claimed
    left,    \* rows still in sending, the one in hand included
    call,    \* 1: Suppression, 2: Send, for the row in hand
    elapsed, \* ticks spent in that call
    age,     \* ticks since the claim, now - updated_at
    takenFromLive \* a recovery took rows from a running worker (history)

vars == <<alive, size, left, call, elapsed, age, takenFromLive>>

TypeOK ==
    /\ alive \in BOOLEAN
    /\ size \in 0..MaxBatch
    /\ left \in 0..size
    /\ call \in {1, 2}
    /\ elapsed \in 0..CallTimeout
    /\ age \in 0..(Lease + 1)
    /\ takenFromLive \in BOOLEAN

Init ==
    /\ alive = TRUE
    /\ size = 0 /\ left = 0
    /\ call = 1 /\ elapsed = 0 /\ age = 0
    /\ takenFromLive = FALSE

\* claim: the rows are stamped with the time of the claiming transaction.
Claim ==
    /\ left = 0
    /\ alive
    /\ size' \in 1..MaxBatch
    /\ left' = size'
    /\ call' = 1 /\ elapsed' = 0 /\ age' = 0
    /\ UNCHANGED <<alive, takenFromLive>>

\* The suppression lookup answers in time and the row goes on to Send.
SuppressionAnswered ==
    /\ alive /\ left > 0
    /\ call = 1
    /\ call' = 2 /\ elapsed' = 0
    /\ UNCHANGED <<alive, size, left, age, takenFromLive>>

\* The row in hand gets its outcome, after one call or after two.
RowDone ==
    /\ alive /\ left > 0
    /\ left' = left - 1
    /\ call' = 1 /\ elapsed' = 0
    /\ UNCHANGED <<alive, size, age, takenFromLive>>

\* Mutant: a client without a timeout.
TickNoTimeout ==
    /\ left > 0
    /\ age <= Lease
    /\ age' = age + 1
    /\ elapsed' = IF alive /\ elapsed < CallTimeout THEN elapsed + 1 ELSE elapsed
    /\ UNCHANGED <<alive, size, left, call, takenFromLive>>

\* Time passes; a live worker's call ends before it exceeds its timeout.
\* Ages beyond Lease + 1 are not told apart.
Tick ==
    /\ left > 0
    /\ age <= Lease
    /\ alive => elapsed < CallTimeout
    /\ age' = age + 1
    /\ elapsed' = IF alive THEN elapsed + 1 ELSE elapsed
    /\ UNCHANGED <<alive, size, left, call, takenFromLive>>

Crash ==
    /\ alive
    /\ alive' = FALSE
    /\ UNCHANGED <<size, left, call, elapsed, age, takenFromLive>>

StartUp ==
    /\ ~alive
    /\ left = 0
    /\ alive' = TRUE
    /\ UNCHANGED <<size, left, call, elapsed, age, takenFromLive>>

\* Another worker's claim recovers rows stamped more than a lease ago.
Recover ==
    /\ left > 0
    /\ age > Lease
    /\ takenFromLive' = (takenFromLive \/ alive)
    /\ left' = 0
    /\ call' = 1 /\ elapsed' = 0
    /\ UNCHANGED <<alive, size, age>>

Next ==
    Claim \/ SuppressionAnswered \/ RowDone \/ Tick \/ Crash \/ StartUp \/ Recover

Spec == Init /\ [][Next]_vars

-----------------------------------------------------------------------------
\* Rows are recovered only from a worker that has died: "Recover rows left in
\* sending by a process crash" (service.go:131).
OnlyDeadWorkersRecovered == ~takenFromLive

\* Calls begun for the batch before the one in progress, at most.
CallsBefore == 2 * (size - left) + (call - 1)

\* Why it holds when a whole batch of calls fits in the lease: the age of the
\* claim is bounded by the calls made so far.
AgeBound == alive /\ left > 0 => age <= CallTimeout * CallsBefore + elapsed

BatchFits == CallTimeout * (2 * MaxBatch) <= Lease

=============================================================================
