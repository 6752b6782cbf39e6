------------------------------- MODULE MCDelivery -------------------------------
(***************************************************************************)
(* One run for the two services that the processes call and that may fail: *)
(* the email provider, with one security email, and the provider of the AI,*)
(* behind its breaker.  Each behaviour is about one of them.               *)
(***************************************************************************)
EXTENDS MCEmailOutbox

CONSTANTS
    Callers, MaxConcurrent, CallAttempts, Threshold \* those of GatewayCalls

VARIABLES
    service, \* what the behaviour is about
    enabled, slots, failures, circuit, probe, step, attempt, outcome, unsettled, since

ASSUME CallsAssumption == Threshold \in Nat \ {0}

Calls == INSTANCE GatewayCalls WITH MaxAttempts <- CallAttempts, pc <- step

callVars == <<enabled, slots, failures, circuit, probe, step, attempt, outcome, unsettled, since>>

DeliveryInit ==
    /\ service \in {"emails", "calls"}
    /\ Init /\ Calls!Init
    /\ service = "emails" => enabled

EmailsRun == service = "emails" /\ Next /\ UNCHANGED <<service, callVars>>

CallsRun == service = "calls" /\ Calls!Next /\ UNCHANGED <<service, vars>>

\* Fairness of both, as the two modules state it: the calls have nothing to do in a
\* behaviour about emails, and emails are not handled in one about calls.
DeliverySpec ==
    /\ DeliveryInit
    /\ [][EmailsRun \/ CallsRun]_<<service, vars, callVars>>
    /\ \A w \in Workers :
          WF_vars(service = "emails" /\ (WorkerStep(w) \/ Abandon(w) \/ Restart(w)))
    /\ \A m \in Messages : WF_vars(service = "emails" /\ Expire(m))
    /\ Calls!Fairness

-----------------------------------------------------------------------------
\* The breaker and the switch mean what they say, and no reservation is left behind.
BreakerIsHonest == Calls!BreakerIsHonest

\* The breaker never refuses for ever, whatever ends a call.
CallsReturn == Calls!NoLockout

=============================================================================
