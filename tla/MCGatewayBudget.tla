---------------------------- MODULE MCGatewayBudget ----------------------------
(***************************************************************************)
(* Instances of GatewayBudget: a candidate (two calls) and a recruiter of  *)
(* one tenant (one call), around a midnight that does not end the month.   *)
(***************************************************************************)
EXTENDS GatewayBudget

CONSTANTS candidate, recruiter, tenant, hire, first, second

MCUserOf == [c \in Calls |-> IF c = hire THEN recruiter ELSE candidate]
MCScopeOf == [c \in Calls |-> IF c = hire THEN tenant ELSE candidate]
MCMonthOf == [d \in 0..LastDay |-> 0]

=============================================================================
