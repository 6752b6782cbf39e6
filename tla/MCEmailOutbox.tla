---------------------------- MODULE MCEmailOutbox ----------------------------
(***************************************************************************)
(* Instances of EmailOutbox for TLC: one security email, two successive    *)
(* invitations to another address, two API processes.                      *)
(***************************************************************************)
EXTENDS EmailOutbox

CONSTANTS code, link1, link2, ann, bob

MCRecipientOf == [m \in Messages |-> IF m = code THEN ann ELSE bob]

-----------------------------------------------------------------------------
\* What happens to invitations: no security email.
InvitationsNext ==
    \/ \E m \in Messages : SendInvitation(m)
    \/ CancelInvitation
    \/ CandidateAnswers
    \/ \E w \in Workers : WorkerStep(w) \/ Abandon(w) \/ Restart(w) \/ SyncSuppressions(w)
    \/ \E m \in Messages : BecomeDue(m) \/ Expire(m) \/ LeaseRunsOut(m)
    \/ \E r \in Recipients : ProviderSuppresses(r)

=============================================================================
