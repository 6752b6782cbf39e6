------------------------- MODULE MCIntelligenceEvents -------------------------
(***************************************************************************)
(* Two instances of IntelligenceEvents in one run: an uploaded CV, which   *)
(* needs two switches that reschedule, and a job event, whose switch does  *)
(* not, before one processor that keeps inside its locks; the CV alone     *)
(* before two processors, however slow.                                    *)
(***************************************************************************)
EXTENDS IntelligenceEvents

CONSTANTS cvUploaded, jobUpdated, p1, p2

MCSwitchesOf == [e \in Events |->
    IF e = cvUploaded THEN {"candidate_intelligence", "cv_intelligence"} ELSE {"job_intelligence"}]

MCCapabilities == UNION {MCSwitchesOf[e] : e \in Events}

MCRescheduled == {"candidate_intelligence", "cv_intelligence"} \cap MCCapabilities

VARIABLE instance  \* which of the two this behaviour is of

\* The bound of an instance, on the state a step leads to.
Bounded ==
    \/ instance = "batch" /\ pc'[p2] = "idle" /\ overrun' = {}
    \/ instance = "slow" /\ status'[jobUpdated] = "absent" /\ on' \subseteq {Global} \cup SwitchesOf[cvUploaded]

Within(A) == A /\ Bounded /\ UNCHANGED instance

mcvars == <<vars, instance>>

MCInit == Init /\ instance \in {"batch", "slow"}

MCNext == Within(Next)

\* Fairness of IntelligenceEvents, of the steps an instance has.
MCFairness ==
    /\ \A p \in Processors : WF_mcvars(Within(ProcessorStep(p) \/ Interrupt(p)))
    /\ \A e \in Events : SF_mcvars(Within(\E p \in Processors : ClaimEvent(p, e)))
    /\ \A e \in Events : WF_mcvars(Within(BecomeAvailable(e))) /\ WF_mcvars(Within(LockAges(e)))

MCSpec == MCInit /\ [][MCNext]_mcvars /\ MCFairness

=============================================================================
