----------------------------- MODULE AdminGovernance -----------------------------
(***************************************************************************)
(* What administrators may put into force only with the approval of others *)
(* (internal/admin: control_plane.go, control_plane_manage.go and          *)
(* intelligence.go): models and prompts of the intelligence engine, its    *)
(* switches, operational settings and releases.                            *)
(*                                                                         *)
(* A model serves an engine and a prompt a key: its slot.  A migration has *)
(* put a model in force for six engines and a prompt for one key, which    *)
(* nobody evaluated or approved.  The promotion of an item retires the     *)
(* items in force that its statement sees, and a unique index of the slot  *)
(* refuses the second of two promotions that did not see each other; every *)
(* other operation is one transaction on rows that it locks.  Forms, notes *)
(* and audit rows are left out.                                            *)
(***************************************************************************)
EXTENDS Integers, FiniteSets

CONSTANTS
    Admins,
    RoleOf,      \* [Admins -> roles]
    Items,       \* models and prompts
    KindOf,      \* [Items -> {"model", "prompt"}]
    SlotOf,      \* [Items -> engines and prompt keys]
    Seeded,      \* those the migration has put in force
    Pinned,      \* models of OpenAI for the gateway, evaluated on a stored baseline
    Switches,    \* those that need an approval to be enabled
    Settings,
    Releases,
    Requests,    \* identifiers of requests for approval
    Thresholds,  \* bound: the numbers of approvals asked for
    Deployment,  \* the switch model_deployment
    None

VARIABLES
    request,  \* [Requests -> [action, target, by, required, yes, no, status, lapsed] or None]
    item,     \* [Items -> its status or None]
    passed,   \* models with an evaluation that passed
    seen,     \* [Items -> what the promotion in flight has seen in force, or None]
    enabled,  \* switches that are on
    risky,    \* settings in force as high risk
    evidence, \* kinds of operation evidence that passed
    release   \* [Releases -> [status, approval] or None]

govVars == <<request, item, passed, seen, enabled, risky, evidence, release>>

InForceAs(i) == IF KindOf[i] = "model" THEN "production" ELSE "active"

\* Every switch is seeded off; some may have been enabled since.
Init ==
    /\ request = [q \in Requests |-> None]
    /\ item = [i \in Items |-> IF i \in Seeded THEN InForceAs(i) ELSE None]
    /\ passed = {} /\ seen = [i \in Items |-> None]
    /\ enabled \in SUBSET Switches
    /\ risky = {} /\ evidence = {}
    /\ release = [r \in Releases |-> None]

-----------------------------------------------------------------------------
(* Roles                                                                   *)

\* rolePermissions, for the operations below.
PermissionsOf(role) ==
    CASE role = "super_admin" ->
            {"control_plane.manage", "models.evaluate", "models.approve", "prompts.approve",
             "config.update", "kill_switch", "system.configure", "release.manage"}
      [] role = "platform_admin" -> {"control_plane.manage", "models.evaluate", "release.manage"}
      [] role \in {"security_admin", "privacy_admin"} -> {"control_plane.manage"}
      [] OTHER -> {}

May(a, permission) == permission \in PermissionsOf(RoleOf[a])

-----------------------------------------------------------------------------
(* Approvals                                                               *)

\* What can be asked for; a release and an organisation's review ask for their own.
Subjects ==
    [action : {"put in force"}, target : Items]
        \cup [action : {"enable"}, target : Switches]
        \cup [action : {"set"}, target : Settings]

Ask(a, q, subject, required) ==
    /\ request[q] = None
    /\ request' = [request EXCEPT ![q] =
          [action |-> subject.action, target |-> subject.target, by |-> a,
           required |-> required, yes |-> {}, no |-> {}, status |-> "pending", lapsed |-> FALSE]]

CreateApproval(a, q, subject, required) ==
    /\ May(a, "control_plane.manage")
    /\ Ask(a, q, subject, required)
    /\ UNCHANGED <<item, passed, seen, enabled, risky, evidence, release>>

\* The request of a review of an organisation; nothing acts on its result.
CreateOrganizationGovernanceReview(a, q) ==
    /\ May(a, "control_plane.manage")
    /\ Ask(a, q, [action |-> "organization", target |-> None], 2)
    /\ UNCHANGED <<item, passed, seen, enabled, risky, evidence, release>>

\* Its expires_at passes; once decided, nobody looks at it.
RequestLapses(q) ==
    /\ request[q] # None /\ request[q].status = "pending" /\ ~request[q].lapsed
    /\ request' = [request EXCEPT ![q].lapsed = TRUE]
    /\ UNCHANGED <<item, passed, seen, enabled, risky, evidence, release>>

\* Mutant: the administrator who asks may decide.
MayDecideAnyone(a, q) == request[q].status = "pending" /\ a \notin request[q].yes \cup request[q].no

\* Never one's own request, and once.
MayDecide(a, q) ==
    /\ a # request[q].by
    /\ request[q].status = "pending"
    /\ a \notin request[q].yes \cup request[q].no

\* Mutant: the decision that makes the number complete is counted twice.
OutcomeEarly(r) ==
    IF r.no # {} THEN "rejected" ELSE IF Cardinality(r.yes) + 1 >= r.required THEN "approved" ELSE "pending"

\* One rejection is enough.
Outcome(r) ==
    IF r.no # {} THEN "rejected" ELSE IF Cardinality(r.yes) >= r.required THEN "approved" ELSE "pending"

DecideApproval(a, q, approve) ==
    /\ May(a, "control_plane.manage")
    /\ request[q] # None /\ MayDecide(a, q)
    /\ LET voted == IF approve THEN [request[q] EXCEPT !.yes = @ \cup {a}]
                    ELSE [request[q] EXCEPT !.no = @ \cup {a}]
       IN request' = [request EXCEPT ![q] =
             IF request[q].lapsed THEN [@ EXCEPT !.status = "expired"]
             ELSE [voted EXCEPT !.status = Outcome(voted)]]
    /\ UNCHANGED <<item, passed, seen, enabled, risky, evidence, release>>

\* Mutant: any approval will do.
ApprovedAny(q, action, target) == request[q] # None /\ request[q].status = "approved"

\* approvedSettingRequest, and its like: approved, for this action on this target.
Approved(q, action, target) ==
    /\ request[q] # None /\ request[q].status = "approved"
    /\ request[q].action = action /\ request[q].target = target

-----------------------------------------------------------------------------
(* Models and prompts                                                      *)

InForce(i) == item[i] \in {"production", "active"}

Waiting(i) ==
    IF KindOf[i] = "model" THEN item[i] \in {"candidate", "evaluating", "approved"}
    ELSE item[i] = "draft"

RegisterIntelligenceModel(a, i) ==
    /\ May(a, "config.update")
    /\ KindOf[i] = "model" /\ item[i] = None
    /\ item' = [item EXCEPT ![i] = "candidate"]
    /\ UNCHANGED <<request, passed, seen, enabled, risky, evidence, release>>

\* The next version of its key, a draft.
RegisterIntelligencePrompt(a, i) ==
    /\ May(a, "config.update")
    /\ KindOf[i] = "prompt" /\ item[i] = None
    /\ item' = [item EXCEPT ![i] = "draft"]
    /\ UNCHANGED <<request, passed, seen, enabled, risky, evidence, release>>

\* RequestModelEvaluation: one statement on the row.
RequestModelEvaluation(a, i) ==
    /\ May(a, "models.evaluate")
    /\ KindOf[i] = "model" /\ i \notin Pinned /\ item[i] \in {"candidate", "evaluating"}
    /\ seen[i] = None
    /\ item' = [item EXCEPT ![i] = "evaluating"]
    /\ UNCHANGED <<request, passed, seen, enabled, risky, evidence, release>>

\* requestAIBaselineEvaluation: the evaluation and the status, under the row's lock.
EvaluatePinned(a, i) ==
    /\ May(a, "models.evaluate")
    /\ i \in Pinned /\ Waiting(i) /\ seen[i] = None
    /\ passed' = passed \cup {i}
    /\ item' = [item EXCEPT ![i] = "approved"]
    /\ UNCHANGED <<request, seen, enabled, risky, evidence, release>>

\* evaluateMatchingModel, of a model that waited when the worker began: the evaluation is
\* stored, then the status if it is still a waiting one.
EvaluateModel(i, gate) ==
    /\ KindOf[i] = "model" /\ i \notin Seeded \cup Pinned
    /\ item[i] # None /\ seen[i] = None
    /\ passed' = IF gate THEN passed \cup {i} ELSE passed
    /\ item' = [item EXCEPT ![i] =
          IF ~Waiting(i) THEN @ ELSE IF gate THEN "approved" ELSE "evaluating"]
    /\ UNCHANGED <<request, seen, enabled, risky, evidence, release>>

Rivals(i) == {j \in Items \ {i} : SlotOf[j] = SlotOf[i] /\ InForce(j)}

\* PromoteIntelligenceModel, ActivateIntelligencePrompt: the row is locked, everything is
\* checked, and the items in force are looked up.
BeginPromotion(a, i, q) ==
    /\ May(a, IF KindOf[i] = "model" THEN "models.approve" ELSE "prompts.approve")
    /\ seen[i] = None /\ Waiting(i)
    /\ KindOf[i] = "model" => Deployment \in enabled /\ i \in passed
    /\ Approved(q, "put in force", i)
    /\ seen' = [seen EXCEPT ![i] = Rivals(i)]
    /\ UNCHANGED <<request, item, passed, enabled, risky, evidence, release>>

\* Mutant: no unique index over what is in force.
IndexAllowsAll(i) == TRUE

\* ux_intelligence_one_production_model, ux_intelligence_active_prompt
IndexAllows(i) == Rivals(i) \subseteq seen[i]

EndPromotion(i) ==
    /\ seen[i] # None
    /\ item' = IF ~IndexAllows(i) THEN item
               ELSE [j \in Items |->
                       IF j = i THEN InForceAs(i) ELSE IF j \in seen[i] THEN "retired" ELSE item[j]]
    /\ seen' = [seen EXCEPT ![i] = None]
    /\ UNCHANGED <<request, passed, enabled, risky, evidence, release>>

-----------------------------------------------------------------------------
(* Switches, settings, releases                                            *)

UpdateIntelligenceSwitch(a, s, on) ==
    /\ May(a, "kill_switch")
    /\ on /\ s \notin enabled => \E q \in Requests : Approved(q, "enable", s)
    /\ enabled' = IF on THEN enabled \cup {s} ELSE enabled \ {s}
    /\ UNCHANGED <<request, item, passed, seen, risky, evidence, release>>

\* Whether a setting is of high risk is what the caller says of it.
SetOperationalSetting(a, k, highRisk) ==
    /\ May(a, "system.configure")
    /\ highRisk => \E q \in Requests : Approved(q, "set", k)
    /\ risky' = IF highRisk THEN risky \cup {k} ELSE risky \ {k}
    /\ UNCHANGED <<request, item, passed, seen, enabled, evidence, release>>

\* A backup or a restore test that passed.
Evidence == {"backup", "restore_test"}

RecordOperationEvidence(a, kind) ==
    /\ May(a, "system.configure")
    /\ evidence' = evidence \cup {kind}
    /\ UNCHANGED <<request, item, passed, seen, enabled, risky, release>>

\* IngestCollector, of operation evidence: whoever has the collector's secret.
IngestEvidence(kind) ==
    /\ evidence' = evidence \cup {kind}
    /\ UNCHANGED <<request, item, passed, seen, enabled, risky, release>>

\* The release asks for its approval in the same transaction.
CreateReleaseAcceptance(a, r, q) ==
    /\ May(a, "release.manage")
    /\ release[r] = None
    /\ Ask(a, q, [action |-> "rollout", target |-> r], 2)
    /\ release' = [release EXCEPT ![r] = [status |-> "reviewing", approval |-> q]]
    /\ UNCHANGED <<item, passed, seen, enabled, risky, evidence>>

Rolling == {"approved_for_rollout", "deployed", "accepted"}

\* Mutant: what is deployed already is not looked at again.
NeedsApprovalOnce(r, status) == status = "approved_for_rollout"

NeedsApproval(r, status) == status \in Rolling

\* Any status may follow any other.
UpdateReleaseAcceptance(a, r, status) ==
    /\ May(a, "release.manage")
    /\ release[r] # None
    /\ NeedsApproval(r, status) => request[release[r].approval].status = "approved"
    /\ status = "accepted" => Evidence \subseteq evidence
    /\ release' = [release EXCEPT ![r].status = status]
    /\ UNCHANGED <<request, item, passed, seen, enabled, risky, evidence>>

-----------------------------------------------------------------------------
ApprovalStep(a) ==
    \E q \in Requests :
        \/ \E subject \in Subjects, n \in Thresholds : CreateApproval(a, q, subject, n)
        \/ CreateOrganizationGovernanceReview(a, q)
        \/ \E approve \in BOOLEAN : DecideApproval(a, q, approve)

EngineStep(a) ==
    \/ \E i \in Items :
          \/ RegisterIntelligenceModel(a, i) \/ RegisterIntelligencePrompt(a, i)
          \/ RequestModelEvaluation(a, i) \/ EvaluatePinned(a, i)
          \/ \E q \in Requests : BeginPromotion(a, i, q)
    \/ \E s \in Switches, on \in BOOLEAN : UpdateIntelligenceSwitch(a, s, on)

OperationsStep(a) ==
    \/ \E k \in Settings, highRisk \in BOOLEAN : SetOperationalSetting(a, k, highRisk)
    \/ \E kind \in Evidence : RecordOperationEvidence(a, kind)
    \/ \E r \in Releases, q \in Requests : CreateReleaseAcceptance(a, r, q)
    \/ \E r \in Releases, status \in Rolling \cup {"rejected", "rolled_back"} :
          UpdateReleaseAcceptance(a, r, status)

Next ==
    \/ \E a \in Admins : ApprovalStep(a) \/ EngineStep(a) \/ OperationsStep(a)
    \/ \E q \in Requests : RequestLapses(q)
    \/ \E kind \in Evidence : IngestEvidence(kind)
    \/ \E i \in Items : EndPromotion(i) \/ \E gate \in BOOLEAN : EvaluateModel(i, gate)

Spec == Init /\ [][Next]_govVars

-----------------------------------------------------------------------------
(* Properties                                                              *)

\* As many administrators as asked for, none of them the one who asked, and nobody against.
Vouched(action, target) ==
    \E q \in Requests :
        LET r == request[q]
        IN /\ r # None
           /\ r.action = action /\ r.target = target
           /\ r.no = {} /\ r.by \notin r.yes
           /\ Cardinality(r.yes) >= r.required /\ r.required >= 2

\* Nothing takes effect without at least three administrators, whatever happened between
\* the approval and its use.
FourEyes ==
    /\ \A i \in Items : ~InForce(i) /\ InForce(i)' => Vouched("put in force", i)
    /\ \A s \in enabled' \ enabled : Vouched("enable", s)
    /\ \A k \in risky' \ risky : Vouched("set", k)
    /\ \A r \in Releases :
          release'[r] # release[r] /\ release'[r].status \in Rolling => Vouched("rollout", r)

\* One model serves an engine and one prompt a key, and but for those of the migration
\* no model that has not passed.
OneInForce ==
    \A i \in Items : InForce(i) =>
        /\ Rivals(i) = {}
        /\ KindOf[i] = "model" => i \in passed \cup Seeded

\* What is in force goes only for another that serves the same, and never comes back: an
\* engine that is served stays served, and the migration's own is replaced once.
ServiceContinues ==
    \A i \in Items :
        /\ InForce(i) => \E j \in Items : SlotOf[j] = SlotOf[i] /\ InForce(j)'
        /\ InForce(i) \/ item[i] = "retired" => item'[i] \in {item[i], "retired"}

\* What was decided about a request stays decided.
DecisionsStand ==
    \A q \in Requests : request[q] # None =>
        /\ request[q].status # "pending" => request'[q].status = request[q].status
        /\ request[q].yes \subseteq request'[q].yes /\ request[q].no \subseteq request'[q].no

GovernanceHolds == FourEyes /\ OneInForce' /\ ServiceContinues /\ DecisionsStand

=============================================================================
