------------------------------- MODULE MCAccounts -------------------------------
(***************************************************************************)
(* One run for the people of the platform: what an account may spend with  *)
(* the AI until it is erased, accounts and their sessions, telephone       *)
(* numbers, the second factor of an administrator, and what administrators *)
(* decide and record.  Each behaviour is about one of them.                *)
(***************************************************************************)
EXTENDS MCGatewayBudget, TLC

CONSTANTS
    rec, cand, other, \* a recruiter and two candidates
    sally,            \* a telephone number
    \* those of Accounts
    People, RecruiterAccounts, CompanyOf, Sessions, LoginRequests, Numbers,
    CodeTries, LastPassword, CodeLimit, TextLimit,
    \* those of SecondFactor
    ProofFor, PendingFor, FactorTries, TriedFor, MaxTime, MaxSecret,
    \* those of AdminGovernance
    Admins, RoleOf, Items, KindOf, SlotOf, Seeded, Pinned, Switches, Deployment, Settings,
    Releases, Approvals, Thresholds,
    super, sec1,                  \* administrators
    model0, model1, model2,       \* models of an engine, the first the migration's
    text0, text1, text2,          \* prompts of a key, the first the migration's
    gpt0, gpt1,                   \* models of the gateway, the first the migration's
    \* those of AdminRecords
    Cases, Articles, Flags, CaseReviews, Insights, Rules, Deliveries, Evaluators,
    MaxEvents, MaxRevision, MaxAlerts,
    None

VARIABLES
    subject, \* what the behaviour is about
    account, review, verified, session, login, codes, phone, texts,
    now, live, rotated, carrying, secrets, credential, proof, tries, accepted,
    request, item, passed, seen, enabled, risky, evidence, release,
    case, article, flag, alerts, breached, checking, journal, recorded, answered

\* Behaviours about accounts are about the recruiter, those about numbers about the two
\* candidates.
A == INSTANCE Accounts WITH
    Recruiters <- RecruiterAccounts, Requests <- LoginRequests, MaxTries <- CodeTries,
    MaxPassword <- LastPassword, MaxCodes <- CodeLimit, MaxTexts <- TextLimit

F == INSTANCE SecondFactor WITH MaxTries <- FactorTries

G == INSTANCE AdminGovernance WITH Requests <- Approvals

R == INSTANCE AdminRecords WITH Reviews <- CaseReviews

ASSUME AccountsAssumption ==
    /\ {rec, cand, other} \subseteq People /\ sally \in Numbers
    /\ None \notin Sessions /\ None # "pending"
    /\ None \notin
          [status : {"pending", "active", "suspended", "disabled", "erased"},
           verified : BOOLEAN, forced : BOOLEAN, password : Nat,
           profile : {"none", "pending", "verified", "rejected"}]
    /\ None \notin [owner : People, password : Nat, root : Sessions, live : BOOLEAN]

ASSUME FactorAssumption ==
    /\ ProofFor \in Nat /\ PendingFor \in Nat
    /\ None \notin [at : Nat, until : Nat, secret : Nat]
    /\ None \notin [enrolled : BOOLEAN, last : Int, session : Sessions \cup {None}, until : Int]

ASSUME GovernanceAssumption ==
    /\ Thresholds \subseteq Nat \ {0, 1} \* CreateApproval takes two to five approvals
    /\ None \notin {"production", "active", "retired"}
    /\ Seeded \subseteq Items
    /\ \A i, j \in Seeded : SlotOf[i] = SlotOf[j] => i = j
    /\ None \notin
          [action : {"put in force", "enable", "set", "organization", "rollout"},
           target : Items \cup Switches \cup Settings \cup Releases \cup {None},
           by : Admins, required : Nat, yes : SUBSET Admins, no : SUBSET Admins,
           status : {"pending", "approved", "rejected", "expired"}, lapsed : BOOLEAN]

ASSUME RecordsAssumption ==
    None \notin {"open", "investigating", "awaiting_review", "resolved", "closed"}

MCCompanyOf == [u \in RecruiterAccounts |-> "company"]
MCRoleOf == [a \in Admins |-> IF a = super THEN "super_admin" ELSE "security_admin"]
MCKindOf == [i \in Items |-> IF i \in {text0, text1, text2} THEN "prompt" ELSE "model"]
MCSlotOf == [i \in Items |->
    CASE i \in {model0, model1, model2} -> "engine"
      [] i \in {gpt0, gpt1} -> "gateway"
      [] OTHER -> "key"]

Symmetry == Permutations(Sessions)

accountVars == <<account, review, verified, session, login, codes, phone, texts>>
factorVars == <<now, live, rotated, carrying, secrets, credential, proof, tries, accepted>>
govVars == <<request, item, passed, seen, enabled, risky, evidence, release>>
recordVars == <<case, article, flag, alerts, breached, checking, journal, recorded, answered>>

-----------------------------------------------------------------------------
MCInit ==
    /\ subject \in {"budget", "accounts", "phones", "factor", "models", "gateway", "prompts",
                    "releases", "cases", "reviews", "alerts", "collector"}
    /\ Init /\ A!Init /\ F!Init /\ G!Init /\ R!Init
    /\ breached = {}
    /\ subject \notin {"models", "gateway"} => enabled = {}

BudgetRun ==
    /\ subject = "budget" /\ Next
    /\ UNCHANGED <<accountVars, factorVars, govVars, recordVars>>

AccountsRun ==
    /\ \/ /\ subject = "accounts"
          /\ \/ A!ActivationStep(rec) \/ A!PasswordStep(rec) \/ A!ModerationStep(rec)
             \/ A!SessionStep
             \/ \E n \in DOMAIN codes : A!CodeLapses(n)
       \/ /\ subject = "phones"
          /\ \/ A!ActivationStep(cand) \/ A!RegisterCandidate(other, sally) \/ A!ModerationStep(cand)
             \/ A!PhoneStep
    /\ UNCHANGED <<vars, factorVars, govVars, recordVars>>

FactorRun ==
    /\ subject = "factor" /\ F!Next
    /\ UNCHANGED <<vars, accountVars, govVars, recordVars>>

\* What a first and a second request are for; the second may not be there at all.
Targets(q) ==
    CASE subject = "models"  -> IF q = "q1" THEN {model1} ELSE {model2, "deployment"}
      [] subject = "gateway" -> IF q = "q1" THEN {gpt1} ELSE {"deployment"}
      [] subject = "prompts" -> IF q = "q1" THEN {text1} ELSE {text2, "limit"}
      [] OTHER               -> IF q = "q1" THEN {"release"} ELSE {None}

Askers(q) == IF q = "q1" THEN {super, sec1} ELSE {super}

GovernanceRun ==
    /\ subject \in {"models", "gateway", "prompts", "releases"} /\ G!Next
    /\ subject # "models" => \A i \in {model1, model2} : item'[i] = item[i]
    /\ subject # "gateway" => item'[gpt1] = item[gpt1]
    /\ subject \notin {"models", "gateway"} => enabled' = enabled
    /\ subject # "prompts" => risky' = risky /\ \A i \in {text1, text2} : item'[i] = item[i]
    /\ subject # "releases" => UNCHANGED <<evidence, release>>
    /\ \A q \in {"q1", "q2"} :
          IF request'[q] = request[q] THEN TRUE
          ELSE request'[q].target \in Targets(q) /\ request'[q].by \in Askers(q)
    /\ request'["q2"] # None => request'["q1"] # None
    /\ UNCHANGED <<vars, accountVars, factorVars, recordVars>>

RecordsRun ==
    /\ \/ subject = "cases" /\ R!ControlPlaneStep
       \/ subject = "reviews" /\ R!ReviewStep
       \/ subject = "alerts" /\ R!AlertStep
       \/ subject = "collector" /\ R!CollectorStep
    /\ UNCHANGED <<vars, accountVars, factorVars, govVars>>

MCNext ==
    /\ BudgetRun \/ AccountsRun \/ FactorRun \/ GovernanceRun \/ RecordsRun
    /\ UNCHANGED subject

MCSpec ==
    MCInit /\ [][MCNext]_<<subject, vars, accountVars, factorVars, govVars, recordVars>>

-----------------------------------------------------------------------------
\* Accounts: activation is earned, sessions are current, the last text counts, moderation
\* stays.
AccountsHold == [][(subject \in {"accounts", "phones"} => A!AccountsHold)]_accountVars

\* Administrators: the second factor, four eyes over what is in force, and records that
\* tell what was.
AdministratorsHold ==
    [][ /\ (subject = "factor" => F!SecondFactorHolds)
        /\ (subject \in {"models", "gateway", "prompts", "releases"} => G!GovernanceHolds)
        /\ (subject \in {"cases", "reviews", "alerts", "collector"} => R!RecordsHold)
      ]_<<factorVars, govVars, recordVars>>

=============================================================================
