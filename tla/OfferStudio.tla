------------------------------- MODULE OfferStudio -------------------------------
(***************************************************************************)
(* The offers of one application (internal/recruiter, offer_*.go): their   *)
(* versions, the approval of a version, its release to the candidate and   *)
(* the candidate's answer.  Every command locks the company and reads its  *)
(* facts again, so it is one step; but it was composed on a screen that    *)
(* may be old by then, and the client may send it again.                   *)
(*                                                                         *)
(* Only the active version of an offer is kept: no statement writes an     *)
(* earlier one.  recruiter_offers.status always equals its status: every   *)
(* statement that writes one writes the other in its transaction.  Version *)
(* and revision only grow and are only compared for equality: a command    *)
(* carries, in place of the numbers, whether they are still the displayed  *)
(* ones.  A command that arrives as soon as it is composed is one step;    *)
(* of those held up or repeated, Keys bounds how many there are at a time. *)
(***************************************************************************)
EXTENDS Integers, Sequences, FiniteSets

CONSTANTS
    Recruiters,   \* members of the company
    Candidate,    \* the application's candidate
    Admins,       \* the members a step of role primary_admin stands for
    Granted,      \* [Permissions -> SUBSET Recruiters]: the grants at first
    Revocable,    \* bound: the grants, <<permission, recruiter>>, that change
    Policies,     \* approval policies the company may adopt
    Terms,        \* what offers may say: a subset of {"incomplete", "plain", "rich"}
    Offers,       \* bound: offers created for the application
    LastExpiry,   \* bound: the last day an offer can name; a day more passes
    Keys,         \* bound: commands held up or repeated at one time
    None

Permissions == {"edit", "release", "approve"}
Days == 0..LastExpiry + 1

\* A policy has the steps always asked and those its rules add for "rich" terms; a
\* step names reviewers or stands for a role.
Step == [named : SUBSET Recruiters, role : BOOLEAN]

\* ValidateOfferPolicy and validOfferStep: a policy that can be saved.
ValidPolicy(p) ==
    /\ p.mode \in {"none", "single", "sequential", "parallel", "conditional"}
    /\ p.steps \in Seq(Step) /\ p.extra \in Seq(Step)
    /\ p.mode = "none" => p.steps = <<>>
    /\ p.mode = "single" => Len(p.steps) = 1
    /\ p.mode \in {"sequential", "parallel"} => p.steps # <<>>
    /\ p.mode # "conditional" => p.extra = <<>>
    /\ \A list \in {p.steps, p.extra} : \A i \in DOMAIN list :
          list[i].role <=> list[i].named = {}

ASSUME OfferAssumption ==
    /\ Candidate \notin Recruiters /\ None \notin Recruiters \cup {Candidate} \cup Keys \cup Offers
    /\ Admins \subseteq Recruiters
    /\ Granted \in [Permissions -> SUBSET Recruiters]
    /\ Revocable \subseteq Permissions \X Recruiters
    /\ Terms \subseteq {"incomplete", "plain", "rich"}
    /\ LastExpiry \in Nat
    /\ \A p \in Policies : ValidPolicy(p)

Open == {"draft", "awaiting_approval", "approved", "sent", "viewed", "accepted"}
WithCandidate == {"sent", "viewed"}
Answered == {"accepted", "declined"}
Final == Answered \cup {"withdrawn", "cancelled"}

VARIABLES
    offer,     \* [Offers -> version \cup {NoOffer}]: the active version
    cmds,      \* [Keys -> command]: composed, and not yet arrived or repeated
    inOffer,   \* the application is in the offer stage
    may,       \* [Permissions -> SUBSET Recruiters]
    policy,    \* company_offer_settings.approval_policy
    day

vars == <<offer, cmds, inOffer, may, policy, day>>

\* A version: its terms and the policy frozen with them, the approval requests, and
\* the terms displayed to those who approved, released or answered it.
Draft(u, terms, expires) ==
    [status |-> "draft", by |-> u, terms |-> terms, expires |-> expires, policy |-> policy,
     asked |-> {}, agreed |-> {}]
NoOffer == [status |-> "none"]

\* A command: by whom, on which offer, with the terms on the screen. "done" counts its
\* effects; a repeated key is answered from offer_command_results.
Command(u, do, o, terms, expires) ==
    [key |-> None, by |-> u, do |-> do, offer |-> o, fresh |-> TRUE,
     terms |-> terms, expires |-> expires, done |-> 0]
NoCommand == Command(None, "none", None, "none", 0)

Init ==
    /\ offer = [o \in Offers |-> NoOffer]
    /\ cmds = [k \in Keys |-> NoCommand]
    /\ inOffer = TRUE
    /\ may = Granted
    /\ policy \in Policies
    /\ day = 0

-----------------------------------------------------------------------------
Steps(p, terms) == p.steps \o (IF terms = "rich" THEN p.extra ELSE <<>>)

\* resolveOfferApprovers: whom a step asks, given the author of the terms.
Reviewers(step, author) == IF step.role THEN Admins \ {author} ELSE step.named

Resolvable(steps, author) ==
    /\ \A i \in DOMAIN steps :
          /\ Reviewers(steps[i], author) # {}
          /\ Reviewers(steps[i], author) \subseteq may["approve"] \ {author}
    /\ \A i, j \in DOMAIN steps :
          i # j => Reviewers(steps[i], author) \cap Reviewers(steps[j], author) = {}

Asked(steps, author) ==
    UNION {{[step |-> i, who |-> u, said |-> "pending"] : u \in Reviewers(steps[i], author)} : i \in DOMAIN steps}

AllApproved(asked) == \A r \in asked : r.said = "approved"
EarlierApproved(v, r) == \A q \in v.asked : q.step < r.step => q.said = "approved"
Ordered(v) == v.policy.mode \in {"sequential", "conditional"}

\* Mutant: steps that rules add count as unordered.
TurnSequentialOnly(v, r) == v.policy.mode = "sequential" => EarlierApproved(v, r)

Turn(v, r) == Ordered(v) => EarlierApproved(v, r)

\* Mutant: only new offers are looked at.
OnlyOpenAtFirst(o) == offer[o] = NoOffer => \A p \in Offers \ {o} : offer[p].status \notin Open

\* ux_recruiter_offers_open_application lets o be open.
OnlyOpen(o) == \A p \in Offers \ {o} : offer[p].status \notin Open

\* Mutant: a repeated key is not recognised.
KnownNever(c) == FALSE

\* cachedOfferCommand: the key is recorded with its result.
Known(c) == c.done > 0

\* Mutant: whatever is displayed is taken for current.
CurrentAnyway(c) == TRUE

\* Version, revision and terms hash are those the client sends back.
Current(c) == c.fresh

\* What a command on an existing offer must pass before it is looked at.
Accepts(c, do) == c.do = do /\ ~Known(c) /\ Current(c)

-----------------------------------------------------------------------------
\* The commands composed on o are no longer those of its version and revision.
Stale(o, k) == IF cmds[k].offer = o THEN [cmds[k] EXCEPT !.fresh = FALSE] ELSE cmds[k]

\* c writes the version v of o and is recorded.
Commit(c, o, v) ==
    /\ offer' = [offer EXCEPT ![o] = v]
    /\ cmds' = [k \in Keys |-> IF c.key = k THEN [Stale(o, k) EXCEPT !.done = @ + 1] ELSE Stale(o, k)]
    /\ UNCHANGED <<inOffer, may, policy, day>>

\* c commits its author to the version with the terms he had on the screen.
Agree(c, v) == Commit(c, c.offer, [v EXCEPT !.agreed = @ \cup {c.terms}])

\* Save, of a new offer and of new terms for one that is not closed.
MaySave(c) == c.by \in may["edit"] /\ inOffer /\ c.expires >= day

Create(c) ==
    /\ c.do = "create" /\ ~Known(c) /\ MaySave(c)
    /\ \E o \in Offers :
          /\ offer[o] = NoOffer /\ OnlyOpen(o)
          /\ Commit(c, o, Draft(c.by, c.terms, c.expires))

Edit(c) ==
    /\ Accepts(c, "edit") /\ MaySave(c)
    /\ offer[c.offer].status \notin Final /\ OnlyOpen(c.offer)
    /\ Commit(c, c.offer, Draft(c.by, c.terms, c.expires))

\* Mutant: the steps are those of the company's present policy.
SubmitUnderPresentPolicy(c) ==
    LET v == offer[c.offer]
        steps == Steps(policy, v.terms)
    IN /\ Accepts(c, "submit")
       /\ c.by \in may["edit"] /\ v.status = "draft" /\ v.terms # "incomplete"
       /\ \A r \in v.asked : r.said = "pending"
       /\ \/ /\ steps = <<>>
             /\ Agree(c, [v EXCEPT !.status = "approved"])
          \/ /\ steps # <<>> /\ Resolvable(steps, v.by)
             /\ Agree(c, [v EXCEPT !.status = "awaiting_approval", !.asked = @ \cup Asked(steps, v.by)])

Submit(c) ==
    LET v == offer[c.offer]
        steps == Steps(v.policy, v.terms)
    IN /\ Accepts(c, "submit")
       /\ c.by \in may["edit"] /\ v.status = "draft" /\ v.terms # "incomplete"
       /\ \A r \in v.asked : r.said = "pending"
       /\ \/ /\ steps = <<>>
             /\ Agree(c, [v EXCEPT !.status = "approved"])
          \/ /\ steps # <<>> /\ Resolvable(steps, v.by)
             /\ Agree(c, [v EXCEPT !.status = "awaiting_approval", !.asked = @ \cup Asked(steps, v.by)])

\* Mutant: the decision is written as the status.
VerdictAsDecided(said, asked, status) == IF said # "approved" THEN said ELSE IF AllApproved(asked) THEN said ELSE status

\* A reviewer decides on his request.
Verdict(said, asked, status) ==
    CASE said = "rejected" -> "cancelled"
      [] said = "changes_requested" -> "draft"
      [] OTHER -> IF AllApproved(asked) THEN "approved" ELSE status

Decide(c, do, said) ==
    LET v == offer[c.offer]
    IN /\ Accepts(c, do)
       /\ c.by \in may["approve"] /\ c.by # v.by /\ v.status = "awaiting_approval"
       /\ \E r \in v.asked :
             LET asked == (v.asked \ {r}) \cup {[r EXCEPT !.said = said]}
             IN /\ r.who = c.by /\ r.said = "pending"
                /\ Turn(v, r)
                /\ Agree(c, [v EXCEPT !.asked = asked, !.status = Verdict(said, asked, @)])

Approve(c) == Decide(c, "approve", "approved")
Reject(c) == Decide(c, "reject", "rejected")
RequestChanges(c) == Decide(c, "request_changes", "changes_requested")

\* The letter is stored before the commit. A failure to store it, a quota or a
\* feature the plan lacks refuses the command, which then changes nothing.
Send(c) ==
    LET v == offer[c.offer]
    IN /\ Accepts(c, "send")
       /\ c.by \in may["release"] /\ v.status = "approved" /\ day <= v.expires
       /\ inOffer /\ AllApproved(v.asked)
       /\ Agree(c, [v EXCEPT !.status = "sent"])

\* Withdrawal or cancellation: what the candidate holds can only be withdrawn.
Withdraw(c) ==
    LET v == offer[c.offer]
    IN /\ Accepts(c, "withdraw") \/ Accepts(c, "cancel")
       /\ c.by \in may["release"] /\ v.status \notin Final \cup {"expired"}
       /\ Commit(c, c.offer, [v EXCEPT !.status =
             IF c.do = "cancel" /\ @ \notin WithCandidate THEN "cancelled" ELSE "withdrawn"])

\* A preview, with the letter it stores, changes the revision only.
Preview(c) ==
    /\ Accepts(c, "preview") /\ offer[c.offer].terms # "incomplete"
    /\ Commit(c, c.offer, offer[c.offer])

\* The candidate's commands: a request for clarification changes the revision only.
Respond(c, do, status) ==
    LET v == offer[c.offer]
    IN /\ Accepts(c, do)
       /\ v.status \in WithCandidate /\ day <= v.expires
       /\ Agree(c, [v EXCEPT !.status = status])

See(c) == Respond(c, "view", "viewed")
Accept(c) == Respond(c, "accept", "accepted")
Decline(c) == Respond(c, "decline", "declined")
Clarify(c) == c.do = "clarification" /\ Respond(c, c.do, offer[c.offer].status)

-----------------------------------------------------------------------------
\* What the screens offer to those who may: a command that the status excludes would
\* be refused for good, since a change of status makes it stale.
Screen(status) ==
    CASE status = "draft" -> {"edit", "submit", "withdraw", "cancel", "preview"}
      [] status = "awaiting_approval" ->
            {"edit", "approve", "reject", "request_changes", "withdraw", "cancel", "preview"}
      [] status = "approved" -> {"edit", "send", "withdraw", "cancel", "preview"}
      [] status \in WithCandidate ->
            {"edit", "withdraw", "cancel", "preview", "view", "accept", "decline", "clarification"}
      [] status = "expired" -> {"edit", "preview"}
      [] OTHER -> {}

Actors(do) ==
    CASE do \in {"create", "edit", "submit"} -> may["edit"]
      [] do \in {"approve", "reject", "request_changes"} -> may["approve"]
      [] do \in {"send", "withdraw", "cancel", "preview"} -> may["release"]
      [] OTHER -> {Candidate}

Drafts(do, o) == {Command(u, do, o, t, d) : u \in Actors(do), t \in Terms, d \in day..LastExpiry}

On(do, o) ==
    IF do = "edit" THEN Drafts(do, o) ELSE {Command(u, do, o, offer[o].terms, 0) : u \in Actors(do)}

Composable ==
    Drafts("create", None) \cup UNION {UNION {On(do, o) : do \in Screen(offer[o].status)} : o \in Offers}

Compose(k) ==
    /\ cmds[k] = NoCommand
    /\ \E c \in Composable : cmds' = [cmds EXCEPT ![k] = [c EXCEPT !.key = k]]
    /\ UNCHANGED <<offer, inOffer, may, policy, day>>

\* The client has its answer, or stops trying.
Forget(k) ==
    /\ cmds[k] # NoCommand
    /\ cmds' = [cmds EXCEPT ![k] = NoCommand]
    /\ UNCHANGED <<offer, inOffer, may, policy, day>>

-----------------------------------------------------------------------------
\* UpdateStage by a recruiter, or the candidate's withdrawal: neither looks at offers.
MoveStage ==
    /\ inOffer' = ~inOffer
    /\ UNCHANGED <<offer, cmds, may, policy, day>>

\* SaveSettings: another policy, or a grant.
SaveSettings ==
    /\ \/ policy' \in Policies \ {policy} /\ UNCHANGED may
       \/ /\ UNCHANGED policy
          /\ \E g \in Revocable :
                may' = [may EXCEPT ![g[1]] = IF g[2] \in @ THEN @ \ {g[2]} ELSE @ \cup {g[2]}]
    /\ UNCHANGED <<offer, cmds, inOffer, day>>

\* Mutant: every open offer expires.
OverdueIfOpen(o) == offer[o].status \in Open /\ offer[o].expires < day

\* Mutant: an offer the candidate has seen does not expire.
OverdueUnseen(o) == offer[o].status = "sent" /\ offer[o].expires < day

Overdue(o) == offer[o].status \in WithCandidate /\ offer[o].expires < day

\* The hourly pass.
ExpireGovernedOffers ==
    LET late == {o \in Offers : Overdue(o)}
    IN /\ late # {}
       /\ offer' = [o \in Offers |-> IF o \in late THEN [offer[o] EXCEPT !.status = "expired"] ELSE offer[o]]
       /\ cmds' = [k \in Keys |-> IF cmds[k].offer \in late THEN Stale(cmds[k].offer, k) ELSE cmds[k]]
       /\ UNCHANGED <<inOffer, may, policy, day>>

NextDay ==
    /\ day <= LastExpiry
    /\ day' = day + 1
    /\ UNCHANGED <<offer, cmds, inOffer, may, policy>>

Recruiting(c) ==
    \/ Create(c) \/ Edit(c) \/ Submit(c) \/ Approve(c) \/ Reject(c) \/ RequestChanges(c)
    \/ Send(c) \/ Withdraw(c) \/ Preview(c)

Responding(c) == See(c) \/ Accept(c) \/ Decline(c) \/ Clarify(c)

Next ==
    \/ \E c \in Composable \cup {cmds[k] : k \in Keys} : Recruiting(c) \/ Responding(c)
    \/ \E k \in Keys : Compose(k) \/ Forget(k)
    \/ MoveStage \/ SaveSettings \/ ExpireGovernedOffers \/ NextDay

Spec == Init /\ [][Next]_vars

\* Days pass, and the pass runs every hour (cmd/api/main.go).
Fairness == WF_vars(NextDay) /\ WF_vars(ExpireGovernedOffers)

-----------------------------------------------------------------------------
Statuses == Open \cup Final \cup {"expired"}
Decisions == {"pending", "approved", "rejected", "changes_requested"}

Request == [step : Nat \ {0}, who : Recruiters, said : Decisions]
Version ==
    [status : Statuses, by : Recruiters, terms : Terms, expires : Days, policy : Policies,
     asked : SUBSET Request, agreed : SUBSET Terms]

\* Every variable keeps its shape.
TypeOK ==
    /\ offer \in [Offers -> Version \cup {NoOffer}]
    /\ may \in [Permissions -> SUBSET Recruiters]
    /\ policy \in Policies /\ inOffer \in BOOLEAN /\ day \in Days

\* What the candidate holds or has answered was complete and approved, in every step
\* its own frozen policy asks for its terms, by reviewers other than its author, each
\* for one step.
Approved(v) ==
    LET steps == Steps(v.policy, v.terms)
    IN /\ v.terms # "incomplete"
       /\ \A i \in DOMAIN steps : \E r \in v.asked : r.step = i
       /\ \A r \in v.asked : r.said = "approved" /\ r.who # v.by
       /\ \A r, q \in v.asked : r.who = q.who => r = q

SentWasApproved ==
    \A o \in Offers : offer[o].status \in WithCandidate \cup Answered => Approved(offer[o])

\* Under an ordered policy nobody has decided before every earlier step approved.
DecidedInOrder ==
    \A o \in Offers : offer[o] # NoOffer /\ Ordered(offer[o]) =>
        \A r \in offer[o].asked : r.said # "pending" => EarlierApproved(offer[o], r)

\* Whoever submitted, approved, released or answered a version had its very terms on
\* the screen, whatever edits crossed his command.
AgreedOnTerms ==
    \A o \in Offers : offer[o] # NoOffer => offer[o].agreed \subseteq {offer[o].terms}

\* However often a client repeats a command, it takes effect once.
AppliedOnce == \A k \in Keys : cmds[k].done <= 1

\* No two offers of the application are open, an accepted one included.
OneOpenOffer ==
    \A o, p \in Offers : offer[o].status \in Open /\ offer[p].status \in Open => o = p

\* An answer, a withdrawal and a cancellation stand: no edit, no late command and no
\* expiry pass changes the offer any more.
FinalStands ==
    [][\A o \in Offers : offer[o].status \in Final => offer'[o] = offer[o]]_vars

\* What the candidate holds is answered, withdrawn, replaced or expires: it does not
\* stay with him for ever.
ReleasedSettles ==
    \A o \in Offers : offer[o].status \in WithCandidate ~> offer[o].status \notin WithCandidate

=============================================================================
