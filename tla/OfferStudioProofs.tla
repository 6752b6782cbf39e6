---------------------------- MODULE OfferStudioProofs ----------------------------
(***************************************************************************)
(* For any company, policies, grants, offers, days and commands in transit:*)
(* what reaches the candidate was approved as its frozen policy asks,      *)
(* every command acts on the terms its author saw, one offer at most is    *)
(* open, and a closed offer stays as it is.                                *)
(*                                                                         *)
(* Every command writes one version of one offer.  The proof shows, command*)
(* by command, that what it writes is Sound (from what was read under the  *)
(* company's lock), and then once, for all of them, that a sound write     *)
(* keeps the invariant and leaves closed offers alone.                     *)
(*                                                                         *)
(* Then the templates that offers are prepared from, for any templates,    *)
(* editors, commands and plans.                                            *)
(***************************************************************************)
EXTENDS CompanyOffers, FiniteSetTheorems, TLAPS

Saves == {"create", "edit"}

Commands ==
    [key : Keys \cup {None}, by : Recruiters \cup {Candidate, None},
     do : {"none", "create"} \cup Screen("draft") \cup Screen("awaiting_approval")
          \cup Screen("approved") \cup Screen("sent"),
     offer : Offers \cup {None}, fresh : BOOLEAN,
     terms : Terms \cup {"none"}, expires : Days, done : Nat]

\* What the client has on its screen when the command is current.
Displayed(c) ==
    /\ c.do \in Saves => c.terms \in Terms
    /\ c.do \notin {"none", "create"} => c.offer \in Offers /\ offer[c.offer].status # "none"
    /\ c.fresh /\ c.do \notin Saves \cup {"none"} => c.terms = offer[c.offer].terms

\* The requests of a version that was submitted.
AskedRight(v) ==
    LET steps == Steps(v.policy, v.terms)
    IN /\ v.terms # "incomplete"
       /\ \A i \in DOMAIN steps : \E r \in v.asked : r.step = i
       /\ \A r \in v.asked : r.who # v.by
       /\ \A r, q \in v.asked : r.who = q.who => r = q

InOrder(v) == Ordered(v) => \A r \in v.asked : r.said # "pending" => EarlierApproved(v, r)

\* What the approval requests show in each status.
Evidence(v) ==
    /\ v.status = "draft" => v.asked = {} \/ \E r \in v.asked : r.said # "pending"
    /\ v.status = "awaiting_approval" => AskedRight(v)
    /\ v.status \in {"approved"} \cup WithCandidate \cup Answered => AskedRight(v) /\ AllApproved(v.asked)
    /\ InOrder(v)
    /\ v.agreed \subseteq {v.terms}

CmdsOK == cmds \in [Keys -> Commands] /\ \A k \in Keys : Displayed(cmds[k])

EvidenceOK == \A o \in Offers : offer[o].status # "none" => Evidence(offer[o])

OfferInv == TypeOK /\ CmdsOK /\ EvidenceOK /\ OneOpenOffer

\* A write of v as the active version of o.
Sound(o, v) ==
    /\ o \in Offers /\ v \in Version /\ Evidence(v)
    /\ v.status \in Open => OnlyOpen(o)
    /\ offer[o].status \in Final => v = offer[o]

-----------------------------------------------------------------------------
LEMMA StepsAreSteps ==
    ASSUME NEW p \in Policies, NEW t
    PROVE  Steps(p, t) \in Seq(Step)
BY OfferAssumption DEF Steps, ValidPolicy

\* The requests of a submission: every step has one, none goes to the author and
\* nobody has two.
LEMMA AskedAsResolved ==
    ASSUME NEW steps \in Seq(Step), NEW author \in Recruiters, Resolvable(steps, author),
           TypeOK
    PROVE  LET asked == Asked(steps, author)
           IN /\ asked \subseteq Request
              /\ \A i \in DOMAIN steps : \E r \in asked : r.step = i
              /\ \A r \in asked : r.who # author /\ r.said = "pending"
              /\ \A r, q \in asked : r.who = q.who => r = q
<1> DEFINE asked == Asked(steps, author)
<1>1. \A r : r \in asked <=> \E i \in DOMAIN steps : \E u \in Reviewers(steps[i], author) :
                               r = [step |-> i, who |-> u, said |-> "pending"]
  BY DEF Asked
<1>2. \A i \in DOMAIN steps : i \in Nat \ {0}
  OBVIOUS
<1>3. \A i \in DOMAIN steps : \A u \in Reviewers(steps[i], author) : u \in Recruiters /\ u # author
  BY DEF Resolvable, TypeOK, Permissions
<1> HIDE DEF asked
<1>4. asked \subseteq Request
  BY <1>1, <1>2, <1>3 DEF Request, Decisions
<1>5. \A i \in DOMAIN steps : \E r \in asked : r.step = i
  <2> SUFFICES ASSUME NEW i \in DOMAIN steps PROVE \E r \in asked : r.step = i
    OBVIOUS
  <2>1. PICK u \in Reviewers(steps[i], author) : TRUE
    BY DEF Resolvable
  <2>2. [step |-> i, who |-> u, said |-> "pending"] \in asked
    BY <1>1, <2>1
  <2> QED BY <2>2
<1>6. \A r \in asked : r.who # author /\ r.said = "pending"
  BY <1>1, <1>3
<1>7. \A r, q \in asked : r.who = q.who => r = q
  <2> SUFFICES ASSUME NEW r \in asked, NEW q \in asked, r.who = q.who PROVE r = q
    OBVIOUS
  <2>1. PICK i \in DOMAIN steps : \E u \in Reviewers(steps[i], author) : r = [step |-> i, who |-> u, said |-> "pending"]
    BY <1>1
  <2>2. PICK j \in DOMAIN steps : \E u \in Reviewers(steps[j], author) : q = [step |-> j, who |-> u, said |-> "pending"]
    BY <1>1
  <2>3. r.who \in Reviewers(steps[i], author) /\ r.who \in Reviewers(steps[j], author)
    BY <2>1, <2>2
  <2>4. i = j
    BY <2>3 DEF Resolvable
  <2> QED BY <2>1, <2>2, <2>4
<1> QED BY <1>4, <1>5, <1>6, <1>7 DEF asked

\* A command on an existing offer that is let through: the screen was right.
LEMMA Shown ==
    ASSUME OfferInv, NEW c \in Commands, Displayed(c), NEW do, Accepts(c, do), do \notin {"none", "create"}
    PROVE  /\ c.offer \in Offers /\ offer[c.offer] \in Version /\ Evidence(offer[c.offer])
           /\ do # "edit" => c.terms = offer[c.offer].terms
<1>1. c.offer \in Offers /\ offer[c.offer].status # "none" /\ c.do = do /\ c.fresh
  BY DEF Displayed, Accepts, Current, Commands
<1>2. offer[c.offer] \in Version
  BY <1>1 DEF OfferInv, TypeOK, NoOffer
<1>3. Evidence(offer[c.offer])
  BY <1>1 DEF OfferInv, EvidenceOK
<1>4. do # "edit" => c.terms = offer[c.offer].terms
  BY <1>1 DEF Displayed, Saves
<1> QED BY <1>1, <1>2, <1>3, <1>4

\* An offer that is open is the only one.
LEMMA OpenIsOnly ==
    ASSUME OfferInv, NEW o \in Offers, offer[o].status \in Open
    PROVE  OnlyOpen(o)
BY DEF OfferInv, OneOpenOffer, OnlyOpen

-----------------------------------------------------------------------------
\* Command by command, what is written is sound.
LEMMA DraftSound ==
    ASSUME OfferInv, NEW c \in Commands, Displayed(c), c.do \in Saves, MaySave(c),
           NEW o \in Offers, OnlyOpen(o), offer[o].status \notin Final
    PROVE  Sound(o, Draft(c.by, c.terms, c.expires))
<1> DEFINE v == Draft(c.by, c.terms, c.expires)
<1>1. c.by \in Recruiters /\ c.terms \in Terms /\ c.expires \in Days /\ policy \in Policies
  BY DEF OfferInv, TypeOK, MaySave, Commands, Displayed, Permissions
<1>2. v \in Version
  BY <1>1 DEF Draft, Version, Statuses, Open
<1>3. Evidence(v)
  BY DEF Evidence, Draft, AskedRight, InOrder, AllApproved, WithCandidate, Answered
<1> QED BY <1>2, <1>3 DEF Sound

LEMMA CreateSound ==
    ASSUME OfferInv, NEW c \in Commands, Displayed(c), Create(c)
    PROVE  \E o, v : Sound(o, v) /\ Commit(c, o, v)
<1>1. PICK o \in Offers : offer[o] = NoOffer /\ OnlyOpen(o) /\ Commit(c, o, Draft(c.by, c.terms, c.expires))
  BY DEF Create
<1>2. c.do \in Saves /\ MaySave(c) /\ offer[o].status \notin Final
  BY <1>1 DEF Create, Saves, NoOffer, Final, Answered
<1>3. Sound(o, Draft(c.by, c.terms, c.expires))
  BY <1>1, <1>2, DraftSound
<1> QED BY <1>1, <1>3

LEMMA EditSound ==
    ASSUME OfferInv, NEW c \in Commands, Displayed(c), Edit(c)
    PROVE  \E o, v : Sound(o, v) /\ Commit(c, o, v)
<1>1. c.offer \in Offers
  BY Shown DEF Edit
<1>2. /\ c.do \in Saves /\ MaySave(c) /\ OnlyOpen(c.offer) /\ offer[c.offer].status \notin Final
      /\ Commit(c, c.offer, Draft(c.by, c.terms, c.expires))
  BY DEF Edit, Accepts, Saves
<1>3. Sound(c.offer, Draft(c.by, c.terms, c.expires))
  BY <1>1, <1>2, DraftSound
<1> QED BY <1>2, <1>3

\* A command that commits its author to the terms on the screen.
LEMMA AgreeSound ==
    ASSUME OfferInv, NEW c \in Commands, Displayed(c), NEW do, Accepts(c, do), do \notin {"none", "create", "edit"},
           NEW v \in Version, Agree(c, v),
           v.terms = offer[c.offer].terms, v.agreed = offer[c.offer].agreed,
           offer[c.offer].status \in Open \ {"accepted"},
           Evidence(v)
    PROVE  \E o, w : Sound(o, w) /\ Commit(c, o, w)
<1> DEFINE w == [v EXCEPT !.agreed = @ \cup {c.terms}]
<1>1. c.offer \in Offers /\ offer[c.offer] \in Version /\ c.terms = offer[c.offer].terms
  BY Shown
<1>2. w \in Version
  BY <1>1 DEF Version
<1>3. /\ w.agreed = v.agreed \cup {c.terms} /\ w.terms = v.terms /\ w.status = v.status
      /\ w.asked = v.asked /\ w.policy = v.policy /\ w.by = v.by
  BY DEF Version
<1>4. Evidence(w)
  <2>1. w.agreed \subseteq {w.terms}
    BY <1>1, <1>3 DEF Evidence
  <2> HIDE DEF w
  <2> QED BY <1>3, <2>1 DEF Evidence, AskedRight, InOrder, Ordered, EarlierApproved
<1>5. OnlyOpen(c.offer) /\ offer[c.offer].status \notin Final
  BY <1>1, OpenIsOnly DEF Open, Final, Answered
<1>6. Commit(c, c.offer, w)
  BY DEF Agree
<1> QED BY <1>1, <1>2, <1>4, <1>5, <1>6 DEF Sound

LEMMA SubmitSound ==
    ASSUME OfferInv, NEW c \in Commands, Displayed(c), Submit(c)
    PROVE  \E o, v : Sound(o, v) /\ Commit(c, o, v)
<1> DEFINE v == offer[c.offer]
           steps == Steps(v.policy, v.terms)
<1>1. /\ Accepts(c, "submit") /\ v.status = "draft" /\ v.terms # "incomplete"
      /\ \A r \in v.asked : r.said = "pending"
  BY DEF Submit
<1>2. v \in Version /\ Evidence(v) /\ c.offer \in Offers
  BY <1>1, Shown
<1>3. v.asked = {}
  BY <1>1, <1>2 DEF Evidence
<1>4. steps \in Seq(Step)
  BY <1>2, StepsAreSteps DEF Version
<1>5. CASE steps = <<>> /\ Agree(c, [v EXCEPT !.status = "approved"])
  <2> DEFINE w == [v EXCEPT !.status = "approved"]
  <2>1. w \in Version /\ w.status = "approved" /\ w.asked = {} /\ w.terms = v.terms /\ w.policy = v.policy
        /\ w.agreed = v.agreed
    BY <1>2, <1>3 DEF Version, Statuses, Open
  <2>2. AskedRight(w) /\ AllApproved(w.asked) /\ InOrder(w)
    BY <2>1, <1>5, <1>1 DEF AskedRight, AllApproved, InOrder
  <2>3. Evidence(w)
    BY <2>1, <2>2, <1>2 DEF Evidence
  <2>4. Agree(c, w) /\ v.status \in Open \ {"accepted"}
    BY <1>5, <1>1 DEF Open
  <2> HIDE DEF w
  <2> QED BY <2>1, <2>3, <2>4, <1>1, AgreeSound
<1>6. CASE /\ steps # <<>> /\ Resolvable(steps, v.by)
           /\ Agree(c, [v EXCEPT !.status = "awaiting_approval", !.asked = @ \cup Asked(steps, v.by)])
  <2> DEFINE w == [v EXCEPT !.status = "awaiting_approval", !.asked = @ \cup Asked(steps, v.by)]
  <2>1. w.asked = Asked(steps, v.by) /\ w.status = "awaiting_approval" /\ w.terms = v.terms
        /\ w.policy = v.policy /\ w.by = v.by /\ w.agreed = v.agreed
    BY <1>2, <1>3 DEF Version
  <2>2. /\ Asked(steps, v.by) \subseteq Request
        /\ \A i \in DOMAIN steps : \E r \in Asked(steps, v.by) : r.step = i
        /\ \A r \in Asked(steps, v.by) : r.who # v.by /\ r.said = "pending"
        /\ \A r, q \in Asked(steps, v.by) : r.who = q.who => r = q
    <3>1. v.by \in Recruiters
      BY <1>2 DEF Version
    <3> QED BY <3>1, <1>4, <1>6, AskedAsResolved DEF OfferInv
  <2>3. w \in Version
    BY <1>2, <1>3, <2>2 DEF Version, Statuses, Open
  <2>4. Agree(c, w) /\ v.status \in Open \ {"accepted"}
    BY <1>6, <1>1 DEF Open
  <2> HIDE DEF w
  <2>5. AskedRight(w) /\ InOrder(w)
    BY <2>1, <2>2, <1>1 DEF AskedRight, InOrder
  <2>6. Evidence(w)
    BY <2>1, <2>5, <1>2 DEF Evidence, WithCandidate, Answered
  <2> QED BY <2>1, <2>3, <2>4, <2>6, <1>1, AgreeSound
<1> QED BY <1>5, <1>6 DEF Submit

LEMMA DecideSound ==
    ASSUME OfferInv, NEW c \in Commands, Displayed(c),
           NEW do \in {"approve", "reject", "request_changes"},
           NEW said \in {"approved", "rejected", "changes_requested"}, Decide(c, do, said)
    PROVE  \E o, v : Sound(o, v) /\ Commit(c, o, v)
<1> DEFINE v == offer[c.offer]
           after(r) == (v.asked \ {r}) \cup {[r EXCEPT !.said = said]}
           decided(r) == [v EXCEPT !.asked = after(r), !.status = Verdict(said, after(r), @)]
<1>1. Accepts(c, do) /\ v.status = "awaiting_approval"
  BY DEF Decide
<1>2. PICK r \in v.asked : r.said = "pending" /\ Turn(v, r) /\ Agree(c, decided(r))
  BY DEF Decide
<1>3. v \in Version /\ Evidence(v) /\ AskedRight(v)
  BY <1>1, Shown DEF Evidence
<1> DEFINE q == [r EXCEPT !.said = said]
           w == decided(r)
<1>4. /\ r \in Request /\ q \in Request /\ q.step = r.step /\ q.who = r.who /\ q.said = said
  BY <1>3 DEF Version, Request, Decisions
<1>5. /\ w.asked = (v.asked \ {r}) \cup {q} /\ w.terms = v.terms /\ w.by = v.by
      /\ w.policy = v.policy /\ w.agreed = v.agreed
      /\ w.status = Verdict(said, w.asked, "awaiting_approval")
  BY <1>1, <1>3 DEF Version
<1>6. w \in Version
  <2>1. Verdict(said, after(r), v.status) \in Statuses
    BY <1>1 DEF Verdict, Statuses, Open, Final
  <2>2. after(r) \subseteq Request
    BY <1>3, <1>4 DEF Version
  <2> QED BY <1>3, <2>1, <2>2 DEF Version
<1> HIDE DEF w, q
<1>7. AskedRight(w)
  BY <1>3, <1>4, <1>5 DEF AskedRight
<1>8. \A x \in w.asked : x.said # "pending" => EarlierApproved(w, x) \/ ~Ordered(w)
  <2> SUFFICES ASSUME NEW x \in w.asked, x.said # "pending", Ordered(w) PROVE EarlierApproved(w, x)
    OBVIOUS
  <2>1. Ordered(v)
    BY <1>5 DEF Ordered
  <2>2. EarlierApproved(v, r)
    BY <1>2, <2>1 DEF Turn
  <2>3. CASE x = q
    BY <2>3, <2>2, <1>4, <1>5, <1>3 DEF EarlierApproved, Version, Request
  <2>4. CASE x # q
    <3>1. x \in v.asked /\ EarlierApproved(v, x)
      BY <2>4, <2>1, <1>5, <1>3 DEF Evidence, InOrder
    <3>2. ~(r.step < x.step)
      BY <3>1, <1>2 DEF EarlierApproved
    <3> QED BY <3>1, <3>2, <1>4, <1>5 DEF EarlierApproved
  <2> QED BY <2>3, <2>4
<1>9. Evidence(w)
  <2>1. CASE said = "approved"
    <3>1. w.status = IF AllApproved(w.asked) THEN "approved" ELSE "awaiting_approval"
      BY <2>1, <1>5 DEF Verdict
    <3> QED BY <3>1, <1>3, <1>5, <1>7, <1>8 DEF Evidence, InOrder, WithCandidate, Answered
  <2>2. CASE said # "approved"
    <3>1. w.status \in {"cancelled", "draft"} /\ \E x \in w.asked : x.said # "pending"
      BY <2>2, <1>4, <1>5 DEF Verdict
    <3> QED BY <3>1, <1>3, <1>5, <1>7, <1>8 DEF Evidence, InOrder, WithCandidate, Answered
  <2> QED BY <2>1, <2>2
<1>10. Agree(c, w) /\ v.status \in Open \ {"accepted"}
  BY <1>1, <1>2 DEF w, Open
<1> QED BY <1>1, <1>5, <1>6, <1>9, <1>10, AgreeSound

LEMMA SendSound ==
    ASSUME OfferInv, NEW c \in Commands, Displayed(c), Send(c)
    PROVE  \E o, v : Sound(o, v) /\ Commit(c, o, v)
<1> DEFINE v == offer[c.offer]
           w == [v EXCEPT !.status = "sent"]
<1>1. Accepts(c, "send") /\ v.status = "approved" /\ Agree(c, w)
  BY DEF Send
<1>2. v \in Version /\ Evidence(v)
  BY <1>1, Shown
<1>3. /\ w \in Version /\ w.status = "sent" /\ w.asked = v.asked /\ w.terms = v.terms /\ w.by = v.by
      /\ w.policy = v.policy /\ w.agreed = v.agreed
  BY <1>2 DEF Version, Statuses, Open
<1> HIDE DEF w
<1>4. Evidence(w)
  BY <1>1, <1>2, <1>3 DEF Evidence, AskedRight, InOrder, Ordered, EarlierApproved
<1> QED BY <1>1, <1>3, <1>4, AgreeSound DEF Open

LEMMA RespondSound ==
    ASSUME OfferInv, NEW c \in Commands, Displayed(c),
           NEW do \in {"view", "accept", "decline", "clarification"},
           NEW status \in WithCandidate \cup Answered, Respond(c, do, status)
    PROVE  \E o, v : Sound(o, v) /\ Commit(c, o, v)
<1> DEFINE v == offer[c.offer]
           w == [v EXCEPT !.status = status]
<1>1. Accepts(c, do) /\ v.status \in WithCandidate /\ Agree(c, w)
  BY DEF Respond
<1>2. v \in Version /\ Evidence(v)
  BY <1>1, Shown
<1>3. /\ w \in Version /\ w.status = status /\ w.asked = v.asked /\ w.terms = v.terms /\ w.by = v.by
      /\ w.policy = v.policy /\ w.agreed = v.agreed
  BY <1>2 DEF Version, Statuses, Open, WithCandidate, Answered, Final
<1> HIDE DEF w
<1>4. AskedRight(w) /\ AllApproved(w.asked) /\ InOrder(w)
  BY <1>1, <1>2, <1>3 DEF Evidence, AskedRight, InOrder, Ordered, EarlierApproved
<1>5. Evidence(w)
  BY <1>2, <1>3, <1>4 DEF Evidence, WithCandidate, Answered
<1>6. v.status \in Open \ {"accepted"}
  BY <1>1 DEF Open, WithCandidate
<1> QED BY <1>1, <1>3, <1>5, <1>6, AgreeSound

LEMMA WithdrawSound ==
    ASSUME OfferInv, NEW c \in Commands, Displayed(c), Withdraw(c)
    PROVE  \E o, v : Sound(o, v) /\ Commit(c, o, v)
<1> DEFINE v == offer[c.offer]
           status == IF c.do = "cancel" /\ v.status \notin WithCandidate THEN "cancelled" ELSE "withdrawn"
           w == [v EXCEPT !.status = status]
<1>1. (Accepts(c, "withdraw") \/ Accepts(c, "cancel")) /\ v.status \notin Final
  BY DEF Withdraw
<1>2. v \in Version /\ Evidence(v) /\ c.offer \in Offers
  BY <1>1, Shown
<1>3. Commit(c, c.offer, w)
  BY <1>2 DEF Withdraw, Version
<1>4. status \in {"withdrawn", "cancelled"}
  OBVIOUS
<1> HIDE DEF status
<1>5. /\ w \in Version /\ w.status = status /\ w.asked = v.asked /\ w.terms = v.terms /\ w.by = v.by
      /\ w.policy = v.policy /\ w.agreed = v.agreed
  BY <1>2, <1>4 DEF Version, Statuses, Final
<1> HIDE DEF w
<1>6. Evidence(w)
  BY <1>2, <1>4, <1>5 DEF Evidence, InOrder, Ordered, EarlierApproved, WithCandidate, Answered
<1>7. Sound(c.offer, w)
  BY <1>1, <1>2, <1>4, <1>5, <1>6 DEF Sound, Open
<1> QED BY <1>3, <1>7

LEMMA PreviewSound ==
    ASSUME OfferInv, NEW c \in Commands, Displayed(c), Preview(c)
    PROVE  \E o, v : Sound(o, v) /\ Commit(c, o, v)
<1>1. c.offer \in Offers /\ offer[c.offer] \in Version /\ Evidence(offer[c.offer])
  BY Shown DEF Preview
<1>2. Sound(c.offer, offer[c.offer])
  BY <1>1, OpenIsOnly DEF Sound
<1> QED BY <1>2 DEF Preview

LEMMA CommandSound ==
    ASSUME OfferInv, NEW c \in Commands, Displayed(c), Recruiting(c) \/ Responding(c)
    PROVE  \E o, v : Sound(o, v) /\ Commit(c, o, v)
<1>1. CASE Create(c) BY <1>1, CreateSound
<1>2. CASE Edit(c) BY <1>2, EditSound
<1>3. CASE Submit(c) BY <1>3, SubmitSound
<1>4. CASE Approve(c) \/ Reject(c) \/ RequestChanges(c)
  BY <1>4, DecideSound DEF Approve, Reject, RequestChanges
<1>5. CASE Send(c) BY <1>5, SendSound
<1>6. CASE Withdraw(c) BY <1>6, WithdrawSound
<1>7. CASE Preview(c) BY <1>7, PreviewSound
<1>8. CASE See(c) \/ Accept(c) \/ Decline(c)
  BY <1>8, RespondSound DEF See, Accept, Decline, WithCandidate, Answered
<1>9. CASE Clarify(c)
  <2>1. Respond(c, "clarification", offer[c.offer].status) /\ offer[c.offer].status \in WithCandidate
    BY <1>9 DEF Clarify, Respond
  <2> QED BY <2>1, RespondSound
<1> QED BY <1>1, <1>2, <1>3, <1>4, <1>5, <1>6, <1>7, <1>8, <1>9 DEF Recruiting, Responding

-----------------------------------------------------------------------------
\* A sound write keeps the invariant.
LEMMA CommitPreserves ==
    ASSUME OfferInv, NEW c \in Commands, NEW o, NEW v, Sound(o, v), Commit(c, o, v)
    PROVE  OfferInv' /\ \A p \in Offers : offer[p].status \in Final => offer'[p] = offer[p]
<1>1. /\ o \in Offers /\ v \in Version /\ Evidence(v) /\ v.status # "none"
      /\ offer' = [offer EXCEPT ![o] = v] /\ UNCHANGED <<inOffer, may, policy, day>>
      /\ \A p \in Offers : offer'[p] = IF p = o THEN v ELSE offer[p]
  BY DEF OfferInv, TypeOK, Sound, Commit, Version, Statuses, Open, Final, Answered
<1>2. TypeOK'
  BY <1>1 DEF OfferInv, TypeOK
<1>3. cmds' \in [Keys -> Commands]
  <2>1. \A k \in Keys : Stale(o, k) \in Commands
    BY DEF OfferInv, CmdsOK, Commands, Stale
  <2>2. \A k \in Keys : [Stale(o, k) EXCEPT !.done = @ + 1] \in Commands
    BY <2>1 DEF Commands
  <2> QED BY <2>1, <2>2 DEF Commit
<1>4. \A k \in Keys : Displayed(cmds[k])'
  <2> SUFFICES ASSUME NEW k \in Keys PROVE Displayed(cmds[k])'
    OBVIOUS
  <2>1. /\ cmds[k] \in Commands /\ cmds'[k] \in Commands /\ Displayed(cmds[k])
    BY <1>3 DEF OfferInv, CmdsOK
  <2>2. /\ cmds'[k].do = cmds[k].do /\ cmds'[k].offer = cmds[k].offer /\ cmds'[k].terms = cmds[k].terms
        /\ cmds'[k].fresh => cmds[k].fresh /\ cmds[k].offer # o
    BY <2>1 DEF Commit, Stale, Commands
  <2> QED BY <2>1, <2>2, <1>1 DEF Displayed
<1>5. EvidenceOK'
  BY <1>1 DEF OfferInv, EvidenceOK
<1>6. OneOpenOffer'
  BY <1>1 DEF OfferInv, OneOpenOffer, Sound, OnlyOpen
<1>7. \A p \in Offers : offer[p].status \in Final => offer'[p] = offer[p]
  BY <1>1 DEF Sound
<1> QED BY <1>2, <1>3, <1>4, <1>5, <1>6, <1>7 DEF OfferInv, CmdsOK

\* What the screens show is displayed.
LEMMA ComposableDisplayed ==
    ASSUME OfferInv, NEW c \in Composable
    PROVE  c \in Commands /\ Displayed(c)
<1>1. \A do : Actors(do) \subseteq Recruiters \cup {Candidate}
  BY DEF Actors, OfferInv, TypeOK, Permissions
<1>2. \A d \in day..LastExpiry : d \in Days
  BY OfferAssumption DEF OfferInv, TypeOK, Days
<1>3. CASE c \in Drafts("create", None)
  <2>1. PICK u \in Actors("create"), t \in Terms, d \in day..LastExpiry : c = Command(u, "create", None, t, d)
    BY <1>3 DEF Drafts
  <2>2. u \in Recruiters \cup {Candidate} /\ d \in Days
    BY <1>1, <1>2
  <2> QED BY <2>1, <2>2 DEF Command, Commands, Displayed, Saves
<1>4. CASE \E o \in Offers : \E do \in Screen(offer[o].status) : c \in On(do, o)
  <2>0. PICK o \in Offers : \E do \in Screen(offer[o].status) : c \in On(do, o)
    BY <1>4
  <2>1. PICK do \in Screen(offer[o].status) : c \in On(do, o)
    BY <2>0
  <2>2. /\ do \in Screen("draft") \cup Screen("awaiting_approval") \cup Screen("approved") \cup Screen("sent")
        /\ do \notin {"none", "create"} /\ offer[o].status # "none"
    BY DEF Screen, WithCandidate
  <2>3. offer[o] \in Version /\ offer[o].terms \in Terms
    BY <2>2 DEF OfferInv, TypeOK, NoOffer, Version
  <2>4. 0 \in Days
    BY OfferAssumption DEF Days
  <2>5. CASE do = "edit"
    <3>1. PICK u \in Actors(do), t \in Terms, d \in day..LastExpiry : c = Command(u, do, o, t, d)
      BY <2>1, <2>5 DEF On, Drafts
    <3> QED BY <3>1, <2>2, <2>5, <1>1, <1>2 DEF Command, Commands, Displayed, Saves
  <2>6. CASE do # "edit"
    <3>1. PICK u \in Actors(do) : c = Command(u, do, o, offer[o].terms, 0)
      BY <2>1, <2>6 DEF On
    <3> QED BY <3>1, <2>2, <2>3, <2>4, <2>6, <1>1 DEF Command, Commands, Displayed, Saves
  <2> QED BY <2>5, <2>6
<1> QED BY <1>3, <1>4 DEF Composable

LEMMA NoCommandDisplayed == NoCommand \in Commands /\ Displayed(NoCommand)
BY OfferAssumption DEF NoCommand, Command, Commands, Displayed, Saves, Days

\* A step that only changes what is in transit.
LEMMA TransitPreserves ==
    ASSUME OfferInv, NEW k \in Keys, NEW c \in Commands, Displayed(c),
           cmds' = [cmds EXCEPT ![k] = c], UNCHANGED <<offer, inOffer, may, policy, day>>
    PROVE  OfferInv'
<1>1. TypeOK' /\ EvidenceOK' /\ OneOpenOffer'
  BY DEF OfferInv, TypeOK, EvidenceOK, OneOpenOffer
<1>2. CmdsOK'
  BY DEF OfferInv, CmdsOK, Displayed
<1> QED BY <1>1, <1>2 DEF OfferInv

\* The pass closes offers the candidate did not answer; none opens and what closed is
\* not looked at.
LEMMA ExpiryPreserves ==
    ASSUME OfferInv, ExpireGovernedOffers
    PROVE  OfferInv' /\ \A o \in Offers : offer[o].status \in Final => offer'[o] = offer[o]
<1>1. \A o \in Offers : \/ offer'[o] = offer[o]
                        \/ /\ offer[o].status \in WithCandidate
                           /\ offer'[o] = [offer[o] EXCEPT !.status = "expired"]
  BY DEF ExpireGovernedOffers, Overdue
<1>2. \A o \in Offers : offer[o].status \in WithCandidate => offer[o] \in Version
  BY DEF OfferInv, TypeOK, NoOffer, WithCandidate
<1>3. \A o \in Offers : offer'[o] # offer[o] =>
          /\ offer[o] \in Version /\ offer'[o] \in Version /\ offer[o].status \in WithCandidate
          /\ offer'[o].status = "expired" /\ offer'[o].asked = offer[o].asked
          /\ offer'[o].terms = offer[o].terms /\ offer'[o].policy = offer[o].policy
          /\ offer'[o].agreed = offer[o].agreed
  <2> SUFFICES ASSUME NEW o \in Offers, offer'[o] # offer[o]
               PROVE  /\ offer[o] \in Version /\ offer[o].status \in WithCandidate
                      /\ offer'[o] \in Version /\ offer'[o].status = "expired"
                      /\ offer'[o].asked = offer[o].asked /\ offer'[o].terms = offer[o].terms
                      /\ offer'[o].policy = offer[o].policy /\ offer'[o].agreed = offer[o].agreed
    OBVIOUS
  <2> DEFINE v == offer[o]
  <2>1. v \in Version /\ v.status \in WithCandidate /\ offer'[o] = [v EXCEPT !.status = "expired"]
    BY <1>1, <1>2
  <2> HIDE DEF v
  <2>2. LET w == [v EXCEPT !.status = "expired"]
        IN /\ w \in Version /\ w.status = "expired" /\ w.asked = v.asked /\ w.terms = v.terms
           /\ w.policy = v.policy /\ w.agreed = v.agreed
    BY <2>1 DEF Version, Statuses
  <2> QED BY <2>1, <2>2 DEF v
<1>4. TypeOK'
  <2>1. offer' \in [Offers -> Version \cup {NoOffer}]
    <3>1. \A o \in Offers : offer'[o] \in Version \cup {NoOffer}
      BY <1>3 DEF OfferInv, TypeOK
    <3>2. offer' = [o \in Offers |-> offer'[o]]
      BY DEF ExpireGovernedOffers
    <3> QED BY <3>1, <3>2
  <2> QED BY <2>1 DEF OfferInv, TypeOK, ExpireGovernedOffers
<1>5. EvidenceOK'
  <2> SUFFICES ASSUME NEW o \in Offers, offer'[o].status # "none" PROVE Evidence(offer'[o])
    BY DEF EvidenceOK
  <2>1. CASE offer'[o] = offer[o]
    BY <2>1 DEF OfferInv, EvidenceOK
  <2>2. CASE offer'[o] # offer[o]
    <3>1. Evidence(offer[o])
      BY <2>2, <1>3 DEF OfferInv, EvidenceOK, WithCandidate
    <3> QED BY <2>2, <3>1, <1>3 DEF Evidence, InOrder, Ordered, EarlierApproved, WithCandidate, Answered
  <2> QED BY <2>1, <2>2
<1>6. OneOpenOffer'
  BY <1>3 DEF OfferInv, OneOpenOffer, Open
<1>7. cmds' \in [Keys -> Commands] /\ \A k \in Keys : Displayed(cmds[k])'
  <2>0. cmds' = [k \in Keys |-> cmds'[k]]
    BY DEF ExpireGovernedOffers
  <2> SUFFICES ASSUME NEW k \in Keys PROVE cmds'[k] \in Commands /\ Displayed(cmds[k])'
    BY <2>0
  <2>1. cmds[k] \in Commands /\ Displayed(cmds[k])
    BY DEF OfferInv, CmdsOK
  <2>2. /\ cmds'[k] \in Commands /\ cmds'[k].do = cmds[k].do /\ cmds'[k].offer = cmds[k].offer
        /\ cmds'[k].terms = cmds[k].terms
        /\ cmds'[k].fresh => cmds[k].fresh
    BY <2>1 DEF ExpireGovernedOffers, Stale, Commands
  <2>3. \A o \in Offers : /\ offer[o].status # "none" => offer'[o].status # "none"
                          /\ offer'[o] = offer[o] \/ offer'[o].terms = offer[o].terms
    BY <1>3
  <2>4. cmds'[k].do \in Saves => cmds'[k].terms \in Terms
    BY <2>1, <2>2 DEF Displayed
  <2>5. cmds'[k].do \notin {"none", "create"} =>
            cmds'[k].offer \in Offers /\ offer'[cmds'[k].offer].status # "none"
    <3> SUFFICES ASSUME cmds[k].do \notin {"none", "create"}
                 PROVE  cmds[k].offer \in Offers /\ offer'[cmds[k].offer].status # "none"
      BY <2>2, Zenon
    <3>1. cmds[k].offer \in Offers /\ offer[cmds[k].offer].status # "none"
      BY <2>1 DEF Displayed
    <3>2. \A p \in Offers : offer[p].status # "none" => offer'[p].status # "none"
      BY <2>3
    <3> QED BY <3>1, <3>2, Zenon
  <2>6. cmds'[k].fresh /\ cmds'[k].do \notin Saves \cup {"none"} =>
            cmds'[k].terms = offer'[cmds'[k].offer].terms
    BY <2>1, <2>2, <2>3 DEF Displayed, Saves
  <2> QED BY <2>2, <2>4, <2>5, <2>6 DEF Displayed
<1>8. \A o \in Offers : offer[o].status \in Final => offer'[o] = offer[o]
  BY <1>1 DEF Final, Answered, WithCandidate
<1> QED BY <1>4, <1>5, <1>6, <1>7, <1>8 DEF OfferInv, CmdsOK

\* Steps that write neither offers nor commands.
LEMMA OutsidePreserves ==
    ASSUME OfferInv, MoveStage \/ SaveSettings \/ NextDay
    PROVE  OfferInv' /\ UNCHANGED offer
<1>1. UNCHANGED <<offer, cmds>>
  BY DEF MoveStage, SaveSettings, NextDay
<1>2. may' \in [Permissions -> SUBSET Recruiters]
  <2>1. CASE UNCHANGED may
    BY <2>1 DEF OfferInv, TypeOK
  <2>2. CASE \E g \in Revocable :
               may' = [may EXCEPT ![g[1]] = IF g[2] \in @ THEN @ \ {g[2]} ELSE @ \cup {g[2]}]
    <3>1. PICK g \in Permissions \X Recruiters :
               may' = [may EXCEPT ![g[1]] = IF g[2] \in @ THEN @ \ {g[2]} ELSE @ \cup {g[2]}]
      BY <2>2, OfferAssumption
    <3>2. g[1] \in Permissions /\ g[2] \in Recruiters
      OBVIOUS
    <3> QED BY <3>1, <3>2 DEF OfferInv, TypeOK
  <2> QED BY <2>1, <2>2 DEF MoveStage, SaveSettings, NextDay
<1>3. policy' \in Policies /\ inOffer' \in BOOLEAN
  BY DEF OfferInv, TypeOK, MoveStage, SaveSettings, NextDay
<1>4. day' \in Days
  BY OfferAssumption DEF OfferInv, TypeOK, MoveStage, SaveSettings, NextDay, Days
<1>5. TypeOK' /\ CmdsOK' /\ EvidenceOK' /\ OneOpenOffer'
  BY <1>1, <1>2, <1>3, <1>4 DEF OfferInv, TypeOK, CmdsOK, Displayed, EvidenceOK, OneOpenOffer
<1> QED BY <1>1, <1>5 DEF OfferInv

\* Every step keeps the invariant and what is closed.
LEMMA StepPreserves ==
    ASSUME OfferInv, [Next]_vars
    PROVE  OfferInv' /\ \A o \in Offers : offer[o].status \in Final => offer'[o] = offer[o]
<1>1. CASE \E c \in Composable \cup {cmds[k] : k \in Keys} : Recruiting(c) \/ Responding(c)
  <2>1. PICK c \in Composable \cup {cmds[k] : k \in Keys} : Recruiting(c) \/ Responding(c)
    BY <1>1
  <2>2. c \in Commands /\ Displayed(c)
    BY <2>1, ComposableDisplayed DEF OfferInv, CmdsOK
  <2>3. PICK o, v : Sound(o, v) /\ Commit(c, o, v)
    BY <2>1, <2>2, CommandSound
  <2> QED BY <2>2, <2>3, CommitPreserves
<1>2. CASE \E k \in Keys : Compose(k)
  <2>1. PICK k \in Keys : Compose(k)
    BY <1>2
  <2>2. PICK c \in Composable : cmds' = [cmds EXCEPT ![k] = [c EXCEPT !.key = k]]
    BY <2>1 DEF Compose
  <2>3. c \in Commands /\ Displayed(c)
    BY ComposableDisplayed
  <2> DEFINE d == [c EXCEPT !.key = k]
  <2>4. d \in Commands /\ Displayed(d)
    BY <2>3 DEF Commands, Displayed
  <2> HIDE DEF d
  <2> QED BY <2>1, <2>2, <2>4, TransitPreserves DEF Compose, d
<1>3. CASE \E k \in Keys : Forget(k)
  BY <1>3, NoCommandDisplayed, TransitPreserves DEF Forget
<1>4. CASE MoveStage \/ SaveSettings \/ NextDay
  BY <1>4, OutsidePreserves
<1>5. CASE ExpireGovernedOffers
  BY <1>5, ExpiryPreserves
<1>6. CASE UNCHANGED vars
  BY <1>6 DEF vars, OfferInv, TypeOK, CmdsOK, Displayed, EvidenceOK, OneOpenOffer
<1> QED BY <1>1, <1>2, <1>3, <1>4, <1>5, <1>6 DEF Next

LEMMA InitEstablishes ==
    ASSUME Init PROVE OfferInv
<1>1. \A o \in Offers : offer[o].status = "none" /\ offer[o] = NoOffer
  BY DEF Init, NoOffer
<1>2. TypeOK
  BY <1>1, OfferAssumption DEF Init, TypeOK, Days
<1>3. CmdsOK
  <2>1. NoCommand \in Commands /\ NoCommand.do = "none"
    BY NoCommandDisplayed DEF NoCommand, Command
  <2> QED BY <2>1, NoCommandDisplayed DEF Init, CmdsOK, Displayed, Saves
<1>4. EvidenceOK /\ OneOpenOffer
  BY <1>1 DEF EvidenceOK, OneOpenOffer, Open
<1> QED BY <1>2, <1>3, <1>4 DEF OfferInv

-----------------------------------------------------------------------------
\* The inductive invariant: what the requests of a version show in each of its
\* statuses, and that whatever a current command carries is what is displayed now.
THEOREM OfferInvariant == Spec => []OfferInv
<1>1. Init => OfferInv
  BY InitEstablishes
<1>2. OfferInv /\ [Next]_vars => OfferInv'
  BY StepPreserves
<1> QED BY <1>1, <1>2, PTL DEF Spec

\* Every variable keeps its shape (recruiter_offers and its versions, the grants).
THEOREM OfferTypeOK == Spec => []TypeOK
<1>1. OfferInv => TypeOK
  BY DEF OfferInv
<1> QED BY <1>1, OfferInvariant, PTL

\* No path through SubmitOffer, DecideOfferApproval, SendOffer and the candidate's
\* answers brings to the candidate an offer that was not approved as its policy asks.
THEOREM OfferSentWasApproved == Spec => []SentWasApproved
<1>1. OfferInv => SentWasApproved
  <2> SUFFICES ASSUME OfferInv, NEW o \in Offers, offer[o].status \in WithCandidate \cup Answered
               PROVE  Approved(offer[o])
    BY DEF SentWasApproved
  <2>1. Evidence(offer[o])
    BY DEF OfferInv, EvidenceOK, WithCandidate, Answered
  <2> QED BY <2>1 DEF Evidence, AskedRight, AllApproved, Approved
<1> QED BY <1>1, OfferInvariant, PTL

\* DecideOfferApproval keeps the order of the steps of an ordered policy.
THEOREM OfferDecidedInOrder == Spec => []DecidedInOrder
<1>1. OfferInv => DecidedInOrder
  <2> SUFFICES ASSUME OfferInv, NEW o \in Offers, offer[o] # NoOffer, Ordered(offer[o]),
                      NEW r \in offer[o].asked, r.said # "pending"
               PROVE  EarlierApproved(offer[o], r)
    BY DEF DecidedInOrder
  <2>1. Evidence(offer[o])
    BY DEF OfferInv, TypeOK, EvidenceOK, NoOffer, Version, Statuses, Open, Final, Answered
  <2> QED BY <2>1 DEF Evidence, InOrder
<1> QED BY <1>1, OfferInvariant, PTL

\* The version, revision and terms hash that every command carries keep it from acting
\* on terms its author has not seen.
THEOREM OfferAgreedOnTerms == Spec => []AgreedOnTerms
<1>1. OfferInv => AgreedOnTerms
  <2> SUFFICES ASSUME OfferInv, NEW o \in Offers, offer[o] # NoOffer
               PROVE  offer[o].agreed \subseteq {offer[o].terms}
    BY DEF AgreedOnTerms
  <2>1. Evidence(offer[o])
    BY DEF OfferInv, TypeOK, EvidenceOK, NoOffer, Version, Statuses, Open, Final, Answered
  <2> QED BY <2>1 DEF Evidence
<1> QED BY <1>1, OfferInvariant, PTL

\* The application never has two offers open, whatever is created, edited, reopened
\* after expiry or answered, and in whatever order.
THEOREM OfferOneOpenOffer == Spec => []OneOpenOffer
<1>1. OfferInv => OneOpenOffer
  BY DEF OfferInv
<1> QED BY <1>1, OfferInvariant, PTL

\* No command and no expiry pass changes an offer that was answered, withdrawn or
\* cancelled.
THEOREM OfferFinalStands == Spec => FinalStands
<1>1. OfferInv /\ [Next]_vars => [\A o \in Offers : offer[o].status \in Final => offer'[o] = offer[o]]_vars
  BY StepPreserves
<1> QED BY <1>1, OfferInvariant, PTL DEF Spec, FinalStands

-----------------------------------------------------------------------------
(* The templates that offers are prepared from                             *)

SavedStatuses == {"draft", "published"}
SavedRow == [status : SavedStatuses, by : TemplateCommands]

\* What is in a window is any number of rows; what it asks for is of a template.
TemplateTypes ==
    /\ template \in [Forms -> {"none", "live", "archived"}]
    /\ version \in [Forms -> Seq(SavedRow)]
    /\ sent = [c \in TemplateCommands |-> sent[c]]
    /\ \A c \in TemplateCommands : sent[c] # None =>
          /\ sent[c].action \in {"create", "save"} => sent[c].status \in SavedStatuses
          /\ sent[c].action \in {"save", "archive"} => sent[c].template \in Forms
    /\ \A t \in Forms : template[t] = "none" => version[t] = <<>>
    /\ owner \in Editors

\* A row is one command's, which has been executed and asked for this row.
RowsAreAnswered ==
    \A t \in Forms : \A n \in 1 .. Len(version[t]) :
        LET c == version[t][n].by IN
        /\ c \in results /\ sent[c] # None
        /\ n > 1 => sent[c].template = t /\ sent[c].expected = n - 1
        /\ \A u \in Forms : \A m \in 1 .. Len(version[u]) :
              version[u][m].by = c => u = t /\ m = n

OffersArePublished ==
    \A o \in offers : \E t \in Forms : \E n \in 1 .. Len(version[t]) :
        o = <<t, n>> /\ version[t][n].status = "published"

TemplatesInv ==
    TemplateTypes /\ RowsAreAnswered /\ OffersArePublished

LEMMA TemplatesStart == Templates!Init => TemplatesInv
<1> SUFFICES ASSUME Templates!Init PROVE TemplatesInv
  OBVIOUS
<1>1. \A t \in Forms : version[t] = <<>> /\ Len(version[t]) = 0
  BY DEF Templates!Init
<1>2. TemplateTypes
  BY <1>1, TemplatesAssumption DEF Templates!Init, TemplateTypes
<1>3. RowsAreAnswered /\ OffersArePublished
  BY <1>1 DEF Templates!Init, RowsAreAnswered, OffersArePublished
<1> QED BY <1>2, <1>3 DEF TemplatesInv

\* What the invariant says of rows, in the words of the properties.
LEMMA RowsNow == TemplatesInv => Templates!OneEffect /\ Templates!NothingUnseen /\ Templates!Published
<1> SUFFICES ASSUME TemplatesInv
             PROVE  Templates!OneEffect /\ Templates!NothingUnseen /\ Templates!Published
  OBVIOUS
<1> USE DEF TemplatesInv
<1>1. ASSUME NEW r \in Templates!Rows
      PROVE  /\ r[1] \in Forms /\ r[2] \in 1 .. Len(version[r[1]]) /\ r = <<r[1], r[2]>>
             /\ Templates!MadeBy(r) = version[r[1]][r[2]].by
  BY <1>1 DEF Templates!Rows, Templates!Current, Templates!MadeBy
<1>2. Templates!OneEffect
  BY <1>1 DEF RowsAreAnswered, Templates!OneEffect
<1>3. Templates!NothingUnseen
  BY <1>1 DEF RowsAreAnswered, Templates!NothingUnseen
<1>4. Templates!Published
  BY DEF OffersArePublished, Templates!Published
<1> QED BY <1>2, <1>3, <1>4

LEMMA RowOfCommand ==
    ASSUME TemplatesInv, NEW t \in Forms, NEW n \in 1 .. Len(version[t])
    PROVE  version[t][n] \in SavedRow /\ version[t][n].by \in TemplateCommands
<1>1. version[t] \in Seq(SavedRow)
  BY DEF TemplatesInv, TemplateTypes
<1>2. version[t][n] \in SavedRow
  BY <1>1
<1> QED BY <1>2 DEF SavedRow

\* Rows as they were, and offers as they were or from what is published.
LEMMA RowsStay ==
    ASSUME TemplatesInv, UNCHANGED <<version, results>>,
           \A c \in TemplateCommands : sent[c] # None => sent'[c] = sent[c],
           \A o \in offers' \ offers : \E t \in Forms : \E n \in 1 .. Len(version[t]) :
              o = <<t, n>> /\ version[t][n].status = "published"
    PROVE  RowsAreAnswered' /\ OffersArePublished'
<1> USE DEF TemplatesInv
<1>1. \A t \in Forms : \A n \in 1 .. Len(version[t]) : version[t][n].by \in TemplateCommands
  BY RowOfCommand
<1>2. RowsAreAnswered'
  BY <1>1 DEF RowsAreAnswered
<1>3. OffersArePublished'
  BY DEF OffersArePublished
<1> QED BY <1>2, <1>3

LEMMA CountOfForms ==
    ASSUME NEW live \in SUBSET Forms
    PROVE  IsFiniteSet(live) /\ Templates!Cardinality(live) = Cardinality(live) /\ Cardinality(live) \in Nat
<1>1. \A S : Templates!Cardinality(S) = Cardinality(S)
  BY Zenon DEF Templates!Cardinality, Cardinality
<1>2. IsFiniteSet(live)
  BY TemplatesAssumption, FS_Subset
<1>3. \A S : IsFiniteSet(S) => Cardinality(S) \in Nat
  BY FS_CardinalityType
<1> QED BY <1>1, <1>2, <1>3

LEMMA CountOneMore ==
    ASSUME NEW live \in SUBSET Forms, NEW t \in Forms, t \notin live
    PROVE  Templates!Cardinality(live \cup {t}) = Templates!Cardinality(live) + 1
<1>1. \A S : IsFiniteSet(S) => \A y : y \notin S => Cardinality(S \cup {y}) = Cardinality(S) + 1
  BY FS_AddElement
<1>2. Cardinality(live \cup {t}) = Cardinality(live) + 1
  BY <1>1, CountOfForms
<1>3. live \cup {t} \in SUBSET Forms
  OBVIOUS
<1> QED BY <1>2, <1>3, CountOfForms

\* Templates and rows rest.
LEMMA HistoryRests ==
    ASSUME TemplatesInv, UNCHANGED <<template, version>>,
           \A o \in offers' \ offers : Templates!Live(o[1]) /\ o[2] \in 1 .. Templates!Current(o[1])
    PROVE  Templates!History
<1> USE DEF TemplatesInv
<1>1. \A t \in Forms : version[t] \in Seq(SavedRow)
  BY DEF TemplateTypes
<1>2. \A t \in Forms : SubSeq(version'[t], 1, Templates!Current(t)) = version[t]
  BY <1>1 DEF Templates!Current
<1>3. \A t \in Forms : Templates!Shown(t)' = Templates!Shown(t)
  BY DEF Templates!Shown, Templates!Live, Templates!Current
<1>4. {t \in Forms : Templates!Live(t)}' = {t \in Forms : Templates!Live(t)}
  BY DEF Templates!Live
<1>5. \A live \in SUBSET Forms : ~(Templates!Cardinality(live) > Templates!Cardinality(live))
  BY CountOfForms
<1>6. ~(Templates!Cardinality({t \in Forms : Templates!Live(t)}')
          > Templates!Cardinality({t \in Forms : Templates!Live(t)}))
  BY <1>4, <1>5
<1> QED BY <1>2, <1>3, <1>6 DEF Templates!History

LEMMA AdministrationKeepsTemplates ==
    ASSUME TemplatesInv,
           \/ Templates!SetPlan
           \/ \E e \in Editors : Templates!Open(e) \/ Templates!TransferOwner(e)
           \/ \E e \in Editors, given \in GrantLists : Templates!SaveSettings(e, given)
    PROVE  TemplatesInv' /\ Templates!History
<1>1. UNCHANGED <<template, version, results, sent, offers>> /\ owner' \in Editors \cup {owner}
  BY DEF Templates!SetPlan, Templates!Open, Templates!TransferOwner, Templates!SaveSettings
<1>2. TemplateTypes'
  BY <1>1 DEF TemplatesInv, TemplateTypes
<1>3. RowsAreAnswered' /\ OffersArePublished'
  BY <1>1, RowsStay
<1>4. Templates!History
  BY <1>1, HistoryRests
<1> QED BY <1>2, <1>3, <1>4 DEF TemplatesInv

\* Of a list of rows, none denies the owner the policy.
LEMMA SettingsLeaveOwner ==
    ASSUME TemplatesInv, NEW e \in Editors, NEW given \in GrantLists,
           Templates!SaveSettings(e, given), Templates!May(owner, "policy")
    PROVE  Templates!May(owner, "policy")'
<1> DEFINE x == <<owner, "policy">>
<1>1. x \in Editors \X Templates!Permissions
  BY DEF TemplatesInv, TemplateTypes, Templates!Permissions
<1>2. owner' = owner /\ grants'[x] =
         IF \E g \in given : <<g.user, g.permission>> = x
         THEN (CHOOSE g \in given : <<g.user, g.permission>> = x).rule ELSE grants[x]
  BY <1>1 DEF Templates!SaveSettings
<1>3. CASE \A g \in given : <<g.user, g.permission>> # x
  <2>1. grants'[x] = grants[x]
    BY <1>2, <1>3
  <2> QED BY <1>2, <2>1 DEF Templates!May, Templates!ByRole
<1>4. ASSUME NEW g \in given, <<g.user, g.permission>> = x
      PROVE  g.rule = "allowed"
  <2>1. g.user = owner /\ g.permission = "policy"
    BY <1>4
  <2>2. e = owner /\ Templates!KeepsOwn(e, given)
    BY <1>4 DEF Templates!SaveSettings
  <2>3. g \in Templates!Grants
    BY TemplatesAssumption
  <2>4. g = [user |-> g.user, permission |-> g.permission, rule |-> g.rule]
        /\ g.rule \in {"allowed", "denied"}
    BY <2>3 DEF Templates!Grants
  <2> QED BY <2>1, <2>2, <2>4 DEF Templates!KeepsOwn
<1>5. CASE \E g \in given : <<g.user, g.permission>> = x
  <2>1. PICK h : h = (CHOOSE g \in given : <<g.user, g.permission>> = x)
    OBVIOUS
  <2>2. h \in given /\ <<h.user, h.permission>> = x
    BY <1>5, <2>1
  <2>3. grants'[x] = "allowed"
    BY <1>2, <1>4, <1>5, <2>1, <2>2
  <2> QED BY <1>2, <2>3 DEF Templates!May
<1> QED BY <1>3, <1>5

LEMMA OwnersKeepPolicy ==
    ASSUME TemplatesInv, [Templates!Next]_(Templates!vars)
    PROVE  Templates!OwnerKeepsPolicy
<1>1. ASSUME UNCHANGED <<owner, grants>>
      PROVE  Templates!OwnerKeepsPolicy
  BY <1>1 DEF Templates!OwnerKeepsPolicy, Templates!May, Templates!ByRole
<1>2. ASSUME NEW e \in Editors, Templates!TransferOwner(e)
      PROVE  Templates!OwnerKeepsPolicy
  BY <1>2 DEF Templates!OwnerKeepsPolicy, Templates!TransferOwner
<1>3. ASSUME NEW e \in Editors, NEW given \in GrantLists, Templates!SaveSettings(e, given)
      PROVE  Templates!OwnerKeepsPolicy
  BY <1>3, SettingsLeaveOwner DEF Templates!OwnerKeepsPolicy
<1>4. CASE Templates!SetPlan \/ \E e \in Editors : Templates!Open(e)
  BY <1>1, <1>4 DEF Templates!SetPlan, Templates!Open
<1>5. ASSUME NEW c \in TemplateCommands,
             \/ \E request \in Templates!Requests(c[1]) : Templates!Send(c, request)
             \/ Templates!CreateTemplate(c) \/ Templates!SaveTemplate(c) \/ Templates!ArchiveTemplate(c)
      PROVE  UNCHANGED <<owner, grants>>
  BY <1>5 DEF Templates!Send, Templates!CreateTemplate, Templates!SaveTemplate,
              Templates!ArchiveTemplate, Templates!Executed
<1>6. ASSUME NEW t \in Forms, NEW n \in 1 .. MaxVersions, Templates!PrepareOffer(t, n)
      PROVE  UNCHANGED <<owner, grants>>
  BY <1>6 DEF Templates!PrepareOffer
<1>7. CASE UNCHANGED Templates!vars
  BY <1>1, <1>7 DEF Templates!vars
<1>8. CASE Templates!Next
  BY <1>1, <1>2, <1>3, <1>4, <1>5, <1>6, <1>8 DEF Templates!Next
<1> QED BY <1>7, <1>8

LEMMA SendKeepsTemplates ==
    ASSUME TemplatesInv, NEW c \in TemplateCommands, NEW request \in Templates!Requests(c[1]),
           Templates!Send(c, request)
    PROVE  TemplatesInv' /\ Templates!History
<1>1. UNCHANGED <<template, version, results, owner, grants, offers>> /\ sent[c] = None
      /\ sent' = [sent EXCEPT ![c] = request]
  BY DEF Templates!Send
<1>2. /\ sent'[c] = request /\ \A d \in TemplateCommands \ {c} : sent'[d] = sent[d]
      /\ sent' = [d \in TemplateCommands |-> sent'[d]]
  BY <1>1 DEF TemplatesInv, TemplateTypes
<1>3. /\ request.action \in {"create", "save"} => request.status \in SavedStatuses
      /\ request.action \in {"save", "archive"} => request.template \in Forms
  BY DEF Templates!Requests, SavedStatuses
<1>4. TemplateTypes'
  <2>1. \A d \in TemplateCommands : sent'[d] # None =>
           /\ sent'[d].action \in {"create", "save"} => sent'[d].status \in SavedStatuses
           /\ sent'[d].action \in {"save", "archive"} => sent'[d].template \in Forms
    BY <1>2, <1>3 DEF TemplatesInv, TemplateTypes
  <2> QED BY <1>1, <1>2, <2>1 DEF TemplatesInv, TemplateTypes
<1>5. RowsAreAnswered' /\ OffersArePublished'
  BY <1>1, <1>2, RowsStay
<1>6. Templates!History
  BY <1>1, HistoryRests
<1> QED BY <1>1, <1>4, <1>5, <1>6 DEF TemplatesInv

LEMMA PrepareKeepsTemplates ==
    ASSUME TemplatesInv, NEW t \in Forms, NEW n \in 1 .. Len(version[t]), Templates!PrepareOffer(t, n)
    PROVE  TemplatesInv' /\ Templates!History
<1>1. /\ UNCHANGED <<template, version, results, sent, owner, grants>> /\ offers' = offers \cup {<<t, n>>}
      /\ Templates!Live(t) /\ version[t][n].status = "published"
  BY DEF Templates!PrepareOffer, Templates!Offered
<1>2. TemplateTypes'
  BY <1>1 DEF TemplatesInv, TemplateTypes
<1>3. RowsAreAnswered' /\ OffersArePublished'
  BY <1>1, RowsStay
<1>4. Templates!History
  BY <1>1, HistoryRests DEF Templates!Current
<1> QED BY <1>1, <1>2, <1>3, <1>4 DEF TemplatesInv

\* A command adds a row to a template, behind those its author has read.
LEMMA RowAdded ==
    ASSUME TemplatesInv, NEW c \in TemplateCommands, NEW t \in Forms, NEW x \in SavedRow,
           x.by = c, c \notin results, sent[c] # None,
           version' = [version EXCEPT ![t] = Append(version[t], x)],
           results' = results \cup {c}, UNCHANGED <<sent, offers>>,
           Len(version[t]) > 0 => sent[c].template = t /\ sent[c].expected = Len(version[t])
    PROVE  /\ version' \in [Forms -> Seq(SavedRow)]
           /\ RowsAreAnswered' /\ OffersArePublished'
           /\ version[t] \in Seq(SavedRow)
           /\ version'[t] = Append(version[t], x) /\ \A u \in Forms \ {t} : version'[u] = version[u]
<1>1. version \in [Forms -> Seq(SavedRow)] /\ version[t] \in Seq(SavedRow)
  BY DEF TemplatesInv, TemplateTypes
<1>2. PICK s \in Seq(SavedRow) : s = version[t]
  BY <1>1
<1>3. PICK r \in Seq(SavedRow) : r = Append(s, x)
  <2>1. Append(s, x) \in Seq(SavedRow)
    OBVIOUS
  <2> QED BY <2>1
<1>4. /\ Len(s) \in Nat /\ Len(r) = Len(s) + 1 /\ r[Len(s) + 1] = x
      /\ \A n \in 1 .. Len(s) : r[n] = s[n]
  BY <1>3
<1>5. version' = [version EXCEPT ![t] = r]
  BY <1>2, <1>3
<1>6. version'[t] = r /\ (\A u \in Forms \ {t} : version'[u] = version[u])
      /\ version' \in [Forms -> Seq(SavedRow)]
  BY <1>1, <1>5
<1>7. ASSUME NEW u \in Forms, NEW n \in 1 .. Len(version'[u])
      PROVE  \/ u = t /\ n = Len(s) + 1 /\ version'[u][n] = x
             \/ n \in 1 .. Len(version[u]) /\ version'[u][n] = version[u][n]
                /\ (u = t => n # Len(s) + 1)
  BY <1>2, <1>4, <1>6, <1>7
<1>8. \A u \in Forms : \A n \in 1 .. Len(version[u]) :
         version[u][n].by \in results /\ version[u][n].by \in TemplateCommands
         /\ n \in 1 .. Len(version'[u]) /\ version'[u][n] = version[u][n]
  <2> SUFFICES ASSUME NEW u \in Forms, NEW n \in 1 .. Len(version[u])
               PROVE  version[u][n].by \in results /\ version[u][n].by \in TemplateCommands
                      /\ n \in 1 .. Len(version'[u]) /\ version'[u][n] = version[u][n]
    OBVIOUS
  <2>1. version[u][n].by \in results
    BY DEF TemplatesInv, RowsAreAnswered
  <2>2. version[u][n].by \in TemplateCommands
    BY RowOfCommand
  <2>3. n \in 1 .. Len(version'[u]) /\ version'[u][n] = version[u][n]
    BY <1>2, <1>4, <1>6
  <2> QED BY <2>1, <2>2, <2>3
<1>9. RowsAreAnswered'
  <2> SUFFICES ASSUME NEW u \in Forms, NEW n \in 1 .. Len(version'[u])
               PROVE  LET d == version'[u][n].by IN
                      /\ d \in results' /\ sent[d] # None
                      /\ n > 1 => sent[d].template = u /\ sent[d].expected = n - 1
                      /\ \A v \in Forms : \A m \in 1 .. Len(version'[v]) :
                            version'[v][m].by = d => v = u /\ m = n
    BY DEF RowsAreAnswered
  <2>1. CASE u = t /\ n = Len(s) + 1 /\ version'[u][n] = x
    <3>1. \A v \in Forms : \A m \in 1 .. Len(version'[v]) : version'[v][m].by = c => v = t /\ m = n
      BY <1>7, <1>8, <2>1
    <3>2. n > 1 => sent[c].template = t /\ sent[c].expected = n - 1
      BY <1>2, <1>4, <2>1
    <3> QED BY <2>1, <3>1, <3>2
  <2>2. CASE n \in 1 .. Len(version[u]) /\ version'[u][n] = version[u][n] /\ (u = t => n # Len(s) + 1)
    <3>1. PICK d \in TemplateCommands : d = version[u][n].by /\ d \in results
      BY <1>8, <2>2
    <3>2. /\ sent[d] # None
          /\ n > 1 => sent[d].template = u /\ sent[d].expected = n - 1
          /\ \A v \in Forms : \A m \in 1 .. Len(version[v]) :
                version[v][m].by = d => v = u /\ m = n
      BY <2>2, <3>1 DEF TemplatesInv, RowsAreAnswered
    <3>3. d # c
      BY <3>1
    <3>4. ASSUME NEW v \in Forms, NEW m \in 1 .. Len(version'[v]), version'[v][m].by = d
          PROVE  v = u /\ m = n
      <4>1. m \in 1 .. Len(version[v]) /\ version'[v][m] = version[v][m]
        BY <1>7, <3>3, <3>4
      <4> QED BY <3>2, <3>4, <4>1
    <3> QED BY <2>2, <3>1, <3>2, <3>4
  <2> QED BY <1>7, <2>1, <2>2
<1>10. OffersArePublished'
  BY <1>8 DEF TemplatesInv, OffersArePublished
<1> QED BY <1>1, <1>2, <1>3, <1>6, <1>9, <1>10

\* What a command writes is a row of its own.
LEMMA RowWritten ==
    ASSUME TemplatesInv, NEW c \in TemplateCommands, sent[c] # None,
           sent[c].action \in {"create", "save"}
    PROVE  /\ Templates!Row(c) \in SavedRow /\ Templates!Row(c).by = c
           /\ Templates!Row(c).status = sent[c].status
<1>1. sent[c].status \in SavedStatuses
  BY DEF TemplatesInv, TemplateTypes
<1> QED BY <1>1 DEF Templates!Row, SavedRow

\* A row behind those there were leaves them, and a draft is not shown.
LEMMA ShownAfterRow ==
    ASSUME NEW u \in Forms, NEW s \in Seq(SavedRow), NEW x \in SavedRow, s = version[u],
           version'[u] = Append(s, x), template[u] = "live", template'[u] = "live"
    PROVE  /\ SubSeq(version'[u], 1, Templates!Current(u)) = version[u]
           /\ Templates!Shown(u)' # Templates!Shown(u) =>
                 version'[u][Templates!Current(u) + 1].status = "published"
<1>1. PICK r \in Seq(SavedRow) : r = Append(s, x)
  <2>1. Append(s, x) \in Seq(SavedRow)
    OBVIOUS
  <2> QED BY <2>1
<1>2. PICK l \in Nat : /\ l = Len(s) /\ Len(r) = l + 1 /\ r[l + 1] = x
                       /\ \A n \in 1 .. l : r[n] = s[n]
  BY <1>1
<1>3. SubSeq(r, 1, l) = s
  BY <1>1, <1>2
<1>4. ASSUME x.status # "published"
      PROVE  {n \in 1 .. l + 1 : r[n].status = "published"
                 /\ \A k \in n + 1 .. l + 1 : r[k].status # "published"}
             = {n \in 1 .. l : s[n].status = "published"
                 /\ \A k \in n + 1 .. l : s[k].status # "published"}
  <2>1. ASSUME NEW n \in 1 .. l + 1
        PROVE  (r[n].status = "published" /\ \A k \in n + 1 .. l + 1 : r[k].status # "published")
               <=> (n \in 1 .. l /\ s[n].status = "published"
                    /\ \A k \in n + 1 .. l : s[k].status # "published")
    <3>1. CASE n = l + 1
      BY <1>2, <1>4, <3>1
    <3>2. CASE n \in 1 .. l
      <4>1. \A k \in n + 1 .. l + 1 : k = l + 1 \/ (k \in n + 1 .. l /\ r[k] = s[k])
        BY <1>2, <3>2
      <4>2. \A k \in n + 1 .. l : k \in n + 1 .. l + 1 /\ r[k] = s[k]
        BY <1>2, <3>2
      <4>3. r[n] = s[n] /\ r[l + 1].status # "published"
        BY <1>2, <1>4, <3>2
      <4>4. ASSUME \A k \in n + 1 .. l : s[k].status # "published"
            PROVE  \A k \in n + 1 .. l + 1 : r[k].status # "published"
        BY <4>1, <4>3, <4>4
      <4>5. ASSUME \A k \in n + 1 .. l + 1 : r[k].status # "published"
            PROVE  \A k \in n + 1 .. l : s[k].status # "published"
        BY <4>2, <4>5
      <4> QED BY <3>2, <4>3, <4>4, <4>5
    <3> QED BY <3>1, <3>2
  <2>2. \A n \in 1 .. l : n \in 1 .. l + 1
    OBVIOUS
  <2> QED BY <2>1, <2>2
<1>5. x.status # "published" => Templates!Shown(u)' = Templates!Shown(u)
  BY <1>1, <1>2, <1>4 DEF Templates!Shown, Templates!Current, Templates!Live
<1> QED BY <1>1, <1>2, <1>3, <1>5 DEF Templates!Current

LEMMA CreateKeepsTemplates ==
    ASSUME TemplatesInv, NEW c \in TemplateCommands, Templates!CreateTemplate(c)
    PROVE  TemplatesInv' /\ Templates!History
<1>1. PICK t \in Forms :
         /\ template[t] = "none" /\ template' = [template EXCEPT ![t] = "live"]
         /\ version' = [version EXCEPT ![t] = <<Templates!Row(c)>>]
  BY DEF Templates!CreateTemplate
<1>2. /\ sent[c] # None /\ sent[c].action = "create" /\ c \notin results /\ plan.templates
      /\ results' = results \cup {c} /\ UNCHANGED <<sent, owner, grants, plan, offers>>
      /\ Templates!Cardinality({u \in Forms : Templates!Live(u)}) + 1 <= plan.limit
  BY DEF Templates!CreateTemplate, Templates!Permitted, Templates!Fresh, Templates!Executed,
         Templates!Room
<1>3. PICK x \in SavedRow : x = Templates!Row(c) /\ x.by = c
  BY <1>2, RowWritten
<1>4. version[t] = <<>> /\ Len(version[t]) = 0
  BY <1>1 DEF TemplatesInv, TemplateTypes
<1>5. version' = [version EXCEPT ![t] = Append(version[t], x)]
  <2>1. Append(<<>>, x) = <<x>>
    OBVIOUS
  <2> QED BY <1>1, <1>3, <1>4, <2>1
<1>6. /\ version' \in [Forms -> Seq(SavedRow)] /\ RowsAreAnswered' /\ OffersArePublished'
      /\ version[t] \in Seq(SavedRow)
      /\ version'[t] = Append(version[t], x) /\ \A u \in Forms \ {t} : version'[u] = version[u]
  <2>1. /\ x.by = c /\ c \notin results /\ sent[c] # None /\ results' = results \cup {c}
        /\ UNCHANGED <<sent, offers>>
    BY <1>2, <1>3
  <2>2. Len(version[t]) > 0 => sent[c].template = t /\ sent[c].expected = Len(version[t])
    BY <1>4
  <2> QED BY <1>5, <2>1, <2>2, RowAdded
<1>7. /\ template'[t] = "live" /\ \A u \in Forms \ {t} : template'[u] = template[u]
      /\ template' \in [Forms -> {"none", "live", "archived"}]
  BY <1>1 DEF TemplatesInv, TemplateTypes
<1>8. TemplateTypes'
  <2>1. \A u \in Forms : template'[u] = "none" => version'[u] = <<>>
    BY <1>6, <1>7 DEF TemplatesInv, TemplateTypes
  <2> QED BY <1>2, <1>6, <1>7, <2>1 DEF TemplatesInv, TemplateTypes
<1>9. Templates!History
  <2>1. ASSUME NEW u \in Forms, u # t
        PROVE  /\ SubSeq(version'[u], 1, Templates!Current(u)) = version[u]
               /\ Templates!Shown(u)' = Templates!Shown(u)
               /\ template[u] = "archived" => version'[u] = version[u] /\ template'[u] = "archived"
    <3>1. version[u] \in Seq(SavedRow) /\ version'[u] = version[u] /\ template'[u] = template[u]
      BY <1>6, <1>7, <2>1 DEF TemplatesInv, TemplateTypes
    <3>2. Templates!Shown(u)' = Templates!Shown(u)
      BY <3>1 DEF Templates!Shown, Templates!Live, Templates!Current
    <3> QED BY <3>1, <3>2 DEF Templates!Current
  <2>2. SubSeq(version'[t], 1, Templates!Current(t)) = version[t]
    <3>1. PICK r \in Seq(SavedRow) : r = version'[t]
      BY <1>6
    <3>2. SubSeq(r, 1, 0) = <<>>
      OBVIOUS
    <3> QED BY <1>4, <3>1, <3>2 DEF Templates!Current
  <2>3. Templates!Shown(t)' # Templates!Shown(t) =>
           version'[t][Templates!Current(t) + 1].status = "published"
    <3>1. version'[t] = <<x>> /\ Templates!Current(t) = 0
      BY <1>1, <1>3, <1>4 DEF Templates!Current, TemplatesInv, TemplateTypes
    <3>2. Templates!Shown(t) = {}
      BY <1>1 DEF Templates!Shown, Templates!Live
    <3>3. x.status # "published" => Templates!Shown(t)' = {}
      <4>1. Len(<<x>>) = 1 /\ \A n \in 1 .. 1 : <<x>>[n] = x
        OBVIOUS
      <4> QED BY <3>1, <4>1 DEF Templates!Shown, Templates!Current
    <3>4. version'[t][0 + 1] = x
      BY <3>1
    <3> QED BY <3>1, <3>2, <3>3, <3>4
  <2>4. Templates!Cardinality({u \in Forms : Templates!Live(u)}') <= plan'.limit
    <3>1. {u \in Forms : Templates!Live(u)}' = {u \in Forms : Templates!Live(u)} \cup {t}
      BY <1>7 DEF Templates!Live
    <3>2. t \notin {u \in Forms : Templates!Live(u)}
      BY <1>1 DEF Templates!Live
    <3>3. \A live \in SUBSET Forms : t \notin live =>
             Templates!Cardinality(live \cup {t}) = Templates!Cardinality(live) + 1
      BY CountOneMore
    <3>4. {u \in Forms : Templates!Live(u)} \in SUBSET Forms
      OBVIOUS
    <3>5. Templates!Cardinality({u \in Forms : Templates!Live(u)}')
             = Templates!Cardinality({u \in Forms : Templates!Live(u)}) + 1
      BY <3>1, <3>2, <3>3, <3>4
    <3> QED BY <1>2, <3>5
  <2>5. template[t] # "archived"
    BY <1>1
  <2> QED BY <1>2, <2>1, <2>2, <2>3, <2>4, <2>5 DEF Templates!History
<1> QED BY <1>2, <1>6, <1>8, <1>9 DEF TemplatesInv

\* A template rests in a step that changes another.
LEMMA TemplateRests ==
    ASSUME TemplatesInv, NEW u \in Forms, version'[u] = version[u], template'[u] = template[u]
    PROVE  /\ SubSeq(version'[u], 1, Templates!Current(u)) = version[u]
           /\ Templates!Shown(u)' = Templates!Shown(u)
           /\ template[u] = "archived" => version'[u] = version[u] /\ template'[u] = "archived"
<1>1. version[u] \in Seq(SavedRow)
  BY DEF TemplatesInv, TemplateTypes
<1>2. Templates!Shown(u)' = Templates!Shown(u)
  BY DEF Templates!Shown, Templates!Live, Templates!Current
<1> QED BY <1>1, <1>2 DEF Templates!Current

\* No template more is live.
LEMMA NoneMore ==
    ASSUME NEW S \in SUBSET Forms, NEW T \in SUBSET S
    PROVE  ~(Templates!Cardinality(T) > Templates!Cardinality(S))
<1>1. \A U : IsFiniteSet(U) => \A V \in SUBSET U : Cardinality(V) <= Cardinality(U)
  BY FS_Subset
<1>2. Cardinality(T) <= Cardinality(S)
  BY <1>1, CountOfForms
<1> QED BY <1>2, CountOfForms

LEMMA SaveKeepsTemplates ==
    ASSUME TemplatesInv, NEW c \in TemplateCommands, Templates!SaveTemplate(c)
    PROVE  TemplatesInv' /\ Templates!History
<1>1. /\ sent[c] # None /\ sent[c].action = "save" /\ c \notin results
      /\ results' = results \cup {c} /\ UNCHANGED <<template, sent, owner, grants, plan, offers>>
  BY DEF Templates!SaveTemplate, Templates!Permitted, Templates!Fresh, Templates!Executed
<1>2. PICK t \in Forms : t = sent[c].template
  BY <1>1 DEF TemplatesInv, TemplateTypes
<1>3. PICK x \in SavedRow : x = Templates!Row(c) /\ x.by = c
  BY <1>1, RowWritten
<1>4. /\ template[t] = "live" /\ sent[c].expected = Len(version[t])
      /\ version' = [version EXCEPT ![t] = Append(version[t], x)]
  BY <1>2, <1>3 DEF Templates!SaveTemplate, Templates!UpToDate, Templates!Live, Templates!Current
<1>5. /\ version' \in [Forms -> Seq(SavedRow)] /\ RowsAreAnswered' /\ OffersArePublished'
      /\ version[t] \in Seq(SavedRow)
      /\ version'[t] = Append(version[t], x) /\ \A u \in Forms \ {t} : version'[u] = version[u]
  <2>1. x.by = c
    BY <1>3
  <2>2. Len(version[t]) > 0 => sent[c].template = t /\ sent[c].expected = Len(version[t])
    BY <1>2, <1>4
  <2> QED BY <1>1, <1>4, <2>1, <2>2, RowAdded
<1>6. TemplateTypes'
  <2>1. \A u \in Forms : template'[u] = "none" => version'[u] = <<>>
    BY <1>1, <1>4, <1>5 DEF TemplatesInv, TemplateTypes
  <2> QED BY <1>1, <1>5, <2>1 DEF TemplatesInv, TemplateTypes
<1>7. Templates!History
  <2>1. /\ SubSeq(version'[t], 1, Templates!Current(t)) = version[t]
        /\ Templates!Shown(t)' # Templates!Shown(t) =>
              version'[t][Templates!Current(t) + 1].status = "published"
    BY <1>1, <1>4, <1>5, ShownAfterRow
  <2>2. ASSUME NEW u \in Forms, u # t
        PROVE  /\ SubSeq(version'[u], 1, Templates!Current(u)) = version[u]
               /\ Templates!Shown(u)' = Templates!Shown(u)
               /\ template[u] = "archived" => version'[u] = version[u] /\ template'[u] = "archived"
    BY <1>1, <1>5, <2>2, TemplateRests
  <2>3. {u \in Forms : Templates!Live(u)}' = {u \in Forms : Templates!Live(u)}
    BY <1>1 DEF Templates!Live
  <2>4. ~(Templates!Cardinality({u \in Forms : Templates!Live(u)}')
            > Templates!Cardinality({u \in Forms : Templates!Live(u)}))
    BY <2>3, NoneMore
  <2>5. template[t] # "archived" /\ offers' = offers
    BY <1>1, <1>4
  <2> QED BY <2>1, <2>2, <2>4, <2>5 DEF Templates!History
<1> QED BY <1>1, <1>5, <1>6, <1>7 DEF TemplatesInv

LEMMA ArchiveKeepsTemplates ==
    ASSUME TemplatesInv, NEW c \in TemplateCommands, Templates!ArchiveTemplate(c)
    PROVE  TemplatesInv' /\ Templates!History
<1>1. /\ sent[c] # None /\ sent[c].action = "archive" /\ results' = results \cup {c}
      /\ UNCHANGED <<version, sent, owner, grants, plan, offers>>
  BY DEF Templates!ArchiveTemplate, Templates!Permitted, Templates!Executed
<1>2. PICK t \in Forms : t = sent[c].template
  BY <1>1 DEF TemplatesInv, TemplateTypes
<1>3. template[t] = "live" /\ template' = [template EXCEPT ![t] = "archived"]
  BY <1>2 DEF Templates!ArchiveTemplate, Templates!UpToDate, Templates!Live
<1>4. /\ template'[t] = "archived" /\ \A u \in Forms \ {t} : template'[u] = template[u]
      /\ template' \in [Forms -> {"none", "live", "archived"}]
  BY <1>3 DEF TemplatesInv, TemplateTypes
<1>5. TemplateTypes'
  <2>1. \A u \in Forms : template'[u] = "none" => version'[u] = <<>>
    BY <1>1, <1>4 DEF TemplatesInv, TemplateTypes
  <2> QED BY <1>1, <1>4, <2>1 DEF TemplatesInv, TemplateTypes
<1>6. RowsAreAnswered' /\ OffersArePublished'
  BY <1>1 DEF TemplatesInv, RowsAreAnswered, OffersArePublished
<1>7. Templates!History
  <2>1. \A u \in Forms : SubSeq(version'[u], 1, Templates!Current(u)) = version[u]
    <3>1. \A u \in Forms : version[u] \in Seq(SavedRow)
      BY DEF TemplatesInv, TemplateTypes
    <3> QED BY <1>1, <3>1 DEF Templates!Current
  <2>2. ASSUME NEW u \in Forms, u # t
        PROVE  /\ Templates!Shown(u)' = Templates!Shown(u)
               /\ template[u] = "archived" => version'[u] = version[u] /\ template'[u] = "archived"
    BY <1>1, <1>4, <2>2, TemplateRests
  <2>3. {u \in Forms : Templates!Live(u)}' \subseteq {u \in Forms : Templates!Live(u)}
    BY <1>3, <1>4 DEF Templates!Live
  <2>4. ~(Templates!Cardinality({u \in Forms : Templates!Live(u)}')
            > Templates!Cardinality({u \in Forms : Templates!Live(u)}))
    BY <2>3, NoneMore
  <2>5. template[t] # "archived" /\ template'[t] = "archived" /\ offers' = offers
    BY <1>1, <1>3, <1>4
  <2> QED BY <2>1, <2>2, <2>4, <2>5 DEF Templates!History
<1> QED BY <1>1, <1>5, <1>6, <1>7 DEF TemplatesInv

\* Every command about templates, and every offer prepared from one.
LEMMA TemplatesProceed ==
    TemplatesInv /\ [Templates!Next]_(Templates!vars) =>
       TemplatesInv' /\ [Templates!History]_(Templates!vars)
<1> SUFFICES ASSUME TemplatesInv, [Templates!Next]_(Templates!vars)
             PROVE  TemplatesInv' /\ [Templates!History]_(Templates!vars)
  OBVIOUS
<1>1. CASE UNCHANGED Templates!vars
  BY <1>1 DEF Templates!vars, TemplatesInv, TemplateTypes, RowsAreAnswered, OffersArePublished
<1>2. ASSUME NEW t \in Forms, NEW n \in 1 .. MaxVersions, n <= Templates!Current(t),
             Templates!PrepareOffer(t, n)
      PROVE  TemplatesInv' /\ Templates!History
  <2>1. version[t] \in Seq(SavedRow)
    BY DEF TemplatesInv, TemplateTypes
  <2>2. n \in 1 .. Len(version[t])
    BY <1>2, <2>1 DEF Templates!Current
  <2> QED BY <1>2, <2>2, PrepareKeepsTemplates
<1>3. CASE Templates!Next
  <2>1. CASE \/ Templates!SetPlan
             \/ \E e \in Editors : Templates!Open(e) \/ Templates!TransferOwner(e)
             \/ \E e \in Editors, given \in GrantLists : Templates!SaveSettings(e, given)
    BY <2>1, AdministrationKeepsTemplates
  <2>2. ASSUME NEW c \in TemplateCommands,
               \/ \E request \in Templates!Requests(c[1]) : Templates!Send(c, request)
               \/ Templates!CreateTemplate(c) \/ Templates!SaveTemplate(c) \/ Templates!ArchiveTemplate(c)
        PROVE  TemplatesInv' /\ Templates!History
    BY <2>2, SendKeepsTemplates, CreateKeepsTemplates, SaveKeepsTemplates, ArchiveKeepsTemplates
  <2> QED BY <1>2, <1>3, <2>1, <2>2 DEF Templates!Next
<1> QED BY <1>1, <1>3

\* For any templates, editors, commands and limits: a command that is sent again makes no second
\* row, nobody's version is replaced unread, versions stay, offers rest on published ones, new
\* templates are within the plan, and an owner who may change the policy may do so until another
\* owns the company (recruiter/offer_templates.go, offer_store.go).
THEOREM TemplatesKept == Templates!Spec => Templates!TemplatesAreKept
<1>1. TemplatesInv /\ [Templates!Next]_(Templates!vars) =>
         TemplatesInv' /\ [Templates!AllKept]_(Templates!vars)
  <2>1. TemplatesInv' => Templates!OneEffect' /\ Templates!NothingUnseen' /\ Templates!Published'
    BY RowsNow, PTL
  <2>2. TemplatesInv /\ [Templates!Next]_(Templates!vars) => Templates!OwnerKeepsPolicy
    BY OwnersKeepPolicy
  <2> QED BY <2>1, <2>2, TemplatesProceed DEF Templates!AllKept
<1> QED BY <1>1, TemplatesStart, PTL DEF Templates!Spec, Templates!TemplatesAreKept

==================================================================================
