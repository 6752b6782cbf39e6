------------------------------ MODULE MCOfferStudio ------------------------------
(***************************************************************************)
(* Instances of OfferStudio: three members of a company and its candidate; *)
(* and of what offers are made from, OfferTemplates and OfferCalculations. *)
(* Each behaviour is one scenario, chosen at the start.  In                *)
(* "approvals" one offer is edited without end under three policies that   *)
(* change, and a reviewer's permission comes and goes; in "responses" Ann  *)
(* alone writes two offers under the free policy, and days pass; in        *)
(* "templates" two editors save templates; in "form" one is filled in.     *)
(***************************************************************************)
EXTENDS CompanyOffers, TLC

CONSTANTS ann, bob, eve, cand, o1, o2, k1

VARIABLES
    scenario,
    definition, inputs, snapshot

Members == {ann, bob, eve}
OneAdmin == {eve}
OneKey == {k1}
TwoOffers == {o1, o2}

\* Ann and Bob write offers, Ann sends them, Bob and Eve review.
Roles == [p \in Permissions |->
    CASE p = "edit" -> {ann, bob} [] p = "release" -> {ann} [] p = "approve" -> {bob, eve}]
AnnAlone == [p \in Permissions |-> IF p = "approve" THEN {} ELSE {ann}]
BobReviews == {<<"approve", bob>>}

Named(u) == [named |-> {u}, role |-> FALSE]
AnAdmin == [named |-> {}, role |-> TRUE]

NoApproval == [mode |-> "none", steps |-> <<>>, extra |-> <<>>]
Parallel == [mode |-> "parallel", steps |-> <<Named(bob), AnAdmin>>, extra |-> <<>>]
Conditional == [mode |-> "conditional", steps |-> <<AnAdmin>>, extra |-> <<Named(bob)>>]

ThreePolicies == {NoApproval, Parallel, Conditional}

AllTerms == {"incomplete", "plain", "rich"}

\* The configuration gives the constants of the approvals.
Responses == INSTANCE OfferStudio WITH
    Granted <- AnnAlone, Revocable <- {}, Policies <- {NoApproval}, Terms <- {"plain"},
    LastExpiry <- 1

\* Two commands of Ann, who may save templates, one of the founder.
ThreeCommands == {<<"ann", 1>>, <<"ann", 2>>, <<"fay", 1>>}
AnnEdits == [x \in Editors \X {"templates", "policy", "compensation"} |->
    IF x = <<"ann", "templates">> THEN "allowed" ELSE "default"]
GrantOf(e, p, r) == [user |-> e, permission |-> p, rule |-> r]
OneGrant ==
    {{}, {GrantOf("ann", "templates", "denied")}, {GrantOf("fay", "compensation", "denied")}}
    \cup {{GrantOf("ann", "policy", r)} : r \in {"allowed", "denied"}}
    \cup {{GrantOf("fay", "policy", "denied")}}

Blank == [num |-> FALSE, q |-> [n |-> 0, d |-> 1], text |-> ""]
Decimal(n, d) == [Blank EXCEPT !.num = TRUE, !.q = [n |-> n, d |-> d]]
Text(t) == [Blank EXCEPT !.text = t]
Literal(n, d) == [op |-> "literal", q |-> [n |-> n, d |-> d]]
FieldRef(k) == [op |-> "field", key |-> k]
Call(op, e, f) == [op |-> op, args |-> <<e, f>>]

\* The formulas of the annual compensation "c" over a pay "a" and a rate "b"; some are wrong.
Formulas ==
    {None, FieldRef("c"), FieldRef("z"), FieldRef("t"), Call("/", Literal(1, 1), Literal(0, 1)),
     Call("sum", FieldRef("b"), Call("max", FieldRef("a"), FieldRef("b"))),
     Call("round", Call("*", FieldRef("a"), FieldRef("b")), Literal(1, 1))}
    \cup {Call(op, FieldRef("a"), FieldRef("b")) : op \in {"/", "percent", "-", "round"}}
Rates == {None, Call("*", FieldRef("a"), Literal(1, 4)), FieldRef("c"), Literal(7, 1)}

Rule(required, locked, default) == [required |-> required, locked |-> locked, default |-> default]
Free == Rule(FALSE, FALSE, Blank)
RateRules == {Free, Rule(TRUE, FALSE, Blank), Rule(TRUE, TRUE, Decimal(2, 1)), Rule(FALSE, TRUE, Blank)}

FieldOf(k, kind, rule, formula) ==
    [key |-> k, kind |-> kind, required |-> rule.required, locked |-> rule.locked,
     default |-> rule.default, formula |-> formula]

\* The pay has a default where the rate must be given.
FormOf(c, b, rule) ==
    <<FieldOf("c", "money", Free, c),
      FieldOf("a", "money",
              IF rule.required /\ ~rule.locked THEN [Free EXCEPT !.default = Decimal(3, 2)] ELSE Free,
              None),
      FieldOf("b", "number", rule, b),
      FieldOf("t", "boolean", [rule EXCEPT !.locked = FALSE, !.default = Blank], None)>>

\* Two that are refused: the pay is there twice, the annual compensation is no money.
Malformed ==
    LET plain == FormOf(None, None, Free)
    IN {[plain EXCEPT ![3] = plain[2]], [plain EXCEPT ![1].kind = "number"]}

Typed ==
    [a |-> {Blank, Decimal(3, 2), Decimal(19, 1)},
     b |-> {Decimal(0, 1), Decimal(1, 4), Decimal(-1, 1), Decimal(50, 1)},
     c |-> {Decimal(4, 1)},
     t |-> {Text("true"), Text("word")}]

Form == INSTANCE OfferCalculations WITH
    Definitions <- Malformed \cup {FormOf(c, b, rule) : c \in Formulas, b \in Rates, rule \in RateRules},
    Annual <- "c", Answers <- Typed, MoneyScale <- 0, Precision <- 1, MaxWhole <- 20

templateVars == <<template, version, results, sent, seen, settings, owner, grants, plan, offers>>
formVars == <<definition, inputs, snapshot>>
studio == <<vars, scenario, templateVars, formVars>>

MCInit ==
    /\ \/ scenario \in {"approvals", "templates", "form"} /\ Init
       \/ scenario = "responses" /\ Responses!Init
    /\ scenario \in {"templates", "form"} => policy = NoApproval
    /\ Templates!Init /\ Form!Init
    /\ scenario # "templates" => plan.limit = 1
    /\ scenario # "form" => definition = FormOf(None, None, Free)

ApprovalsRun ==
    /\ scenario = "approvals" /\ Next /\ offer'[o2] = NoOffer
    /\ UNCHANGED <<scenario, templateVars, formVars>>

ResponsesRun ==
    /\ scenario = "responses" /\ Responses!Next
    /\ UNCHANGED <<scenario, templateVars, formVars>>

\* One offer; where permissions or the owner change, none, and Ann sends one command.
TemplatesRun ==
    /\ scenario = "templates" /\ Templates!Next
    /\ Cardinality(offers') <= 1
    /\ (settings' = 1 /\ owner' = Founder) \/ (sent'[<<"ann", 2>>] = None /\ offers' = {})
    /\ UNCHANGED <<vars, scenario, formVars>>

\* A form is saved once.
FormRun ==
    /\ scenario = "form" /\ ~snapshot.saved /\ Form!Next
    /\ UNCHANGED <<vars, scenario, templateVars>>

MCSpec ==
    /\ MCInit /\ [][ApprovalsRun \/ ResponsesRun \/ TemplatesRun \/ FormRun]_studio
    /\ scenario = "responses" => Responses!Fairness

-----------------------------------------------------------------------------
\* A command takes effect once, however often it is sent, and what the candidate holds
\* leaves him as days pass.
AnswersSettle ==
    /\ []AppliedOnce
    /\ scenario = "responses" => ReleasedSettles

\* Nobody's work on a template is lost or doubled, and offers come from what was published;
\* the compensation of an offer is the same in its drafts, when it is saved and when it is sent.
OffersAreWellMade ==
    /\ [][(scenario = "templates" => Templates!AllKept)]_templateVars
    /\ [](scenario = "form" => Form!OffersAddUp)

=============================================================================
