---------------------------- MODULE OfferCalculations ----------------------------
(***************************************************************************)
(* The compensation of an offer (recruiter/offer_calculations.go and       *)
(* offer_definition_validation.go): the fields of a template, typed values *)
(* and formulas over them, evaluated in exact decimals that are rounded    *)
(* field by field.  A recruiter fills the form in, saves drafts of it, and *)
(* sends what is complete; the values saved are calculated once more then. *)
(*                                                                         *)
(* A formula is a tree: [op, args] over literals and the keys of fields.   *)
(* A value is a rational with a positive denominator.                      *)
(***************************************************************************)
EXTENDS FiniteSets, Integers, Sequences

CONSTANTS
    Definitions,   \* sequences of fields [key, kind, required, locked, default, formula]
    Annual,        \* the key annual_compensation
    Answers,       \* what may be typed into each field, by its key
    MoneyScale,    \* decimals of the currency
    Precision,     \* decimals of the other numbers (6 in the code)
    MaxWhole,      \* the largest whole part (14 digits in the code)
    None

VARIABLES
    definition, \* the fields, as the template has them
    inputs,     \* what has been typed: a function on some of the keys
    snapshot    \* the values saved last

vars == <<definition, inputs, snapshot>>

Whole(n) == [n |-> n, d |-> 1]
Number(n, d) == [num |-> TRUE, q |-> [n |-> n, d |-> d], text |-> ""]
Text(t) == [num |-> FALSE, q |-> Whole(0), text |-> t]
Blank == Text("")

NotSaved == [saved |-> FALSE, incomplete |-> TRUE, values |-> [k \in {} |-> Blank]]

Init ==
    /\ definition \in Definitions
    /\ inputs = [k \in {} |-> Blank]
    /\ snapshot = NotSaved

-----------------------------------------------------------------------------
(* Decimals                                                                *)

Plus(p, q) == [n |-> p.n * q.d + q.n * p.d, d |-> p.d * q.d]
Minus(p, q) == Plus(p, [q EXCEPT !.n = -@])
Times(p, q) == [n |-> p.n * q.n, d |-> p.d * q.d]
Quotient(p, q) ==
    IF q.n > 0 THEN [n |-> p.n * q.d, d |-> p.d * q.n] ELSE [n |-> -p.n * q.d, d |-> -p.d * q.n]
Less(p, q) == p.n * q.d < q.n * p.d

\* Halves are rounded away from zero.
roundOfferDecimal(q, scale) ==
    LET abs == IF q.n < 0 THEN -q.n ELSE q.n
        r == (2 * abs * 10 ^ scale + q.d) \div (2 * q.d)
    IN  [n |-> IF q.n < 0 THEN -r ELSE r, d |-> 10 ^ scale]

-----------------------------------------------------------------------------
(* The engine: c is [fields, inputs, draft], memo the values found so far. *)

KeysOf(fields) == {fields[i].key : i \in 1 .. Len(fields)}
FieldOf(fields, k) == fields[CHOOSE i \in 1 .. Len(fields) : fields[i].key = k]
Numeric(f) == f.kind \in {"money", "number"}

\* What is typed into a locked field does not count.
Raw(c, f) ==
    IF ~f.locked /\ f.key \in DOMAIN c.inputs THEN c.inputs[f.key] ELSE f.default

Failed(why, memo) == [err |-> why, q |-> Whole(0), memo |-> memo]
Found(q, memo) == [err |-> "", q |-> q, memo |-> memo]

Total(args) ==
    LET f[i \in 1 .. Len(args)] == IF i = 1 THEN args[1] ELSE Plus(f[i - 1], args[i]) IN f[Len(args)]
Least(args) == args[CHOOSE i \in 1 .. Len(args) : \A j \in 1 .. Len(args) : ~Less(args[j], args[i])]
Greatest(args) == args[CHOOSE i \in 1 .. Len(args) : \A j \in 1 .. Len(args) : ~Less(args[i], args[j])]

Refused(op, args) ==
    \/ op = "/" /\ args[2].n = 0
    \/ op = "round" /\ ~(args[2].n % args[2].d = 0 /\ args[2].n \div args[2].d \in 0 .. 6)

Apply(op, args) ==
    CASE op = "neg"   -> Minus(Whole(0), args[1])
      [] op = "-"     -> Minus(args[1], args[2])
      [] op = "*"     -> Times(args[1], args[2])
      [] op = "/"     -> Quotient(args[1], args[2])
      [] op = "sum"   -> Total(args)
      [] op = "min"   -> Least(args)
      [] op = "max"   -> Greatest(args)
      [] op = "percent" -> Quotient(Times(args[1], args[2]), Whole(100))
      [] op = "round" -> roundOfferDecimal(args[1], args[2].n \div args[2].d)

Rounded(f, q) == roundOfferDecimal(q, IF f.kind = "money" THEN MoneyScale ELSE Precision)

\* Mutant: a formula goes on with the exact value, and only what is shown is rounded.
ResultExact(f, q) == q

\* What a formula that uses the field goes on with: the rounded value.
Result(f, q) == Rounded(f, q)

\* Mutant: what a draft lacks counts as nothing.
LackingZero(c, memo) == IF c.draft THEN Found(Whole(0), memo) ELSE Failed("refused", memo)

\* A draft may lack a value, a complete offer may not.
Lacking(c, memo) == IF c.draft THEN Failed("missing", memo) ELSE Failed("refused", memo)

\* A value is rounded once it is found, and neither negative nor too large.
Settled(f, r, shown) ==
    IF r.err # "" THEN r
    ELSE IF r.q.n < 0 \/ shown.n \div shown.d > MaxWhole THEN Failed("refused", r.memo)
    ELSE Found(Result(f, r.q), [j \in DOMAIN r.memo \cup {f.key} |->
                                  IF j = f.key THEN Result(f, r.q) ELSE r.memo[j]])

Given(c, raw, memo) ==
    IF raw = Blank THEN Lacking(c, memo)
    ELSE IF raw.num THEN Found(raw.q, memo) ELSE Failed("refused", memo)

Applied(op, r) ==
    IF r.err # "" THEN Failed(r.err, r.memo)
    ELSE IF Refused(op, r.q) THEN Failed("refused", r.memo)
    ELSE Found(Apply(op, r.q), r.memo)

RECURSIVE resolve(_, _, _, _), evaluate(_, _, _, _), evaluateArgs(_, _, _, _)

\* A field: found before, typed or by default, or calculated.
resolve(c, k, visiting, memo) ==
    LET valueOf(f) == IF f.formula # None THEN evaluate(c, f.formula, visiting \cup {k}, memo)
                      ELSE Given(c, Raw(c, f), memo)
        settle(f, r) == Settled(f, r, Rounded(f, r.q))
        field(f) == settle(f, valueOf(f))
    IN  IF k \in DOMAIN memo THEN Found(memo[k], memo)
        ELSE IF k \notin KeysOf(c.fields) THEN Failed("unknown", memo)
        ELSE IF ~Numeric(FieldOf(c.fields, k)) THEN Failed("unknown", memo)
        ELSE IF k \in visiting THEN Failed("circular", memo)
        ELSE field(FieldOf(c.fields, k))

evaluate(c, e, visiting, memo) ==
    CASE e.op = "literal" -> Found(e.q, memo)
      [] e.op = "field" -> resolve(c, e.key, visiting, memo)
      [] OTHER -> Applied(e.op, evaluateArgs(c, e.args, visiting, Found(<<>>, memo)))

\* The operands from left to right; in `done', q is the sequence of those found.
evaluateArgs(c, args, visiting, done) ==
    LET next(r) == IF r.err # "" THEN r ELSE [r EXCEPT !.q = Append(done.q, @)]
    IN  IF done.err # "" \/ Len(done.q) = Len(args) THEN done
        ELSE evaluateArgs(c, args, visiting,
                 next(evaluate(c, args[Len(done.q) + 1], visiting, done.memo)))

\* An optional number nobody has given is left out.
Skipped(c, f) ==
    /\ f.formula = None /\ f.default = Blank /\ ~f.required
    /\ f.key \in DOMAIN c.inputs => c.inputs[f.key] = Blank

TextRefused(c, f) ==
    \/ f.required /\ Raw(c, f) = Blank /\ ~c.draft
    \/ f.kind = "boolean" /\ Raw(c, f).text \notin {"", "true", "false"}

\* The values a calculation ends with.
Output(c, texts, last) ==
    [err |-> last.err,
     values |-> [k \in DOMAIN last.memo \cup texts |->
                   LET f == FieldOf(c.fields, k) IN
                   IF k \in texts THEN Raw(c, f)
                   ELSE [num |-> TRUE, q |-> Rounded(f, last.memo[k]), text |-> ""]]]

\* calculateOfferFields: the fields in their order.
calculate(c) ==
    LET present(r) == IF r.err = "missing" THEN Found(r.q, r.memo) ELSE r
        step(acc, f) ==
            IF acc.err # "" THEN acc
            ELSE IF ~Numeric(f)
              THEN IF TextRefused(c, f) THEN Failed("refused", acc.memo) ELSE acc
            ELSE IF Skipped(c, f) THEN acc
            ELSE present(resolve(c, f.key, {}, acc.memo))
        run[i \in 0 .. Len(c.fields)] ==
            IF i = 0 THEN Found(Whole(0), [k \in {} |-> Whole(0)])
            ELSE step(run[i - 1], c.fields[i])
    IN  Output(c, {c.fields[i].key : i \in {i \in 1 .. Len(c.fields) : ~Numeric(c.fields[i])}},
               run[Len(c.fields)])

-----------------------------------------------------------------------------
(* What is asked of a definition before anything is typed                  *)

RECURSIVE Uses(_), Sound(_, _, _)

Uses(e) ==
    IF e.op = "literal" THEN {} ELSE IF e.op = "field" THEN {e.key}
    ELSE UNION {Uses(e.args[i]) : i \in 1 .. Len(e.args)}

\* Mutant: only what a formula names itself is looked at.
SoundAtFirstSight(fields, k, visiting) ==
    LET f == FieldOf(fields, k) IN
    f.formula # None =>
        \A u \in Uses(f.formula) : u \in KeysOf(fields) \ {k} /\ Numeric(FieldOf(fields, u))

\* Every field a formula reaches is a number, and none reaches itself.
Sound(fields, k, visiting) ==
    /\ k \in KeysOf(fields) \ visiting /\ Numeric(FieldOf(fields, k))
    /\ LET f == FieldOf(fields, k) IN
        f.formula # None =>
            \A u \in Uses(f.formula) : Sound(fields, u, visiting \cup {k})

CalculateOfferFields(fields, in) == calculate([fields |-> fields, inputs |-> in, draft |-> FALSE])

\* A formula without fields is evaluated at once.
ConstantsHold(fields) ==
    \A i \in 1 .. Len(fields) :
        LET f == fields[i] IN
        f.formula # None =>
            \/ Uses(f.formula) \cap KeysOf(fields) # {}
            \/ CalculateOfferFields(<<f>>, [k \in {} |-> Blank]).err = ""

StandIn(f) ==
    IF f.default # Blank \/ f.locked THEN f.default
    ELSE CASE Numeric(f) -> Number(1, 1) [] f.kind = "boolean" -> Text("true") [] OTHER -> Text("word")

\* Defaults, and locked fields without one, are tried with values that stand in.
DefaultsHold(fields) ==
    LET base == SelectSeq(fields, LAMBDA f : f.formula = None)
    IN  CalculateOfferFields(base, [k \in KeysOf(base) |-> StandIn(FieldOf(base, k))]).err = ""

validateOfferCalculationDefinitions(fields) ==
    /\ \A i \in 1 .. Len(fields) :
          IF fields[i].formula # None THEN Sound(fields, fields[i].key, {}) ELSE TRUE
    /\ ConstantsHold(fields) /\ DefaultsHold(fields)

\* No key twice, and the annual compensation among the money.
validateOfferDefinition(fields) ==
    /\ Cardinality(KeysOf(fields)) = Len(fields)
    /\ Annual \in KeysOf(fields) /\ FieldOf(fields, Annual).kind = "money"
    /\ validateOfferCalculationDefinitions(fields)

CalculateOfferDraftFields(fields, in) == calculate([fields |-> fields, inputs |-> in, draft |-> TRUE])

-----------------------------------------------------------------------------
\* The form in the recruiter's window.
Type(k) ==
    /\ \E a \in Answers[k] :
          inputs' = [j \in DOMAIN inputs \cup {k} |-> IF j = k THEN a ELSE inputs[j]]
    /\ UNCHANGED <<definition, snapshot>>

\* Save: a draft may be incomplete, and says whether it is.
Save(draft) ==
    /\ validateOfferDefinition(definition)
    /\ LET r == calculate([fields |-> definition, inputs |-> inputs, draft |-> draft]) IN
        /\ r.err = ""
        /\ snapshot' = [saved |-> TRUE, values |-> r.values,
             incomplete |-> CalculateOfferFields(definition, inputs).err # ""]
    /\ UNCHANGED <<definition, inputs>>

Next ==
    \/ \E k \in KeysOf(definition) : Type(k)
    \/ \E draft \in BOOLEAN : Save(draft)

Spec == Init /\ [][Next]_vars

-----------------------------------------------------------------------------
Numbers(r) == {k \in DOMAIN r.values : r.values[k].num}

\* Earlier forms: some of what is typed has not been typed yet.
Earlier == {[k \in DOMAIN inputs |-> IF k \in gone THEN Blank ELSE inputs[k]] : gone \in SUBSET DOMAIN inputs}

\* "Missing operands leave dependent formulas absent; they never become fabricated zero"
\* (offer_calculations.go:64): what a draft shows is what the complete offer says.
DraftsArePart ==
    LET whole == CalculateOfferFields(definition, inputs) IN
    whole.err = "" =>
        \A in \in Earlier :
            LET draft == CalculateOfferDraftFields(definition, in) IN
            /\ draft.err = ""
            /\ Numbers(draft) \subseteq Numbers(whole)
            /\ \A k \in Numbers(draft) : draft.values[k] = whole.values[k]

\* A template that was accepted fails for what is typed only.
AcceptedIsSound ==
    \A draft \in BOOLEAN :
        calculate([fields |-> definition, inputs |-> inputs, draft |-> draft]).err
            \notin {"circular", "unknown"}

\* The order of the fields decides nothing.
Backwards == [i \in 1 .. Len(definition) |-> definition[Len(definition) + 1 - i]]
OrderDecidesNothing ==
    \A draft \in BOOLEAN :
        LET r == calculate([fields |-> definition, inputs |-> inputs, draft |-> draft])
            s == calculate([fields |-> Backwards, inputs |-> inputs, draft |-> draft])
        IN  (r.err = "") = (s.err = "") /\ (r.err = "" => r.values = s.values)

\* What was saved complete is calculated again to the same values before it is sent
\* (offer_commands.go:214).
SavedIsFinal ==
    snapshot.saved /\ ~snapshot.incomplete =>
        LET again == CalculateOfferFields(definition, snapshot.values)
        IN  again.err = "" /\ again.values = snapshot.values

OffersAddUp ==
    /\ SavedIsFinal
    /\ validateOfferDefinition(definition) =>
          DraftsArePart /\ AcceptedIsSound /\ OrderDecidesNothing

=============================================================================
