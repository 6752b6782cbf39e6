----------------------------- MODULE CandidateProfile -----------------------------
(***************************************************************************)
(* The profile of a candidate and its editors (internal/candidate): forms  *)
(* that may show an older profile, single choices with endpoints of their  *)
(* own, and the review of a CV (candidate/profilecontract, reviewed_cv.go).*)
(* Every editor locks the row and is one step.                             *)
(*                                                                         *)
(* Of a profile are kept the months of experience, for the core fields,    *)
(* the employment and the choices that only their endpoints may change; a CV*)
(* proposes values for paths <<group, field>>, group 0 for the core and    *)
(* one group for each employment.  The other sections follow the same      *)
(* rules.  Months are numbers; Null is JSON's null, Bad a value that the   *)
(* contract refuses and YearOnly a date without a month.                   *)
(***************************************************************************)
EXTENDS Integers, FiniteSets, Sequences, SequencesExt

CONSTANTS
    LastMonth,  \* bound: the months that are told apart
    YearLength, \* bound: months of a year
    MaxJobs,    \* limit of the section
    Employers,
    CVs,        \* proposals: functions from paths to values
    Edits,      \* bound: [some fields -> what the candidate corrects one to]
    Typed,      \* bound: the employments that the candidate may type
    Windows,    \* bound: the candidate's windows
    Null, Bad, YearOnly

VARIABLES
    month,   \* now
    total,   \* total_experience_months
    jobs,    \* profile_details.employment: sequence of [at, from, to, current]
    choices, \* [discoverable, muted, onboarding]
    form     \* [Windows -> what it displays]

profile == <<total, jobs, choices>>
profileVars == <<month, profile, form>>

Months == 0..LastMonth
Year(m) == m \div YearLength

NoForm == [fresh |-> FALSE, jobs |-> <<>>, choices |-> Null]

\* A profile may hold an entry from before dates were structured.
Legacy(e) == [at |-> e, from |-> Null, to |-> Null, current |-> FALSE]

Init ==
    /\ month \in Months
    /\ total = 0
    /\ jobs \in {<<>>} \cup {<<Legacy(e)>> : e \in Employers}
    /\ choices = [discoverable |-> FALSE, muted |-> FALSE, onboarding |-> "not_started"]
    /\ form = [w \in Windows |-> NoForm]

-----------------------------------------------------------------------------
(* Months of experience                                                    *)

EndOf(j) == IF j.current THEN month ELSE j.to
Dated(j) == j.from # Null /\ EndOf(j) # Null /\ j.from <= EndOf(j)

\* Mutant: entries that overlap count twice.
CoveredOnceEach(list) ==
    FoldLeft(LAMBDA n, j : n + EndOf(j) - j.from, 0, list)

\* EmploymentExperience: how many months are covered, the last one excluded.
Covered(list) == Cardinality(UNION {j.from..EndOf(j) - 1 : j \in ToSet(list)})

\* Null without a complete history.
EmploymentExperience(list) ==
    IF list = <<>> \/ \E j \in ToSet(list) : ~Dated(j) THEN Null ELSE Covered(list)

\* What the editors store beside a history: the months of the history if it has any.
Experience(list, otherwise) ==
    IF EmploymentExperience(list) = Null THEN otherwise ELSE EmploymentExperience(list)

\* Mutant: the open interval ends with the latest one.
MergeToLatest(run, s) ==
    IF s.from <= run.to THEN [run EXCEPT !.to = s.to]
    ELSE [total |-> run.total + run.to - run.from, from |-> s.from, to |-> s.to]

\* One step of the sweep: an interval extends the open one or closes it.
Merge(run, s) ==
    IF s.from <= run.to THEN [run EXCEPT !.to = IF s.to > run.to THEN s.to ELSE run.to]
    ELSE [total |-> run.total + run.to - run.from, from |-> s.from, to |-> s.to]

\* CalculateExperience of complete items: intervals sorted by their start, merged.
Sweep(list) ==
    LET spans == [i \in DOMAIN list |-> [from |-> list[i].from, to |-> EndOf(list[i])]]
        sorted == SortSeq(spans, LAMBDA s, t : s.from < t.from)
        run == FoldLeft(Merge, [total |-> 0, from |-> sorted[1].from, to |-> sorted[1].to], Tail(sorted))
    IN run.total + run.to - run.from

-----------------------------------------------------------------------------
(* The review of a CV                                                      *)

Groups(cv) == {p[1] : p \in DOMAIN cv} \ {0}

\* ReviewDraft.Apply, over every path of the proposal: what is confirmed or corrected.
Effective(cv) ==
    UNION {{[p \in kept |-> IF p \in edited THEN Edits[p[2]] ELSE cv[p]] :
                edited \in SUBSET {p \in kept : p[2] \in DOMAIN Edits}} :
           kept \in SUBSET DOMAIN cv}

EffectiveOf == [cv \in CVs |-> Effective(cv)]

\* A path of the effective profile: absent, rejected and null are one.
Value(e, p) == IF p \in DOMAIN e THEN e[p] ELSE Null

\* The first employment that CalculateExperience cannot count, and why.  The date of a
\* rejected end is still in its place.
Problem(cv, e, g) ==
    LET from == Value(e, <<g, "from">>) to == Value(e, <<g, "to">>)
    IN CASE from \notin Months \/ from > month -> "uncertain"
         [] Value(e, <<g, "current">>) = TRUE -> IF <<g, "to">> \in DOMAIN cv THEN "error" ELSE "none"
         [] to \notin Months \/ to > month -> "uncertain"
         [] OTHER -> IF to < from THEN "error" ELSE "none"
FirstProblem(cv, e) ==
    {g \in Groups(cv) : Problem(cv, e, g) # "none"
                          /\ \A h \in Groups(cv) : h < g => Problem(cv, e, h) = "none"}

\* chronology: the end of the month or year named is before the start.
EndsEarly(e, g) ==
    LET from == Value(e, <<g, "from">>) to == Value(e, <<g, "to">>)
    IN from \in Months /\ to \in Months /\ to < from

\* PrepareConfirmation: no error lies on what was accepted.
Confirmable(cv, e) ==
    /\ \A p \in DOMAIN e : e[p] # Bad
    /\ \A g \in Groups(e) : <<g, "to">> \in DOMAIN e =>
          Value(e, <<g, "current">>) # TRUE /\ ~EndsEarly(e, g)
    /\ \A g \in FirstProblem(cv, e) \cap Groups(e) : Problem(cv, e, g) # "error"

-----------------------------------------------------------------------------
(* The projection of a reviewed CV                                         *)

\* An employment that the editors can represent, and the paths it is made of.
Valid(e, g) ==
    /\ Value(e, <<g, "at">>) # Null
    /\ Value(e, <<g, "from">>) \in Months
    /\ Value(e, <<g, "current">>) # Null
    /\ Value(e, <<g, "current">>) = FALSE => Value(e, <<g, "to">>) \in Months
Row(e, g) ==
    LET current == Value(e, <<g, "current">>)
    IN [at |-> Value(e, <<g, "at">>), from |-> Value(e, <<g, "from">>), current |-> current,
        to |-> IF current THEN Null ELSE Value(e, <<g, "to">>)]
RowPaths(e, g) ==
    {p \in DOMAIN e : p[1] = g /\ (p[2] = "to" => Value(e, <<g, "current">>) = FALSE)}

Same(j, k) == j.at = k.at /\ j.from # Null /\ Year(j.from) = Year(k.from)

\* ValidateProfileDetails, of an entry that is new or changed.
ValidJob(j) ==
    /\ j.from # Null /\ j.from <= month
    /\ j.current \/ (j.to # Null /\ j.from <= j.to /\ j.to <= month)

\* Mutant: an entry with the same key is replaced.
AppendOrReplace(list, row) ==
    LET kept == SelectSeq(list, LAMBDA j : ~Same(j, row))
    IN IF ValidJob(row) /\ Len(kept) < MaxJobs THEN Append(kept, row) ELSE list

\* A new entry goes behind those the profile has; a duplicate is left to the candidate.
AppendNew(list, row) ==
    IF ValidJob(row) /\ Len(list) < MaxJobs /\ ~\E j \in ToSet(list) : Same(j, row)
    THEN Append(list, row) ELSE list

\* The groups in their order, with the employment so far and the paths that went in.
Project(e) ==
    LET Step(acc, g) ==
            LET next == IF Valid(e, g) THEN AppendNew(acc.jobs, Row(e, g)) ELSE acc.jobs
            IN [jobs |-> next,
                applied |-> acc.applied \cup (IF next # acc.jobs THEN RowPaths(e, g) ELSE {})]
    IN FoldLeft(Step, [jobs |-> jobs, applied |-> {}],
                SetToSortSeq(Groups(e), LAMBDA g, h : g < h))

Stale == form' = [w \in Windows |-> [form[w] EXCEPT !.fresh = FALSE]]

\* ProjectReviewedCV, and ApplyCV if something can be applied.
ApplyCV(cv) ==
    \E e \in EffectiveOf[cv] :
        LET projected == Project(e)
            derived == EmploymentExperience(projected.jobs) # Null
            usable == projected.applied \cup (IF derived THEN {} ELSE {<<0, "total">>})
            applied == {p \in usable \cap DOMAIN e : e[p] # Null}
        IN /\ Confirmable(cv, e) /\ applied # {}
           /\ total' = Experience(projected.jobs,
                 IF <<0, "total">> \in applied THEN e[<<0, "total">>] ELSE total)
           /\ jobs' = projected.jobs
           /\ Stale
           /\ UNCHANGED <<month, choices>>

-----------------------------------------------------------------------------
(* The other editors                                                       *)

\* Details
Open(w) ==
    /\ form' = [form EXCEPT ![w] = [fresh |-> TRUE, jobs |-> jobs, choices |-> choices]]
    /\ UNCHANGED <<month, profile>>

\* What the candidate makes of the list he sees: an entry more or less.
Edited(list) ==
    {list} \cup {RemoveAt(list, i) : i \in DOMAIN list}
        \cup {Append(list, j) : j \in Typed}

\* Entries the row already has are not looked at.
ValidEdit(list) ==
    /\ Len(list) <= MaxJobs
    /\ \A j \in ToSet(list) \ ToSet(jobs) : ValidJob(j)

\* Mutant: the form's keys are stored as they are.
KeptFromForm(w) == form[w].choices

\* Keys with an endpoint of their own keep what the row has.
KeptChoices(w) == choices

\* UpdateDetails, from a form that says which profile it shows or does not.
UpdateDetails(w, expects) ==
    /\ form[w] # NoForm /\ (expects => form[w].fresh)
    /\ \E list \in Edited(form[w].jobs) :
          /\ ValidEdit(list)
          /\ jobs' = list /\ total' = Experience(list, total)
    /\ choices' = KeptChoices(w)
    /\ Stale
    /\ UNCHANGED month

\* Mutant: what the form says of the experience is stored.
UpdateProfileAsTyped(w, expects, typed) ==
    /\ form[w] # NoForm /\ (expects => form[w].fresh)
    /\ total' = typed
    /\ Stale
    /\ UNCHANGED <<month, jobs, choices>>

UpdateProfile(w, expects, typed) ==
    /\ form[w] # NoForm /\ (expects => form[w].fresh)
    /\ total' = Experience(jobs, typed)
    /\ Stale
    /\ UNCHANGED <<month, jobs, choices>>

\* One key of the stored choices, and no other.
SetChoice(key, on) ==
    /\ choices' = [choices EXCEPT ![key] = on]
    /\ Stale
    /\ UNCHANGED <<month, total, jobs>>

SetDiscoverable(on) == SetChoice("discoverable", on)

\* UpdatePreferences, of one kind of notification.
UpdatePreferences(off) == SetChoice("muted", off)

\* SetOnboardingState: the method is the one of the latest start.
SetOnboardingState(next) ==
    /\ next = "review_required" => choices.onboarding \in {"cv_started", "review_required", "cv_ready"}
    /\ next = "profile_ready" => choices.onboarding # "not_started"
    /\ choices' = [choices EXCEPT !.onboarding =
          IF next # "profile_ready" THEN next
          ELSE IF @ \in {"manual_started", "manual_ready"} THEN "manual_ready" ELSE "cv_ready"]
    /\ Stale
    /\ UNCHANGED <<month, total, jobs>>

MonthPasses ==
    /\ month < LastMonth
    /\ month' = month + 1
    /\ UNCHANGED <<profile, form>>

ChoiceStep ==
    \/ \E on \in BOOLEAN : SetDiscoverable(on) \/ UpdatePreferences(on)
    \/ \E next \in {"manual_started", "cv_started", "review_required", "profile_ready"} :
          SetOnboardingState(next)

FormStep(w) ==
    \/ Open(w)
    \/ \E expects \in BOOLEAN :
          UpdateDetails(w, expects) \/ \E typed \in {0, 1} : UpdateProfile(w, expects, typed)

Next ==
    \/ \E cv \in CVs : ApplyCV(cv)
    \/ \E w \in Windows : FormStep(w)
    \/ ChoiceStep
    \/ MonthPasses

Spec == Init /\ [][Next]_profileVars

-----------------------------------------------------------------------------
(* Properties                                                              *)

\* "Collections append new reviewed records; matching records are retained rather than
\* overwritten" (reviewed_cv.go:31): an employment goes only when the candidate saves a
\* list that he was shown.
CVsAppend ==
    ~IsPrefix(jobs, jobs') =>
        \E w \in Windows : form[w] # NoForm /\ jobs' \in Edited(form[w].jobs)

\* Whichever editor wrote last, the experience a profile states is the one its complete
\* history gives, and both calculations of it agree.
ExperienceIsDerived ==
    profile' # profile /\ EmploymentExperience(jobs)' # Null /\ choices' = choices =>
        total' = EmploymentExperience(jobs)' /\ total' = Sweep(jobs)'

\* "A stale or forged profile form must never toggle either of these server-owned
\* fields" (profile_details.go:97).
ChoicesAreOwn == choices' # choices => ChoiceStep

EditorsAgree == [][CVsAppend /\ ExperienceIsDerived /\ ChoicesAreOwn]_profileVars

=============================================================================
