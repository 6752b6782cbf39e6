----------------------------- MODULE ParseArtifacts -----------------------------
(***************************************************************************)
(* Documents read by the model and what their owner makes of them          *)
(* (internal/intelligence/parsing, candidate/reviewed_cv.go).  One row of  *)
(* ai_parse_operations per key (task, versions, model, owner, source); the *)
(* provider is called between two statements, outside any transaction.  An *)
(* owner reviews the proposal in several windows and applies the review of *)
(* a CV to a profile that other editors change.                            *)
(***************************************************************************)
EXTENDS Integers

CONSTANTS
    Keys,      \* cache keys
    TaskOf,    \* [Keys -> "cv.parse", "job.parse" or "job.generate_description"]
    From,      \* [Keys -> the key a generation was regenerated from, or None]
    Calls,     \* bound: requests to the model at a time
    Windows,   \* bound: the owner's windows
    LastLife,  \* bound: rows a key has after another
    LastStamp, \* bound: changes of the profile
    LastRev,   \* bound: reviews of a row
    None

VARIABLES
    row,     \* [Keys -> row or None]
    lives,   \* [Keys -> rows there were]
    paid,    \* ghost: [Keys -> calls of the provider since a row expired]
    call,    \* [Calls -> a request under way or None]
    window,  \* [Windows -> what it shows or None]
    saving,  \* [Windows -> a review under way or None]
    profile  \* candidate_profiles.updated_at

artifacts == <<row, lives, paid, call>>
reviews == <<window, saving, profile>>
parseVars == <<row, lives, paid, call, window, saving, profile>>

Reviewable == {"requires_review", "owner_reviewed"}
Outcomes == {"requires_review", "validation_error", "provider_error"}
NewRow(life) ==
    [life |-> life, status |-> "pending", rev |-> 0, decided |-> {}, plan |-> None,
     applied |-> FALSE, expired |-> FALSE]

Init ==
    /\ row = [k \in Keys |-> None]
    /\ lives = [k \in Keys |-> 0]
    /\ paid = [k \in Keys |-> 0]
    /\ call = [c \in Calls |-> None]
    /\ window = [w \in Windows |-> None]
    /\ saving = [w \in Windows |-> None]
    /\ profile = 0

-----------------------------------------------------------------------------
(* Requests to the model                                                   *)

\* expires_at > now()
Live(k) == row[k] # None /\ ~row[k].expired
IsRow(k, life) == Live(k) /\ row[k].life = life

\* GenerateDescription with RegenerateFrom
Regenerable(k) == From[k] # None => Live(From[k]) /\ row[From[k]].status # "pending"

\* Mutant: a row without an answer is admitted again.
AdmittedUnanswered(k) == Live(k) => row[k].status \in {"pending", "provider_error"}

\* A key whose row has expired is free; any other row is the answer, also a pending
\* or a failed one.
Admitted(k) == ~Live(k)

\* Store.Begin: INSERT .. ON CONFLICT DO NOTHING.
Begin(c, k) ==
    /\ call[c] = None
    /\ Admitted(k)
    /\ lives[k] < LastLife
    /\ lives' = [lives EXCEPT ![k] = @ + 1]
    /\ row' = [row EXCEPT ![k] = NewRow(lives[k] + 1)]
    /\ call' = [call EXCEPT ![c] = [k |-> k, life |-> lives[k] + 1, outcome |-> None]]
    /\ UNCHANGED <<paid, reviews>>

\* execute and GenerateDescription up to the call of the provider.
Execute(c, k) == TaskOf[k] # "job.generate_description" /\ Begin(c, k)

GenerateDescription(c, k) ==
    TaskOf[k] = "job.generate_description" /\ Regenerable(k) /\ Begin(c, k)

\* Gateway.Generate
CallProvider(c, outcome) ==
    /\ call[c] # None /\ call[c].outcome = None
    /\ paid' = [paid EXCEPT ![call[c].k] = IF IsRow(call[c].k, call[c].life) THEN @ + 1 ELSE @]
    /\ call' = [call EXCEPT ![c].outcome = outcome]
    /\ UNCHANGED <<row, lives, reviews>>

\* Store.Complete: a failed statement leaves the row pending.
Complete(c) ==
    LET q == call[c]
    IN /\ q # None /\ q.outcome # None
       /\ row' = IF IsRow(q.k, q.life) /\ row[q.k].status = "pending"
                 THEN [row EXCEPT ![q.k].status = q.outcome] ELSE row
       /\ call' = [call EXCEPT ![c] = None]
       /\ UNCHANGED <<lives, paid, reviews>>

\* The process ends, or an event of the generation cannot be recorded.
GiveUp(c) ==
    /\ call[c] # None
    /\ call' = [call EXCEPT ![c] = None]
    /\ UNCHANGED <<row, lives, paid, reviews>>

\* A day after its insertion.
Expire(k) ==
    /\ Live(k)
    /\ row' = [row EXCEPT ![k].expired = TRUE]
    /\ paid' = [paid EXCEPT ![k] = 0]
    /\ UNCHANGED <<lives, call, reviews>>

PurgeExpired(k) ==
    /\ row[k] # None /\ row[k].expired
    /\ row' = [row EXCEPT ![k] = None]
    /\ UNCHANGED <<lives, paid, call, reviews>>

-----------------------------------------------------------------------------
(* Reviews                                                                 *)

View(k) == [k |-> k, life |-> row[k].life, rev |-> row[k].rev, stamp |-> profile]
ReadBack(w) == LET v == window[w] IN IsRow(v.k, v.life) /\ row[v.k].rev = v.rev

\* CVReview or Get, beside the profile.
OpenReview(w, k) ==
    /\ saving[w] = None
    /\ Live(k) /\ row[k].status \in Reviewable /\ ~row[k].applied
    /\ window' = [window EXCEPT ![w] = View(k)]
    /\ UNCHANGED <<artifacts, saving, profile>>

\* The row is read, and for the confirmation of a CV the profile's stamp, before the
\* statement that saves.  Decisions about a CV add up, the fields of a vacancy replace
\* the earlier ones, and a generation is always confirmed.
StartReview(w, decides, confirm) ==
    LET v == window[w]
    IN /\ v # None /\ saving[w] = None
       /\ ReadBack(w) /\ row[v.k].status \in Reviewable /\ ~row[v.k].applied
       /\ row[v.k].rev < LastRev
       /\ TaskOf[v.k] = "job.generate_description" => confirm
       /\ LET earlier == IF TaskOf[v.k] = "cv.parse" THEN row[v.k].decided ELSE {}
              decided == IF decides THEN earlier \cup {w} ELSE earlier
          IN saving' = [saving EXCEPT ![w] =
                [decided |-> decided, confirm |-> confirm,
                 plan |-> IF confirm /\ TaskOf[v.k] = "cv.parse"
                          THEN [decided |-> decided, stamp |-> profile] ELSE None]]
       /\ UNCHANGED <<artifacts, window, profile>>

ReviewCV(w, decides, confirm) ==
    /\ window[w] # None /\ TaskOf[window[w].k] = "cv.parse"
    /\ StartReview(w, decides, confirm)

\* ReviewJob, ReviewDescription
ReviewFields(w, decides, confirm) ==
    /\ window[w] # None /\ TaskOf[window[w].k] # "cv.parse"
    /\ StartReview(w, decides, confirm)

\* Mutant: the revision that was read is not compared when the review is saved.
AtAnyRevision(w) == IsRow(window[w].k, window[w].life)

AtRevision(w) == ReadBack(w)

\* Store.SaveReview
SaveReview(w) ==
    LET v == window[w]
    IN /\ saving[w] # None
       /\ AtRevision(w)
       /\ row' = [row EXCEPT ![v.k] = [@ EXCEPT
             !.rev = row[v.k].rev + 1, !.decided = saving[w].decided, !.plan = saving[w].plan,
             !.status = IF saving[w].confirm THEN "owner_reviewed" ELSE "requires_review"]]
       /\ window' = [window EXCEPT ![w].rev = row[v.k].rev + 1]
       /\ saving' = [saving EXCEPT ![w] = None]
       /\ UNCHANGED <<lives, paid, call, profile>>

\* ErrConflict, or the connection is lost.
ReviewFails(w) ==
    /\ saving[w] # None
    /\ saving' = [saving EXCEPT ![w] = None]
    /\ UNCHANGED <<artifacts, window, profile>>

\* Mutant: the profile may have changed after the confirmation.
ProfileAnyway(w, plan) == TRUE

\* The profile is the one the window shows and the one the review was confirmed for.
ProfileAsSeen(w, plan) == window[w].stamp = profile /\ plan.stamp = profile

\* ApplyCV: one transaction that locks the row and the profile.
ApplyCV(w) ==
    LET v == window[w]
    IN /\ v # None /\ saving[w] = None /\ TaskOf[v.k] = "cv.parse"
       /\ ReadBack(w)
       /\ row[v.k].status = "owner_reviewed" /\ row[v.k].plan # None /\ ~row[v.k].applied
       /\ ProfileAsSeen(w, row[v.k].plan)
       /\ profile < LastStamp
       /\ profile' = profile + 1
       /\ row' = [row EXCEPT ![v.k].applied = TRUE, ![v.k].rev = @ + 1]
       /\ UNCHANGED <<lives, paid, call, window, saving>>

\* Every other editor of the profile.
EditProfile ==
    /\ profile < LastStamp
    /\ profile' = profile + 1
    /\ UNCHANGED <<artifacts, window, saving>>

-----------------------------------------------------------------------------
ModelStep(c) ==
    \/ \E k \in Keys : Execute(c, k) \/ GenerateDescription(c, k)
    \/ \E outcome \in Outcomes : CallProvider(c, outcome)
    \/ Complete(c) \/ GiveUp(c)

Review(w) ==
    \/ \E k \in Keys : OpenReview(w, k)
    \/ \E decides, confirm \in BOOLEAN :
          ReviewCV(w, decides, confirm) \/ ReviewFields(w, decides, confirm)
    \/ SaveReview(w) \/ ReviewFails(w) \/ ApplyCV(w)

Next ==
    \/ \E c \in Calls : ModelStep(c)
    \/ \E k \in Keys : Expire(k) \/ PurgeExpired(k)
    \/ \E w \in Windows : Review(w)
    \/ EditProfile

Spec == Init /\ [][Next]_parseVars

-----------------------------------------------------------------------------
(* Properties                                                              *)

\* "Pending/failed rows remain idempotent, preventing retries after ambiguous provider
\* errors" (store.go:108): whatever fails, one row pays for one call.
PaidOnce == \A k \in Keys : paid[k] <= 1

\* What one window decided about a CV stays decided, whatever another one saves.
DecisionsKept ==
    \A k \in Keys :
        TaskOf[k] = "cv.parse" /\ row[k] # None /\ row'[k] # None /\ row[k].life = row'[k].life =>
            row[k].decided \subseteq row'[k].decided

\* A review reaches the profile once, with every decision saved by then, and the profile
\* is still the one it was confirmed for: no edit of its owner is written over.
AppliedAsConfirmed ==
    \A k \in Keys :
        Live(k) /\ Live(k)' /\ ~row[k].applied /\ row'[k].applied =>
            row[k].plan = [decided |-> row[k].decided, stamp |-> profile]

ReviewsAreSound == [][PaidOnce' /\ DecisionsKept /\ AppliedAsConfirmed]_parseVars

=============================================================================
