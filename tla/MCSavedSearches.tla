----------------------------- MODULE MCSavedSearches -----------------------------
(***************************************************************************)
(* Two searches and a pass that reads one of them: the first is a legacy   *)
(* row whose criteria the code refuses.                                    *)
(***************************************************************************)
EXTENDS SavedSearches

\* The owners change nothing, nothing fails and nobody withdraws.
QuietNext ==
    \/ Tick \/ UpdateProfile
    \/ \E s \in Searches : SaveSearch(s) \/ UpdateSavedSearch(s, TRUE, FALSE)
    \/ \E w \in Workers : WorkerStep(w)

QuietSpec == Init /\ [][QuietNext]_vars /\ Fairness

=============================================================================
