-------------------------------- MODULE Sourcing --------------------------------
(***************************************************************************)
(* What the recruiters of a company keep about one candidate: the notes    *)
(* they share (recruiter/candidate_collaboration.go) and the named pools   *)
(* (recruiter/named_talent_pools.go).  A command on a note holds the       *)
(* company's lock; a change of a pool looks at the pool first and locks    *)
(* its row later, and in between the owner of the company may hand the     *)
(* pool over (company/resource_transfer.go).  The list a recruiter keeps   *)
(* for himself (recruiter/talent_pool.go) has no lock at all.              *)
(***************************************************************************)
EXTENDS FiniteSets, Integers, SequencesExt

CONSTANTS
    Members,     \* recruiters of the company, its owner apart
    Requests,    \* client_request_id of notes
    AuthorOf,    \* [Requests -> Members]
    Texts,
    Pools,       \* rows of recruiter_talent_pools
    SmartLimit,  \* smart pools the plan allows
    MaxTrail,    \* bound: changes of a note
    MaxEvents,   \* bound: events of a pool
    None

VARIABLES
    active,    \* members who have not been deactivated
    wide,      \* members whose scope holds the candidate's application
    candidate, \* [applied, discoverable]: to this company, and by this company
    note,      \* [Requests -> row of recruiter_candidate_comments with its history]
    read,      \* the notes a colleague has seen, each with its text
    pool,      \* [Pools -> row with the candidate's entry and its events]
    own,       \* [Members -> the candidate's row of talent_pool_memberships]
    changing   \* [Members -> the change of a pool, or of the own list, under way]

noteVars == <<note, read>>
poolVars == <<pool, own, changing>>
vars == <<active, wide, candidate, noteVars, poolVars>>

NoNote == [text |-> None, old |-> FALSE, deleted |-> FALSE, trail |-> <<>>]
NoPool == [owner |-> None, kind |-> "manual", tags |-> None, events |-> <<>>]

Written(r) == note[r].text # None
Exists(p) == pool[p].owner # None
Accessible == candidate.applied \/ candidate.discoverable

Init ==
    /\ active = Members /\ wide = Members
    /\ candidate = [applied |-> TRUE, discoverable |-> TRUE]
    /\ note = [r \in Requests |-> NoNote] /\ read = {}
    /\ pool = [p \in Pools |-> NoPool]
    /\ own = [m \in Members |-> None] /\ changing = [m \in Members |-> None]

-----------------------------------------------------------------------------
\* candidateNotesMemberTx: the application is in scope, or the whole company's talent is.
Permitted(m) == m \in active \cap wide /\ Accessible

\* Mutant: a request with another text corrects the note.
KnownAsItIs(r, text) == note[r].text = text

\* AddCandidateComment: a repeated request writes nothing more.
Known(r, text) == Written(r)

AddCandidateComment(r, text) ==
    /\ Permitted(AuthorOf[r]) /\ ~Known(r, text)
    /\ note' = [note EXCEPT ![r].text = text]
    /\ UNCHANGED <<active, wide, candidate, read, poolVars>>

\* Mutant: notes stay open to their authors.
ModifiableForEver(r) == Written(r) /\ ~note[r].deleted

\* Authors correct their notes for 24 hours.
Modifiable(r) == Written(r) /\ ~note[r].deleted /\ ~note[r].old

\* Mutant: the history remembers what a note says now.
ChangeNew(r, action, text) == [action |-> action, previous |-> text, new |-> text]

\* A row of recruiter_candidate_comment_history.
Change(r, action, text) == [action |-> action, previous |-> note[r].text, new |-> text]

ChangeCandidateComment(r, action, text) ==
    /\ Permitted(AuthorOf[r]) /\ Modifiable(r)
    /\ Len(note[r].trail) < MaxTrail
    /\ note' = [note EXCEPT ![r].trail = Append(@, Change(r, action, text)),
                            ![r].text = IF action = "edit" THEN text ELSE @,
                            ![r].deleted = action = "delete"]
    /\ UNCHANGED <<active, wide, candidate, read, poolVars>>

DayPasses(r) ==
    /\ Written(r) /\ ~note[r].old
    /\ note' = [note EXCEPT ![r].old = TRUE]
    /\ UNCHANGED <<active, wide, candidate, read, poolVars>>

CandidateComments(m) ==
    /\ Permitted(m)
    /\ read' = read \cup {<<r, note[r].text>> : r \in {r \in Requests : Written(r) /\ ~note[r].deleted}}
    /\ UNCHANGED <<active, wide, candidate, note, poolVars>>

-----------------------------------------------------------------------------
Event(m, action) == [actor |-> m, action |-> action]

Smart == {p \in Pools : pool[p].kind = "smart"}

\* CheckCapacityTx, under the company's lock.
Room == Cardinality(Smart) < SmartLimit

CreateNamedPool(p, m, kind) ==
    /\ m \in active /\ ~Exists(p)
    /\ kind = "smart" => m \in wide /\ Room
    /\ pool' = [pool EXCEPT ![p] = [NoPool EXCEPT !.owner = m, !.kind = kind,
                                                  !.events = <<Event(m, "created")>>]]
    /\ UNCHANGED <<active, wide, candidate, noteVars, own, changing>>

\* namedPool, before the transaction of SetNamedPoolCandidate.
OpenPool(m, p, tags) ==
    /\ m \in active /\ changing[m] = None
    /\ pool[p].owner = m /\ pool[p].kind = "manual"
    /\ changing' = [changing EXCEPT ![m] = [pool |-> p, tags |-> tags]]
    /\ UNCHANGED <<active, wide, candidate, noteVars, pool, own>>

\* Mutant: who owned the pool when it was opened may change it.
OwnsWhenOpened(m, p) == TRUE

\* The owner of the row that is locked.
Owns(m, p) == pool[p].owner = m

\* Mutant: tags that are not given are no tags.
TagsAfresh(before, tags) == IF tags = "kept" THEN "untagged" ELSE tags

\* None removes the entry; "kept" saves without tags and keeps those there are.
Tags(before, tags) ==
    IF tags # "kept" THEN tags ELSE IF before = None THEN "untagged" ELSE before

SetNamedPoolCandidate(m) ==
    /\ changing[m] # None /\ changing[m].pool # "own"
    /\ changing' = [changing EXCEPT ![m] = None]
    /\ LET p == changing[m].pool
           tags == changing[m].tags
       IN  IF Owns(m, p) /\ (tags # None => Accessible)
             THEN /\ Len(pool[p].events) < MaxEvents
                  /\ pool' = [pool EXCEPT ![p].tags = Tags(@, tags),
                        ![p].events = Append(@, Event(m, IF tags = None THEN "removed" ELSE "saved"))]
             ELSE UNCHANGED pool
    /\ UNCHANGED <<active, wide, candidate, noteVars, own>>

\* SaveToTalentPool looks for the candidate and stores the row in two statements.
FindForOwn(m, tags) ==
    /\ m \in active /\ Accessible /\ changing[m] = None
    /\ changing' = [changing EXCEPT ![m] = [pool |-> "own", tags |-> tags]]
    /\ UNCHANGED <<active, wide, candidate, noteVars, pool, own>>

SaveToTalentPool(m) ==
    /\ changing[m] # None /\ changing[m].pool = "own"
    /\ changing' = [changing EXCEPT ![m] = None]
    /\ own' = [own EXCEPT ![m] = Tags(@, changing[m].tags)]
    /\ UNCHANGED <<active, wide, candidate, noteVars, pool>>

RemoveFromTalentPool(m) ==
    /\ m \in active /\ own[m] # None
    /\ own' = [own EXCEPT ![m] = None]
    /\ UNCHANGED <<active, wide, candidate, noteVars, pool, changing>>

\* transferResourcesTx, as a member is deactivated: the pools go to one with the whole scope.
HandOver(m, to) == [p \in Pools |-> IF pool[p].owner = m THEN [pool[p] EXCEPT !.owner = to] ELSE pool[p]]

Deactivate(m, to) ==
    /\ m \in active /\ (to = None \/ to \in (active \cap wide) \ {m})
    /\ active' = active \ {m}
    /\ pool' = IF to = None THEN pool ELSE HandOver(m, to)
    /\ UNCHANGED <<wide, candidate, noteVars, own, changing>>

Reactivate(m) ==
    /\ m \notin active /\ active' = active \cup {m}
    /\ UNCHANGED <<wide, candidate, noteVars, poolVars>>

\* The owner narrows a scope or widens it.
SetScope(m) ==
    /\ wide' = IF m \in wide THEN wide \ {m} ELSE wide \cup {m}
    /\ UNCHANGED <<active, candidate, noteVars, poolVars>>

\* The candidate applies, hides, or is found again.
CandidateChanges ==
    /\ candidate' \in [applied : {TRUE}, discoverable : BOOLEAN]
                 \cup [applied : {candidate.applied}, discoverable : BOOLEAN]
    /\ UNCHANGED <<active, wide, noteVars, poolVars>>

-----------------------------------------------------------------------------
Next ==
    \/ \E r \in Requests :
          \/ DayPasses(r)
          \/ \E text \in Texts : AddCandidateComment(r, text) \/ ChangeCandidateComment(r, "edit", text)
          \/ ChangeCandidateComment(r, "delete", None)
    \/ \E m \in Members :
          \/ CandidateComments(m) \/ SetNamedPoolCandidate(m)
          \/ SaveToTalentPool(m) \/ RemoveFromTalentPool(m)
          \/ \E tags \in {"kept", "untagged", "tagged"} : FindForOwn(m, tags)
          \/ Reactivate(m) \/ SetScope(m)
          \/ \E to \in Members \cup {None} : Deactivate(m, to)
          \/ \E p \in Pools :
                \/ \E kind \in {"manual", "smart"} : CreateNamedPool(p, m, kind)
                \/ \E tags \in {None, "kept", "untagged", "tagged"} : OpenPool(m, p, tags)
    \/ CandidateChanges

Spec == Init /\ [][Next]_vars

-----------------------------------------------------------------------------
\* What somebody has read stays in the note or in its history.
ReadIsKept ==
    \A x \in read :
        LET n == note[x[1]] IN
        n.text = x[2] \/ \E i \in DOMAIN n.trail : n.trail[i].previous = x[2]

\* The history leads from the text first written to the present one, and a deletion ends it.
Chain(n) ==
    /\ \A i \in DOMAIN n.trail :
          n.trail[i].new = (IF i = Len(n.trail) THEN (IF n.deleted THEN None ELSE n.text)
                            ELSE n.trail[i + 1].previous)
    /\ n.deleted = (n.trail # <<>> /\ Last(n.trail).action = "delete")

FirstText(n) == IF n.trail = <<>> THEN n.text ELSE n.trail[1].previous

\* A late repetition, an old window or a day that has passed rewrites nothing.
NotesAccountable ==
    /\ ReadIsKept'
    /\ \A r \in Requests : Chain(note[r])'
    /\ \A r \in Requests : Written(r) =>
          /\ IsPrefix(note[r].trail, note'[r].trail) /\ FirstText(note'[r]) = FirstText(note[r])
          /\ note[r].old => note'[r] = note[r]

\* The events say who is in the pool: the last one about the candidate decides.
LogDecides(p) ==
    (pool[p].tags # None) = (Exists(p) /\ Last(pool[p].events).action = "saved")

\* A pool is changed by the one who owns it at that moment, never by one who has handed it
\* over; and smart pools become more within the plan, and stay without entries.
PoolsAccountable ==
    \A p \in Pools :
        /\ LogDecides(p)'
        /\ IsPrefix(pool[p].events, pool'[p].events)
        /\ Exists(p) /\ pool'[p].events # pool[p].events =>
              Last(pool'[p].events).actor = pool[p].owner /\ pool[p].kind = "manual"
        /\ Cardinality(Smart') > Cardinality(Smart) => Cardinality(Smart') <= SmartLimit

\* "Omitted tags preserve existing groups" (talent_pool.go:68): groups end only when the entry
\* is removed or the recruiter, with the change in hand, names others.
GroupsKept ==
    LET named(m) == changing[m] # None /\ changing[m].tags # "kept"
    IN  /\ \A m \in Members : own[m] = "tagged" /\ own'[m] = "untagged" => named(m)
        /\ \A p \in Pools : pool[p].tags = "tagged" /\ pool'[p].tags = "untagged" =>
              \E m \in Members : named(m) /\ changing'[m] = None

AllAccountable == NotesAccountable /\ PoolsAccountable /\ GroupsKept
SourcingIsAccountable == [][AllAccountable]_vars

=============================================================================
