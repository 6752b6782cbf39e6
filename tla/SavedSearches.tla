------------------------------ MODULE SavedSearches ------------------------------
(***************************************************************************)
(* Saved searches of recruiters and their alerts (recruiter/               *)
(* sourcing_searches.go, saved_search_alert_worker.go).  Every API process *)
(* reads the searches that are due without a lock, then evaluates one at a *)
(* time: asks whether the plan still allows alerts, counts the profiles    *)
(* that changed since the last alert, takes the time, and queues an email. *)
(*                                                                         *)
(* There is one candidate whose profile all searches match.  One tick is   *)
(* less than a day; an alert of a search is due every Period ticks.        *)
(***************************************************************************)
EXTENDS FiniteSets, Integers, Sequences

CONSTANTS
    Searches,          \* rows, by their id: \subseteq Nat
    Capacity,          \* saved searches the plan of the company allows
    Workers,           \* API processes
    Limit,             \* searches a pass reads (20 in the code)
    Period,            \* ticks between two alerts, and of a window of the dedupe key
    MaxTime,           \* bound: ticks
    None

VARIABLES
    now,
    search,  \* recruiter_saved_searches: [status, enabled, last, saved]
    valid,   \* searches whose stored criteria the code still accepts
    allowed, \* searches whose owner's plan allows talent.alerts
    profile, \* the candidate: [updated, visible]
    pass,    \* per process: the rows its pass has read and not handled
    cur,     \* per process: the evaluation under way
    emails,  \* email_outbox: search and window
    told,    \* observed: searches whose owner was told of the latest update
    excused  \* observed: searches whose owner need not be told of it

vars == <<now, search, valid, allowed, profile, pass, cur, emails, told, excused>>
clock == <<now, profile>>
owned == <<search, valid, allowed>>
worker == <<pass, cur>>

NoRow == [status |-> "none", enabled |-> FALSE, last |-> None, saved |-> 0]
Live(s) == search[s].status = "live"
Idle == [step |-> "idle"]

\* A row from before, whose criteria the code does not accept any more.
Saved == [status |-> "live", enabled |-> TRUE, last |-> None, saved |-> 0]

Init ==
    /\ now = 0
    /\ \E legacy \in SUBSET Searches :
          /\ search = [s \in Searches |-> IF s \in legacy THEN Saved ELSE NoRow]
          /\ valid = Searches \ legacy
    /\ allowed = Searches
    /\ profile = [updated |-> None, visible |-> TRUE]
    /\ pass = [w \in Workers |-> <<>>] /\ cur = [w \in Workers |-> Idle]
    /\ emails = {} /\ told = {} /\ excused = {}

-----------------------------------------------------------------------------
\* A process has read the search and not finished with it.
Evaluated(s) ==
    \E w \in Workers :
        \/ \E k \in 1 .. Len(pass[w]) : pass[w][k].id = s
        \/ cur[w].step # "idle" /\ cur[w].row.id = s

\* A slower process has set the time back over the end of a window, whose next alert will
\* be taken for a second one.
SetBack(s) ==
    search[s].last # None /\ \E e \in emails : e[1] = s /\ e[2] > search[s].last \div Period

Tick ==
    /\ now < MaxTime /\ now' = now + 1
    /\ UNCHANGED <<owned, profile, worker, emails, told, excused>>

\* The profile changes: news for every search, unless processes meet over it.
UpdateProfile ==
    /\ profile' = [profile EXCEPT !.updated = now]
    /\ told' = {}
    /\ excused' = {s \in Searches : Evaluated(s) \/ SetBack(s)}
    /\ UNCHANGED <<now, owned, worker, emails>>

\* Consent and discoverability.
SetVisible ==
    /\ profile' = [profile EXCEPT !.visible = ~@]
    /\ UNCHANGED <<now, owned, worker, emails, told, excused>>

SetPlan(s) ==
    /\ allowed' = IF s \in allowed THEN allowed \ {s} ELSE allowed \cup {s}
    /\ UNCHANGED <<clock, search, valid, worker, emails, told, excused>>

Used == Cardinality({s \in Searches : Live(s)})

\* RequireFeatureTx locks the company, CheckCapacityTx counts.
SaveSearch(s) ==
    /\ search[s].status = "none" /\ s \in allowed /\ Used < Capacity
    /\ search' = [search EXCEPT ![s] = [NoRow EXCEPT !.status = "live", !.saved = now]]
    /\ valid' = valid \cup {s} /\ excused' = excused \cup {s}
    /\ UNCHANGED <<clock, allowed, worker, emails, told>>

\* UpdateSavedSearch: the new criteria are valid ones; what they ask is new.
UpdateSavedSearch(s, enabled, filters) ==
    /\ Live(s)
    /\ search' = [search EXCEPT ![s].enabled = enabled, ![s].saved = now]
    /\ IF filters
         THEN valid' = valid \cup {s} /\ excused' = excused \cup {s}
         ELSE /\ excused' = IF search[s].last = None THEN excused \cup {s} ELSE excused
              /\ UNCHANGED valid
    /\ UNCHANGED <<clock, allowed, worker, emails, told>>

DeleteSavedSearch(s) ==
    /\ Live(s)
    /\ search' = [search EXCEPT ![s] = [NoRow EXCEPT !.status = "deleted"]]
    /\ UNCHANGED <<clock, valid, allowed, worker, emails, told, excused>>

-----------------------------------------------------------------------------
Since(row) == IF row.last = None THEN row.saved ELSE row.last

Due(s) ==
    /\ Live(s) /\ search[s].enabled
    /\ search[s].last # None => search[s].last + Period <= now

Earlier(s, t) ==
    LET a == Since(search[s])
        b == Since(search[t])
    IN  a < b \/ (a = b /\ s < t)

\* The query: the oldest that are due, in order, as many as a pass reads.
DueSavedSearchAlerts ==
    LET due == {s \in Searches : Due(s)}
        n == IF Cardinality(due) < Limit THEN Cardinality(due) ELSE Limit
    IN  {q \in [1 .. n -> due] :
            \A k \in 1 .. n :
                /\ \A j \in 1 .. k - 1 : q[j] # q[k]
                /\ \A t \in due : Earlier(t, q[k]) => \E j \in 1 .. k - 1 : q[j] = t}

Read(s) == [id |-> s, last |-> search[s].last, saved |-> search[s].saved, valid |-> s \in valid]

StartPass(w) ==
    /\ pass[w] = <<>> /\ cur[w] = Idle
    /\ \E q \in DueSavedSearchAlerts :
          /\ q # <<>>
          /\ pass' = [pass EXCEPT ![w] = [k \in DOMAIN q |-> Read(q[k])]]
    /\ UNCHANGED <<clock, owned, cur, emails, told, excused>>

Next1(w) == pass' = [pass EXCEPT ![w] = Tail(@)]

\* Without the feature, or with criteria the code refuses, the row is left as it is.
SkipSearch(w) ==
    /\ cur[w] = Idle /\ pass[w] # <<>>
    /\ Head(pass[w]).id \notin allowed \/ ~Head(pass[w]).valid
    /\ Next1(w)
    /\ UNCHANGED <<clock, owned, cur, emails, told, excused>>

\* Mutant: what changed at the moment of the last alert is taken as told.
MatchesLater(row) ==
    profile.visible /\ profile.updated # None /\ profile.updated > Since(row)

Matches(row) ==
    profile.visible /\ profile.updated # None /\ profile.updated >= Since(row)

\* Discover: what changed since the alert the row was read with.
Discover(w) ==
    /\ cur[w] = Idle /\ pass[w] # <<>>
    /\ LET row == Head(pass[w]) IN
        /\ row.id \in allowed /\ row.valid
        /\ cur' = [cur EXCEPT ![w] = [step |-> "found", row |-> row, found |-> Matches(row)]]
        /\ excused' = IF profile.visible THEN excused ELSE excused \cup {row.id}
    /\ Next1(w)
    /\ UNCHANGED <<clock, owned, emails, told>>

TakeTime(w) ==
    /\ cur[w].step = "found"
    /\ cur' = [cur EXCEPT ![w] =
                 [step |-> "record", row |-> @.row, found |-> @.found, at |-> now]]
    /\ UNCHANGED <<clock, owned, pass, emails, told, excused>>

Stamped(w) ==
    LET s == cur[w].row.id
    IN  IF Live(s) THEN [search EXCEPT ![s].last = cur[w].at] ELSE search

\* One transaction stores the alert and the time of the evaluation.  A second alert of
\* the window is dropped; without the feature nothing is stored.  The row it stores has no
\* expires_at, which migration 000051 demands: where the database refuses it, the pass ends
\* as Abort has it.
RecordAlert(w) ==
    /\ cur[w].step = "record"
    /\ cur' = [cur EXCEPT ![w] = Idle]
    /\ LET s == cur[w].row.id IN
        IF cur[w].found /\ s \notin allowed
          THEN UNCHANGED <<search, emails, told>>
          ELSE /\ search' = Stamped(w)
               /\ IF cur[w].found
                    THEN /\ emails' = emails \cup {<<s, cur[w].at \div Period>>}
                         /\ told' = IF <<s, cur[w].at \div Period>> \in emails
                                      THEN told ELSE told \cup {s}
                    ELSE UNCHANGED <<emails, told>>
    /\ UNCHANGED <<clock, valid, allowed, pass, excused>>

\* The thirty seconds of a pass are over, a statement fails, or the process ends.
Abort(w) ==
    /\ pass[w] # <<>> \/ cur[w] # Idle
    /\ pass' = [pass EXCEPT ![w] = <<>>] /\ cur' = [cur EXCEPT ![w] = Idle]
    /\ UNCHANGED <<clock, owned, emails, told, excused>>

-----------------------------------------------------------------------------
WorkerStep(w) ==
    StartPass(w) \/ SkipSearch(w) \/ Discover(w) \/ TakeTime(w) \/ RecordAlert(w)

Next ==
    \/ Tick \/ UpdateProfile \/ SetVisible
    \/ \E s \in Searches :
          \/ SetPlan(s) \/ SaveSearch(s) \/ DeleteSavedSearch(s)
          \/ \E enabled, filters \in BOOLEAN : UpdateSavedSearch(s, enabled, filters)
    \/ \E w \in Workers : WorkerStep(w) \/ Abort(w)

Spec == Init /\ [][Next]_vars

-----------------------------------------------------------------------------
\* An update nobody was told of still counts for the next alert, although alerts are
\* evaluated without a lock and by several processes: unless it came during an evaluation
\* of the search or between two that ended in the wrong order, was hidden when the search
\* was evaluated, or the search was changed.
News(s) ==
    /\ Live(s) /\ profile.updated # None
    /\ s \notin told /\ s \notin excused

NothingMissed == \A s \in Searches : News(s) => profile.updated >= Since(search[s])

\* Nothing else stands in the way of an alert.
Wanted(s) ==
    /\ Live(s) /\ search[s].enabled /\ s \in valid /\ s \in allowed
    /\ profile.visible /\ profile.updated # None /\ profile.updated >= Since(search[s])
    /\ Due(s) /\ s \notin told

\* The ticker of a process starts the next pass, and its statements return.
Fairness == \A w \in Workers : WF_vars(WorkerStep(w))

\* "Invalid legacy criteria must never widen a search or stop valid alerts"
\* (saved_search_alert_worker.go:138): an alert that is due and wanted is queued at last.
ValidAlertsFlow == \A s \in Searches : []<>~Wanted(s)

=============================================================================
