------------------------------ MODULE AdminRecords ------------------------------
(***************************************************************************)
(* The administrators' records of what happens (internal/admin): cases     *)
(* with their timeline, articles with their revisions, flags and reviews   *)
(* that a person settles, alerts, and the telemetry that a collector       *)
(* delivers again and again until it is answered.                          *)
(*                                                                         *)
(* Every operation locks its row and is one transaction, except the        *)
(* evaluation of alerts, which looks for an open alert in one statement and*)
(* inserts one in another.                                                 *)
(***************************************************************************)
EXTENDS Integers, FiniteSets, Sequences

CONSTANTS
    Cases, Articles, Rules, Deliveries,
    Flags,       \* trust_risk_flags
    Reviews,     \* human_review_queue of the intelligence engine
    Insights,    \* intelligence_insights: advice, never settled
    Evaluators,  \* requests that evaluate the alert rules
    MaxEvents,   \* bound: entries of a timeline
    MaxRevision, \* bound: revisions of an article
    MaxAlerts,   \* bound: alerts of a rule
    None

VARIABLES
    case,      \* [Cases -> [status, closed, timeline] or None]
    article,   \* [Articles -> [status, revision, revisions, published] or None]
    flag,      \* [Flags, Reviews and Insights -> its status]
    alerts,    \* [Rules -> sequence of statuses]
    breached,  \* rules whose condition the telemetry meets
    checking,  \* [Evaluators -> the rule found without an open alert, or None]
    journal,   \* deliveries that admin_collector_deliveries has
    recorded,  \* [Deliveries -> rows stored for it]
    answered   \* deliveries that the collector was told are accepted

recordVars == <<case, article, flag, alerts, breached, checking, journal, recorded, answered>>
collector == <<journal, recorded, answered>>
alerting == <<alerts, breached, checking>>

Judged == Flags \cup Reviews \cup Insights

Init ==
    /\ case = [c \in Cases |-> None]
    /\ article = [x \in Articles |-> None]
    /\ flag = [f \in Judged |-> "pending_review"]
    /\ alerts = [r \in Rules |-> <<>>]
    /\ breached \in SUBSET Rules
    /\ checking = [e \in Evaluators |-> None]
    /\ journal = {} /\ recorded = [d \in Deliveries |-> 0] /\ answered = {}

-----------------------------------------------------------------------------
(* Cases                                                                   *)

CaseStatuses == {"open", "investigating", "awaiting_review", "resolved", "closed"}
Ended == {"resolved", "closed"}

CreateCase(c) ==
    /\ case[c] = None
    /\ case' = [case EXCEPT ![c] =
          [status |-> "open", closed |-> FALSE, timeline |-> <<[from |-> None, to |-> "open"]>>]]
    /\ UNCHANGED <<article, flag, alerting, collector>>

\* Mutant: the date of closing is kept when a case is opened again.
ClosedOnce(c, status) == case[c].closed \/ status \in Ended

\* closed_at
Closed(c, status) == status \in Ended

\* A status or only an assignee or a note: every update is an entry of the timeline.
UpdateCase(c, status) ==
    /\ case[c] # None /\ Len(case[c].timeline) < MaxEvents
    /\ case' = [case EXCEPT ![c] =
          [status |-> IF status = None THEN @.status ELSE status,
           closed |-> IF status = None THEN @.closed ELSE Closed(c, status),
           timeline |-> Append(@.timeline, [from |-> @.status, to |-> status])]]
    /\ UNCHANGED <<article, flag, alerting, collector>>

-----------------------------------------------------------------------------
(* Articles                                                                *)

ArticleStatuses == {"draft", "in_review", "published", "archived"}

\* Mutant: the number of the next revision is that of the latest.
NumberedAgain(x) == IF article[x] = None THEN 1 ELSE article[x].revision

NextRevision(x) == IF article[x] = None THEN 1 ELSE article[x].revision + 1

\* SaveKnowledgeArticle: the content is a new revision, the first publication is kept.
SaveKnowledgeArticle(x, status) ==
    /\ NextRevision(x) <= MaxRevision
    /\ article' = [article EXCEPT ![x] =
          [status |-> status, revision |-> NextRevision(x),
           revisions |-> (IF article[x] = None THEN <<>> ELSE article[x].revisions)
                            \o <<NextRevision(x)>>,
           published |-> status = "published" \/ (article[x] # None /\ article[x].published)]]
    /\ UNCHANGED <<case, flag, alerting, collector>>

-----------------------------------------------------------------------------
(* Flags and reviews                                                       *)

Settled(f) ==
    CASE f \in Flags -> {"dismissed", "escalated"}
      [] f \in Reviews -> {"resolved", "dismissed"}
      [] OTHER -> {}

Verdicts(f) ==
    CASE f \in Flags -> Settled(f) \cup {"reviewing"}
      [] f \in Reviews -> Settled(f) \cup {"in_review"}
      [] OTHER -> {"reviewed", "dismissed", "actioned"}

\* Mutant: whoever comes last has the word.
MayReviewAlways(f) == TRUE

MayReview(f) == flag[f] \notin Settled(f)

\* Under the row's lock: a verdict on what is not settled yet, of advice always.
Review(f, status) ==
    /\ MayReview(f)
    /\ flag' = [flag EXCEPT ![f] = status]
    /\ UNCHANGED <<case, article, alerting, collector>>

ReviewTrustRiskFlag(f, status) == f \in Flags /\ Review(f, status)

ReviewIntelligenceCase(f, status) == f \in Reviews /\ Review(f, status)

ReviewIntelligenceInsight(f, status) == f \in Insights /\ Review(f, status)

-----------------------------------------------------------------------------
(* Alerts                                                                  *)

Alerting(r) == {n \in DOMAIN alerts[r] : alerts[r][n] # "resolved"}

\* EvaluateAlerts, of one rule that is breached: is there an alert that is not resolved?
LookForAlert(e, r) ==
    /\ checking[e] = None /\ r \in breached
    /\ Alerting(r) = {}
    /\ checking' = [checking EXCEPT ![e] = r]
    /\ UNCHANGED <<case, article, flag, alerts, breached, collector>>

\* There was none: two evaluations at once insert two.
InsertAlert(e) ==
    /\ checking[e] # None /\ Len(alerts[checking[e]]) < MaxAlerts
    /\ alerts' = [alerts EXCEPT ![checking[e]] = Append(@, "open")]
    /\ checking' = [checking EXCEPT ![e] = None]
    /\ UNCHANGED <<case, article, flag, breached, collector>>

\* UpdateAlert: a resolved one stays so; an acknowledged one may be acknowledged again.
UpdateAlert(r, n, status) ==
    /\ n \in Alerting(r)
    /\ alerts' = [alerts EXCEPT ![r][n] = status]
    /\ UNCHANGED <<case, article, flag, breached, checking, collector>>

\* Telemetry arrives or leaves the window of the rule.
TelemetryChanges(r) ==
    /\ breached' = IF r \in breached THEN breached \ {r} ELSE breached \cup {r}
    /\ UNCHANGED <<case, article, flag, alerts, checking, collector>>

-----------------------------------------------------------------------------
(* The collector                                                           *)

\* Mutant: the delivery is journalled although its payload is refused.
JournalOfAll(d, valid) == journal \cup {d}

\* The journal is written in the transaction that stores the payload.
Journal(d, valid) == IF valid THEN journal \cup {d} ELSE journal

\* IngestCollector: a delivery of the journal is answered and nothing else.  A refused
\* payload rolls back; the answer to an accepted one may be lost.
IngestCollector(d, valid, lost) ==
    /\ IF d \in journal
       THEN /\ UNCHANGED <<journal, recorded>>
            /\ answered' = IF lost THEN answered ELSE answered \cup {d}
       ELSE /\ journal' = Journal(d, valid)
            /\ recorded' = IF valid THEN [recorded EXCEPT ![d] = @ + 1] ELSE recorded
            /\ answered' = IF valid /\ ~lost THEN answered \cup {d} ELSE answered
    /\ UNCHANGED <<case, article, flag, alerting>>

-----------------------------------------------------------------------------
ControlPlaneStep ==
    \/ \E c \in Cases :
          CreateCase(c) \/ \E status \in CaseStatuses \cup {None} : UpdateCase(c, status)
    \/ \E x \in Articles, status \in ArticleStatuses : SaveKnowledgeArticle(x, status)

ReviewStep ==
    \E f \in Judged : \E status \in Verdicts(f) :
        \/ ReviewTrustRiskFlag(f, status) \/ ReviewIntelligenceCase(f, status)
        \/ ReviewIntelligenceInsight(f, status)

AlertStep ==
    \/ \E e \in Evaluators : InsertAlert(e) \/ \E r \in Rules : LookForAlert(e, r)
    \/ \E r \in Rules :
          \/ \E n \in 1..MaxAlerts, status \in {"acknowledged", "resolved"} : UpdateAlert(r, n, status)
          \/ TelemetryChanges(r)

CollectorStep == \E d \in Deliveries, valid, lost \in BOOLEAN : IngestCollector(d, valid, lost)

Next == ControlPlaneStep \/ ReviewStep \/ AlertStep \/ CollectorStep

Spec == Init /\ [][Next]_recordVars

-----------------------------------------------------------------------------
(* Properties                                                              *)

\* The statuses that a timeline tells one after the other are those the case had, and a
\* case is closed exactly while it is in one of the two last ones.
TimelinesTell ==
    \A c \in Cases : case[c] # None =>
        LET t == case[c].timeline
            After(n) == IF t[n].to = None THEN t[n].from ELSE t[n].to
        IN /\ \A n \in 2..Len(t) : t[n].from = After(n - 1)
           /\ case[c].status = After(Len(t))
           /\ case[c].closed <=> case[c].status \in Ended

\* Every saved content keeps a number of its own, and the article shows the latest.
RevisionsCount ==
    \A x \in Articles : article[x] # None =>
        article[x].revisions = [n \in 1..article[x].revision |-> n]

\* However often a collector sends a delivery, and whatever answer is lost: what it was
\* told is accepted is stored, and nothing is stored twice.
AcceptedIsStored ==
    /\ \A d \in answered : recorded[d] = 1
    /\ \A d \in Deliveries : recorded[d] <= 1

\* What a person settled is not reviewed again, and a resolved alert is never open again.
SettledStays ==
    /\ \A f \in Judged : flag[f] \in Settled(f) => flag'[f] = flag[f]
    /\ \A r \in Rules : \A n \in DOMAIN alerts[r] \ Alerting(r) : alerts'[r][n] = "resolved"

RecordsHold == TimelinesTell' /\ RevisionsCount' /\ AcceptedIsStored' /\ SettledStays

=============================================================================
