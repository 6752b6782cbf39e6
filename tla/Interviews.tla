------------------------------- MODULE Interviews -------------------------------
(***************************************************************************)
(* Interviews and their panels (internal/recruiter interview_*.go and      *)
(* ScheduleInterviewEfficient).  A candidate may be interviewed by several *)
(* companies; a recruiter sits in panels of his own.  Every writer is a    *)
(* transaction: the advisory lock of its company and the row; if times are *)
(* compared, the advisory lock of the candidate and one statement that     *)
(* looks for conflicts; and the commit that makes its changes visible.     *)
(***************************************************************************)
EXTENDS Integers, FiniteSets

CONSTANTS
    Interviews,   \* bound: rows, numbered
    Applications, \* [company, candidate]
    CompanyOf,    \* [recruiters -> companies]
    Times,        \* [at, len]: when an interview may be
    Writers,      \* bound: transactions at a time
    Hours,        \* bound: the hours that are told apart
    None

Recruiters == DOMAIN CompanyOf

Rows ==
    [app : Applications, status : {"scheduled", "cancelled", "completed"}, time : Times,
     panel : [Recruiters -> {"sits", "declined", "absent"}]]

\* What a writer asks for; who answers is "by".
Requests ==
    [op : {"schedule", "accepted", "declined", "reschedule", "cancel", "complete"},
     by : Recruiters \cup {None}, i : Interviews, app : Applications, time : Times,
     panel : SUBSET Recruiters, step : {"compare", "write"}]

ASSUME InterviewAssumption ==
    /\ \A t \in Times : t.at \in Int /\ t.len \in Int
    /\ Interviews \subseteq Int /\ Hours \subseteq Int
    /\ None \notin Writers \cup Rows \cup Requests
    /\ \A a \in Applications : {"company", "candidate"} \subseteq DOMAIN a

VARIABLES
    interview, \* [Interviews -> the row, or None]
    hour,      \* now()
    feedback,  \* [Interviews -> somebody sent feedback]
    writer,    \* [Writers -> the request and how far it has come]
    companyLock, candidateLock \* [companies, candidates -> Writers or None]

rows == <<interview, feedback>>
locks == <<companyLock, candidateLock>>
interviewVars == <<interview, hour, feedback, writer, companyLock, candidateLock>>

Companies == {a.company : a \in Applications}
Candidates == {a.candidate : a \in Applications}
Idle == None

Init ==
    /\ interview = [i \in Interviews |-> None]
    /\ hour = 0
    /\ feedback = [i \in Interviews |-> FALSE]
    /\ writer = [w \in Writers |-> Idle]
    /\ companyLock = [c \in Companies |-> None]
    /\ candidateLock = [c \in Candidates |-> None]

Exists(i) == interview[i] # None
Scheduled(i) == Exists(i) /\ interview[i].status = "scheduled"

\* Pending and accepted are one: only who declined is not expected.
Sits(i, r) == interview[i].panel[r] = "sits"
Panel(i) == {r \in Recruiters : Sits(i, r)}
Overlap(s, t) == s.at < t.at + t.len /\ t.at < s.at + s.len

-----------------------------------------------------------------------------
(* What a writer asks for once it holds the lock of its company            *)

\* Mutant: only a new interview is compared with others.
ComparesNew(op) == op = "schedule"

\* Which requests look for conflicts.
Compares(op) == op \in {"schedule", "accepted", "reschedule"}

\* lockInterviewCompany and the row FOR UPDATE, as it is now.
Begin(w, op, r, i, app, time, panel) ==
    /\ writer[w] = Idle
    /\ CompanyOf[r] = app.company /\ companyLock[app.company] = None
    /\ companyLock' = [companyLock EXCEPT ![app.company] = w]
    /\ writer' = [writer EXCEPT ![w] = [op |-> op, by |-> IF op \in {"accepted", "declined"} THEN r ELSE None, i |-> i, app |-> app, time |-> time,
          panel |-> panel, step |-> IF Compares(op) THEN "compare" ELSE "write"]]
    /\ UNCHANGED <<rows, hour, candidateLock>>

Taken(i) == Exists(i) \/ \E w \in Writers : writer[w] # Idle /\ writer[w].i = i

\* A time to come; the panel is of the company.
ScheduleInterview(w, r, i, app, time, panel) ==
    /\ ~Taken(i) /\ \A k \in Interviews : k < i => Taken(k)
    /\ time.at > hour
    /\ panel # {} /\ \A p \in panel : CompanyOf[p] = app.company
    /\ Begin(w, "schedule", r, i, app, time, panel)

\* A recruiter answers for himself.
RespondInterview(w, r, i, response) ==
    /\ Scheduled(i) /\ interview[i].panel[r] # "absent"
    /\ Begin(w, response, r, i, interview[i].app, interview[i].time, {r})

\* Any recruiter of the company, whose screen shows the present time or no time.
ChangeInterview(w, r, i, op, time) ==
    /\ Scheduled(i)
    /\ op = "reschedule" => time.at > hour
    /\ op # "reschedule" => time = interview[i].time
    /\ Begin(w, op, r, i, interview[i].app, time, Panel(i))

-----------------------------------------------------------------------------
(* The rest of the transaction                                             *)

Release(w) ==
    /\ companyLock' = [c \in Companies |-> IF companyLock[c] = w THEN None ELSE companyLock[c]]
    /\ candidateLock' = [c \in Candidates |-> IF candidateLock[c] = w THEN None ELSE candidateLock[c]]
    /\ writer' = [writer EXCEPT ![w] = Idle]

\* The query of checkInterviewConflicts.
Conflict(q) ==
    \E i \in Interviews \ {q.i} :
        /\ Scheduled(i) /\ Overlap(interview[i].time, q.time)
        /\ interview[i].app.candidate = q.app.candidate \/ Panel(i) \cap q.panel # {}

\* Mutant: the candidate, who may be a candidate of another company, is not locked.
CompareUnlocked(w) ==
    /\ writer[w] # Idle /\ writer[w].step = "compare"
    /\ ~Conflict(writer[w])
    /\ writer' = [writer EXCEPT ![w].step = "write"]
    /\ UNCHANGED <<rows, hour, locks>>

\* checkInterviewConflicts: the candidate's lock, then the query.
CheckConflicts(w) ==
    /\ writer[w] # Idle /\ writer[w].step = "compare"
    /\ candidateLock[writer[w].app.candidate] = None
    /\ ~Conflict(writer[w])
    /\ candidateLock' = [candidateLock EXCEPT ![writer[w].app.candidate] = w]
    /\ writer' = [writer EXCEPT ![w].step = "write"]
    /\ UNCHANGED <<rows, hour, companyLock>>

\* An error or a conflict ends the transaction, whatever it had locked.
RollBack(w) ==
    /\ writer[w] # Idle
    /\ Release(w)
    /\ UNCHANGED <<rows, hour>>

Written(q) ==
    CASE q.op = "schedule" ->
            [app |-> q.app, status |-> "scheduled", time |-> q.time,
             panel |-> [r \in Recruiters |-> IF r \in q.panel THEN "sits" ELSE "absent"]]
      [] q.op = "accepted" -> [interview[q.i] EXCEPT !.panel[q.by] = "sits"]
      [] q.op = "declined" -> [interview[q.i] EXCEPT !.panel[q.by] = "declined"]
      [] q.op = "reschedule" -> [interview[q.i] EXCEPT !.time = q.time]
      [] q.op = "cancel" -> [interview[q.i] EXCEPT !.status = "cancelled"]
      [] q.op = "complete" -> [interview[q.i] EXCEPT !.status = "completed"]

Commit(w) ==
    /\ writer[w] # Idle /\ writer[w].step = "write"
    /\ interview' = [interview EXCEPT ![writer[w].i] = Written(writer[w])]
    /\ Release(w)
    /\ UNCHANGED <<hour, feedback>>

\* One statement decides and locks the row; no other writer's lock is awaited.
SaveInterviewFeedback(i, r) ==
    /\ Exists(i) /\ Sits(i, r)
    /\ \/ interview[i].status = "completed"
       \/ interview[i].status = "scheduled" /\ interview[i].time.at + interview[i].time.len <= hour
    /\ feedback' = [feedback EXCEPT ![i] = TRUE]
    /\ UNCHANGED <<interview, hour, writer, locks>>

HourPasses ==
    /\ hour' \in Hours /\ hour' > hour
    /\ UNCHANGED <<rows, writer, locks>>

-----------------------------------------------------------------------------
Request(w, r, i) ==
    \/ \E a \in Applications, time \in Times, panel \in SUBSET Recruiters :
          ScheduleInterview(w, r, i, a, time, panel)
    \/ \E response \in {"accepted", "declined"} : RespondInterview(w, r, i, response)
    \/ \E op \in {"reschedule", "cancel", "complete"}, time \in Times : ChangeInterview(w, r, i, op, time)

Transaction(w) ==
    CheckConflicts(w) \/ Commit(w) \/ RollBack(w)

Next ==
    \/ \E w \in Writers, r \in Recruiters, i \in Interviews : Request(w, r, i)
    \/ \E w \in Writers : Transaction(w)
    \/ \E i \in Interviews, r \in Recruiters : SaveInterviewFeedback(i, r)
    \/ HourPasses

Spec == Init /\ [][Next]_interviewVars

-----------------------------------------------------------------------------
(* Properties                                                              *)

\* Every variable keeps its shape.
TypeOK ==
    /\ interview \in [Interviews -> Rows \cup {None}]
    /\ writer \in [Writers -> Requests \cup {None}]
    /\ companyLock \in [Companies -> Writers \cup {None}]
    /\ candidateLock \in [Candidates -> Writers \cup {None}]

\* What the other writers and the candidates' other employers see of an interview.
Entry(i) ==
    IF Scheduled(i)
    THEN [candidate |-> interview[i].app.candidate, panel |-> Panel(i), time |-> interview[i].time]
    ELSE None

Diary == INSTANCE Calendar WITH
    Nothing <- None, diary <- [i \in Interviews |-> Entry(i)]

\* Compared under two locks and written later, interviews are written as if each were
\* compared with all others at once: a candidate of two companies, which do not see
\* each other's interviews, or a recruiter who declined one interview, was invited to
\* another and takes the first one back, is never expected in two.
WritesLikeADiary == Diary!Spec

=============================================================================
