---------------------------- MODULE InterviewsProofs ----------------------------
(***************************************************************************)
(* For any companies, candidates, recruiters, times and writers: interviews*)
(* compared under two locks and written later are written as in one diary, *)
(* in which every entry is compared with all others.                       *)
(*                                                                         *)
(* What a writer has compared must still be true when it commits.  Another *)
(* commit in between can only have written an entry that meets it in a     *)
(* recruiter, who then is of the same company, whose lock is taken; or in  *)
(* the candidate, whose lock every writer takes that gives an interview a  *)
(* new time.  Who locks no candidate only takes entries away.              *)
(*                                                                         *)
(* Then the rest of the run MCHiring, each component for any constants:    *)
(* vacancies and an application to one of them; documents that the model   *)
(* reads and their owner reviews.                                          *)
(***************************************************************************)
EXTENDS MCHiring, FiniteSetTheorems, TLAPS

Busy(w) == writer[w] # None

\* A panel is of one company.
PanelsAreLocal ==
    \A i \in Interviews : Exists(i) =>
        \A r \in Recruiters : interview[i].panel[r] # "absent" => CompanyOf[r] = interview[i].app.company

\* What holds of a request from the company's lock to the commit.
Standing(q) ==
    /\ q.op = "schedule" => ~Exists(q.i) /\ \A r \in q.panel : CompanyOf[r] = q.app.company
    /\ q.op # "schedule" => Scheduled(q.i) /\ q.app = interview[q.i].app
    /\ q.op \notin {"schedule", "reschedule"} => q.time = interview[q.i].time
    /\ q.op \in {"accepted", "declined"} =>
          q.by \in Recruiters /\ q.panel = {q.by} /\ interview[q.i].panel[q.by] # "absent"
    /\ q.op = "reschedule" => q.panel = Panel(q.i)

Compared(q) == Compares(q.op) /\ q.step = "write"

\* The locks a writer holds, and what it knows by them.
Holds(w) ==
    LET q == writer[w] IN
    /\ companyLock[q.app.company] = w
    /\ Standing(q)
    /\ Compared(q) => candidateLock[q.app.candidate] = w /\ ~Conflict(q)

Separate == \A w, v \in Writers : Busy(w) /\ Busy(v) /\ writer[w].i = writer[v].i => w = v

\* Two interviews expect somebody at the same time.
Clashes(i, k) ==
    /\ Scheduled(i) /\ Scheduled(k)
    /\ Overlap(interview[i].time, interview[k].time)
    /\ interview[i].app.candidate = interview[k].app.candidate \/ Panel(i) \cap Panel(k) # {}

Apart == \A i, k \in Interviews : i # k => ~Clashes(i, k)

DiaryInv ==
    /\ TypeOK
    /\ PanelsAreLocal
    /\ \A w \in Writers : Busy(w) => Holds(w)
    /\ Separate
    /\ Apart

-----------------------------------------------------------------------------
\* What a busy writer asks for.
LEMMA RequestTyped ==
    ASSUME DiaryInv, NEW w \in Writers, Busy(w)
    PROVE  /\ writer[w] \in Requests
           /\ writer[w].i \in Interviews /\ writer[w].app \in Applications
           /\ writer[w].app.company \in Companies /\ writer[w].app.candidate \in Candidates
           /\ writer[w].time \in Times /\ writer[w].panel \subseteq Recruiters
           /\ Holds(w)
<1>1. writer[w] \in Requests
  BY DEF DiaryInv, TypeOK, Busy
<1>2. /\ writer[w].i \in Interviews /\ writer[w].app \in Applications
      /\ writer[w].time \in Times /\ writer[w].panel \subseteq Recruiters
  BY <1>1 DEF Requests
<1>3. writer[w].app.company \in Companies /\ writer[w].app.candidate \in Candidates
  BY <1>2 DEF Companies, Candidates
<1> QED BY <1>1, <1>2, <1>3 DEF DiaryInv

\* A row that exists.
LEMMA RowTyped ==
    ASSUME DiaryInv, NEW i \in Interviews, Exists(i)
    PROVE  /\ interview[i] \in Rows
           /\ interview[i].app \in Applications /\ interview[i].time \in Times
           /\ interview[i].panel \in [Recruiters -> {"sits", "declined", "absent"}]
           /\ interview[i].app.company \in Companies /\ interview[i].app.candidate \in Candidates
<1>1. interview[i] \in Rows
  BY DEF DiaryInv, TypeOK, Exists
<1>2. /\ interview[i].app \in Applications /\ interview[i].time \in Times
      /\ interview[i].panel \in [Recruiters -> {"sits", "declined", "absent"}]
  BY <1>1 DEF Rows
<1>3. interview[i].app.company \in Companies /\ interview[i].app.candidate \in Candidates
  BY <1>2 DEF Companies, Candidates
<1> QED BY <1>1, <1>2, <1>3

\* The panel of a request is of the company whose lock its writer holds.
LEMMA PanelOfRequest ==
    ASSUME DiaryInv, NEW w \in Writers, Busy(w), NEW r \in writer[w].panel, Compares(writer[w].op)
    PROVE  r \in Recruiters /\ CompanyOf[r] = writer[w].app.company
<1> DEFINE q == writer[w]
<1>1. Standing(q) /\ q \in Requests /\ r \in Recruiters /\ q.i \in Interviews
  BY RequestTyped DEF Holds
<1>2. CASE q.op = "schedule"
  BY <1>1, <1>2 DEF Standing
<1>3. CASE q.op # "schedule"
  <2>1. Exists(q.i) /\ q.app = interview[q.i].app
    BY <1>1, <1>3 DEF Standing, Scheduled
  <2>2. interview[q.i].panel[r] # "absent"
    BY <1>1, <1>3 DEF Standing, Compares, Panel, Sits
  <2> QED BY <1>1, <2>1, <2>2 DEF DiaryInv, PanelsAreLocal
<1> QED BY <1>2, <1>3

-----------------------------------------------------------------------------
\* The diary is a matter of the rows alone.
LEMMA SameRowsSameDiary ==
    ASSUME interview' = interview
    PROVE  /\ [i \in Interviews |-> Entry(i)]' = [i \in Interviews |-> Entry(i)]
           /\ \A i : Entry(i)' = Entry(i) /\ Scheduled(i)' = Scheduled(i) /\ Exists(i)' = Exists(i)
                     /\ Panel(i)' = Panel(i)
           /\ \A q : Standing(q)' = Standing(q) /\ Conflict(q)' = Conflict(q)
<1>1. \A i : Scheduled(i)' = Scheduled(i) /\ Exists(i)' = Exists(i) /\ Panel(i)' = Panel(i)
  BY DEF Scheduled, Exists, Panel, Sits
<1>2. \A i : Entry(i)' = Entry(i)
  BY <1>1 DEF Entry
<1>3. \A q : Standing(q)' = Standing(q)
  BY <1>1 DEF Standing
<1>4. \A q : Conflict(q)' = Conflict(q)
  BY <1>1 DEF Conflict
<1> QED BY <1>1, <1>2, <1>3, <1>4

LEMMA SameRowsSameFacts ==
    ASSUME DiaryInv, interview' = interview
    PROVE  PanelsAreLocal' /\ Apart'
<1>1. PanelsAreLocal'
  BY DEF DiaryInv, PanelsAreLocal, Exists
<1>2. \A i, k : Clashes(i, k)' = Clashes(i, k)
  BY SameRowsSameDiary DEF Clashes
<1> QED BY <1>1, <1>2 DEF DiaryInv, Apart

\* A writer that waited for the company's lock begins with what it then finds.
LEMMA BeginKeeps ==
    ASSUME DiaryInv, NEW w \in Writers, NEW op, NEW r \in Recruiters, NEW i \in Interviews,
           NEW app \in Applications, NEW time \in Times, NEW panel \in SUBSET Recruiters,
           op \in {"schedule", "accepted", "declined", "reschedule", "cancel", "complete"},
           Begin(w, op, r, i, app, time, panel),
           \A v \in Writers : Busy(v) => writer[v].i # i,
           \A q \in Requests :
              /\ q.op = op /\ q.i = i /\ q.app = app /\ q.time = time /\ q.panel = panel
              /\ op \in {"accepted", "declined"} => q.by = r
              => Standing(q)
    PROVE  DiaryInv'
<1> DEFINE by == IF op \in {"accepted", "declined"} THEN r ELSE None
           q == [op |-> op, by |-> by, i |-> i, app |-> app, time |-> time, panel |-> panel,
                 step |-> IF Compares(op) THEN "compare" ELSE "write"]
<1>1. /\ writer' = [writer EXCEPT ![w] = q] /\ companyLock' = [companyLock EXCEPT ![app.company] = w]
      /\ interview' = interview /\ candidateLock' = candidateLock
      /\ ~Busy(w) /\ companyLock[app.company] = None
  BY DEF Begin, rows, Busy, Idle
<1>2. q \in Requests
  BY DEF Requests
<1>3. app.company \in Companies
  BY DEF Companies
<1>4. TypeOK'
  BY <1>1, <1>2, <1>3 DEF DiaryInv, TypeOK
<1>5. Standing(q) /\ ~Compared(q)
  BY <1>2 DEF Compared
<1>6. writer'[w] = q /\ \A v \in Writers \ {w} : writer'[v] = writer[v]
  BY <1>1 DEF DiaryInv, TypeOK
<1>7. ASSUME NEW v \in Writers, Busy(v)' PROVE Holds(v)'
  <2>1. CASE v = w
    <3>1. companyLock'[q.app.company] = w
      BY <1>1, <1>3 DEF DiaryInv, TypeOK
    <3>2. Standing(q)' /\ ~Compared(q)'
      BY <1>1, <1>5, SameRowsSameDiary DEF Compared
    <3> QED BY <2>1, <1>6, <3>1, <3>2 DEF Holds, Compared
  <2>2. CASE v # w
    <3>1. writer'[v] = writer[v] /\ Busy(v)
      BY <2>2, <1>6, <1>7 DEF Busy
    <3>2. Holds(v) /\ writer[v].app.company \in Companies
      BY <3>1, RequestTyped
    <3>3. companyLock'[writer[v].app.company] = v
      BY <1>1, <3>2, InterviewAssumption DEF Holds, DiaryInv, TypeOK
    <3> QED BY <3>1, <3>2, <3>3, <1>1, SameRowsSameDiary DEF Holds, Compared
  <2> QED BY <2>1, <2>2
<1>8. Separate'
  BY <1>6 DEF DiaryInv, Separate, Busy
<1> QED BY <1>1, <1>4, <1>7, <1>8, SameRowsSameFacts DEF DiaryInv

\* An interview that exists has one company, so whoever asks for it holds its lock.
LEMMA NobodyElseHasIt ==
    ASSUME DiaryInv, NEW i \in Interviews, Exists(i), companyLock[interview[i].app.company] = None
    PROVE  \A v \in Writers : Busy(v) => writer[v].i # i
<1> SUFFICES ASSUME NEW v \in Writers, Busy(v), writer[v].i = i PROVE FALSE
  OBVIOUS
<1>1. Holds(v)
  BY RequestTyped
<1>2. writer[v].op # "schedule"
  BY <1>1 DEF Holds, Standing
<1>3. writer[v].app = interview[i].app
  BY <1>1, <1>2 DEF Holds, Standing
<1>4. companyLock[interview[i].app.company] = v
  BY <1>1, <1>3 DEF Holds
<1> QED BY <1>4, InterviewAssumption

LEMMA RequestKeeps ==
    ASSUME DiaryInv, NEW w \in Writers, NEW r \in Recruiters, NEW i \in Interviews, Request(w, r, i)
    PROVE  DiaryInv' /\ interview' = interview
<1>1. ASSUME NEW app \in Applications, NEW time \in Times, NEW panel \in SUBSET Recruiters,
             ScheduleInterview(w, r, i, app, time, panel)
      PROVE  DiaryInv' /\ interview' = interview
  <2>1. /\ Begin(w, "schedule", r, i, app, time, panel) /\ ~Taken(i)
        /\ \A p \in panel : CompanyOf[p] = app.company
    BY <1>1 DEF ScheduleInterview
  <2>2. ~Exists(i) /\ \A v \in Writers : Busy(v) => writer[v].i # i
    BY <2>1 DEF Taken, Busy, Idle
  <2>3. \A q \in Requests : q.op = "schedule" /\ q.i = i /\ q.app = app /\ q.panel = panel => Standing(q)
    BY <2>1, <2>2 DEF Standing
  <2>4. DiaryInv'
    BY <2>1, <2>2, <2>3, BeginKeeps
  <2> QED BY <2>1, <2>4 DEF Begin, rows
<1>2. ASSUME NEW op \in {"accepted", "declined"}, RespondInterview(w, r, i, op)
      PROVE  DiaryInv' /\ interview' = interview
  <2>1. /\ Begin(w, op, r, i, interview[i].app, interview[i].time, {r})
        /\ Scheduled(i) /\ interview[i].panel[r] # "absent"
    BY <1>2 DEF RespondInterview
  <2>2. Exists(i) /\ interview[i].app \in Applications /\ interview[i].time \in Times
    BY <2>1, RowTyped DEF Scheduled
  <2>3. \A v \in Writers : Busy(v) => writer[v].i # i
    BY <2>1, <2>2, NobodyElseHasIt DEF Begin
  <2>4. \A q \in Requests :
           q.op = op /\ q.i = i /\ q.app = interview[i].app /\ q.time = interview[i].time
           /\ q.panel = {r} /\ q.by = r => Standing(q)
    BY <2>1 DEF Standing
  <2>5. DiaryInv'
    BY <2>1, <2>2, <2>3, <2>4, BeginKeeps
  <2> QED BY <2>1, <2>5 DEF Begin, rows
<1>3. ASSUME NEW op \in {"reschedule", "cancel", "complete"}, NEW time \in Times,
             ChangeInterview(w, r, i, op, time)
      PROVE  DiaryInv' /\ interview' = interview
  <2>1. /\ Begin(w, op, r, i, interview[i].app, time, Panel(i)) /\ Scheduled(i)
        /\ op # "reschedule" => time = interview[i].time
    BY <1>3 DEF ChangeInterview
  <2>2. Exists(i) /\ interview[i].app \in Applications /\ Panel(i) \in SUBSET Recruiters
    BY <2>1, RowTyped DEF Scheduled, Panel
  <2>3. \A v \in Writers : Busy(v) => writer[v].i # i
    BY <2>1, <2>2, NobodyElseHasIt DEF Begin
  <2>4. \A q \in Requests :
           q.op = op /\ q.i = i /\ q.app = interview[i].app /\ q.time = time /\ q.panel = Panel(i)
           => Standing(q)
    BY <2>1 DEF Standing
  <2>5. DiaryInv'
    BY <2>1, <2>2, <2>3, <2>4, BeginKeeps
  <2> QED BY <2>1, <2>5 DEF Begin, rows
<1> QED BY <1>1, <1>2, <1>3 DEF Request

-----------------------------------------------------------------------------
\* The candidate's lock and the comparison: what is compared is what is known.
LEMMA CheckConflictsKeeps ==
    ASSUME DiaryInv, NEW w \in Writers, CheckConflicts(w)
    PROVE  DiaryInv' /\ interview' = interview
<1> PICK q, p : q = writer[w] /\ p = [q EXCEPT !.step = "write"]
  OBVIOUS
<1>1. /\ writer' = [writer EXCEPT ![w].step = "write"] /\ companyLock' = companyLock
      /\ candidateLock' = [candidateLock EXCEPT ![q.app.candidate] = w]
      /\ interview' = interview /\ Busy(w) /\ ~Conflict(q)
      /\ candidateLock[q.app.candidate] = None
  BY DEF CheckConflicts, rows, Busy, Idle
<1>2. q \in Requests /\ q.app.candidate \in Candidates /\ Holds(w)
  BY <1>1, RequestTyped
<1>3. /\ p \in Requests /\ p.op = q.op /\ p.by = q.by /\ p.i = q.i /\ p.app = q.app
      /\ p.time = q.time /\ p.panel = q.panel
  BY <1>2 DEF Requests
<1>4. writer'[w] = p /\ \A v \in Writers \ {w} : writer'[v] = writer[v]
  BY <1>1 DEF DiaryInv, TypeOK
<1>5. Standing(p) /\ ~Conflict(p)
  <2>1. Standing(p)
    BY <1>2, <1>3 DEF Holds, Standing
  <2>2. ~Conflict(p)
    BY <1>1, <1>3 DEF Conflict
  <2> QED BY <2>1, <2>2
<1>6. TypeOK'
  BY <1>1, <1>2, <1>3, <1>4 DEF DiaryInv, TypeOK
<1>7. ASSUME NEW v \in Writers, Busy(v)' PROVE Holds(v)'
  <2>1. CASE v = w
    <3>1. companyLock'[p.app.company] = w /\ candidateLock'[p.app.candidate] = w
      BY <1>1, <1>2, <1>3 DEF Holds, DiaryInv, TypeOK
    <3>2. Standing(p)' /\ ~Conflict(p)'
      BY <1>1, <1>5, SameRowsSameDiary
    <3> QED BY <2>1, <1>4, <3>1, <3>2 DEF Holds
  <2>2. CASE v # w
    <3>1. writer'[v] = writer[v] /\ Busy(v)
      BY <2>2, <1>4, <1>7 DEF Busy
    <3>2. Holds(v) /\ writer[v].app.candidate \in Candidates
      BY <3>1, RequestTyped
    <3>3. candidateLock[writer[v].app.candidate] = v
             => candidateLock'[writer[v].app.candidate] = v
      BY <1>1, <3>2, InterviewAssumption DEF DiaryInv, TypeOK
    <3> QED BY <3>1, <3>2, <3>3, <1>1, SameRowsSameDiary DEF Holds, Compared
  <2> QED BY <2>1, <2>2
<1>8. Separate'
  <2>1. \A v \in Writers : Busy(v)' => Busy(v) /\ writer'[v].i = writer[v].i
    BY <1>1, <1>3, <1>4 DEF Busy
  <2> QED BY <2>1 DEF DiaryInv, Separate
<1> QED BY <1>1, <1>6, <1>7, <1>8, SameRowsSameFacts DEF DiaryInv

\* What a writer leaves when it ends.
LEMMA ReleaseKeeps ==
    ASSUME DiaryInv, NEW w \in Writers, Release(w)
    PROVE  /\ writer' \in [Writers -> Requests \cup {None}]
           /\ companyLock' \in [Companies -> Writers \cup {None}]
           /\ candidateLock' \in [Candidates -> Writers \cup {None}]
           /\ Separate'
           /\ \A v \in Writers : Busy(v)' =>
                 /\ v # w /\ Busy(v) /\ writer'[v] = writer[v]
                 /\ companyLock'[writer[v].app.company] = v
                 /\ Compared(writer[v]) => candidateLock'[writer[v].app.candidate] = v
<1>1. /\ companyLock' = [c \in Companies |-> IF companyLock[c] = w THEN None ELSE companyLock[c]]
      /\ candidateLock' = [c \in Candidates |-> IF candidateLock[c] = w THEN None ELSE candidateLock[c]]
      /\ writer' = [writer EXCEPT ![w] = None]
  BY DEF Release, Idle
<1>2. /\ writer' \in [Writers -> Requests \cup {None}]
      /\ companyLock' \in [Companies -> Writers \cup {None}]
      /\ candidateLock' \in [Candidates -> Writers \cup {None}]
  BY <1>1 DEF DiaryInv, TypeOK
<1>3. ASSUME NEW v \in Writers, Busy(v)'
      PROVE  /\ v # w /\ Busy(v) /\ writer'[v] = writer[v]
             /\ companyLock'[writer[v].app.company] = v
             /\ Compared(writer[v]) => candidateLock'[writer[v].app.candidate] = v
  <2>1. v # w /\ Busy(v) /\ writer'[v] = writer[v]
    BY <1>1, <1>3 DEF Busy, DiaryInv, TypeOK
  <2>2. /\ Holds(v) /\ writer[v].app.company \in Companies /\ writer[v].app.candidate \in Candidates
    BY <2>1, RequestTyped
  <2> QED BY <1>1, <2>1, <2>2 DEF Holds
<1>4. Separate'
  BY <1>3 DEF DiaryInv, Separate
<1> QED BY <1>2, <1>3, <1>4

LEMMA RollBackKeeps ==
    ASSUME DiaryInv, NEW w \in Writers, RollBack(w)
    PROVE  DiaryInv' /\ interview' = interview
<1>1. Release(w) /\ interview' = interview
  BY DEF RollBack, rows
<1>2. TypeOK'
  BY <1>1, ReleaseKeeps DEF DiaryInv, TypeOK
<1>3. ASSUME NEW v \in Writers, Busy(v)' PROVE Holds(v)'
  <2>1. /\ Busy(v) /\ writer'[v] = writer[v] /\ companyLock'[writer[v].app.company] = v
        /\ Compared(writer[v]) => candidateLock'[writer[v].app.candidate] = v
    BY <1>1, <1>3, ReleaseKeeps
  <2>2. Holds(v)
    BY <2>1, RequestTyped
  <2> QED BY <1>1, <2>1, <2>2, SameRowsSameDiary DEF Holds, Compared
<1> QED BY <1>1, <1>2, <1>3, ReleaseKeeps, SameRowsSameFacts DEF DiaryInv

\* Feedback, time and steps that change nothing.
LEMMA RestKeeps ==
    ASSUME DiaryInv, interview' = interview, writer' = writer, locks' = locks
    PROVE  DiaryInv'
<1>1. companyLock' = companyLock /\ candidateLock' = candidateLock
  BY DEF locks
<1>2. TypeOK' /\ Separate'
  BY <1>1 DEF DiaryInv, TypeOK, Separate, Busy
<1>3. ASSUME NEW v \in Writers, Busy(v)' PROVE Holds(v)'
  <2>1. Holds(v)
    BY <1>3 DEF DiaryInv, Busy
  <2> QED BY <1>1, <2>1, SameRowsSameDiary DEF Holds, Compared
<1> QED BY <1>2, <1>3, SameRowsSameFacts DEF DiaryInv

-----------------------------------------------------------------------------
\* The row that each request writes.
LEMMA WrittenRow ==
    ASSUME DiaryInv, NEW w \in Writers, Busy(w)
    PROVE  LET q == writer[w]
               entry == Written(q)
               sitting == {r \in Recruiters : entry.panel[r] = "sits"}
           IN  /\ entry \in Rows /\ entry.app = q.app
               /\ entry.status = "scheduled" =>
                     /\ q.op \in {"schedule", "accepted", "declined", "reschedule"}
                     /\ entry.time = q.time
               /\ q.op \in {"schedule", "reschedule"} => sitting = q.panel
               /\ q.op = "accepted" => sitting = Panel(q.i) \cup q.panel
               /\ q.op = "declined" => sitting \subseteq Panel(q.i)
               /\ \A r \in Recruiters : entry.panel[r] # "absent" => CompanyOf[r] = q.app.company
<1> DEFINE q == writer[w]
           entry == Written(q)
           sitting == {r \in Recruiters : entry.panel[r] = "sits"}
<1>1. q \in Requests /\ Standing(q) /\ q.i \in Interviews
  BY RequestTyped DEF Holds
<1>2. /\ q.op \in {"schedule", "accepted", "declined", "reschedule", "cancel", "complete"}
      /\ q.app \in Applications /\ q.time \in Times /\ q.panel \subseteq Recruiters
  BY <1>1 DEF Requests
<1>3. CASE q.op = "schedule"
  <2>1. entry = [app |-> q.app, status |-> "scheduled", time |-> q.time,
                 panel |-> [r \in Recruiters |-> IF r \in q.panel THEN "sits" ELSE "absent"]]
    BY <1>3 DEF Written
  <2>2. entry \in Rows /\ entry.app = q.app /\ entry.time = q.time
    BY <1>2, <2>1 DEF Rows
  <2>3. \A r \in Recruiters : entry.panel[r] = IF r \in q.panel THEN "sits" ELSE "absent"
    BY <2>1
  <2>4. sitting = q.panel
    BY <1>2, <2>3
  <2>5. \A r \in Recruiters : entry.panel[r] # "absent" => CompanyOf[r] = q.app.company
    BY <1>1, <1>3, <2>3 DEF Standing
  <2> QED BY <1>3, <2>2, <2>4, <2>5
<1>4. CASE q.op # "schedule"
  <2>1. /\ Scheduled(q.i) /\ Exists(q.i) /\ q.app = interview[q.i].app
    BY <1>1, <1>4 DEF Standing, Scheduled
  <2>2. interview[q.i] \in Rows /\ interview[q.i].panel \in [Recruiters -> {"sits", "declined", "absent"}]
    BY <1>1, <2>1, RowTyped
  <2>3. \A r \in Recruiters : interview[q.i].panel[r] # "absent" => CompanyOf[r] = q.app.company
    BY <1>1, <2>1 DEF DiaryInv, PanelsAreLocal
  <2>4. Panel(q.i) = {r \in Recruiters : interview[q.i].panel[r] = "sits"}
    BY DEF Panel, Sits
  <2>5. CASE q.op \in {"accepted", "declined"}
    <3> DEFINE answer == IF q.op = "accepted" THEN "sits" ELSE "declined"
    <3>1. entry = [interview[q.i] EXCEPT !.panel[q.by] = answer]
      BY <2>5 DEF Written
    <3>2. /\ q.by \in Recruiters /\ q.panel = {q.by} /\ interview[q.i].panel[q.by] # "absent"
          /\ q.time = interview[q.i].time
      BY <1>1, <2>5 DEF Standing
    <3>3. /\ entry \in Rows /\ entry.app = interview[q.i].app /\ entry.time = interview[q.i].time
          /\ entry.panel = [interview[q.i].panel EXCEPT ![q.by] = answer]
      BY <2>2, <3>1, <3>2 DEF Rows
    <3>4. \A r \in Recruiters :
             entry.panel[r] = IF r = q.by THEN answer ELSE interview[q.i].panel[r]
      BY <2>2, <3>2, <3>3
    <3>5. \A r \in Recruiters : entry.panel[r] # "absent" => CompanyOf[r] = q.app.company
      BY <2>3, <3>2, <3>4
    <3>6. q.op = "accepted" => sitting = Panel(q.i) \cup q.panel
      BY <2>4, <3>2, <3>4
    <3>7. q.op = "declined" => sitting \subseteq Panel(q.i)
      BY <2>4, <3>4
    <3> QED BY <2>1, <2>5, <3>2, <3>3, <3>5, <3>6, <3>7
  <2>6. CASE q.op = "reschedule"
    <3>1. entry = [interview[q.i] EXCEPT !.time = q.time]
      BY <2>6 DEF Written
    <3>2. /\ entry \in Rows /\ entry.app = interview[q.i].app /\ entry.time = q.time
          /\ entry.panel = interview[q.i].panel
      BY <1>2, <2>2, <3>1 DEF Rows
    <3>3. sitting = q.panel
      BY <1>1, <2>4, <2>6, <3>2 DEF Standing
    <3> QED BY <2>1, <2>3, <2>6, <3>2, <3>3
  <2>7. CASE q.op \in {"cancel", "complete"}
    <3>1. entry = [interview[q.i] EXCEPT !.status = IF q.op = "cancel" THEN "cancelled" ELSE "completed"]
      BY <2>7 DEF Written
    <3>2. /\ entry \in Rows /\ entry.app = interview[q.i].app /\ entry.status # "scheduled"
          /\ entry.panel = interview[q.i].panel
      BY <2>2, <3>1 DEF Rows
    <3> QED BY <2>1, <2>3, <2>7, <3>2
  <2> QED BY <1>2, <1>4, <2>5, <2>6, <2>7
<1> QED BY <1>3, <1>4

\* A commit changes one row and no other.
LEMMA CommitWrites ==
    ASSUME DiaryInv, NEW w \in Writers, Commit(w), NEW i, i = writer[w].i
    PROVE  /\ Busy(w) /\ i \in Interviews /\ Release(w)
           /\ Compares(writer[w].op) => Compared(writer[w])
           /\ interview' \in [Interviews -> Rows \cup {None}]
           /\ interview'[i] = Written(writer[w]) /\ Exists(i)'
           /\ \A k \in Interviews \ {i} :
                 /\ interview'[k] = interview[k]
                 /\ Exists(k)' = Exists(k) /\ Scheduled(k)' = Scheduled(k)
                 /\ Panel(k)' = Panel(k) /\ Entry(k)' = Entry(k)
<1> DEFINE q == writer[w]
<1>1. /\ Busy(w) /\ q.step = "write" /\ Release(w)
      /\ interview' = [interview EXCEPT ![i] = Written(q)]
  BY DEF Commit, Busy, Idle
<1>2. i \in Interviews /\ Written(q) \in Rows
  BY <1>1, RequestTyped, WrittenRow
<1>3. /\ interview' \in [Interviews -> Rows \cup {None}]
      /\ interview'[i] = Written(q)
      /\ \A k \in Interviews \ {i} : interview'[k] = interview[k]
  BY <1>1, <1>2 DEF DiaryInv, TypeOK
<1>4. Exists(i)'
  BY <1>2, <1>3, InterviewAssumption DEF Exists
<1>5. \A k \in Interviews \ {i} :
         Exists(k)' = Exists(k) /\ Scheduled(k)' = Scheduled(k) /\ Panel(k)' = Panel(k)
  BY <1>3 DEF Exists, Scheduled, Panel, Sits
<1>6. \A k \in Interviews \ {i} : Entry(k)' = Entry(k)
  BY <1>3, <1>5 DEF Entry
<1> QED BY <1>1, <1>2, <1>3, <1>4, <1>5, <1>6 DEF Compared

\* What was compared under the two locks still meets nobody when it is written.
LEMMA CommitMeetsNobody ==
    ASSUME DiaryInv, NEW w \in Writers, Commit(w), NEW i, i = writer[w].i,
           NEW k \in Interviews \ {i}
    PROVE  ~Clashes(i, k)'
<1> DEFINE q == writer[w]
<1>1. /\ Busy(w) /\ i \in Interviews /\ interview'[i] = Written(q) /\ interview'[k] = interview[k]
      /\ Scheduled(k)' = Scheduled(k) /\ Panel(k)' = Panel(k)
      /\ Compares(q.op) => Compared(q)
  BY CommitWrites
<1>2. Holds(w)
  BY <1>1, RequestTyped
<1> SUFFICES ASSUME Clashes(i, k)' PROVE FALSE
  OBVIOUS
<1>3. /\ Scheduled(i)' /\ Scheduled(k) /\ Overlap(interview'[i].time, interview[k].time)
      /\ interview'[i].app.candidate = interview[k].app.candidate \/ Panel(i)' \cap Panel(k) # {}
  BY <1>1 DEF Clashes
<1>4. /\ q.op \in {"schedule", "accepted", "declined", "reschedule"}
      /\ interview'[i].time = q.time /\ interview'[i].app = q.app
      /\ q.op \in {"schedule", "reschedule"} => Panel(i)' = q.panel
      /\ q.op = "accepted" => Panel(i)' = Panel(i) \cup q.panel
      /\ q.op = "declined" => Panel(i)' \subseteq Panel(i)
  BY <1>1, <1>3, WrittenRow DEF Scheduled, Panel, Sits
<1>5. Overlap(interview[k].time, q.time)
  BY <1>3, <1>4 DEF Overlap
<1>6. q.op # "schedule" =>
         Scheduled(i) /\ q.app = interview[i].app
  BY <1>2 DEF Holds, Standing
<1>7. q.op \in {"accepted", "declined"} => q.time = interview[i].time
  BY <1>2 DEF Holds, Standing
<1>8. Compares(q.op) => ~Conflict(q)
  BY <1>1, <1>2 DEF Holds
<1>9. CASE q.op \in {"schedule", "reschedule"}
  BY <1>3, <1>4, <1>5, <1>8, <1>9 DEF Conflict, Compares
<1>10. CASE q.op \in {"accepted", "declined"}
  <2>1. interview[i].app.candidate # interview[k].app.candidate /\ Panel(i) \cap Panel(k) = {}
    <3>1. ~Clashes(i, k)
      BY <1>1 DEF DiaryInv, Apart
    <3> QED BY <1>3, <1>4, <1>6, <1>7, <1>10, <3>1 DEF Clashes
  <2>2. CASE q.op = "declined"
    BY <1>3, <1>4, <1>6, <2>1, <2>2
  <2>3. CASE q.op = "accepted"
    <3>1. q.panel \cap Panel(k) = {}
      BY <1>3, <1>5, <1>8, <2>3 DEF Conflict, Compares
    <3> QED BY <1>3, <1>4, <1>6, <2>1, <2>3, <3>1
  <2> QED BY <1>10, <2>2, <2>3
<1> QED BY <1>4, <1>9, <1>10

\* And what the others have compared is still true.
LEMMA CommitKeepsOthers ==
    ASSUME DiaryInv, NEW w \in Writers, Commit(w), NEW v \in Writers, Busy(v)'
    PROVE  Holds(v)'
<1> PICK i, q, o : i = q.i /\ q = writer[w] /\ o = writer[v]
  OBVIOUS
<1>1. /\ Busy(w) /\ i \in Interviews /\ interview'[i] = Written(q) /\ Release(w)
      /\ Compares(q.op) => Compared(q)
      /\ \A k \in Interviews \ {i} :
            /\ interview'[k] = interview[k]
            /\ Exists(k)' = Exists(k) /\ Scheduled(k)' = Scheduled(k) /\ Panel(k)' = Panel(k)
  BY CommitWrites
<1>2. /\ v # w /\ Busy(v) /\ writer'[v] = o
      /\ companyLock'[o.app.company] = v
      /\ Compared(o) => candidateLock'[o.app.candidate] = v
  BY <1>1, ReleaseKeeps
<1>3. Holds(v) /\ Holds(w) /\ o.i \in Interviews
  BY <1>1, <1>2, RequestTyped
<1>4. o.i \in Interviews \ {i}
  BY <1>1, <1>2, <1>3 DEF DiaryInv, Separate
<1>5. Standing(o)'
  BY <1>1, <1>3, <1>4 DEF Holds, Standing
<1>6. ASSUME Compared(o) PROVE ~Conflict(o)'
  <2>1. ~Conflict(o) /\ candidateLock[o.app.candidate] = v /\ Compares(o.op)
    BY <1>3, <1>6 DEF Holds, Compared
  <2> SUFFICES ASSUME NEW k \in Interviews \ {o.i},
                      Scheduled(k)', Overlap(interview'[k].time, o.time),
                      interview'[k].app.candidate = o.app.candidate \/ Panel(k)' \cap o.panel # {}
               PROVE FALSE
    BY DEF Conflict
  <2>2. k = i
    BY <1>1, <2>1 DEF Conflict
  <2>3. /\ q.op \in {"schedule", "accepted", "declined", "reschedule"}
        /\ interview'[k].time = q.time /\ interview'[k].app = q.app
        /\ \A r \in Recruiters : interview'[k].panel[r] # "absent" => CompanyOf[r] = q.app.company
    BY <1>1, <2>2, WrittenRow DEF Scheduled
  <2>4. Panel(k)' \cap o.panel = {}
    <3> SUFFICES ASSUME NEW r \in Panel(k)' \cap o.panel PROVE FALSE
      OBVIOUS
    <3>1. r \in Recruiters /\ CompanyOf[r] = q.app.company
      BY <2>3 DEF Panel, Sits
    <3>2. CompanyOf[r] = o.app.company
      BY <1>2, <2>1, PanelOfRequest
    <3> QED BY <1>2, <1>3, <3>1, <3>2 DEF Holds
  <2>5. q.app.candidate = o.app.candidate
    BY <2>3, <2>4
  <2>6. CASE Compares(q.op)
    BY <1>1, <1>2, <1>3, <2>1, <2>5, <2>6 DEF Holds
  <2>7. CASE q.op = "declined"
    <3>1. Scheduled(k) /\ q.app = interview[k].app /\ q.time = interview[k].time
      BY <1>3, <2>2, <2>7 DEF Holds, Standing
    <3> QED BY <2>1, <2>3, <2>5, <3>1 DEF Conflict
  <2> QED BY <2>3, <2>6, <2>7 DEF Compares
<1> QED BY <1>2, <1>5, <1>6 DEF Holds, Compared

LEMMA CommitKeeps ==
    ASSUME DiaryInv, NEW w \in Writers, Commit(w)
    PROVE  DiaryInv'
<1> PICK j, q : j = q.i /\ q = writer[w]
  OBVIOUS
<1>1. /\ Busy(w) /\ j \in Interviews /\ Release(w)
      /\ interview' \in [Interviews -> Rows \cup {None}]
      /\ interview'[j] = Written(q)
      /\ \A k \in Interviews \ {j} :
            /\ interview'[k] = interview[k]
            /\ Exists(k)' = Exists(k) /\ Scheduled(k)' = Scheduled(k) /\ Panel(k)' = Panel(k)
  BY CommitWrites
<1>2. TypeOK'
  BY <1>1, ReleaseKeeps DEF TypeOK
<1>3. PanelsAreLocal'
  <2> SUFFICES ASSUME NEW i \in Interviews, Exists(i)', NEW r \in Recruiters,
                      interview'[i].panel[r] # "absent"
               PROVE  CompanyOf[r] = interview'[i].app.company
    BY DEF PanelsAreLocal
  <2>1. CASE i = j
    BY <1>1, <2>1, WrittenRow
  <2>2. CASE i # j
    BY <1>1, <2>2 DEF DiaryInv, PanelsAreLocal
  <2> QED BY <2>1, <2>2
<1>4. Apart'
  <2> SUFFICES ASSUME NEW i \in Interviews, NEW k \in Interviews, i # k, Clashes(i, k)' PROVE FALSE
    BY DEF Apart
  <2>1. Clashes(k, i)'
    BY DEF Clashes, Overlap
  <2>2. i # j /\ k # j
    BY <2>1, CommitMeetsNobody
  <2>3. Clashes(i, k)
    BY <1>1, <2>2 DEF Clashes
  <2> QED BY <2>3 DEF DiaryInv, Apart
<1> QED BY <1>1, <1>2, <1>3, <1>4, CommitKeepsOthers, ReleaseKeeps DEF DiaryInv

-----------------------------------------------------------------------------
LEMMA DiaryInvariant == Spec => []DiaryInv
<1>1. Init => DiaryInv
  BY DEF Init, DiaryInv, TypeOK, PanelsAreLocal, Exists, Busy, Idle, Separate, Apart, Clashes, Scheduled
<1>2. DiaryInv /\ [Next]_interviewVars => DiaryInv'
  <2> SUFFICES ASSUME DiaryInv, [Next]_interviewVars PROVE DiaryInv'
    OBVIOUS
  <2>1. CASE \E w \in Writers, r \in Recruiters, i \in Interviews : Request(w, r, i)
    BY <2>1, RequestKeeps
  <2>2. CASE \E w \in Writers : Transaction(w)
    BY <2>2, CheckConflictsKeeps, CommitKeeps, RollBackKeeps DEF Transaction
  <2>3. CASE \E i \in Interviews, r \in Recruiters : SaveInterviewFeedback(i, r)
    BY <2>3, RestKeeps DEF SaveInterviewFeedback
  <2>4. CASE HourPasses
    BY <2>4, RestKeeps DEF HourPasses, rows
  <2>5. CASE UNCHANGED interviewVars
    BY <2>5, RestKeeps DEF interviewVars, locks
  <2> QED BY <2>1, <2>2, <2>3, <2>4, <2>5 DEF Next
<1> QED BY <1>1, <1>2, PTL DEF Spec

\* Whoever is expected is expected in one place: no two interviews that are scheduled at
\* overlapping times share a candidate or a recruiter who has not declined.
THEOREM NobodyExpectedTwice == Spec => []Diary!NoDoubleBooking
<1>1. DiaryInv => Diary!NoDoubleBooking
  <2> SUFFICES ASSUME DiaryInv, NEW i \in Interviews, NEW k \in Interviews, i # k,
                      Diary!Clash(Entry(i), Entry(k))
               PROVE  FALSE
    BY DEF Diary!NoDoubleBooking
  <2>1. Entry(i) # None /\ Entry(k) # None
    BY DEF Diary!Clash
  <2>2. /\ Scheduled(i)
        /\ Entry(i) = [candidate |-> interview[i].app.candidate, panel |-> Panel(i),
                       time |-> interview[i].time]
    BY <2>1 DEF Entry
  <2>3. /\ Scheduled(k)
        /\ Entry(k) = [candidate |-> interview[k].app.candidate, panel |-> Panel(k),
                       time |-> interview[k].time]
    BY <2>1 DEF Entry
  <2>4. Clashes(i, k)
    BY <2>2, <2>3 DEF Diary!Clash, Diary!Overlap, Clashes, Overlap
  <2> QED BY <2>4 DEF DiaryInv, Apart
<1> QED BY <1>1, DiaryInvariant, PTL

\* Compared under two locks and written later, interviews are written as if each were
\* compared with all others at once (lockInterviewCompany, checkInterviewConflicts).
THEOREM InterviewsKeepADiary == Spec => WritesLikeADiary
<1> DEFINE d == [i \in Interviews |-> Entry(i)]
<1>1. Init => Diary!Init
  BY DEF Init, Diary!Init, Entry, Scheduled, Exists
<1>2. DiaryInv /\ DiaryInv' /\ [Next]_interviewVars => [Diary!Next]_d
  <2> SUFFICES ASSUME DiaryInv, DiaryInv', [Next]_interviewVars PROVE [Diary!Next]_d
    OBVIOUS
  <2>1. CASE interview' = interview
    BY <2>1, SameRowsSameDiary
  <2>2. ASSUME NEW w \in Writers, Commit(w) PROVE Diary!Next
    <3> PICK i : i = writer[w].i
      OBVIOUS
    <3>1. /\ i \in Interviews
          /\ \A k \in Interviews \ {i} : Entry(k)' = Entry(k) /\ Scheduled(k)' = Scheduled(k)
      BY <2>2, CommitWrites
    <3> PICK e : e = Entry(i)'
      OBVIOUS
    <3>2. e \in Diary!Entries \cup {None}
      <4>1. CASE Scheduled(i)'
        <5>1. interview'[i] \in Rows
          BY <3>1, <4>1 DEF DiaryInv, TypeOK, Scheduled, Exists
        <5>2. /\ interview'[i].app \in Applications /\ interview'[i].time \in Times
              /\ Panel(i)' \in SUBSET Recruiters
          BY <5>1 DEF Rows, Panel
        <5>3. interview'[i].app.candidate \in Candidates
          BY <5>2 DEF Candidates
        <5> QED BY <4>1, <5>2, <5>3 DEF Entry, Diary!Entries
      <4>2. CASE ~Scheduled(i)'
        BY <4>2 DEF Entry
      <4> QED BY <4>1, <4>2
    <3>3. d' = [d EXCEPT ![i] = e]
      BY <3>1
    <3>4. ASSUME NEW k \in Interviews \ {i} PROVE ~Diary!Clash(e, d[k])
      <4> SUFFICES ASSUME Diary!Clash(Entry(i)', Entry(k)') PROVE FALSE
        BY <3>1
      <4>1. (Entry(i) # None /\ Entry(k) # None)'
        BY DEF Diary!Clash
      <4>2. /\ Scheduled(i)'
            /\ Entry(i)' = [candidate |-> interview'[i].app.candidate, panel |-> Panel(i)',
                            time |-> interview'[i].time]
        BY <4>1 DEF Entry
      <4>3. /\ Scheduled(k)'
            /\ Entry(k)' = [candidate |-> interview'[k].app.candidate, panel |-> Panel(k)',
                            time |-> interview'[k].time]
        BY <4>1 DEF Entry
      <4>4. Clashes(i, k)'
        BY <4>2, <4>3 DEF Diary!Clash, Diary!Overlap, Clashes, Overlap
      <4> QED BY <2>2, <4>4, CommitMeetsNobody
    <3>5. Diary!Write(i, e)
      BY <3>3, <3>4 DEF Diary!Write
    <3> QED BY <3>1, <3>2, <3>5 DEF Diary!Next
  <2>3. ASSUME NEW w \in Writers, CheckConflicts(w) \/ RollBack(w) PROVE interview' = interview
    BY <2>3 DEF CheckConflicts, RollBack, rows
  <2>4. CASE \E w \in Writers, r \in Recruiters, i \in Interviews : Request(w, r, i)
    BY <2>1, <2>4, RequestKeeps
  <2>5. CASE \E w \in Writers : Transaction(w)
    BY <2>1, <2>2, <2>3, <2>5 DEF Transaction
  <2>6. CASE \E i \in Interviews, r \in Recruiters : SaveInterviewFeedback(i, r)
    BY <2>1, <2>6 DEF SaveInterviewFeedback
  <2>7. CASE HourPasses \/ UNCHANGED interviewVars
    BY <2>1, <2>7 DEF HourPasses, rows, interviewVars
  <2> QED BY <2>4, <2>5, <2>6, <2>7 DEF Next
<1> QED BY <1>1, <1>2, DiaryInvariant, PTL DEF Spec, WritesLikeADiary, Diary!Spec

-----------------------------------------------------------------------------
(* Vacancies and an application to one of them                             *)

Statuses == {"none", "draft", "active", "paused", "closed", "archived"}
Said == Texts \cup {"thin"}
Generation == [by : BOOLEAN, needs : BOOLEAN, hash : Said \cup {None}]
Job == [status : Statuses, text : Said, reach : Vacancies!Reaches, ai : Generation]
\* An answer is the window it was typed in and the text it was for.
Answers == SUBSET (Tabs \X Said)
Drafts == [rev : Nat, text : Said \cup {None}, has : Answers]
Shown == [rev : Nat, text : Said, has : Answers, seen : Answers]

VacancyTypes ==
    /\ job \in [Jobs -> Job]
    /\ limit \in PlanLimits
    /\ draft \in Drafts
    /\ form \in [Tabs -> Shown \cup {Vacancies!NoForm}]
    /\ tx \in [Tabs -> {"none", "draft", "submit"}]

\* Answers are kept for the questions they were given to. While nothing was submitted, no
\* window is ahead of the draft, and one that is not behind has shown all of it and, for the
\* same questions, has it.
FormsFollow ==
    /\ \A answer \in draft.has : answer[2] = draft.text
    /\ stage = "none" =>
        \A t \in Tabs : form[t] # Vacancies!NoForm =>
            /\ form[t].rev <= draft.rev
            /\ \A answer \in form[t].has : answer[2] = form[t].text
            /\ form[t].rev = draft.rev =>
                  /\ draft.has \subseteq form[t].seen
                  /\ form[t].text = draft.text => draft.has \subseteq form[t].has

\* An open transaction is the only one; what it has read is still so, since the draft is
\* the profile's, which it holds, and the vacancy's row is shared.
JourneyHolds ==
    \A t \in Tabs : tx[t] # "none" =>
        /\ \A u \in Tabs \ {t} : tx[u] = "none"
        /\ stage = "none"
        /\ form[t] # Vacancies!NoForm /\ form[t].rev = draft.rev
        /\ job[Posting].status = "active" /\ job[Posting].reach # "private"
        /\ form[t].text = job[Posting].text

VacancyInv == VacancyTypes /\ FormsFollow /\ JourneyHolds /\ Vacancies!PublishedWasReviewed

\* What every step of the vacancies and the application must do.
StepChecked ==
    Vacancies!ActiveJobsChecked /\ Vacancies!SubmittedToOpenPosting /\ Vacancies!NoAnswerLost

LEMMA VacanciesStart == Vacancies!Init => VacancyInv
<1> SUFFICES ASSUME Vacancies!Init PROVE VacancyInv
  OBVIOUS
<1>1. Vacancies!NoRow \in Job /\ Vacancies!NoRow.status = "none"
  BY DEF Vacancies!NoRow, Vacancies!Row, Vacancies!ByHand, Vacancies!Reaches, Job, Generation,
         Statuses, Said
<1>2. VacancyTypes
  BY <1>1 DEF Vacancies!Init, VacancyTypes, Drafts, Answers
<1>3. FormsFollow /\ JourneyHolds
  BY DEF Vacancies!Init, FormsFollow, JourneyHolds
<1>4. Vacancies!PublishedWasReviewed
  BY <1>1 DEF Vacancies!Init, Vacancies!PublishedWasReviewed
<1> QED BY <1>2, <1>3, <1>4 DEF VacancyInv

-----------------------------------------------------------------------------
\* The vacancies that are active.
Active(table) == {j \in Jobs : table[j].status = "active"}

LEMMA ActiveCount ==
    ASSUME NEW table
    PROVE  Vacancies!ActiveJobs(table) = Vacancies!Cardinality(Active(table))
BY DEF Vacancies!ActiveJobs, Active

LEMMA SameCardinality == \A S : Vacancies!Cardinality(S) = Cardinality(S)
BY Zenon DEF Vacancies!Cardinality, Cardinality

\* One more at most, where there is room for it.
LEMMA GrowthIsChecked ==
    ASSUME VacancyTypes, NEW j \in Jobs,
           Active(job') \subseteq Active(job)
              \/ (Active(job') \subseteq Active(job) \cup {j} /\ Vacancies!MayGrow)
    PROVE  Vacancies!ActiveJobsChecked
<1>1. /\ IsFiniteSet(Active(job)) /\ IsFiniteSet(Active(job'))
      /\ Cardinality(Active(job)) \in Nat /\ Cardinality(Active(job')) \in Nat
  BY VacanciesAssumption, FS_Subset, FS_CardinalityType DEF Active
<1>2. /\ Vacancies!ActiveJobs(job) = Cardinality(Active(job))
      /\ Vacancies!ActiveJobs(job') = Cardinality(Active(job'))
  BY ActiveCount, SameCardinality
<1>3. CASE Active(job') \subseteq Active(job)
  <2>1. Cardinality(Active(job')) <= Cardinality(Active(job))
    BY <1>1, <1>3, FS_Subset
  <2> QED BY <1>1, <1>2, <2>1 DEF Vacancies!ActiveJobsChecked
<1>4. CASE Active(job') \subseteq Active(job) \cup {j} /\ Vacancies!MayGrow
  <2>1. /\ IsFiniteSet(Active(job) \cup {j})
        /\ Cardinality(Active(job) \cup {j}) <= Cardinality(Active(job)) + 1
    <3>1. \A S : IsFiniteSet(S) =>
             /\ IsFiniteSet(S \cup {j}) /\ Cardinality(S) \in Nat
             /\ Cardinality(S \cup {j}) \in {Cardinality(S), Cardinality(S) + 1}
      BY FS_AddElement, FS_CardinalityType
    <3> QED BY <1>1, <3>1
  <2>2. Cardinality(Active(job')) <= Cardinality(Active(job) \cup {j})
    BY <1>4, <2>1, FS_Subset
  <2>3. Cardinality(Active(job) \cup {j}) \in Nat
    BY <2>1, FS_CardinalityType
  <2>4. Cardinality(Active(job)) + 1 <= limit
    BY <1>2, <1>4 DEF Vacancies!MayGrow
  <2>5. limit \in Nat
    BY VacanciesAssumption DEF VacancyTypes
  <2> QED BY <1>1, <1>2, <2>1, <2>2, <2>3, <2>4, <2>5 DEF Vacancies!ActiveJobsChecked
<1> QED BY <1>3, <1>4

LEMMA DraftRests ==
    ASSUME VacancyInv, UNCHANGED draft
    PROVE  Vacancies!NoAnswerLost
BY DEF VacancyInv, FormsFollow, Vacancies!NoAnswerLost

\* What stays so after a step that leaves the application alone.
LEMMA JobMoves ==
    ASSUME VacancyInv, NEW j \in Jobs, NEW r \in Job, job' = [job EXCEPT ![j] = r],
           r.status = "active" =>
              Vacancies!AllowsPublish(r.ai) /\ (job[j].status = "active" \/ Vacancies!MayGrow),
           j = Posting =>
              \/ \A t \in Tabs : tx[t] = "none"
              \/ job[j].status # "active"
              \/ r.status = job[j].status /\ r.text = job[j].text /\ r.reach # "private",
           UNCHANGED <<limit, draft, stage, form, tx>>
    PROVE  VacancyInv' /\ StepChecked
<1> USE DEF VacancyInv
<1>1. job'[j] = r /\ \A k \in Jobs \ {j} : job'[k] = job[k]
  BY DEF VacancyTypes
<1>2. VacancyTypes'
  BY DEF VacancyTypes
<1>3. FormsFollow'
  BY DEF FormsFollow
<1>4. JourneyHolds'
  <2> SUFFICES ASSUME NEW t \in Tabs, tx[t] # "none"
               PROVE  /\ job'[Posting].status = "active" /\ job'[Posting].reach # "private"
                      /\ form[t].text = job'[Posting].text
    BY DEF JourneyHolds
  <2>1. /\ job[Posting].status = "active" /\ job[Posting].reach # "private"
        /\ form[t].text = job[Posting].text
    BY DEF JourneyHolds
  <2> QED BY <1>1, <2>1, VacanciesAssumption
<1>5. Vacancies!PublishedWasReviewed'
  BY <1>1 DEF Vacancies!PublishedWasReviewed, Vacancies!AllowsPublish
<1>6. Vacancies!ActiveJobsChecked
  <2>1. CASE r.status = "active" /\ job[j].status # "active"
    <3>1. Active(job') \subseteq Active(job) \cup {j}
      BY <1>1 DEF Active
    <3> QED BY <2>1, <3>1, GrowthIsChecked
  <2>2. CASE ~(r.status = "active" /\ job[j].status # "active")
    <3>1. Active(job') \subseteq Active(job)
      BY <1>1, <2>2 DEF Active
    <3> QED BY <3>1, GrowthIsChecked
  <2> QED BY <2>1, <2>2
<1>7. Vacancies!SubmittedToOpenPosting /\ Vacancies!NoAnswerLost
  BY DraftRests DEF Vacancies!SubmittedToOpenPosting
<1> QED BY <1>2, <1>3, <1>4, <1>5, <1>6, <1>7 DEF StepChecked

\* Nothing of the vacancies changes.
LEMMA JobsRest ==
    ASSUME VacancyInv, UNCHANGED job, VacancyTypes', FormsFollow', JourneyHolds',
           Vacancies!SubmittedToOpenPosting, Vacancies!NoAnswerLost
    PROVE  VacancyInv' /\ StepChecked
<1>1. Vacancies!PublishedWasReviewed'
  BY DEF VacancyInv, Vacancies!PublishedWasReviewed
<1>2. Active(job') \subseteq Active(job)
  BY DEF Active
<1>3. Vacancies!ActiveJobsChecked
  BY <1>2, VacanciesAssumption, GrowthIsChecked DEF VacancyInv
<1> QED BY <1>1, <1>3 DEF VacancyInv, StepChecked

LEMMA JobOf ==
    ASSUME VacancyInv, NEW j \in Jobs
    PROVE  job[j] \in Job /\ (job[j].status = "active" => Vacancies!AllowsPublish(job[j].ai))
BY DEF VacancyInv, VacancyTypes, Vacancies!PublishedWasReviewed

LEMMA GenerationType ==
    ASSUME NEW in \in Vacancies!Input, NEW old \in Generation
    PROVE  Vacancies!GenerationForSave(in, old) \in Generation
<1>1. in.text \in Said
  BY DEF Vacancies!Input, Said
<1>2. Vacancies!Verified(in) \in Generation /\ Vacancies!Reviewed(in.text) \in Generation
  BY <1>1 DEF Vacancies!Verified, Vacancies!Reviewed, Vacancies!Unreviewed, Generation
<1>3. [old EXCEPT !.needs = TRUE] \in Generation
  BY DEF Generation
<1> QED BY <1>2, <1>3 DEF Vacancies!GenerationForSave

LEMMA RowType ==
    ASSUME NEW status \in Statuses, NEW text \in Said, NEW reach \in Vacancies!Reaches,
           NEW ai \in Generation
    PROVE  \E r \in Job : /\ r = Vacancies!Row(status, text, reach, ai)
                          /\ r.status = status /\ r.text = text /\ r.reach = reach /\ r.ai = ai
<1> DEFINE r == Vacancies!Row(status, text, reach, ai)
<1>1. r \in Job
  BY DEF Job, Vacancies!Row
<1>2. r.status = status /\ r.text = text /\ r.reach = reach /\ r.ai = ai
  BY DEF Vacancies!Row
<1> QED BY <1>1, <1>2

LEMMA NoRowHasNoStatus ==
    /\ Vacancies!NoRow.status = "none"
    /\ Vacancies!ByHand \in Generation /\ Vacancies!Unreviewed \in Generation
    /\ Vacancies!AllowsPublish(Vacancies!ByHand)
BY DEF Vacancies!NoRow, Vacancies!Row, Vacancies!ByHand, Vacancies!Unreviewed, Generation,
       Vacancies!AllowsPublish

LEMMA CreatePreserves ==
    ASSUME VacancyInv, NEW j \in Jobs, NEW in \in Vacancies!Input, Vacancies!CreateDetailedJob(j, in)
    PROVE  VacancyInv' /\ StepChecked
<1> USE DEF Vacancies!CreateDetailedJob, Vacancies!applying
<1>1. PICK ai \in Generation : ai = Vacancies!GenerationForSave(in, Vacancies!ByHand)
  BY GenerationType, NoRowHasNoStatus
<1>2. PICK status \in {"active", "draft"} :
         status = (IF in.publish THEN "active" ELSE "draft") /\ (status = "active" <=> in.publish)
  BY DEF Vacancies!Input
<1>3. in.text \in Said /\ in.reach \in Vacancies!Reaches
  BY DEF Vacancies!Input, Said
<1>4. PICK r \in Job : /\ r = Vacancies!Row(status, in.text, in.reach, ai)
                       /\ r.status = status /\ r.ai = ai
  BY <1>3, RowType DEF Statuses
<1>5. job' = [job EXCEPT ![j] = r]
  BY <1>1, <1>2, <1>4
<1>6. job[j].status = "none"
  BY NoRowHasNoStatus
<1>7. r.status = "active" => Vacancies!AllowsPublish(r.ai) /\ Vacancies!MayGrow
  BY <1>1, <1>2, <1>4
<1>8. UNCHANGED <<limit, draft, stage, form, tx>>
  OBVIOUS
<1> HIDE DEF Vacancies!CreateDetailedJob
<1> QED BY <1>5, <1>6, <1>7, <1>8, JobMoves

LEMMA CreateJobPreserves ==
    ASSUME VacancyInv, NEW j \in Jobs, NEW publish \in BOOLEAN, NEW reach \in {"open", "over"},
           Vacancies!CreateJob(j, publish, reach)
    PROVE  VacancyInv' /\ StepChecked
<1> USE DEF Vacancies!CreateJob, Vacancies!applying
<1>1. PICK status \in {"active", "draft"} :
         status = (IF publish THEN "active" ELSE "draft") /\ (status = "active" <=> publish)
  OBVIOUS
<1>2. PICK r \in Job : /\ r = Vacancies!Row(status, "thin", reach, Vacancies!ByHand)
                       /\ r.status = status /\ r.ai = Vacancies!ByHand
  BY RowType, NoRowHasNoStatus DEF Statuses, Said, Vacancies!Reaches
<1>3. job' = [job EXCEPT ![j] = r]
  BY <1>1, <1>2
<1>4. job[j].status = "none"
  BY NoRowHasNoStatus
<1>5. r.status = "active" => Vacancies!AllowsPublish(r.ai) /\ Vacancies!MayGrow
  BY <1>1, <1>2, NoRowHasNoStatus
<1>6. UNCHANGED <<limit, draft, stage, form, tx>>
  OBVIOUS
<1> HIDE DEF Vacancies!CreateJob
<1> QED BY <1>3, <1>4, <1>5, <1>6, JobMoves

LEMMA UpdatePreserves ==
    ASSUME VacancyInv, NEW j \in Jobs, NEW in \in Vacancies!Input, Vacancies!UpdateDetailedJob(j, in)
    PROVE  VacancyInv' /\ StepChecked
<1> USE DEF Vacancies!UpdateDetailedJob, Vacancies!applying
<1>1. PICK old \in Job : old = job[j]
  BY JobOf
<1>2. PICK ai \in Generation : ai = Vacancies!GenerationForSave(in, old.ai)
  BY GenerationType DEF Job
<1>3. PICK status \in Statuses :
         /\ status = IF in.publish THEN "active" ELSE old.status
         /\ status = "active" <=> in.publish \/ old.status = "active"
  BY DEF Statuses, Job
<1>4. in.text \in Said /\ in.reach \in Vacancies!Reaches
  BY DEF Vacancies!Input, Said
<1>5. PICK r \in Job : /\ r = Vacancies!Row(status, in.text, in.reach, ai)
                       /\ r.status = status /\ r.ai = ai
  BY <1>4, RowType
<1>6. job' = [job EXCEPT ![j] = r]
  BY <1>1, <1>2, <1>3, <1>5
<1>7. r.status = "active" =>
         Vacancies!AllowsPublish(r.ai) /\ (job[j].status = "active" \/ Vacancies!MayGrow)
  BY <1>1, <1>2, <1>3, <1>5
<1>8. j = Posting => \A t \in Tabs : tx[t] = "none"
  BY DEF Vacancies!Unlocked
<1>9. UNCHANGED <<limit, draft, stage, form, tx>>
  OBVIOUS
<1> HIDE DEF Vacancies!UpdateDetailedJob
<1> QED BY <1>6, <1>7, <1>8, <1>9, JobMoves

LEMMA TransitionPreserves ==
    ASSUME VacancyInv, NEW j \in Jobs, NEW next \in {"active", "paused", "closed", "archived"},
           Vacancies!Transition(j, next)
    PROVE  VacancyInv' /\ StepChecked
<1> USE DEF Vacancies!Transition, Vacancies!applying
<1>1. PICK old \in Job : old = job[j]
  BY JobOf
<1>2. PICK r \in Job : r = [old EXCEPT !.status = next]
  BY DEF Job, Statuses
<1>3. r.status = next /\ r.ai = old.ai
  BY <1>2 DEF Job
<1>4. job' = [job EXCEPT ![j] = r]
  BY <1>1, <1>2 DEF VacancyInv, VacancyTypes
<1>5. r.status = "active" => Vacancies!AllowsPublish(r.ai) /\ Vacancies!MayGrow
  BY <1>1, <1>3 DEF Vacancies!Reactivated
<1>6. j = Posting => \A t \in Tabs : tx[t] = "none"
  BY DEF Vacancies!Unlocked
<1>7. UNCHANGED <<limit, draft, stage, form, tx>>
  OBVIOUS
<1> HIDE DEF Vacancies!Transition
<1> QED BY <1>4, <1>5, <1>6, <1>7, JobMoves

LEMMA DuplicatePreserves ==
    ASSUME VacancyInv, NEW j \in Jobs, NEW k \in Jobs, Vacancies!DuplicateJob(j, k)
    PROVE  VacancyInv' /\ StepChecked
<1> USE DEF Vacancies!DuplicateJob, Vacancies!applying
<1>1. PICK old \in Job : old = job[j]
  BY JobOf
<1>2. PICK reach \in Vacancies!Reaches :
         reach = IF old.reach = "private" THEN "private" ELSE "open"
  BY DEF Vacancies!Reaches
<1>3. PICK ai \in Generation : ai = IF old.ai.by THEN Vacancies!Unreviewed ELSE Vacancies!ByHand
  BY NoRowHasNoStatus
<1>4. PICK r \in Job : r = Vacancies!Row("draft", old.text, reach, ai) /\ r.status = "draft"
  BY RowType DEF Job, Statuses
<1>5. job' = [job EXCEPT ![k] = r]
  BY <1>1, <1>2, <1>3, <1>4
<1>6. job[k].status = "none"
  BY NoRowHasNoStatus
<1>7. UNCHANGED <<limit, draft, stage, form, tx>>
  OBVIOUS
<1> HIDE DEF Vacancies!DuplicateJob
<1> QED BY <1>4, <1>5, <1>6, <1>7, JobMoves

LEMMA FieldsPreserve ==
    ASSUME VacancyInv, NEW j \in Jobs,
           \/ \E text \in Texts : Vacancies!SetMatchingFields(j, text)
           \/ Vacancies!MakeJobPublic(j) \/ Vacancies!TakedownJob(j) \/ Vacancies!DeadlinePasses(j)
    PROVE  VacancyInv' /\ StepChecked
<1> USE DEF Vacancies!applying
<1>1. PICK old \in Job : /\ old = job[j]
                         /\ old.status = "active" => Vacancies!AllowsPublish(old.ai)
  BY JobOf
<1>2. ASSUME NEW text \in Texts, Vacancies!SetMatchingFields(j, text)
      PROVE  VacancyInv' /\ StepChecked
  <2> USE DEF Vacancies!SetMatchingFields
  <2>1. PICK r \in Job : r = [old EXCEPT !.text = text]
    BY DEF Job, Said
  <2>2. r.status = old.status /\ r.ai = old.ai
    BY <2>1 DEF Job
  <2>3. job' = [job EXCEPT ![j] = r]
    BY <1>1, <1>2, <2>1 DEF VacancyInv, VacancyTypes
  <2>4. j = Posting => \A t \in Tabs : tx[t] = "none"
    BY <1>2 DEF Vacancies!Unlocked
  <2>5. UNCHANGED <<limit, draft, stage, form, tx>>
    BY <1>2
  <2> HIDE DEF Vacancies!SetMatchingFields
  <2> QED BY <1>1, <2>2, <2>3, <2>4, <2>5, JobMoves
<1>3. ASSUME Vacancies!MakeJobPublic(j) PROVE VacancyInv' /\ StepChecked
  <2> USE DEF Vacancies!MakeJobPublic
  <2>1. PICK r \in Job : r = [old EXCEPT !.reach = "open"]
    BY DEF Job, Vacancies!Reaches
  <2>2. r.status = old.status /\ r.ai = old.ai
    BY <2>1 DEF Job
  <2>3. job' = [job EXCEPT ![j] = r]
    BY <1>1, <1>3, <2>1 DEF VacancyInv, VacancyTypes
  <2>4. j = Posting => \A t \in Tabs : tx[t] = "none"
    BY <1>3 DEF Vacancies!Unlocked
  <2>5. UNCHANGED <<limit, draft, stage, form, tx>>
    BY <1>3
  <2> HIDE DEF Vacancies!MakeJobPublic
  <2> QED BY <1>1, <2>2, <2>3, <2>4, <2>5, JobMoves
<1>4. ASSUME Vacancies!TakedownJob(j) PROVE VacancyInv' /\ StepChecked
  <2> USE DEF Vacancies!TakedownJob
  <2>1. PICK r \in Job : r = [old EXCEPT !.status = "closed"]
    BY DEF Job, Statuses
  <2>2. r.status = "closed"
    BY <2>1 DEF Job
  <2>3. job' = [job EXCEPT ![j] = r]
    BY <1>1, <1>4, <2>1 DEF VacancyInv, VacancyTypes
  <2>4. j = Posting => \A t \in Tabs : tx[t] = "none"
    BY <1>4 DEF Vacancies!Unlocked
  <2>5. UNCHANGED <<limit, draft, stage, form, tx>>
    BY <1>4
  <2> HIDE DEF Vacancies!TakedownJob
  <2> QED BY <2>2, <2>3, <2>4, <2>5, JobMoves
<1>5. ASSUME Vacancies!DeadlinePasses(j) PROVE VacancyInv' /\ StepChecked
  <2> USE DEF Vacancies!DeadlinePasses
  <2>1. PICK r \in Job : r = [old EXCEPT !.reach = "over"]
    BY DEF Job, Vacancies!Reaches
  <2>2. /\ r.status = old.status /\ r.ai = old.ai /\ r.text = old.text
        /\ r.reach # "private"
    BY <2>1 DEF Job
  <2>3. job' = [job EXCEPT ![j] = r]
    BY <1>1, <1>5, <2>1 DEF VacancyInv, VacancyTypes
  <2>4. UNCHANGED <<limit, draft, stage, form, tx>>
    BY <1>5
  <2> HIDE DEF Vacancies!DeadlinePasses
  <2> QED BY <1>1, <2>2, <2>3, <2>4, JobMoves
<1> QED BY <1>2, <1>3, <1>4, <1>5

-----------------------------------------------------------------------------
\* What a window fills in answers the questions it shows.
LEMMA FilledInFits ==
    ASSUME VacancyInv, NEW t \in Tabs, NEW text \in Said, text = job[Posting].text,
           NEW has, has = Vacancies!FilledIn \cup {<<t, text>>}
    PROVE  /\ has \in Answers /\ \A answer \in has : answer[2] = text
           /\ text = draft.text => draft.has \subseteq has
BY DEF VacancyInv, VacancyTypes, FormsFollow, Drafts, Answers, Vacancies!FilledIn

LEMMA OpenFormPreserves ==
    ASSUME VacancyInv, NEW t \in Tabs, Vacancies!OpenForm(t)
    PROVE  VacancyInv' /\ StepChecked
<1> USE DEF VacancyInv, Vacancies!OpenForm, Vacancies!recruiting
<1>1. PICK r \in Nat, old \in Answers : r = draft.rev /\ old = draft.has
  BY DEF VacancyTypes, Drafts
<1>2. PICK text \in Said : text = job[Posting].text
  BY JobOf, VacanciesAssumption DEF Job
<1>3. PICK has : has = Vacancies!FilledIn \cup {<<t, text>>}
  OBVIOUS
<1>4. /\ has \in Answers /\ \A answer \in has : answer[2] = text
      /\ text = draft.text => draft.has \subseteq has
  BY <1>2, <1>3, FilledInFits
<1>5. PICK f \in Shown : /\ f = [rev |-> r, text |-> text, has |-> has, seen |-> old]
                         /\ f.rev = r /\ f.text = text /\ f.has = has /\ f.seen = old
  <2>1. [rev |-> r, text |-> text, has |-> has, seen |-> old] \in Shown
    BY <1>4 DEF Shown
  <2> QED BY <2>1
<1>6. form' = [form EXCEPT ![t] = f]
  BY <1>1, <1>2, <1>3, <1>5
<1>7. form'[t] = f /\ \A u \in Tabs \ {t} : form'[u] = form[u]
  BY <1>6 DEF VacancyTypes
<1>8. VacancyTypes'
  BY <1>6 DEF VacancyTypes
<1>9. FormsFollow'
  <2> SUFFICES ASSUME stage = "none", NEW u \in Tabs, form'[u] # Vacancies!NoForm
               PROVE  /\ form'[u].rev <= draft.rev
                      /\ \A answer \in form'[u].has : answer[2] = form'[u].text
                      /\ form'[u].rev = draft.rev =>
                            /\ draft.has \subseteq form'[u].seen
                            /\ form'[u].text = draft.text => draft.has \subseteq form'[u].has
    BY DEF FormsFollow
  <2>1. CASE u = t
    BY <1>1, <1>4, <1>5, <1>7, <2>1
  <2>2. CASE u # t
    BY <1>7, <2>2 DEF FormsFollow
  <2> QED BY <2>1, <2>2
<1>10. JourneyHolds'
  BY <1>7 DEF JourneyHolds
<1>11. Vacancies!SubmittedToOpenPosting /\ Vacancies!NoAnswerLost
  BY DraftRests DEF Vacancies!SubmittedToOpenPosting
<1> QED BY <1>8, <1>9, <1>10, <1>11, JobsRest

LEMMA BeginJourneyPreserves ==
    ASSUME VacancyInv, NEW t \in Tabs, NEW kind \in {"draft", "submit"},
           Vacancies!BeginJourney(t, kind)
    PROVE  VacancyInv' /\ StepChecked
<1> USE DEF VacancyInv, Vacancies!BeginJourney, Vacancies!recruiting
<1>1. tx'[t] = kind /\ \A u \in Tabs \ {t} : tx'[u] = "none"
  BY DEF VacancyTypes
<1>2. VacancyTypes'
  BY DEF VacancyTypes
<1>3. FormsFollow'
  BY DEF FormsFollow
<1>4. JourneyHolds'
  BY <1>1 DEF JourneyHolds, Vacancies!OpenForApplications, Vacancies!Latest
<1>5. Vacancies!SubmittedToOpenPosting /\ Vacancies!NoAnswerLost
  BY DraftRests DEF Vacancies!SubmittedToOpenPosting
<1> QED BY <1>2, <1>3, <1>4, <1>5, JobsRest

\* A transaction ends, and with it there is none.
LEMMA JourneyEnds ==
    ASSUME VacancyInv, NEW t \in Tabs, tx[t] # "none", tx' = [tx EXCEPT ![t] = "none"]
    PROVE  JourneyHolds' /\ tx' \in [Tabs -> {"none", "draft", "submit"}]
<1>1. \A u \in Tabs : tx'[u] = "none"
  BY DEF VacancyInv, VacancyTypes, JourneyHolds
<1> QED BY <1>1 DEF VacancyInv, VacancyTypes, JourneyHolds

\* What a transaction has read of draft and form.
LEMMA JourneyOf ==
    ASSUME VacancyInv, NEW t \in Tabs, tx[t] # "none"
    PROVE  /\ stage = "none" /\ form[t] \in Shown
           /\ \A answer \in form[t].has : answer[2] = form[t].text
           /\ draft.has \subseteq form[t].seen
           /\ form[t].text = draft.text => draft.has \subseteq form[t].has
           /\ job[Posting].status = "active" /\ job[Posting].reach # "private"
           /\ form[t].text = job[Posting].text
BY DEF VacancyInv, VacancyTypes, JourneyHolds, FormsFollow

\* A transaction that writes what its window has loses nothing.
LEMMA AnswersKept ==
    ASSUME VacancyInv, NEW t \in Tabs, tx[t] # "none", NEW f \in Shown, f = form[t], NEW r \in Nat,
           draft' = [rev |-> r, text |-> f.text, has |-> f.has]
    PROVE  /\ draft' \in Drafts /\ draft'.rev = r /\ draft'.text = f.text /\ draft'.has = f.has
           /\ \A answer \in f.has : answer[2] = f.text
           /\ Vacancies!NoAnswerLost
<1>1. f.text \in Said /\ f.has \in Answers
  BY DEF Shown
<1>2. draft' \in Drafts /\ draft'.rev = r /\ draft'.text = f.text /\ draft'.has = f.has
  BY <1>1 DEF Drafts
<1>3. /\ \A answer \in f.has : answer[2] = f.text
      /\ draft.has \subseteq f.seen
      /\ f.text = draft.text => draft.has \subseteq f.has
  BY JourneyOf
<1>4. \A u \in Tabs : tx[u] # "none" => u = t
  BY DEF VacancyInv, JourneyHolds
<1>5. Vacancies!NoAnswerLost
  BY <1>2, <1>3, <1>4 DEF Vacancies!NoAnswerLost
<1> QED BY <1>2, <1>3, <1>5

LEMMA SaveDraftPreserves ==
    ASSUME VacancyInv, NEW t \in Tabs, Vacancies!SaveApplicationDraft(t)
    PROVE  VacancyInv' /\ StepChecked
<1>1. /\ tx[t] = "draft" /\ tx' = [tx EXCEPT ![t] = "none"]
      /\ UNCHANGED <<job, limit, stage>>
  BY DEF Vacancies!SaveApplicationDraft, Vacancies!recruiting
<1>2. PICK f \in Shown : f = form[t]
  BY <1>1, JourneyOf
<1>3. PICK r \in Nat : r = draft.rev + 1 /\ draft.rev \in Nat
  BY DEF VacancyInv, VacancyTypes, Drafts
<1>4. PICK g \in Shown : g = [[f EXCEPT !.rev = r] EXCEPT !.seen = f.has]
  BY DEF Shown
<1>5. g.rev = r /\ g.text = f.text /\ g.has = f.has /\ g.seen = f.has
  BY <1>4 DEF Shown
<1>6. form' = [form EXCEPT ![t] = g]
  BY <1>2, <1>3, <1>4 DEF VacancyInv, VacancyTypes, Vacancies!SaveApplicationDraft
<1>7. form'[t] = g /\ \A u \in Tabs \ {t} : form'[u] = form[u]
  BY <1>6 DEF VacancyInv, VacancyTypes
<1>8. /\ draft' \in Drafts /\ draft'.rev = r /\ draft'.text = f.text /\ draft'.has = f.has
      /\ \A answer \in f.has : answer[2] = f.text
      /\ Vacancies!NoAnswerLost
  <2>1. draft' = [rev |-> r, text |-> f.text, has |-> f.has]
    BY <1>2, <1>3 DEF Vacancies!SaveApplicationDraft
  <2> QED BY <1>1, <1>2, <2>1, AnswersKept
<1>9. JourneyHolds' /\ tx' \in [Tabs -> {"none", "draft", "submit"}]
  BY <1>1, JourneyEnds
<1>10. VacancyTypes'
  BY <1>1, <1>6, <1>8, <1>9 DEF VacancyInv, VacancyTypes
<1>11. FormsFollow'
  <2> SUFFICES ASSUME stage = "none", NEW u \in Tabs, form'[u] # Vacancies!NoForm
               PROVE  /\ form'[u].rev <= r
                      /\ \A answer \in form'[u].has : answer[2] = form'[u].text
                      /\ form'[u].rev = r =>
                            f.has \subseteq form'[u].seen /\ f.has \subseteq form'[u].has
    BY <1>1, <1>8 DEF FormsFollow, Vacancies!NoForm
  <2>1. CASE u = t
    BY <1>3, <1>5, <1>7, <1>8, <2>1
  <2>2. CASE u # t
    <3>1. /\ form[u] \in Shown /\ form[u].rev <= draft.rev
          /\ \A answer \in form[u].has : answer[2] = form[u].text
      BY <1>1, <1>7, <2>2 DEF VacancyInv, VacancyTypes, FormsFollow, Vacancies!NoForm
    <3>2. form[u].rev \in Nat
      BY <3>1 DEF Shown
    <3> QED BY <1>3, <1>7, <2>2, <3>1, <3>2
  <2> QED BY <2>1, <2>2
<1>12. Vacancies!SubmittedToOpenPosting
  BY <1>1 DEF Vacancies!SubmittedToOpenPosting
<1> QED BY <1>1, <1>8, <1>9, <1>10, <1>11, <1>12, JobsRest

LEMMA SubmitPreserves ==
    ASSUME VacancyInv, NEW t \in Tabs, Vacancies!SubmitApplication(t)
    PROVE  VacancyInv' /\ StepChecked
<1> USE DEF Vacancies!SubmitApplication, Vacancies!recruiting
<1>1. PICK f \in Shown : f = form[t]
  BY JourneyOf
<1>2. /\ draft' \in Drafts /\ draft'.text = f.text /\ draft'.has = f.has
      /\ \A answer \in f.has : answer[2] = f.text
      /\ Vacancies!NoAnswerLost
  BY <1>1, AnswersKept
<1>3. JourneyHolds' /\ tx' \in [Tabs -> {"none", "draft", "submit"}]
  BY JourneyEnds
<1>4. VacancyTypes'
  BY <1>2, <1>3 DEF VacancyInv, VacancyTypes
<1>5. FormsFollow'
  BY <1>2 DEF FormsFollow
<1>6. Vacancies!SubmittedToOpenPosting
  BY JourneyOf DEF Vacancies!SubmittedToOpenPosting
<1> QED BY <1>2, <1>3, <1>4, <1>5, <1>6, JobsRest

LEMMA RollBackPreserves ==
    ASSUME VacancyInv, NEW t \in Tabs, Vacancies!RollBack(t)
    PROVE  VacancyInv' /\ StepChecked
<1> USE DEF Vacancies!RollBack, Vacancies!recruiting
<1>1. JourneyHolds' /\ tx' \in [Tabs -> {"none", "draft", "submit"}]
  BY JourneyEnds
<1>2. VacancyTypes' /\ FormsFollow'
  BY <1>1 DEF VacancyInv, VacancyTypes, FormsFollow
<1>3. Vacancies!SubmittedToOpenPosting /\ Vacancies!NoAnswerLost
  BY DraftRests DEF Vacancies!SubmittedToOpenPosting
<1> QED BY <1>1, <1>2, <1>3, JobsRest

LEMMA StagePreserves ==
    ASSUME VacancyInv,
           Vacancies!WithdrawApplication \/ \E next \in Vacancies!Stages : Vacancies!UpdateStage(next)
    PROVE  VacancyInv' /\ StepChecked
<1>1. /\ stage # "none" /\ stage' # "none"
      /\ UNCHANGED <<job, limit, draft, form, tx>>
  BY DEF Vacancies!WithdrawApplication, Vacancies!UpdateStage, Vacancies!Stages, Vacancies!recruiting
<1>2. VacancyTypes' /\ FormsFollow' /\ JourneyHolds'
  BY <1>1 DEF VacancyInv, VacancyTypes, FormsFollow, JourneyHolds
<1>3. Vacancies!SubmittedToOpenPosting /\ Vacancies!NoAnswerLost
  BY <1>1, DraftRests DEF Vacancies!SubmittedToOpenPosting
<1> QED BY <1>1, <1>2, <1>3, JobsRest

LEMMA PlanPreserves ==
    ASSUME VacancyInv, Vacancies!SetSubscription \/ UNCHANGED Vacancies!vacancyVars
    PROVE  VacancyInv' /\ StepChecked
<1>1. UNCHANGED <<job, draft, stage, form, tx>> /\ limit' \in PlanLimits
  BY DEF Vacancies!SetSubscription, Vacancies!applying, Vacancies!recruiting, Vacancies!vacancyVars,
         VacancyInv, VacancyTypes
<1>2. VacancyTypes' /\ FormsFollow' /\ JourneyHolds'
  BY <1>1 DEF VacancyInv, VacancyTypes, FormsFollow, JourneyHolds
<1>3. Vacancies!SubmittedToOpenPosting /\ Vacancies!NoAnswerLost
  BY <1>1, DraftRests DEF Vacancies!SubmittedToOpenPosting
<1> QED BY <1>1, <1>2, <1>3, JobsRest

LEMMA VacanciesProceed ==
    VacancyInv /\ [Vacancies!Next]_Vacancies!vacancyVars => VacancyInv' /\ StepChecked
<1> SUFFICES ASSUME VacancyInv, [Vacancies!Next]_Vacancies!vacancyVars
             PROVE  VacancyInv' /\ StepChecked
  OBVIOUS
<1>1. ASSUME NEW j \in Jobs, Vacancies!JobCommand(j) PROVE VacancyInv' /\ StepChecked
  <2>1. CASE \E in \in Vacancies!Input :
                Vacancies!CreateDetailedJob(j, in) \/ Vacancies!UpdateDetailedJob(j, in)
    BY <2>1, CreatePreserves, UpdatePreserves
  <2>2. CASE \E publish \in BOOLEAN, reach \in {"open", "over"} : Vacancies!CreateJob(j, publish, reach)
    BY <2>2, CreateJobPreserves
  <2>3. CASE \E next \in {"active", "paused", "closed", "archived"} :
                Vacancies!Transition(j, next) \/ Vacancies!BulkJobAction(j, next)
    BY <2>3, TransitionPreserves DEF Vacancies!BulkJobAction
  <2>4. CASE \E k \in Jobs : Vacancies!DuplicateJob(j, k)
    BY <2>4, DuplicatePreserves
  <2>5. CASE \/ \E text \in Texts : Vacancies!SetMatchingFields(j, text)
             \/ Vacancies!MakeJobPublic(j) \/ Vacancies!TakedownJob(j) \/ Vacancies!DeadlinePasses(j)
    BY <2>5, FieldsPreserve
  <2> QED BY <1>1, <2>1, <2>2, <2>3, <2>4, <2>5 DEF Vacancies!JobCommand
<1>2. ASSUME NEW t \in Tabs, Vacancies!Journey(t) PROVE VacancyInv' /\ StepChecked
  BY <1>2, OpenFormPreserves, SaveDraftPreserves, SubmitPreserves, RollBackPreserves,
     BeginJourneyPreserves DEF Vacancies!Journey
<1>3. CASE Vacancies!WithdrawApplication
           \/ \E next \in Vacancies!Stages : Vacancies!UpdateStage(next)
  BY <1>3, StagePreserves
<1>4. CASE Vacancies!SetSubscription \/ UNCHANGED Vacancies!vacancyVars
  BY <1>4, PlanPreserves
<1> QED BY <1>1, <1>2, <1>3, <1>4 DEF Vacancies!Next

\* Of every behaviour of the vacancies of a company and an application: what the model wrote
\* is active only when somebody took responsibility for it, vacancies become active within
\* the plan, an application is submitted to an open posting with the questions it answers,
\* and no window loses what another has saved.
THEOREM VacanciesAreChecked == Vacancies!Spec => Vacancies!PublishedAndAnsweredAsChecked
<1>1. VacancyInv => Vacancies!PublishedWasReviewed
  BY DEF VacancyInv
<1>2. VacancyInv /\ [Vacancies!Next]_Vacancies!vacancyVars =>
         /\ VacancyInv' /\ Vacancies!PublishedWasReviewed' /\ Vacancies!ActiveJobsChecked
         /\ Vacancies!SubmittedToOpenPosting /\ Vacancies!NoAnswerLost
  BY <1>1, VacanciesProceed, PTL DEF StepChecked
<1> QED
  BY <1>2, VacanciesStart, PTL DEF Vacancies!Spec, Vacancies!PublishedAndAnsweredAsChecked

-----------------------------------------------------------------------------
(* Documents that the model reads and their owner reviews                  *)

Plan == [decided : SUBSET ReviewWindows, stamp : Nat]
Artifact ==
    [life : Nat,
     status : {"pending", "requires_review", "owner_reviewed", "validation_error", "provider_error"},
     rev : Nat, decided : SUBSET ReviewWindows, plan : Plan \cup {Null},
     applied : BOOLEAN, expired : BOOLEAN]
Inquiry ==
    [k : Keys, life : Nat, outcome : {Null, "requires_review", "validation_error", "provider_error"}]
Display == [k : Keys, life : Nat, rev : Nat, stamp : Nat]
Saving == [decided : SUBSET ReviewWindows, confirm : BOOLEAN, plan : Plan \cup {Null}]

ArtifactTypes ==
    /\ row \in [Keys -> Artifact \cup {Null}]
    /\ lives \in [Keys -> Nat] /\ paid \in [Keys -> Nat]
    /\ call \in [Calls -> Inquiry \cup {Null}]
    /\ window \in [ReviewWindows -> Display \cup {Null}]
    /\ saving \in [ReviewWindows -> Saving \cup {Null}]
    /\ stamp \in Nat

\* A life of a key is counted before a row, a call or a window knows of it.
LivesCounted ==
    /\ \A k \in Keys : row[k] # Null => row[k].life <= lives[k]
    /\ \A c \in Calls : call[c] # Null => \A k \in Keys : k = call[c].k => call[c].life <= lives[k]
    /\ \A w \in ReviewWindows : window[w] # Null =>
          \A k \in Keys : k = window[w].k => window[w].life <= lives[k]

\* A row has one call; a call without an answer has not been paid yet, nor a key without
\* a row.
PaymentsCounted ==
    /\ \A c \in Calls : \A d \in Calls \ {c} :
          call[c] # Null /\ call[d] # Null => call[c].k # call[d].k \/ call[c].life # call[d].life
    /\ \A k \in Keys : ~Artifacts!Live(k) => paid[k] = 0
    /\ \A c \in Calls : call[c] # Null /\ call[c].outcome = Null =>
          \A k \in Keys : k = call[c].k /\ Artifacts!Live(k) /\ row[k].life = call[c].life => paid[k] = 0
    /\ \A k \in Keys : paid[k] <= 1

\* No window is ahead of the row it shows, and a review that is saved where it was read
\* has in it what the row has.
ReviewsFollow ==
    \A w \in ReviewWindows :
        /\ saving[w] # Null => window[w] # Null
        /\ window[w] # Null =>
              \A k \in Keys : k = window[w].k /\ Artifacts!Live(k) /\ row[k].life = window[w].life =>
                  /\ window[w].rev <= row[k].rev
                  /\ saving[w] # Null /\ window[w].rev = row[k].rev /\ TaskOf[k] = "cv.parse" =>
                        row[k].decided \subseteq saving[w].decided

\* A plan is of the decisions it is stored with.
PlansAreOfDecisions ==
    /\ \A k \in Keys : row[k] # Null /\ row[k].plan # Null => row[k].plan.decided = row[k].decided
    /\ \A w \in ReviewWindows : saving[w] # Null /\ saving[w].plan # Null =>
          saving[w].plan.decided = saving[w].decided

ArtifactInv ==
    ArtifactTypes /\ LivesCounted /\ PaymentsCounted /\ ReviewsFollow /\ PlansAreOfDecisions

\* What every step must do.
ReviewsKept == Artifacts!DecisionsKept /\ Artifacts!AppliedAsConfirmed

LEMMA NullIsNone ==
    Null \notin Plan /\ Null \notin Artifact /\ Null \notin Inquiry /\ Null \notin Display
    /\ Null \notin Saving
BY ArtifactsAssumption DEF Plan, Artifact, Inquiry, Display, Saving

LEMMA ArtifactsStart == Artifacts!Init => ArtifactInv
BY DEF Artifacts!Init, ArtifactInv, ArtifactTypes, LivesCounted, PaymentsCounted, ReviewsFollow,
       PlansAreOfDecisions

LEMMA PaidNow == ArtifactInv => Artifacts!PaidOnce
BY DEF ArtifactInv, PaymentsCounted, Artifacts!PaidOnce

\* What the owner sees and saves, when rows and windows are what they were.
LEMMA ReviewsRest ==
    ASSUME ArtifactInv, UNCHANGED <<row, window, saving>>, lives' \in [Keys -> Nat],
           \A k \in Keys : lives'[k] >= lives[k]
    PROVE  /\ ReviewsFollow' /\ PlansAreOfDecisions' /\ ReviewsKept
           /\ \A k \in Keys : row'[k] # Null => row'[k].life <= lives'[k]
           /\ \A w \in ReviewWindows : window'[w] # Null =>
                 \A k \in Keys : k = window'[w].k => window'[w].life <= lives'[k]
<1> USE DEF ArtifactInv
<1>1. ReviewsFollow' /\ PlansAreOfDecisions'
  BY DEF ReviewsFollow, PlansAreOfDecisions, Artifacts!IsRow, Artifacts!Live
<1>2. ReviewsKept
  BY DEF ReviewsKept, Artifacts!DecisionsKept, Artifacts!AppliedAsConfirmed
<1>3. \A k \in Keys : row[k] # Null => row[k].life \in Nat
  BY DEF ArtifactTypes, Artifact
<1>4. \A w \in ReviewWindows : window[w] # Null => window[w].life \in Nat
  BY DEF ArtifactTypes, Display
<1>5. \A k \in Keys : row'[k] # Null => row'[k].life <= lives'[k]
  BY <1>3 DEF LivesCounted, ArtifactTypes
<1>6. \A w \in ReviewWindows : window'[w] # Null =>
         \A k \in Keys : k = window'[w].k => window'[w].life <= lives'[k]
  BY <1>4 DEF LivesCounted, ArtifactTypes
<1> QED BY <1>1, <1>2, <1>5, <1>6

\* A row that is live is that of its life.
LEMMA RowOf ==
    ASSUME ArtifactInv, NEW k \in Keys, row[k] # Null
    PROVE  row[k] \in Artifact
BY DEF ArtifactInv, ArtifactTypes

LEMMA ViewOf ==
    ASSUME ArtifactInv, NEW w \in ReviewWindows, window[w] # Null
    PROVE  window[w] \in Display /\ window[w].k \in Keys
BY DEF ArtifactInv, ArtifactTypes, Display

\* Calls: the provider, and calls that end without an answer stored.
LEMMA ProviderPreserves ==
    ASSUME ArtifactInv, NEW c \in Calls, NEW outcome \in Artifacts!Outcomes,
           Artifacts!CallProvider(c, outcome)
    PROVE  ArtifactInv' /\ ReviewsKept
<1> USE DEF ArtifactInv, Artifacts!CallProvider, Artifacts!reviews
<1>1. PICK q \in Inquiry : q = call[c] /\ q # Null /\ q.outcome = Null
  BY DEF ArtifactTypes
<1>2. PICK k \in Keys : k = q.k
  BY DEF Inquiry
<1>3. PICK r \in Inquiry : r = [q EXCEPT !.outcome = outcome]
  BY DEF Inquiry, Artifacts!Outcomes
<1>4. r.k = q.k /\ r.life = q.life /\ r.outcome = outcome /\ r # Null /\ outcome # Null
  BY <1>3, NullIsNone, ArtifactsAssumption DEF Inquiry, Artifacts!Outcomes
<1>5. call' = [call EXCEPT ![c] = r]
  BY <1>1, <1>3 DEF ArtifactTypes
<1>6. call'[c] = r /\ \A d \in Calls \ {c} : call'[d] = call[d]
  BY <1>5 DEF ArtifactTypes
<1>7. paid[k] \in Nat /\ (Artifacts!IsRow(k, q.life) => paid[k] = 0)
  BY <1>1, <1>2 DEF ArtifactTypes, PaymentsCounted, Artifacts!IsRow
<1>8. PICK n \in {0, 1} :
         /\ paid' = [paid EXCEPT ![k] = n]
         /\ Artifacts!IsRow(k, q.life) => n = 1
         /\ ~Artifacts!IsRow(k, q.life) => n = paid[k]
  <2>1. paid' = [paid EXCEPT ![k] = IF Artifacts!IsRow(k, q.life) THEN @ + 1 ELSE @]
    BY <1>1, <1>2
  <2>2. paid[k] \in {0, 1}
    BY <1>7 DEF PaymentsCounted
  <2> HIDE DEF Artifacts!CallProvider, ArtifactInv
  <2>3. CASE Artifacts!IsRow(k, q.life)
    <3>1. paid[k] + 1 = 1
      BY <1>7, <2>3
    <3>2. paid' = [paid EXCEPT ![k] = 1]
      BY <2>1, <2>3, <3>1
    <3> QED BY <2>3, <3>2
  <2>4. CASE ~Artifacts!IsRow(k, q.life)
    <3>1. paid' = [paid EXCEPT ![k] = paid[k]]
      BY <2>1, <2>4
    <3> QED BY <2>2, <2>4, <3>1
  <2> QED BY <2>3, <2>4
<1>9. paid'[k] = n /\ \A m \in Keys \ {k} : paid'[m] = paid[m]
  BY <1>8 DEF ArtifactTypes
<1>10. ArtifactTypes'
  <2>1. call' \in [Calls -> Inquiry \cup {Null}]
    BY <1>5 DEF ArtifactTypes
  <2>2. n \in Nat
    OBVIOUS
  <2>3. paid' \in [Keys -> Nat]
    BY <1>8, <2>2 DEF ArtifactTypes
  <2> QED BY <2>1, <2>3 DEF ArtifactTypes
<1>11. LivesCounted'
  BY <1>1, <1>4, <1>6 DEF LivesCounted
<1>12. PaymentsCounted'
  <2>1. \A d \in Calls : call'[d] # Null =>
           call[d] # Null /\ call'[d].k = call[d].k /\ call'[d].life = call[d].life
    BY <1>1, <1>4, <1>6
  <2>2. \A d \in Calls : \A e \in Calls \ {d} : call'[d] # Null /\ call'[e] # Null =>
           call'[d].k # call'[e].k \/ call'[d].life # call'[e].life
    BY <2>1 DEF PaymentsCounted
  <2>3. \A m \in Keys : ~Artifacts!Live(m)' => paid'[m] = 0
    BY <1>8, <1>9 DEF PaymentsCounted, Artifacts!Live, Artifacts!IsRow
  <2>4. ASSUME NEW d \in Calls, call'[d] # Null, call'[d].outcome = Null,
               NEW m \in Keys, m = call'[d].k, Artifacts!Live(m)', row'[m].life = call'[d].life
        PROVE  paid'[m] = 0
    <3>1. d # c /\ call'[d] = call[d]
      BY <1>4, <1>6, <2>4
    <3>2. Artifacts!Live(m) /\ row[m].life = call[d].life
      BY <2>4, <3>1 DEF Artifacts!Live
    <3>3. paid[m] = 0
      BY <2>4, <3>1, <3>2 DEF PaymentsCounted
    <3>4. m = k => ~Artifacts!IsRow(k, q.life)
      BY <1>1, <1>2, <2>4, <3>1, <3>2 DEF PaymentsCounted, Artifacts!IsRow
    <3> QED BY <1>8, <1>9, <3>3, <3>4
  <2>5. \A m \in Keys : paid'[m] <= 1
    BY <1>9 DEF PaymentsCounted
  <2> QED BY <2>2, <2>3, <2>4, <2>5 DEF PaymentsCounted
<1> QED BY <1>10, <1>11, <1>12, ReviewsRest DEF ArtifactTypes

LEMMA BeginPreserves ==
    ASSUME ArtifactInv, NEW c \in Calls, NEW k \in Keys, Artifacts!Begin(c, k)
    PROVE  ArtifactInv' /\ ReviewsKept
<1> USE DEF ArtifactInv, Artifacts!Begin, Artifacts!reviews
<1>1. PICK n \in Nat : n = lives[k] + 1 /\ lives[k] \in Nat
  BY DEF ArtifactTypes
<1>2. PICK x \in Artifact :
         /\ x = Artifacts!NewRow(n) /\ x.life = n /\ x.expired = FALSE
         /\ x.plan = Null /\ x.applied = FALSE
  <2>1. Artifacts!NewRow(n) \in Artifact
    BY DEF Artifacts!NewRow, Artifact
  <2> QED BY <2>1 DEF Artifacts!NewRow
<1>3. PICK q \in Inquiry :
         /\ q = [k |-> k, life |-> n, outcome |-> Null] /\ q.k = k /\ q.life = n
  <2>1. [k |-> k, life |-> n, outcome |-> Null] \in Inquiry
    BY DEF Inquiry
  <2> QED BY <2>1
<1>4. /\ lives' = [lives EXCEPT ![k] = n] /\ row' = [row EXCEPT ![k] = x]
      /\ call' = [call EXCEPT ![c] = q]
  BY <1>1, <1>2, <1>3
<1>5. ~Artifacts!Live(k) /\ call[c] = Null /\ UNCHANGED <<paid, window, saving, stamp>>
  BY DEF Artifacts!Admitted
<1> HIDE DEF Artifacts!Begin
<1>6. /\ lives'[k] = n /\ \A m \in Keys \ {k} : lives'[m] = lives[m]
      /\ row'[k] = x /\ \A m \in Keys \ {k} : row'[m] = row[m]
      /\ call'[c] = q /\ \A d \in Calls \ {c} : call'[d] = call[d]
      /\ x # Null /\ q # Null
  BY <1>4, NullIsNone DEF ArtifactTypes
<1>7. ArtifactTypes'
  BY <1>4, <1>5 DEF ArtifactTypes
<1>8. \A m \in Keys : lives[m] \in Nat /\ lives'[m] >= lives[m] /\ lives'[m] \in Nat
  BY <1>1, <1>6, <1>7 DEF ArtifactTypes
<1>9. /\ \A m \in Keys : row[m] # Null => row[m].life \in Nat
      /\ \A d \in Calls : call[d] # Null => call[d].life \in Nat
      /\ \A w \in ReviewWindows : window[w] # Null => window[w].life \in Nat
  BY DEF ArtifactTypes, Artifact, Inquiry, Display
<1>10. LivesCounted'
  <2>1. ASSUME NEW m \in Keys, row'[m] # Null PROVE row'[m].life <= lives'[m]
    BY <1>1, <1>2, <1>6, <1>8, <1>9, <2>1 DEF LivesCounted
  <2>2. ASSUME NEW d \in Calls, call'[d] # Null, NEW m \in Keys, m = call'[d].k
        PROVE  call'[d].life <= lives'[m]
    <3>1. CASE d = c
      BY <1>1, <1>3, <1>6, <2>2, <3>1
    <3>2. CASE d # c
      BY <1>6, <1>8, <1>9, <2>2, <3>2 DEF LivesCounted
    <3> QED BY <3>1, <3>2
  <2>3. ASSUME NEW w \in ReviewWindows, window'[w] # Null, NEW m \in Keys, m = window'[w].k
        PROVE  window'[w].life <= lives'[m]
    BY <1>5, <1>8, <1>9, <2>3 DEF LivesCounted
  <2> QED BY <2>1, <2>2, <2>3 DEF LivesCounted
<1>11. \A d \in Calls \ {c} : call[d] # Null /\ call[d].k = k => call[d].life < n
  BY <1>1, <1>9 DEF LivesCounted
<1>12. PaymentsCounted'
  <2>1. ASSUME NEW d \in Calls, NEW e \in Calls \ {d}, call'[d] # Null, call'[e] # Null
        PROVE  call'[d].k # call'[e].k \/ call'[d].life # call'[e].life
    <3>1. CASE d = c
      BY <1>3, <1>6, <1>11, <2>1, <3>1
    <3>2. CASE e = c
      BY <1>3, <1>6, <1>11, <2>1, <3>2
    <3>3. CASE d # c /\ e # c
      BY <1>6, <2>1, <3>3 DEF PaymentsCounted
    <3> QED BY <3>1, <3>2, <3>3
  <2>2. ASSUME NEW m \in Keys, ~Artifacts!Live(m)' PROVE paid'[m] = 0
    <3>1. m # k
      BY <1>2, <1>6, <2>2 DEF Artifacts!Live
    <3> QED BY <1>5, <1>6, <2>2, <3>1 DEF PaymentsCounted, Artifacts!Live
  <2>3. ASSUME NEW d \in Calls, call'[d] # Null, call'[d].outcome = Null,
               NEW m \in Keys, m = call'[d].k, Artifacts!Live(m)', row'[m].life = call'[d].life
        PROVE  paid'[m] = 0
    <3>1. CASE m = k
      BY <1>5, <3>1 DEF PaymentsCounted
    <3>2. CASE m # k
      <4>1. d # c /\ call'[d] = call[d] /\ row'[m] = row[m] /\ Artifacts!Live(m)
        BY <1>3, <1>6, <2>3, <3>2 DEF Artifacts!Live
      <4> QED BY <1>5, <2>3, <4>1 DEF PaymentsCounted
    <3> QED BY <3>1, <3>2
  <2>4. \A m \in Keys : paid'[m] <= 1
    BY <1>5 DEF PaymentsCounted
  <2> QED BY <2>1, <2>2, <2>3, <2>4 DEF PaymentsCounted
<1>13. ReviewsFollow'
  <2> SUFFICES ASSUME NEW w \in ReviewWindows
               PROVE  /\ saving[w] # Null => window[w] # Null
                      /\ window[w] # Null =>
                            \A m \in Keys : m = window[w].k /\ Artifacts!Live(m)'
                                              /\ row'[m].life = window[w].life =>
                                /\ window[w].rev <= row'[m].rev
                                /\ saving[w] # Null /\ window[w].rev = row'[m].rev
                                      /\ TaskOf[m] = "cv.parse" =>
                                      row'[m].decided \subseteq saving[w].decided
    BY <1>5 DEF ReviewsFollow
  <2>1. saving[w] # Null => window[w] # Null
    BY DEF ReviewsFollow
  <2>2. ASSUME window[w] # Null, NEW m \in Keys, m = window[w].k, Artifacts!Live(m)',
               row'[m].life = window[w].life
        PROVE  m # k /\ row'[m] = row[m] /\ Artifacts!Live(m)
    <3>1. window[w].life <= lives[m]
      BY <2>2 DEF LivesCounted
    <3>2. m # k
      BY <1>1, <1>2, <1>6, <2>2, <3>1
    <3> QED BY <1>6, <2>2, <3>2 DEF Artifacts!Live
  <2> QED BY <2>1, <2>2 DEF ReviewsFollow
<1>14. PlansAreOfDecisions'
  BY <1>2, <1>5, <1>6 DEF PlansAreOfDecisions
<1>15. Artifacts!DecisionsKept
  <2> SUFFICES ASSUME NEW m \in Keys, TaskOf[m] = "cv.parse", row[m] # Null, row'[m] # Null,
                      row[m].life = row'[m].life
               PROVE  row[m].decided \subseteq row'[m].decided
    BY DEF Artifacts!DecisionsKept
  <2>1. m # k
    BY <1>1, <1>2, <1>6, <1>9 DEF LivesCounted
  <2> QED BY <1>6, <2>1
<1>16. Artifacts!AppliedAsConfirmed
  BY <1>5, <1>6 DEF Artifacts!AppliedAsConfirmed
<1> QED BY <1>7, <1>10, <1>12, <1>13, <1>14, <1>15, <1>16 DEF ReviewsKept

\* A call ends; no row changes its life.
LEMMA CallEnds ==
    ASSUME ArtifactInv, NEW c \in Calls, call' = [call EXCEPT ![c] = Null],
           \A k \in Keys : Artifacts!Live(k)' <=> Artifacts!Live(k),
           \A k \in Keys : row'[k] # Null => row[k] # Null /\ row'[k].life = row[k].life,
           UNCHANGED <<lives, paid, window>>
    PROVE  LivesCounted' /\ PaymentsCounted'
<1> USE DEF ArtifactInv
<1>1. call'[c] = Null /\ \A d \in Calls \ {c} : call'[d] = call[d]
  BY DEF ArtifactTypes
<1>2. \A d \in Calls : call'[d] # Null => call[d] # Null /\ call'[d] = call[d]
  BY <1>1
<1>3. LivesCounted'
  BY <1>2 DEF LivesCounted
<1>4. \A k \in Keys : Artifacts!Live(k)' => Artifacts!Live(k) /\ row'[k].life = row[k].life
  BY DEF Artifacts!Live
<1>5. PaymentsCounted'
  <2>1. \A d \in Calls : \A e \in Calls \ {d} : call'[d] # Null /\ call'[e] # Null =>
           call'[d].k # call'[e].k \/ call'[d].life # call'[e].life
    BY <1>2 DEF PaymentsCounted
  <2>2. \A k \in Keys : (~Artifacts!Live(k)' => paid'[k] = 0) /\ paid'[k] <= 1
    BY DEF PaymentsCounted
  <2>3. ASSUME NEW d \in Calls, call'[d] # Null, call'[d].outcome = Null,
               NEW k \in Keys, k = call'[d].k, Artifacts!Live(k)', row'[k].life = call'[d].life
        PROVE  paid'[k] = 0
    BY <1>2, <1>4, <2>3 DEF PaymentsCounted
  <2> QED BY <2>1, <2>2, <2>3 DEF PaymentsCounted
<1> QED BY <1>3, <1>5

\* One row becomes another of the same life that says the same of its review.
LEMMA RowTurns ==
    ASSUME ArtifactInv, NEW k \in Keys, NEW x \in Artifact, row[k] # Null,
           row' = [row EXCEPT ![k] = x],
           x.life = row[k].life, x.rev = row[k].rev, x.decided = row[k].decided,
           x.plan = row[k].plan, x.applied = row[k].applied,
           x.expired = FALSE => row[k].expired = FALSE,
           UNCHANGED <<window, saving>>
    PROVE  /\ row' \in [Keys -> Artifact \cup {Null}]
           /\ \A m \in Keys : row'[m] # Null => row[m] # Null /\ row'[m].life = row[m].life
           /\ ReviewsFollow' /\ PlansAreOfDecisions' /\ ReviewsKept
<1> USE DEF ArtifactInv
<1>1. row'[k] = x /\ x # Null /\ \A m \in Keys \ {k} : row'[m] = row[m]
  BY NullIsNone DEF ArtifactTypes
<1>2. row' \in [Keys -> Artifact \cup {Null}]
  BY DEF ArtifactTypes
<1>3. x.expired \in BOOLEAN /\ row[k].expired \in BOOLEAN
  BY RowOf DEF Artifact
<1>4. \A m \in Keys : row'[m] # Null =>
         /\ row[m] # Null /\ row'[m].life = row[m].life /\ row'[m].rev = row[m].rev
         /\ row'[m].decided = row[m].decided /\ row'[m].plan = row[m].plan
         /\ row'[m].applied = row[m].applied
  BY <1>1
<1>5. \A m \in Keys : Artifacts!Live(m)' => Artifacts!Live(m) /\ row'[m] # Null
  BY <1>1, <1>3 DEF Artifacts!Live
<1>6. ReviewsFollow'
  BY <1>4, <1>5 DEF ReviewsFollow
<1>7. PlansAreOfDecisions'
  BY <1>4 DEF PlansAreOfDecisions
<1>8. ReviewsKept
  BY <1>4, <1>5 DEF ReviewsKept, Artifacts!DecisionsKept, Artifacts!AppliedAsConfirmed
<1> QED BY <1>2, <1>4, <1>6, <1>7, <1>8

LEMMA CompletePreserves ==
    ASSUME ArtifactInv, NEW c \in Calls, Artifacts!Complete(c) \/ Artifacts!GiveUp(c)
    PROVE  ArtifactInv' /\ ReviewsKept
<1> USE DEF ArtifactInv, Artifacts!reviews
<1>1. /\ call[c] # Null /\ call' = [call EXCEPT ![c] = Null]
      /\ UNCHANGED <<lives, paid, window, saving, stamp>>
  BY DEF Artifacts!Complete, Artifacts!GiveUp
<1>2. call' \in [Calls -> Inquiry \cup {Null}]
  BY <1>1 DEF ArtifactTypes
<1>3. CASE UNCHANGED row
  <2>1. \A k \in Keys : Artifacts!Live(k)' <=> Artifacts!Live(k)
    BY <1>3 DEF Artifacts!Live
  <2>2. LivesCounted' /\ PaymentsCounted'
    BY <1>1, <1>3, <2>1, CallEnds
  <2>3. ReviewsFollow' /\ PlansAreOfDecisions' /\ ReviewsKept
    BY <1>1, <1>3, ReviewsRest DEF ArtifactTypes
  <2> QED BY <1>1, <1>2, <1>3, <2>2, <2>3 DEF ArtifactTypes
<1>4. CASE ~UNCHANGED row
  <2>1. PICK q \in Inquiry : q = call[c] /\ q.outcome # Null
    BY <1>1, <1>4 DEF ArtifactTypes, Artifacts!Complete, Artifacts!GiveUp
  <2>2. PICK k \in Keys : k = q.k
    BY DEF Inquiry
  <2>3. PICK outcome \in {"requires_review", "validation_error", "provider_error"} :
           outcome = q.outcome
    BY <2>1 DEF Inquiry
  <2>4. Artifacts!Live(k) /\ row' = [row EXCEPT ![k].status = outcome]
    BY <1>4, <2>1, <2>2, <2>3 DEF Artifacts!Complete, Artifacts!GiveUp, Artifacts!IsRow
  <2>5. PICK y \in Artifact : y = row[k] /\ y # Null /\ y.expired = FALSE
    BY <2>4, RowOf DEF Artifacts!Live, Artifact
  <2>6. PICK x \in Artifact : x = [y EXCEPT !.status = outcome]
    BY DEF Artifact
  <2>7. /\ x.life = y.life /\ x.rev = y.rev /\ x.decided = y.decided /\ x.plan = y.plan
        /\ x.applied = y.applied /\ x.expired = y.expired
    BY <2>6 DEF Artifact
  <2>8. row' = [row EXCEPT ![k] = x]
    BY <2>4, <2>5, <2>6 DEF ArtifactTypes
  <2>9. /\ row' \in [Keys -> Artifact \cup {Null}]
        /\ \A m \in Keys : row'[m] # Null => row[m] # Null /\ row'[m].life = row[m].life
        /\ ReviewsFollow' /\ PlansAreOfDecisions' /\ ReviewsKept
    BY <1>1, <2>5, <2>7, <2>8, RowTurns
  <2>10. \A m \in Keys : Artifacts!Live(m)' <=> Artifacts!Live(m)
    <3>1. row'[k] = x /\ x # Null /\ \A m \in Keys \ {k} : row'[m] = row[m]
      BY <2>8, NullIsNone DEF ArtifactTypes
    <3> QED BY <2>4, <2>5, <2>7, <3>1 DEF Artifacts!Live
  <2>11. LivesCounted' /\ PaymentsCounted'
    BY <1>1, <2>9, <2>10, CallEnds
  <2> QED BY <1>1, <1>2, <2>9, <2>11 DEF ArtifactTypes
<1> QED BY <1>3, <1>4

LEMMA ExpirePreserves ==
    ASSUME ArtifactInv, NEW k \in Keys, Artifacts!Expire(k)
    PROVE  ArtifactInv' /\ ReviewsKept
<1> USE DEF ArtifactInv, Artifacts!Expire, Artifacts!reviews
<1>1. PICK y \in Artifact : y = row[k] /\ row[k] # Null
  BY RowOf DEF Artifacts!Live
<1>2. PICK x \in Artifact : x = [y EXCEPT !.expired = TRUE]
  BY DEF Artifact
<1>3. /\ x.life = y.life /\ x.rev = y.rev /\ x.decided = y.decided /\ x.plan = y.plan
      /\ x.applied = y.applied /\ x.expired = TRUE
  BY <1>2 DEF Artifact
<1>4. row' = [row EXCEPT ![k] = x]
  BY <1>1, <1>2 DEF ArtifactTypes
<1>5. UNCHANGED <<lives, call, window, saving, stamp>> /\ paid' = [paid EXCEPT ![k] = 0]
  OBVIOUS
<1> HIDE DEF Artifacts!Expire
<1>6. /\ row' \in [Keys -> Artifact \cup {Null}]
      /\ \A m \in Keys : row'[m] # Null => row[m] # Null /\ row'[m].life = row[m].life
      /\ ReviewsFollow' /\ PlansAreOfDecisions' /\ ReviewsKept
  BY <1>1, <1>3, <1>4, <1>5, RowTurns
<1>7. paid'[k] = 0 /\ (\A m \in Keys \ {k} : paid'[m] = paid[m]) /\ paid' \in [Keys -> Nat]
  BY <1>5 DEF ArtifactTypes
<1>8. LivesCounted'
  BY <1>5, <1>6 DEF LivesCounted
<1>9. \A m \in Keys \ {k} : row'[m] = row[m]
  BY <1>4 DEF ArtifactTypes
<1>10. \A m \in Keys \ {k} : Artifacts!Live(m)' <=> Artifacts!Live(m)
  BY <1>9 DEF Artifacts!Live
<1>11. PaymentsCounted'
  <2>1. \A m \in Keys : (~Artifacts!Live(m)' => paid'[m] = 0) /\ paid'[m] <= 1
    BY <1>7, <1>10 DEF PaymentsCounted
  <2>2. \A d \in Calls : \A e \in Calls \ {d} : call'[d] # Null /\ call'[e] # Null =>
           call'[d].k # call'[e].k \/ call'[d].life # call'[e].life
    BY <1>5 DEF PaymentsCounted
  <2>3. ASSUME NEW d \in Calls, call[d] # Null, call[d].outcome = Null,
               NEW m \in Keys, m = call[d].k, Artifacts!Live(m)', row'[m].life = call[d].life
        PROVE  paid'[m] = 0
    BY <1>7, <1>9, <1>10, <2>3 DEF PaymentsCounted
  <2> QED BY <1>5, <2>1, <2>2, <2>3 DEF PaymentsCounted
<1> QED BY <1>5, <1>6, <1>7, <1>8, <1>11 DEF ArtifactTypes

LEMMA PurgePreserves ==
    ASSUME ArtifactInv, NEW k \in Keys, Artifacts!PurgeExpired(k)
    PROVE  ArtifactInv' /\ ReviewsKept
<1> USE DEF ArtifactInv, Artifacts!PurgeExpired, Artifacts!reviews
<1>1. row'[k] = Null /\ (\A m \in Keys \ {k} : row'[m] = row[m]) /\ ~Artifacts!Live(k)
  BY DEF ArtifactTypes, Artifacts!Live
<1>2. \A m \in Keys : Artifacts!Live(m)' <=> Artifacts!Live(m)
  BY <1>1 DEF Artifacts!Live
<1>3. \A m \in Keys : row'[m] # Null => row[m] = row'[m] /\ row[m] # Null
  BY <1>1
<1>4. \A m \in Keys : Artifacts!Live(m)' => row'[m] = row[m]
  BY <1>3 DEF Artifacts!Live
<1>5. ArtifactTypes'
  BY DEF ArtifactTypes
<1>6. LivesCounted'
  BY <1>3 DEF LivesCounted
<1>7. PaymentsCounted'
  BY <1>2, <1>4 DEF PaymentsCounted
<1>8. ReviewsFollow' /\ PlansAreOfDecisions'
  BY <1>2, <1>3, <1>4 DEF ReviewsFollow, PlansAreOfDecisions
<1>9. ReviewsKept
  BY <1>3, <1>4 DEF ReviewsKept, Artifacts!DecisionsKept, Artifacts!AppliedAsConfirmed, Artifacts!Live
<1> QED BY <1>5, <1>6, <1>7, <1>8, <1>9

\* The owner works; the calls of the model rest, and rows keep their lives.
LEMMA CallsRest ==
    ASSUME ArtifactInv, UNCHANGED <<lives, paid, call>>,
           \A k \in Keys : Artifacts!Live(k)' <=> Artifacts!Live(k),
           \A k \in Keys : row'[k] # Null => row[k] # Null /\ row'[k].life = row[k].life,
           \A w \in ReviewWindows : window'[w] # Null =>
              \A k \in Keys : k = window'[w].k => window'[w].life <= lives[k]
    PROVE  LivesCounted' /\ PaymentsCounted'
<1> USE DEF ArtifactInv
<1>1. LivesCounted'
  BY DEF LivesCounted
<1>2. \A k \in Keys : Artifacts!Live(k)' => Artifacts!Live(k) /\ row'[k].life = row[k].life
  BY DEF Artifacts!Live
<1>3. \A k \in Keys : (~Artifacts!Live(k)' => paid'[k] = 0) /\ paid'[k] <= 1
  BY DEF PaymentsCounted
<1>4. \A d \in Calls : \A e \in Calls \ {d} : call'[d] # Null /\ call'[e] # Null =>
         call'[d].k # call'[e].k \/ call'[d].life # call'[e].life
  BY DEF PaymentsCounted
<1>5. ASSUME NEW d \in Calls, call[d] # Null, call[d].outcome = Null,
             NEW k \in Keys, k = call[d].k, Artifacts!Live(k)', row'[k].life = call[d].life
      PROVE  paid[k] = 0
  BY <1>2, <1>5 DEF PaymentsCounted
<1> QED BY <1>1, <1>3, <1>4, <1>5 DEF PaymentsCounted

\* Only windows and what is saved change.
LEMMA RowsRest ==
    ASSUME ArtifactInv, UNCHANGED <<row, lives, paid, call>>,
           \A w \in ReviewWindows : window'[w] # Null =>
              \A k \in Keys : k = window'[w].k => window'[w].life <= lives[k]
    PROVE  LivesCounted' /\ PaymentsCounted' /\ ReviewsKept
<1>1. \A k \in Keys : Artifacts!Live(k)' <=> Artifacts!Live(k)
  BY DEF Artifacts!Live
<1>2. LivesCounted' /\ PaymentsCounted'
  BY <1>1, CallsRest
<1>3. ReviewsKept
  BY DEF ReviewsKept, Artifacts!DecisionsKept, Artifacts!AppliedAsConfirmed
<1> QED BY <1>2, <1>3

LEMMA OpenReviewPreserves ==
    ASSUME ArtifactInv, NEW w \in ReviewWindows, NEW k \in Keys, Artifacts!OpenReview(w, k)
    PROVE  ArtifactInv' /\ ReviewsKept
<1> USE DEF ArtifactInv, Artifacts!OpenReview, Artifacts!artifacts
<1>1. PICK y \in Artifact : y = row[k] /\ row[k] # Null
  BY RowOf DEF Artifacts!Live
<1>2. PICK v \in Display :
         /\ v = [k |-> k, life |-> y.life, rev |-> y.rev, stamp |-> stamp]
         /\ v.k = k /\ v.life = y.life /\ v.rev = y.rev
  <2>1. [k |-> k, life |-> y.life, rev |-> y.rev, stamp |-> stamp] \in Display
    BY DEF ArtifactTypes, Artifact, Display
  <2> QED BY <2>1
<1>3. window' = [window EXCEPT ![w] = v]
  BY <1>1, <1>2 DEF Artifacts!View
<1>4. saving[w] = Null /\ UNCHANGED <<row, lives, paid, call, saving, stamp>>
  OBVIOUS
<1> HIDE DEF Artifacts!OpenReview
<1>5. window'[w] = v /\ v # Null /\ \A u \in ReviewWindows \ {w} : window'[u] = window[u]
  BY <1>3, NullIsNone DEF ArtifactTypes
<1>6. ArtifactTypes'
  BY <1>3, <1>4 DEF ArtifactTypes
<1>7. \A u \in ReviewWindows : window'[u] # Null =>
         \A m \in Keys : m = window'[u].k => window'[u].life <= lives[m]
  BY <1>1, <1>2, <1>5 DEF LivesCounted
<1>8. LivesCounted' /\ PaymentsCounted' /\ ReviewsKept
  BY <1>4, <1>7, RowsRest
<1>9. ReviewsFollow'
  <2> SUFFICES ASSUME NEW u \in ReviewWindows
               PROVE  /\ saving[u] # Null => window'[u] # Null
                      /\ window'[u] # Null =>
                            \A m \in Keys : m = window'[u].k /\ Artifacts!Live(m)
                                              /\ row[m].life = window'[u].life =>
                                /\ window'[u].rev <= row[m].rev
                                /\ saving[u] # Null /\ window'[u].rev = row[m].rev
                                      /\ TaskOf[m] = "cv.parse" =>
                                      row[m].decided \subseteq saving[u].decided
    BY <1>4 DEF ReviewsFollow, Artifacts!Live
  <2>1. CASE u = w
    BY <1>1, <1>2, <1>4, <1>5, <2>1 DEF Artifact
  <2>2. CASE u # w
    BY <1>5, <2>2 DEF ReviewsFollow
  <2> QED BY <2>1, <2>2
<1>10. PlansAreOfDecisions'
  BY <1>4 DEF PlansAreOfDecisions
<1> QED BY <1>6, <1>8, <1>9, <1>10

LEMMA StartReviewPreserves ==
    ASSUME ArtifactInv, NEW w \in ReviewWindows, NEW decides \in BOOLEAN, NEW confirm \in BOOLEAN,
           Artifacts!StartReview(w, decides, confirm)
    PROVE  ArtifactInv' /\ ReviewsKept
<1> USE DEF ArtifactInv, Artifacts!artifacts
<1>1. window[w] # Null /\ saving[w] = Null /\ UNCHANGED <<row, lives, paid, call, window, stamp>>
  BY DEF Artifacts!StartReview
<1>2. PICK v \in Display : v = window[w] /\ v.k \in Keys
  BY <1>1, ViewOf
<1>3. PICK k \in Keys : k = v.k
  BY <1>2
<1>4. Artifacts!Live(k) /\ row[k].life = v.life /\ row[k].rev = v.rev
  BY <1>2, <1>3 DEF Artifacts!StartReview, Artifacts!ReadBack, Artifacts!IsRow
<1>5. PICK y \in Artifact : y = row[k] /\ row[k] # Null
  BY <1>4, RowOf DEF Artifacts!Live
<1>6. PICK decided \in SUBSET ReviewWindows :
         decided = IF decides THEN (IF TaskOf[k] = "cv.parse" THEN y.decided ELSE {}) \cup {w}
                   ELSE IF TaskOf[k] = "cv.parse" THEN y.decided ELSE {}
  BY DEF Artifact
<1>7. TaskOf[k] = "cv.parse" => y.decided \subseteq decided
  BY <1>6
<1>8. PICK plan \in Plan \cup {Null} :
         /\ plan = IF confirm /\ TaskOf[k] = "cv.parse"
                   THEN [decided |-> decided, stamp |-> stamp] ELSE Null
         /\ plan # Null => plan.decided = decided
  <2>1. [decided |-> decided, stamp |-> stamp] \in Plan
    BY DEF Plan, ArtifactTypes
  <2> QED BY <2>1
<1>9. PICK s \in Saving :
         /\ s = [decided |-> decided, confirm |-> confirm, plan |-> plan]
         /\ s.decided = decided /\ s.plan = plan
  <2>1. [decided |-> decided, confirm |-> confirm, plan |-> plan] \in Saving
    BY DEF Saving
  <2> QED BY <2>1
<1>10. saving' = [saving EXCEPT ![w] = s]
  BY <1>2, <1>3, <1>5, <1>6, <1>8, <1>9 DEF Artifacts!StartReview
<1>11. saving'[w] = s /\ s # Null /\ \A u \in ReviewWindows \ {w} : saving'[u] = saving[u]
  BY <1>10, NullIsNone DEF ArtifactTypes
<1>12. ArtifactTypes'
  BY <1>1, <1>10 DEF ArtifactTypes
<1>13. LivesCounted' /\ PaymentsCounted' /\ ReviewsKept
  <2>1. \A u \in ReviewWindows : window'[u] # Null =>
           \A m \in Keys : m = window'[u].k => window'[u].life <= lives[m]
    BY <1>1 DEF LivesCounted
  <2> QED BY <1>1, <2>1, RowsRest
<1>14. ReviewsFollow'
  <2> SUFFICES ASSUME NEW u \in ReviewWindows
               PROVE  /\ saving'[u] # Null => window[u] # Null
                      /\ window[u] # Null =>
                            \A m \in Keys : m = window[u].k /\ Artifacts!Live(m)
                                              /\ row[m].life = window[u].life =>
                                /\ window[u].rev <= row[m].rev
                                /\ saving'[u] # Null /\ window[u].rev = row[m].rev
                                      /\ TaskOf[m] = "cv.parse" =>
                                      row[m].decided \subseteq saving'[u].decided
    BY <1>1 DEF ReviewsFollow, Artifacts!Live
  <2>1. CASE u = w
    <3>1. \A m \in Keys : m = window[w].k => m = k
      BY <1>2, <1>3
    <3>2. row[k].rev \in Nat
      BY <1>5 DEF Artifact
    <3> QED BY <1>1, <1>2, <1>3, <1>4, <1>5, <1>7, <1>9, <1>11, <2>1, <3>1, <3>2
  <2>2. CASE u # w
    BY <1>11, <2>2 DEF ReviewsFollow
  <2> QED BY <2>1, <2>2
<1>15. PlansAreOfDecisions'
  BY <1>1, <1>8, <1>9, <1>11 DEF PlansAreOfDecisions
<1> QED BY <1>12, <1>13, <1>14, <1>15

LEMMA ReviewFailsPreserves ==
    ASSUME ArtifactInv, NEW w \in ReviewWindows, Artifacts!ReviewFails(w)
    PROVE  ArtifactInv' /\ ReviewsKept
<1> USE DEF ArtifactInv, Artifacts!ReviewFails, Artifacts!artifacts
<1>1. saving'[w] = Null /\ \A u \in ReviewWindows \ {w} : saving'[u] = saving[u]
  BY DEF ArtifactTypes
<1>2. UNCHANGED <<row, lives, paid, call, window, stamp>>
  OBVIOUS
<1>3. ArtifactTypes'
  BY DEF ArtifactTypes
<1> HIDE DEF Artifacts!ReviewFails
<1>4. \A u \in ReviewWindows : saving'[u] # Null => saving[u] # Null /\ saving'[u] = saving[u]
  BY <1>1
<1>5. LivesCounted' /\ PaymentsCounted' /\ ReviewsKept
  <2>1. \A u \in ReviewWindows : window'[u] # Null =>
           \A m \in Keys : m = window'[u].k => window'[u].life <= lives[m]
    BY <1>2 DEF LivesCounted
  <2> QED BY <1>2, <2>1, RowsRest
<1>6. ReviewsFollow'
  BY <1>2, <1>4 DEF ReviewsFollow, Artifacts!Live
<1>7. PlansAreOfDecisions'
  BY <1>2, <1>4 DEF PlansAreOfDecisions
<1> QED BY <1>3, <1>5, <1>6, <1>7

LEMMA EditProfilePreserves ==
    ASSUME ArtifactInv, Artifacts!EditProfile
    PROVE  ArtifactInv' /\ ReviewsKept
<1> USE DEF ArtifactInv, Artifacts!EditProfile, Artifacts!artifacts
<1>1. UNCHANGED <<row, lives, paid, call, window, saving>> /\ stamp' \in Nat
  BY DEF ArtifactTypes
<1>2. ReviewsFollow' /\ PlansAreOfDecisions' /\ ReviewsKept
  BY <1>1, ReviewsRest DEF ArtifactTypes
<1>3. LivesCounted' /\ PaymentsCounted'
  <2>1. \A u \in ReviewWindows : window'[u] # Null =>
           \A m \in Keys : m = window'[u].k => window'[u].life <= lives[m]
    BY <1>1 DEF LivesCounted
  <2> QED BY <1>1, <2>1, RowsRest
<1> QED BY <1>1, <1>2, <1>3 DEF ArtifactTypes

LEMMA SaveReviewPreserves ==
    ASSUME ArtifactInv, NEW w \in ReviewWindows, Artifacts!SaveReview(w)
    PROVE  ArtifactInv' /\ ReviewsKept
<1> USE DEF ArtifactInv
<1>1. saving[w] # Null /\ window[w] # Null
  BY DEF Artifacts!SaveReview, ReviewsFollow
<1>2. PICK v \in Display : v = window[w] /\ v.k \in Keys
  BY <1>1, ViewOf
<1>3. PICK k \in Keys : k = v.k
  BY <1>2
<1>4. Artifacts!Live(k) /\ row[k].life = v.life /\ row[k].rev = v.rev
  BY <1>2, <1>3 DEF Artifacts!SaveReview, Artifacts!AtRevision, Artifacts!ReadBack, Artifacts!IsRow
<1>5. PICK y \in Artifact : y = row[k] /\ row[k] # Null /\ y.expired = FALSE
  BY <1>4, RowOf DEF Artifacts!Live, Artifact
<1>6. PICK s \in Saving : s = saving[w]
  BY <1>1 DEF ArtifactTypes
<1>7. PICK n \in Nat : n = y.rev + 1 /\ y.rev \in Nat /\ y.rev < n /\ ~(n <= y.rev)
  BY DEF Artifact
<1>8. PICK status \in {"owner_reviewed", "requires_review"} :
         status = IF s.confirm THEN "owner_reviewed" ELSE "requires_review"
  OBVIOUS
<1>9. PICK x \in Artifact :
         /\ x = [y EXCEPT !.rev = n, !.decided = s.decided, !.plan = s.plan, !.status = status]
         /\ x.life = y.life /\ x.rev = n /\ x.decided = s.decided /\ x.plan = s.plan
         /\ x.applied = y.applied /\ x.expired = y.expired
  <2>1. PICK a \in Artifact : a = [y EXCEPT !.rev = n]
    BY DEF Artifact
  <2>2. PICK b \in Artifact : b = [a EXCEPT !.decided = s.decided]
    BY DEF Artifact, Saving
  <2>3. PICK c \in Artifact : c = [b EXCEPT !.plan = s.plan]
    BY DEF Artifact, Saving
  <2>4. PICK d \in Artifact : d = [c EXCEPT !.status = status]
    BY DEF Artifact
  <2>5. d = [y EXCEPT !.rev = n, !.decided = s.decided, !.plan = s.plan, !.status = status]
    BY <2>1, <2>2, <2>3, <2>4
  <2>6. /\ d.life = y.life /\ d.rev = n /\ d.decided = s.decided /\ d.plan = s.plan
        /\ d.applied = y.applied /\ d.expired = y.expired
    BY <2>1, <2>2, <2>3, <2>4 DEF Artifact
  <2> QED BY <2>5, <2>6
<1>10. /\ x.life = y.life /\ x.rev = n /\ x.decided = s.decided /\ x.plan = s.plan
       /\ x.applied = y.applied /\ x.expired = y.expired
  BY <1>9
<1>11. PICK z \in Display : z = [v EXCEPT !.rev = n] /\ z.k = v.k /\ z.life = v.life /\ z.rev = n
  <2>1. PICK z \in Display : z = [v EXCEPT !.rev = n]
    BY DEF Display
  <2> QED BY <2>1 DEF Display
<1>12. z.k = v.k /\ z.life = v.life /\ z.rev = n
  BY <1>11
<1>13. row' = [row EXCEPT ![k] = x]
  <2>1. row' = [row EXCEPT ![k] = [row[k] EXCEPT
            !.rev = row[k].rev + 1, !.decided = saving[w].decided, !.plan = saving[w].plan,
            !.status = IF saving[w].confirm THEN "owner_reviewed" ELSE "requires_review"]]
    BY <1>2, <1>3 DEF Artifacts!SaveReview
  <2>2. row' = [row EXCEPT ![k] = [y EXCEPT !.rev = y.rev + 1, !.decided = s.decided,
                                            !.plan = s.plan, !.status = status]]
    BY <1>5, <1>6, <1>8, <2>1
  <2> QED BY <1>7, <1>9, <2>2
<1>14. window' = [window EXCEPT ![w] = z]
  <2>1. window' = [window EXCEPT ![w] = [v EXCEPT !.rev = y.rev + 1]]
    BY <1>2, <1>3, <1>5 DEF Artifacts!SaveReview
  <2> QED BY <1>7, <1>11, <2>1
<1>15. saving' = [saving EXCEPT ![w] = Null] /\ UNCHANGED <<lives, paid, call, stamp>>
  BY DEF Artifacts!SaveReview
<1>16. row'[k] = x /\ x # Null /\ \A m \in Keys \ {k} : row'[m] = row[m]
  BY <1>13, NullIsNone DEF ArtifactTypes
<1>17. /\ window'[w] = z /\ z # Null /\ \A u \in ReviewWindows \ {w} : window'[u] = window[u]
       /\ saving'[w] = Null /\ \A u \in ReviewWindows \ {w} : saving'[u] = saving[u]
  BY <1>14, <1>15, NullIsNone DEF ArtifactTypes
<1>18. ArtifactTypes'
  BY <1>13, <1>14, <1>15 DEF ArtifactTypes
<1>19. \A m \in Keys : row'[m] # Null => row[m] # Null /\ row'[m].life = row[m].life
  BY <1>5, <1>10, <1>16
<1>20. \A m \in Keys : Artifacts!Live(m)' <=> Artifacts!Live(m)
  BY <1>5, <1>10, <1>16 DEF Artifacts!Live
<1>21. LivesCounted' /\ PaymentsCounted'
  <2>1. \A u \in ReviewWindows : window'[u] # Null =>
           \A m \in Keys : m = window'[u].k => window'[u].life <= lives[m]
    BY <1>1, <1>2, <1>12, <1>17 DEF LivesCounted
  <2> QED BY <1>15, <1>19, <1>20, <2>1, CallsRest
<1>22. TaskOf[k] = "cv.parse" => y.decided \subseteq s.decided
  BY <1>1, <1>2, <1>3, <1>4, <1>5, <1>6 DEF ReviewsFollow
<1>23. ReviewsFollow'
  <2> SUFFICES ASSUME NEW u \in ReviewWindows
               PROVE  /\ saving'[u] # Null => window'[u] # Null
                      /\ window'[u] # Null =>
                            \A m \in Keys : m = window'[u].k /\ Artifacts!Live(m)'
                                              /\ row'[m].life = window'[u].life =>
                                /\ window'[u].rev <= row'[m].rev
                                /\ saving'[u] # Null /\ window'[u].rev = row'[m].rev
                                      /\ TaskOf[m] = "cv.parse" =>
                                      row'[m].decided \subseteq saving'[u].decided
    BY DEF ReviewsFollow
  <2>1. CASE u = w
    BY <1>2, <1>3, <1>7, <1>10, <1>12, <1>16, <1>17, <2>1
  <2>2. CASE u # w
    <3>1. saving'[u] = saving[u] /\ window'[u] = window[u] /\ (saving[u] # Null => window[u] # Null)
      BY <1>17, <2>2 DEF ReviewsFollow
    <3>2. ASSUME window[u] # Null, NEW m \in Keys, m = window[u].k, Artifacts!Live(m)',
                 row'[m].life = window[u].life
          PROVE  /\ window[u].rev <= row'[m].rev
                 /\ saving[u] # Null /\ window[u].rev = row'[m].rev /\ TaskOf[m] = "cv.parse" =>
                       row'[m].decided \subseteq saving[u].decided
      <4>1. Artifacts!Live(m)
        BY <1>20, <3>2
      <4>2. CASE m = k
        <5>1. window[u].rev <= y.rev
          BY <1>5, <1>10, <1>16, <3>2, <4>1, <4>2 DEF ReviewsFollow
        <5>2. window[u].rev \in Nat
          BY <3>2, ViewOf DEF Display
        <5>3. window[u].rev <= n /\ window[u].rev # n
          BY <1>7, <5>1, <5>2
        <5> QED BY <1>10, <1>16, <4>2, <5>3
      <4>3. CASE m # k
        BY <1>16, <3>2, <4>1, <4>3 DEF ReviewsFollow
      <4> QED BY <4>2, <4>3
    <3> QED BY <3>1, <3>2
  <2> QED BY <2>1, <2>2
<1>24. PlansAreOfDecisions'
  BY <1>1, <1>6, <1>10, <1>16, <1>17 DEF PlansAreOfDecisions
<1>25. Artifacts!DecisionsKept
  BY <1>5, <1>10, <1>16, <1>22 DEF Artifacts!DecisionsKept
<1>26. Artifacts!AppliedAsConfirmed
  BY <1>5, <1>10, <1>16 DEF Artifacts!AppliedAsConfirmed
<1> QED BY <1>18, <1>21, <1>23, <1>24, <1>25, <1>26 DEF ReviewsKept

LEMMA ApplyCVPreserves ==
    ASSUME ArtifactInv, NEW w \in ReviewWindows, Artifacts!ApplyCV(w)
    PROVE  ArtifactInv' /\ ReviewsKept
<1> USE DEF ArtifactInv
<1>1. /\ window[w] # Null /\ saving[w] = Null /\ stamp' = stamp + 1
      /\ UNCHANGED <<lives, paid, call, window, saving>>
  BY DEF Artifacts!ApplyCV
<1>2. PICK v \in Display : v = window[w] /\ v.k \in Keys
  BY <1>1, ViewOf
<1>3. PICK k \in Keys : k = v.k
  BY <1>2
<1>4. Artifacts!Live(k) /\ row[k].life = v.life /\ row[k].rev = v.rev
  BY <1>2, <1>3 DEF Artifacts!ApplyCV, Artifacts!ReadBack, Artifacts!IsRow
<1>5. PICK y \in Artifact : y = row[k] /\ row[k] # Null /\ y.expired = FALSE
  BY <1>4, RowOf DEF Artifacts!Live, Artifact
<1>6. PICK n \in Nat : n = y.rev + 1 /\ y.rev \in Nat /\ y.rev < n
  BY DEF Artifact
<1>7. y.plan \in Plan /\ y.plan.stamp = stamp
  BY <1>2, <1>3, <1>5 DEF Artifacts!ApplyCV, Artifacts!ProfileAsSeen, Artifact
<1>8. y.plan = [decided |-> y.decided, stamp |-> stamp]
  <2>1. y.plan.decided = y.decided
    BY <1>5, <1>7, NullIsNone DEF PlansAreOfDecisions
  <2> QED BY <1>7, <2>1 DEF Plan
<1>9. PICK x \in Artifact :
         /\ x = [y EXCEPT !.applied = TRUE, !.rev = n]
         /\ x.life = y.life /\ x.rev = n /\ x.decided = y.decided /\ x.plan = y.plan
         /\ x.applied = TRUE /\ x.expired = y.expired
  <2>1. PICK a \in Artifact : a = [y EXCEPT !.applied = TRUE]
    BY DEF Artifact
  <2>2. PICK b \in Artifact : b = [a EXCEPT !.rev = n]
    BY DEF Artifact
  <2>3. b = [y EXCEPT !.applied = TRUE, !.rev = n]
    BY <2>1, <2>2
  <2>4. /\ b.life = y.life /\ b.rev = n /\ b.decided = y.decided /\ b.plan = y.plan
        /\ b.applied = TRUE /\ b.expired = y.expired
    BY <2>1, <2>2 DEF Artifact
  <2> QED BY <2>3, <2>4
<1>10. /\ x.life = y.life /\ x.rev = n /\ x.decided = y.decided /\ x.plan = y.plan
      /\ x.applied = TRUE /\ x.expired = y.expired
  BY <1>9
<1>11. row' = [row EXCEPT ![k] = x]
  <2>1. row' = [row EXCEPT ![k].applied = TRUE, ![k].rev = @ + 1]
    BY <1>2, <1>3 DEF Artifacts!ApplyCV
  <2>2. row' = [row EXCEPT ![k] = [y EXCEPT !.applied = TRUE, !.rev = y.rev + 1]]
    BY <1>5, <2>1 DEF ArtifactTypes, Artifact
  <2> QED BY <1>6, <1>9, <2>2
<1>12. row'[k] = x /\ x # Null /\ \A m \in Keys \ {k} : row'[m] = row[m]
  BY <1>11, NullIsNone DEF ArtifactTypes
<1>13. ArtifactTypes'
  BY <1>1, <1>11 DEF ArtifactTypes
<1>14. \A m \in Keys : row'[m] # Null => row[m] # Null /\ row'[m].life = row[m].life
  BY <1>5, <1>10, <1>12
<1>15. \A m \in Keys : Artifacts!Live(m)' <=> Artifacts!Live(m)
  BY <1>5, <1>10, <1>12 DEF Artifacts!Live
<1>16. LivesCounted' /\ PaymentsCounted'
  <2>1. \A u \in ReviewWindows : window'[u] # Null =>
           \A m \in Keys : m = window'[u].k => window'[u].life <= lives[m]
    BY <1>1 DEF LivesCounted
  <2> QED BY <1>1, <1>14, <1>15, <2>1, CallsRest
<1>17. ReviewsFollow'
  <2> SUFFICES ASSUME NEW u \in ReviewWindows
               PROVE  /\ saving[u] # Null => window[u] # Null
                      /\ window[u] # Null =>
                            \A m \in Keys : m = window[u].k /\ Artifacts!Live(m)'
                                              /\ row'[m].life = window[u].life =>
                                /\ window[u].rev <= row'[m].rev
                                /\ saving[u] # Null /\ window[u].rev = row'[m].rev
                                      /\ TaskOf[m] = "cv.parse" =>
                                      row'[m].decided \subseteq saving[u].decided
    BY <1>1 DEF ReviewsFollow
  <2>1. saving[u] # Null => window[u] # Null
    BY DEF ReviewsFollow
  <2>2. ASSUME window[u] # Null, NEW m \in Keys, m = window[u].k, Artifacts!Live(m)',
               row'[m].life = window[u].life
        PROVE  /\ window[u].rev <= row'[m].rev
               /\ saving[u] # Null /\ window[u].rev = row'[m].rev /\ TaskOf[m] = "cv.parse" =>
                     row'[m].decided \subseteq saving[u].decided
    <3>1. Artifacts!Live(m) /\ window[u].rev \in Nat
      BY <1>15, <2>2, ViewOf DEF Display
    <3>2. CASE m = k
      <4>1. window[u].rev <= y.rev
        BY <1>5, <1>10, <1>12, <2>2, <3>1, <3>2 DEF ReviewsFollow
      <4>2. window[u].rev <= n /\ window[u].rev # n
        BY <1>6, <3>1, <4>1
      <4> QED BY <1>10, <1>12, <3>2, <4>2
    <3>3. CASE m # k
      BY <1>12, <2>2, <3>1, <3>3 DEF ReviewsFollow
    <3> QED BY <3>2, <3>3
  <2> QED BY <2>1, <2>2
<1>18. PlansAreOfDecisions'
  BY <1>1, <1>5, <1>10, <1>12 DEF PlansAreOfDecisions
<1>19. Artifacts!DecisionsKept
  BY <1>5, <1>10, <1>12 DEF Artifacts!DecisionsKept
<1>20. Artifacts!AppliedAsConfirmed
  BY <1>5, <1>8, <1>12 DEF Artifacts!AppliedAsConfirmed
<1> QED BY <1>13, <1>16, <1>17, <1>18, <1>19, <1>20 DEF ReviewsKept

\* Every step of a document, and of its review.
LEMMA ArtifactsProceed ==
    ArtifactInv /\ [Artifacts!Next]_(Artifacts!parseVars) => ArtifactInv' /\ ReviewsKept
<1> SUFFICES ASSUME ArtifactInv, [Artifacts!Next]_(Artifacts!parseVars)
             PROVE  ArtifactInv' /\ ReviewsKept
  OBVIOUS
<1>1. CASE UNCHANGED Artifacts!parseVars
  <2>1. UNCHANGED <<row, lives, paid, call, window, saving, stamp>>
    BY <1>1 DEF Artifacts!parseVars
  <2>2. ArtifactInv'
    BY <2>1 DEF ArtifactInv, ArtifactTypes, LivesCounted, PaymentsCounted, ReviewsFollow,
                PlansAreOfDecisions, Artifacts!Live
  <2>3. ReviewsKept
    BY <2>1 DEF ReviewsKept, Artifacts!DecisionsKept, Artifacts!AppliedAsConfirmed
  <2> QED BY <2>2, <2>3
<1>2. CASE Artifacts!Next
  <2>1. ASSUME NEW c \in Calls, Artifacts!ModelStep(c) PROVE ArtifactInv' /\ ReviewsKept
    BY <2>1, BeginPreserves, ProviderPreserves, CompletePreserves
       DEF Artifacts!ModelStep, Artifacts!Execute, Artifacts!GenerateDescription
  <2>2. ASSUME NEW w \in ReviewWindows, Artifacts!Review(w) PROVE ArtifactInv' /\ ReviewsKept
    BY <2>2, OpenReviewPreserves, StartReviewPreserves, SaveReviewPreserves, ReviewFailsPreserves,
       ApplyCVPreserves DEF Artifacts!Review, Artifacts!ReviewCV, Artifacts!ReviewFields
  <2> QED BY <1>2, <2>1, <2>2, ExpirePreserves, PurgePreserves, EditProfilePreserves DEF Artifacts!Next
<1> QED BY <1>1, <1>2

\* Whatever fails, a row pays for one call; what a window decided about a CV stays decided, and
\* what reaches the profile is what its owner confirmed, for the profile as it then was
\* (Store.Begin, SaveReview and ApplyCV).
THEOREM DocumentsAreSound == Artifacts!Spec => Artifacts!ReviewsAreSound
<1>1. Artifacts!Init => ArtifactInv
  BY ArtifactsStart
<1>2. ArtifactInv /\ [Artifacts!Next]_(Artifacts!parseVars) =>
         ArtifactInv' /\ [Artifacts!PaidOnce' /\ Artifacts!DecisionsKept
                          /\ Artifacts!AppliedAsConfirmed]_(Artifacts!parseVars)
  <2>1. ArtifactInv' => Artifacts!PaidOnce'
    BY PaidNow, PTL
  <2> QED BY <2>1, ArtifactsProceed DEF ReviewsKept
<1> QED BY <1>1, <1>2, PTL DEF Artifacts!Spec, Artifacts!ReviewsAreSound

-----------------------------------------------------------------------------
(* The run of the hiring process                                           *)

\* Vacancies and documents take steps of their own or rest.
LEMMA EachTakesItsSteps ==
    [InterviewsRun \/ VacanciesRun \/ ApplicationRuns
     \/ CVRun \/ GenerationRun \/ ProfileRun \/ ChoicesRun]_all =>
       [Vacancies!Next]_(Vacancies!vacancyVars) /\ [Artifacts!Next]_(Artifacts!parseVars)
<1> SUFFICES ASSUME [InterviewsRun \/ VacanciesRun \/ ApplicationRuns
                     \/ CVRun \/ GenerationRun \/ ProfileRun \/ ChoicesRun]_all
             PROVE  [Vacancies!Next]_(Vacancies!vacancyVars) /\ [Artifacts!Next]_(Artifacts!parseVars)
  OBVIOUS
<1>1. Vacancies!Next \/ UNCHANGED vacancyVars
  BY DEF InterviewsRun, VacanciesRun, ApplicationRuns, CVRun, GenerationRun, ProfileRun, ChoicesRun,
         all, hiringVars
<1>2. Artifacts!Next \/ UNCHANGED artifactVars
  BY DEF InterviewsRun, VacanciesRun, ApplicationRuns, CVRun, GenerationRun, ProfileRun, ChoicesRun,
         all, documentVars
<1> QED
  BY <1>1, <1>2 DEF vacancyVars, artifactVars, Vacancies!vacancyVars, Vacancies!recruiting,
                    Vacancies!applying, Artifacts!parseVars

\* In every behaviour of the run vacancies are published, and questions answered, as they were
\* checked.
THEOREM HiringIsChecked == MCSpec => PublishedAndAnsweredAsChecked
<1>1. MCInit => VacancyInv
  BY VacanciesStart DEF MCInit
<1>2. VacancyInv => Vacancies!PublishedWasReviewed
  BY DEF VacancyInv
<1>3. VacancyInv /\ [InterviewsRun \/ VacanciesRun \/ ApplicationRuns
                     \/ CVRun \/ GenerationRun \/ ProfileRun \/ ChoicesRun]_all =>
         /\ VacancyInv'
         /\ [(subject \in {"vacancies", "application"} =>
                /\ Vacancies!PublishedWasReviewed' /\ Vacancies!ActiveJobsChecked
                /\ Vacancies!SubmittedToOpenPosting /\ Vacancies!NoAnswerLost)]_vacancyVars
  BY <1>2, EachTakesItsSteps, VacanciesProceed, PTL DEF StepChecked
<1> QED BY <1>1, <1>3, PTL DEF MCSpec, PublishedAndAnsweredAsChecked

\* In every behaviour of the run a row is paid for once, and a review is saved and applied as
\* its owner has seen it.
THEOREM ReviewsHold == MCSpec => ReviewsAreSound
<1>1. MCInit => ArtifactInv
  BY ArtifactsStart DEF MCInit
<1>2. ArtifactInv /\ [InterviewsRun \/ VacanciesRun \/ ApplicationRuns
                      \/ CVRun \/ GenerationRun \/ ProfileRun \/ ChoicesRun]_all =>
         /\ ArtifactInv'
         /\ [(subject \in {"cv", "generation"} =>
                /\ Artifacts!PaidOnce' /\ Artifacts!DecisionsKept
                /\ Artifacts!AppliedAsConfirmed)]_artifactVars
  BY PaidNow, EachTakesItsSteps, ArtifactsProceed, PTL DEF ReviewsKept
<1> QED BY <1>1, <1>2, PTL DEF MCSpec, ReviewsAreSound

=================================================================================
