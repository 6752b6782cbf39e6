---------------------------- MODULE MessagingProofs ----------------------------
(***************************************************************************)
(* For any numbers of candidates, launches, workers, sockets, messages and *)
(* rows of a batch: a campaign reaches a candidate once with each step, is *)
(* metered once and stops when its owner says so; the hub's books agree    *)
(* and a revoked session hears nothing more; and a lease that holds a full *)
(* batch of calls is taken from dead workers only.                         *)
(***************************************************************************)
EXTENDS MCMessaging, TLAPS, FiniteSetTheorems, SequenceTheorems

Enrolments ==
    [status : {"pending", "active", "stopped", "failed", "completed"}, step : Nat \ {0},
     due : BOOLEAN, replied : BOOLEAN]
Launches ==
    [at : {"claim", "list", "mail", "record"}, by : Outreach!Recruiters, key : Outreach!LaunchKeys,
     all : SUBSET Candidates, sent : SUBSET Candidates]
Results == [of : SUBSET Candidates, sent : SUBSET Candidates]
Items == [cand : Candidates, step : Nat, by : Outreach!Recruiters]

RowsOK ==
    /\ campaign \in [status : {"none", "draft", "running", "paused", "completed", "cancelled"},
                     owner : Outreach!Recruiters, key : Outreach!LaunchKeys \cup {None}]
    /\ enrolled \in [Candidates -> Enrolments]
    /\ contact \in [Candidates -> {"cold", "known", "recent"}]
    /\ batches \in [Outreach!LaunchKeys -> Results \cup {None}]
    /\ req \in [Requests -> Launches \cup {Outreach!IdleRequest}]
    /\ due \in [Workers -> SUBSET Items]
    /\ mailed \in [Candidates \X Outreach!Steps -> Nat]
    /\ period \in Outreach!Periods
    /\ used \in [Outreach!Periods -> Nat]
    /\ owed \in [Outreach!Periods -> Nat]

\* Whoever has got past the claim holds the campaign's key.
OneKey ==
    \A r \in Requests : req[r].at \in {"list", "mail", "record"} => req[r].key = campaign.key

FirstStepOnce ==
    \A c \in Candidates :
        /\ mailed[<<c, 1>>] <= 1
        /\ mailed[<<c, 1>>] # 0 => campaign.key # None /\ batches[campaign.key] # None

NoFollowUps ==
    \A c \in Candidates :
        ~enrolled[c].due /\ \A s \in Outreach!Steps : s > 1 => mailed[<<c, s>>] = 0

LaunchIsQuiet ==
    /\ Outreach!InFlight => NoFollowUps
    /\ campaign.status \in {"none", "draft"} =>
          NoFollowUps /\ \A c \in Candidates : enrolled[c].status # "active"

StepsBehind ==
    \A c \in Candidates :
        /\ enrolled[c].status = "active" => enrolled[c].step \in 2..LastStep
        /\ \A s \in Outreach!Steps : s > 1 =>
              mailed[<<c, s>>] <= 1 /\ (mailed[<<c, s>>] # 0 => s < enrolled[c].step)

ChargedOnce ==
    \A p \in Outreach!Periods :
        /\ \A c \in Candidates :
              /\ <<<<"initiate", c>>, p>> \in charged => contact[c] # "cold"
              /\ \A s \in Outreach!Steps : <<<<"followup", c, s>>, p>> \in charged => mailed[<<c, s>>] # 0
        /\ \A k \in Outreach!LaunchKeys : <<<<"bulk", k>>, p>> \in charged => batches[k] # None

AskedFor ==
    /\ consent \in {"asked", "stopped", "handed", "undone"}
    /\ campaign.status = "running" => consent \in {"asked", "undone"}
    /\ \A r \in Requests : req[r].at # "idle" =>
          /\ req[r].by = campaign.owner => consent # "handed"
          /\ campaign.owner = "ann" => req[r].by = "ann"

OutreachInv == RowsOK /\ OneKey /\ FirstStepOnce /\ LaunchIsQuiet /\ StepsBehind /\ ChargedOnce /\ AskedFor

-----------------------------------------------------------------------------
\* The instances count as this module does.
LEMMA SameCount ==
    ASSUME NEW S
    PROVE  Outreach!Cardinality(S) = Cardinality(S) /\ Live!Cardinality(S) = Cardinality(S)
BY Zenon DEF Outreach!Cardinality, Live!Cardinality, Cardinality

-----------------------------------------------------------------------------
(* The meter                                                               *)

\* What ConsumeOutreachTx does to the books, and that it counts what is owed
\* when the key is new.
LEMMA Consumed ==
    ASSUME RowsOK, NEW n \in Nat, NEW key, Outreach!Consume(n, key)
    PROVE  /\ used' \in [Outreach!Periods -> Nat] /\ owed' \in [Outreach!Periods -> Nat]
           /\ UNCHANGED <<plan, period>>
           /\ charged' \subseteq charged \cup {<<key, period>>}
           /\ used' # used => used'[period] <= plan.limit
           /\ n = 0 => charged' = charged
           /\ n = 0 \/ <<key, period>> \notin charged =>
                 used'[period] = used[period] + (owed'[period] - owed[period])
<1>1. /\ period \in Outreach!Periods /\ used[period] \in Nat /\ owed[period] \in Nat
      /\ used \in [Outreach!Periods -> Nat] /\ owed \in [Outreach!Periods -> Nat]
  BY DEF RowsOK
<1>2. UNCHANGED <<plan, period>>
  BY DEF Outreach!Consume
<1>3. /\ owed' = IF plan.managed THEN [owed EXCEPT ![period] = @ + n] ELSE owed
      /\ used' = used \/ (used' = [used EXCEPT ![period] = @ + n] /\ used[period] + n <= plan.limit)
      /\ charged' \subseteq charged \cup {<<key, period>>}
      /\ n = 0 => charged' = charged /\ used' = used
      /\ ~plan.managed => used' = used
      /\ n # 0 /\ plan.managed /\ <<key, period>> \notin charged =>
            used' = [used EXCEPT ![period] = @ + n]
  BY DEF Outreach!Consume
<1>4. used' \in [Outreach!Periods -> Nat] /\ owed' \in [Outreach!Periods -> Nat]
  BY <1>1, <1>3
<1>5. used' # used => used'[period] <= plan.limit
  BY <1>1, <1>3
<1>6. n = 0 \/ <<key, period>> \notin charged =>
          used'[period] = used[period] + (owed'[period] - owed[period])
  BY <1>1, <1>3
<1> QED BY <1>2, <1>3, <1>4, <1>5, <1>6

-----------------------------------------------------------------------------
(* Steps of the outreach preserve the invariant                            *)

\* Single columns of an enrolment, and a row of the table.
LEMMA RepliedField ==
    ASSUME NEW e \in Enrolments
    PROVE  /\ [e EXCEPT !.replied = TRUE] \in Enrolments
           /\ [e EXCEPT !.replied = TRUE].status = e.status
           /\ [e EXCEPT !.replied = TRUE].step = e.step
           /\ [e EXCEPT !.replied = TRUE].due = e.due
BY DEF Enrolments

LEMMA DueField ==
    ASSUME NEW e \in Enrolments, NEW b \in BOOLEAN
    PROVE  /\ [e EXCEPT !.due = b] \in Enrolments
           /\ [e EXCEPT !.due = b].status = e.status
           /\ [e EXCEPT !.due = b].step = e.step
           /\ [e EXCEPT !.due = b].due = b
BY DEF Enrolments

LEMMA EndedRow ==
    ASSUME NEW e \in Enrolments, NEW st \in {"stopped", "failed"}
    PROVE  /\ [e EXCEPT !.status = st, !.due = FALSE] \in Enrolments
           /\ [e EXCEPT !.status = st, !.due = FALSE].status = st
           /\ [e EXCEPT !.status = st, !.due = FALSE].step = e.step
           /\ [e EXCEPT !.status = st, !.due = FALSE].due = FALSE
BY DEF Enrolments

LEMMA EnrolmentWritten ==
    ASSUME RowsOK, NEW c \in Candidates, NEW row \in Enrolments,
           enrolled' = [enrolled EXCEPT ![c] = row]
    PROVE  /\ enrolled' \in [Candidates -> Enrolments]
           /\ enrolled'[c] = row /\ \A d \in Candidates \ {c} : enrolled'[d] = enrolled[d]
BY DEF RowsOK

LEMMA OutreachInit ==
    ASSUME Outreach!Init
    PROVE  OutreachInv
<1> USE MessagingAssumption DEF Outreach!Init
<1>1. RowsOK
  BY DEF RowsOK, Outreach!Enrolment, Enrolments, Outreach!Recruiters, Outreach!Periods
<1>2. OneKey /\ AskedFor
  BY DEF OneKey, AskedFor, Outreach!IdleRequest
<1>3. FirstStepOnce /\ LaunchIsQuiet /\ StepsBehind
  BY DEF FirstStepOnce, LaunchIsQuiet, NoFollowUps, StepsBehind, Outreach!Enrolment, Outreach!Steps
<1>4. ChargedOnce
  BY DEF ChargedOnce
<1> QED BY <1>1, <1>2, <1>3, <1>4 DEF OutreachInv

\* Steps on the plan and on what the company has to do with a candidate.
LEMMA AroundCampaign ==
    ASSUME OutreachInv,
           \/ Outreach!SetSubscription \/ Outreach!WindowPasses \/ Outreach!CreateSequence
           \/ \E c \in Candidates :
                Outreach!Initiate(c) \/ Outreach!CooldownEnds(c) \/ Outreach!Apply(c)
    PROVE  OutreachInv' /\ UNCHANGED <<campaign, enrolled, batches, req, due, mailed, consent>>
<1>1. UNCHANGED <<campaign, enrolled, batches, req, due, mailed, consent>>
  BY DEF Outreach!SetSubscription, Outreach!WindowPasses, Outreach!CreateSequence, Outreach!Initiate,
     Outreach!CooldownEnds, Outreach!Apply, Outreach!campaignVars
<1>2. OneKey' /\ FirstStepOnce' /\ LaunchIsQuiet' /\ StepsBehind' /\ AskedFor'
  BY <1>1 DEF OutreachInv, OneKey, FirstStepOnce, LaunchIsQuiet, NoFollowUps, StepsBehind, AskedFor,
     Outreach!InFlight
<1>3. CASE Outreach!SetSubscription \/ Outreach!WindowPasses \/ Outreach!CreateSequence
  <2>1. UNCHANGED <<used, owed, charged, contact>> /\ period' \in Outreach!Periods
    BY <1>3 DEF OutreachInv, RowsOK, Outreach!SetSubscription, Outreach!WindowPasses,
       Outreach!CreateSequence, Outreach!meterVars
  <2>2. RowsOK' /\ ChargedOnce'
    BY <1>1, <2>1 DEF OutreachInv, RowsOK, ChargedOnce
  <2> QED BY <1>1, <1>2, <2>2 DEF OutreachInv
<1>4. ASSUME NEW c \in Candidates, Outreach!CooldownEnds(c) \/ Outreach!Apply(c)
      PROVE  RowsOK' /\ ChargedOnce'
  <2>1. /\ UNCHANGED <<used, owed, charged, period>>
        /\ contact' = [contact EXCEPT ![c] = "known"]
    BY <1>4 DEF Outreach!CooldownEnds, Outreach!Apply, Outreach!meterVars
  <2> QED BY <1>1, <2>1 DEF OutreachInv, RowsOK, ChargedOnce
<1>5. ASSUME NEW c \in Candidates, Outreach!Initiate(c)
      PROVE  RowsOK' /\ ChargedOnce'
  <2>1. PICK n \in {0, 1} : Outreach!Consume(n, <<"initiate", c>>)
    BY <1>5 DEF Outreach!Initiate
  <2>2. /\ used' \in [Outreach!Periods -> Nat] /\ owed' \in [Outreach!Periods -> Nat]
        /\ UNCHANGED <<plan, period>>
        /\ charged' \subseteq charged \cup {<<<<"initiate", c>>, period>>}
    BY <2>1, Consumed DEF OutreachInv
  <2>3. contact' = [contact EXCEPT ![c] = "recent"]
    BY <1>5 DEF Outreach!Initiate
  <2>4. RowsOK'
    BY <1>1, <2>2, <2>3 DEF OutreachInv, RowsOK
  <2>5. ChargedOnce'
    BY <1>1, <2>2, <2>3 DEF OutreachInv, RowsOK, ChargedOnce
  <2> QED BY <2>4, <2>5
<1> QED BY <1>1, <1>2, <1>3, <1>4, <1>5 DEF OutreachInv

\* A candidate answers; a step falls due, when no launch is under way.
LEMMA ReplyOrDue ==
    ASSUME OutreachInv, NEW c \in Candidates, Outreach!Reply(c) \/ Outreach!BecomeDue(c)
    PROVE  OutreachInv'
<1>1. /\ UNCHANGED <<campaign, batches, req, due, contact, mailed, consent>>
      /\ UNCHANGED <<used, owed, charged, period>>
  BY DEF Outreach!Reply, Outreach!BecomeDue, Outreach!meterVars
<1>2. /\ enrolled' \in [Candidates -> Enrolments]
      /\ \A d \in Candidates : /\ enrolled'[d].status = enrolled[d].status
                               /\ enrolled'[d].step = enrolled[d].step
  <2>1. enrolled[c] \in Enrolments
    BY DEF OutreachInv, RowsOK
  <2>2. CASE Outreach!Reply(c)
    <3> DEFINE row == [enrolled[c] EXCEPT !.replied = TRUE]
    <3>1. enrolled' = [enrolled EXCEPT ![c] = row]
      BY <2>2 DEF Outreach!Reply
    <3>2. row \in Enrolments /\ row.status = enrolled[c].status /\ row.step = enrolled[c].step
      BY <2>1, RepliedField
    <3> HIDE DEF row
    <3>3. /\ enrolled' \in [Candidates -> Enrolments]
          /\ enrolled'[c] = row /\ \A d \in Candidates \ {c} : enrolled'[d] = enrolled[d]
      BY <3>1, <3>2, EnrolmentWritten DEF OutreachInv
    <3> QED BY <3>2, <3>3
  <2>3. CASE Outreach!BecomeDue(c)
    <3> DEFINE row == [enrolled[c] EXCEPT !.due = TRUE]
    <3>1. enrolled' = [enrolled EXCEPT ![c] = row]
      BY <2>3 DEF Outreach!BecomeDue
    <3>2. row \in Enrolments /\ row.status = enrolled[c].status /\ row.step = enrolled[c].step
      BY <2>1, DueField
    <3> HIDE DEF row
    <3>3. /\ enrolled' \in [Candidates -> Enrolments]
          /\ enrolled'[c] = row /\ \A d \in Candidates \ {c} : enrolled'[d] = enrolled[d]
      BY <3>1, <3>2, EnrolmentWritten DEF OutreachInv
    <3> QED BY <3>2, <3>3
  <2> QED BY <2>2, <2>3
<1>3. LaunchIsQuiet'
  <2>1. CASE Outreach!Reply(c)
    <3>1. \A d \in Candidates : enrolled'[d].due = enrolled[d].due
      BY <2>1 DEF OutreachInv, RowsOK, Enrolments, Outreach!Reply
    <3> QED BY <1>1, <1>2, <3>1 DEF OutreachInv, LaunchIsQuiet, NoFollowUps, Outreach!InFlight
  <2>2. CASE Outreach!BecomeDue(c)
    <3>1. ~Outreach!InFlight /\ campaign.status \notin {"none", "draft"}
      BY <2>2 DEF OutreachInv, LaunchIsQuiet, Outreach!BecomeDue
    <3> QED BY <1>1, <3>1 DEF LaunchIsQuiet, Outreach!InFlight
  <2> QED BY <2>1, <2>2
<1>4. RowsOK'
  BY <1>1, <1>2 DEF OutreachInv, RowsOK
<1>5. OneKey' /\ FirstStepOnce' /\ StepsBehind' /\ AskedFor' /\ ChargedOnce'
  BY <1>1, <1>2 DEF OutreachInv, OneKey, FirstStepOnce, StepsBehind, AskedFor, ChargedOnce
<1> QED BY <1>3, <1>4, <1>5 DEF OutreachInv

\* The owner's decisions about a campaign.
LEMMA CampaignDecided ==
    ASSUME OutreachInv,
           \/ Outreach!CreateCampaign \/ Outreach!Pause \/ Outreach!Resume \/ Outreach!Cancel
           \/ Outreach!HandOver \/ Outreach!CompleteCampaigns
    PROVE  OutreachInv'
<1> DEFINE St == {"none", "draft", "running", "paused", "completed", "cancelled"}
<1>1. UNCHANGED <<batches, req, due, contact, mailed, used, owed, charged, period>>
  BY DEF Outreach!CreateCampaign, Outreach!Pause, Outreach!Resume, Outreach!Cancel,
     Outreach!HandOver, Outreach!CompleteCampaigns, Outreach!meterVars
<1>2. /\ campaign.key \in Outreach!LaunchKeys \cup {None}
      /\ campaign.owner \in Outreach!Recruiters /\ campaign.status \in St
  BY DEF OutreachInv, RowsOK
<1>3. PICK st \in St, o \in Outreach!Recruiters :
          /\ campaign' = [status |-> st, owner |-> o, key |-> campaign.key]
          /\ st \in {"none", "draft"} => campaign.status \in {"none", "draft"}
          /\ st = "running" => o = campaign.owner
          /\ o = campaign.owner \/ (o = "bob" /\ campaign.owner = "ann")
  <2>1. ASSUME NEW st \in St, campaign' = [campaign EXCEPT !.status = st]
        PROVE  campaign' = [status |-> st, owner |-> campaign.owner, key |-> campaign.key]
    BY <2>1 DEF OutreachInv, RowsOK
  <2>2. CASE Outreach!CreateCampaign
    BY <1>2, <2>1, <2>2 DEF Outreach!CreateCampaign
  <2>3. CASE Outreach!Pause
    BY <1>2, <2>1, <2>3 DEF Outreach!Pause
  <2>4. CASE Outreach!Resume
    BY <1>2, <2>1, <2>4 DEF Outreach!Resume
  <2>5. CASE Outreach!Cancel
    BY <1>2, <2>1, <2>5 DEF Outreach!Cancel
  <2>6. CASE Outreach!HandOver
    <3>1. /\ campaign' = [campaign EXCEPT !.owner = "bob", !.status = Outreach!Paused(@)]
          /\ campaign.owner = "ann" /\ campaign.status # "none"
      BY <2>6 DEF Outreach!HandOver
    <3>2. /\ Outreach!Paused(campaign.status) \in St \ {"running"}
          /\ Outreach!Paused(campaign.status) \in {"none", "draft"} => campaign.status \in {"none", "draft"}
      BY <1>2 DEF Outreach!Paused
    <3>3. campaign' = [status |-> Outreach!Paused(campaign.status), owner |-> "bob", key |-> campaign.key]
      BY <3>1 DEF OutreachInv, RowsOK
    <3> QED BY <3>1, <3>2, <3>3 DEF Outreach!Recruiters
  <2>7. CASE Outreach!CompleteCampaigns
    BY <1>2, <2>1, <2>7 DEF Outreach!CompleteCampaigns
  <2> QED BY <2>2, <2>3, <2>4, <2>5, <2>6, <2>7
<1>4. /\ enrolled' \in [Candidates -> Enrolments]
      /\ \A c \in Candidates : /\ enrolled'[c].step = enrolled[c].step
                               /\ enrolled'[c].due => enrolled[c].due
                               /\ enrolled'[c].status = "active" => enrolled[c].status = "active"
  <2>1. CASE enrolled' = enrolled
    BY <2>1 DEF OutreachInv, RowsOK
  <2>2. CASE Outreach!Cancel
    <3>1. \A c \in Candidates : enrolled'[c] =
              IF enrolled[c].status \in {"pending", "active"}
              THEN [enrolled[c] EXCEPT !.status = "stopped", !.due = FALSE] ELSE enrolled[c]
      BY <2>2 DEF Outreach!Cancel
    <3>2. \A c \in Candidates : enrolled[c] \in Enrolments
      BY DEF OutreachInv, RowsOK
    <3>3. ASSUME NEW c \in Candidates
          PROVE  /\ enrolled'[c] \in Enrolments
                 /\ enrolled'[c].step = enrolled[c].step
                 /\ enrolled'[c].due => enrolled[c].due
                 /\ enrolled'[c].status = "active" => enrolled[c].status = "active"
      <4>1. CASE enrolled[c].status \in {"pending", "active"}
        <5> DEFINE row == [enrolled[c] EXCEPT !.status = "stopped", !.due = FALSE]
        <5>1. enrolled'[c] = row
          BY <3>1, <4>1
        <5>2. enrolled[c] \in Enrolments
          BY <3>2
        <5>3. /\ row \in Enrolments /\ row.status = "stopped"
              /\ row.step = enrolled[c].step /\ row.due = FALSE
          BY <5>2, EndedRow
        <5> HIDE DEF row
        <5> QED BY <5>1, <5>3
      <4>2. CASE enrolled[c].status \notin {"pending", "active"}
        BY <3>1, <3>2, <4>2
      <4> QED BY <4>1, <4>2
    <3>4. enrolled' = [c \in Candidates |-> enrolled'[c]]
      BY <2>2 DEF Outreach!Cancel
    <3> QED BY <3>3, <3>4
  <2> QED BY <2>1, <2>2 DEF Outreach!CreateCampaign, Outreach!Pause, Outreach!Resume,
       Outreach!HandOver, Outreach!CompleteCampaigns
<1>5. AskedFor'
  <2>1. CASE campaign'.owner = campaign.owner
    <3>1. CASE consent' = consent /\ (campaign'.status = "running" => campaign.status = "running")
      BY <1>1, <2>1, <3>1 DEF OutreachInv, AskedFor
    <3>2. CASE consent' = "asked"
      BY <1>1, <2>1, <3>2 DEF OutreachInv, AskedFor
    <3>3. CASE consent' = "stopped" /\ campaign'.status # "running"
      BY <1>1, <2>1, <3>3 DEF OutreachInv, AskedFor
    <3>4. CASE Outreach!CreateCampaign
      <4>1. campaign' = [campaign EXCEPT !.status = "draft"] /\ consent' = consent
        BY <3>4 DEF Outreach!CreateCampaign
      <4>2. campaign'.status = "draft"
        BY <4>1 DEF OutreachInv, RowsOK
      <4> QED BY <3>1, <4>1, <4>2
    <3>5. CASE Outreach!Pause
      <4>1. campaign' = [campaign EXCEPT !.status = "paused"] /\ consent' = "stopped"
        BY <3>5 DEF Outreach!Pause
      <4>2. campaign'.status = "paused"
        BY <4>1 DEF OutreachInv, RowsOK
      <4> QED BY <3>3, <4>1, <4>2
    <3>6. CASE Outreach!Resume
      BY <3>2, <3>6 DEF Outreach!Resume
    <3>7. CASE Outreach!Cancel
      <4>1. campaign' = [campaign EXCEPT !.status = "cancelled"] /\ consent' = "stopped"
        BY <3>7 DEF Outreach!Cancel
      <4>2. campaign'.status = "cancelled"
        BY <4>1 DEF OutreachInv, RowsOK
      <4> QED BY <3>3, <4>1, <4>2
    <3>8. CASE Outreach!HandOver
      <4>1. campaign'.owner = "bob" /\ campaign.owner = "ann"
        BY <3>8 DEF OutreachInv, RowsOK, Outreach!HandOver
      <4> QED BY <2>1, <4>1
    <3>9. CASE Outreach!CompleteCampaigns
      <4>1. campaign' = [campaign EXCEPT !.status = "completed"] /\ consent' = consent
        BY <3>9 DEF Outreach!CompleteCampaigns
      <4>2. campaign'.status = "completed"
        BY <4>1 DEF OutreachInv, RowsOK
      <4> QED BY <3>1, <4>1, <4>2
    <3> QED BY <3>4, <3>5, <3>6, <3>7, <3>8, <3>9
  <2>2. CASE campaign'.owner # campaign.owner
    <3>1. campaign'.owner = "bob" /\ campaign.owner = "ann" /\ campaign'.status # "running"
      BY <1>3, <2>2
    <3>2. consent' \in {"asked", "stopped", "handed", "undone"}
      BY DEF OutreachInv, AskedFor, Outreach!CreateCampaign, Outreach!Pause, Outreach!Resume,
         Outreach!Cancel, Outreach!HandOver, Outreach!CompleteCampaigns
    <3> QED BY <1>1, <3>1, <3>2 DEF OutreachInv, AskedFor
  <2> QED BY <2>1, <2>2
<1>6. RowsOK'
  BY <1>1, <1>2, <1>3, <1>4 DEF OutreachInv, RowsOK
<1>7. OneKey' /\ FirstStepOnce' /\ ChargedOnce'
  BY <1>1, <1>3 DEF OutreachInv, OneKey, FirstStepOnce, ChargedOnce
<1>8. StepsBehind'
  BY <1>1, <1>4 DEF OutreachInv, StepsBehind
<1>9. LaunchIsQuiet'
  BY <1>1, <1>3, <1>4 DEF OutreachInv, LaunchIsQuiet, NoFollowUps, Outreach!InFlight
<1> QED BY <1>5, <1>6, <1>7, <1>8, <1>9 DEF OutreachInv

\* A worker's pass, apart from the step it sends: an enrolment may end or wait.
LEMMA PassGoesOn ==
    ASSUME OutreachInv, NEW w \in Workers,
           \/ Outreach!StartPass(w)
           \/ \E i \in due[w] :
                \/ Outreach!StopOnReply(w, i) \/ Outreach!RenderFails(w, i)
                \/ Outreach!StopClosed(w, i) \/ Outreach!Postpone(w, i) \/ Outreach!Skip(w, i)
    PROVE  /\ OutreachInv'
           /\ UNCHANGED <<campaign, batches, req, contact, mailed, consent, used, owed, charged, plan, period>>
<1>1. UNCHANGED <<campaign, batches, req, contact, mailed, consent, used, owed, charged, plan, period>>
  BY DEF Outreach!StartPass, Outreach!StopOnReply, Outreach!RenderFails, Outreach!StopClosed,
     Outreach!Postpone, Outreach!Skip, Outreach!meterVars
<1>2. due' \in [Workers -> SUBSET Items]
  <2>1. CASE Outreach!StartPass(w)
    <3> DEFINE items == {[cand |-> c, step |-> enrolled[c].step, by |-> campaign.owner] :
                            c \in {x \in Candidates : Outreach!IsDue(x)}}
    <3>1. due' = [due EXCEPT ![w] = items]
      BY <2>1 DEF Outreach!StartPass
    <3>2. items \subseteq Items
      BY DEF OutreachInv, RowsOK, Enrolments, Items
    <3> QED BY <3>1, <3>2 DEF OutreachInv, RowsOK
  <2>2. CASE \E i \in due[w] : Outreach!Drop(w, i)
    BY <2>2 DEF OutreachInv, RowsOK, Outreach!Drop
  <2> QED BY <2>1, <2>2 DEF Outreach!StopOnReply, Outreach!RenderFails, Outreach!StopClosed,
       Outreach!Postpone, Outreach!Skip
<1>3. /\ enrolled' \in [Candidates -> Enrolments]
      /\ \A c \in Candidates : /\ enrolled'[c].step = enrolled[c].step
                               /\ enrolled'[c].due => enrolled[c].due
                               /\ enrolled'[c].status = "active" => enrolled[c].status = "active"
  <2>1. CASE enrolled' = enrolled
    BY <2>1 DEF OutreachInv, RowsOK
  <2>2. ASSUME NEW i \in due[w], NEW st \in {"stopped", "failed"},
               enrolled' = [enrolled EXCEPT ![i.cand] = [enrolled[i.cand] EXCEPT !.status = st, !.due = FALSE]]
        PROVE  <1>3!1 /\ <1>3!2
    <3>1. i.cand \in Candidates
      BY <2>2 DEF OutreachInv, RowsOK, Items
    <3>2. enrolled[i.cand] \in Enrolments
      BY <3>1 DEF OutreachInv, RowsOK
    <3> DEFINE row == [enrolled[i.cand] EXCEPT !.status = st, !.due = FALSE]
    <3>3. /\ row \in Enrolments /\ row.status = st
          /\ row.step = enrolled[i.cand].step /\ row.due = FALSE
      BY <3>2, EndedRow
    <3>4. /\ enrolled' \in [Candidates -> Enrolments] /\ enrolled'[i.cand] = row
          /\ \A d \in Candidates \ {i.cand} : enrolled'[d] = enrolled[d]
      BY <2>2, <3>1, <3>3, EnrolmentWritten DEF OutreachInv
    <3> HIDE DEF row
    <3> QED BY <3>3, <3>4
  <2>3. ASSUME NEW i \in due[w],
               enrolled' = [enrolled EXCEPT ![i.cand] = [enrolled[i.cand] EXCEPT !.due = FALSE]]
        PROVE  <1>3!1 /\ <1>3!2
    <3>1. i.cand \in Candidates
      BY <2>3 DEF OutreachInv, RowsOK, Items
    <3>2. enrolled[i.cand] \in Enrolments
      BY <3>1 DEF OutreachInv, RowsOK
    <3> DEFINE row == [enrolled[i.cand] EXCEPT !.due = FALSE]
    <3>3. /\ row \in Enrolments /\ row.status = enrolled[i.cand].status
          /\ row.step = enrolled[i.cand].step /\ row.due = FALSE
      BY <3>2, DueField
    <3>4. /\ enrolled' \in [Candidates -> Enrolments] /\ enrolled'[i.cand] = row
          /\ \A d \in Candidates \ {i.cand} : enrolled'[d] = enrolled[d]
      BY <2>3, <3>1, <3>3, EnrolmentWritten DEF OutreachInv
    <3> HIDE DEF row
    <3> QED BY <3>3, <3>4
  <2>4. CASE \E i \in due[w] : Outreach!StopOnReply(w, i) \/ Outreach!RenderFails(w, i)
                                  \/ Outreach!StopClosed(w, i)
    <3>1. PICK i \in due[w], st \in {"stopped", "failed"} :
              enrolled' = [enrolled EXCEPT ![i.cand].status = st, ![i.cand].due = FALSE]
      BY <2>4 DEF Outreach!StopOnReply, Outreach!RenderFails, Outreach!StopClosed
    <3>2. enrolled' = [enrolled EXCEPT ![i.cand] = [enrolled[i.cand] EXCEPT !.status = st, !.due = FALSE]]
      <4>1. i.cand \in Candidates
        BY DEF OutreachInv, RowsOK, Items
      <4> QED BY <3>1, <4>1 DEF OutreachInv, RowsOK, Enrolments
    <3> QED BY <2>2, <3>2
  <2>5. CASE \E i \in due[w] : Outreach!Postpone(w, i)
    BY <2>3, <2>5 DEF Outreach!Postpone
  <2> QED BY <2>1, <2>4, <2>5 DEF Outreach!StartPass, Outreach!Skip
<1>4. RowsOK'
  BY <1>1, <1>2, <1>3 DEF OutreachInv, RowsOK
<1>5. OneKey' /\ FirstStepOnce' /\ ChargedOnce' /\ AskedFor'
  BY <1>1 DEF OutreachInv, OneKey, FirstStepOnce, ChargedOnce, AskedFor
<1>6. StepsBehind'
  BY <1>1, <1>3 DEF OutreachInv, StepsBehind
<1>7. LaunchIsQuiet'
  BY <1>1, <1>3 DEF OutreachInv, LaunchIsQuiet, NoFollowUps, Outreach!InFlight
<1> QED BY <1>1, <1>4, <1>5, <1>6, <1>7 DEF OutreachInv

-----------------------------------------------------------------------------
(* Launches                                                                *)

\* A launch that goes on or gives up: no row of the campaign is written, except that it may
\* claim the key.
LEMMA LaunchMoves ==
    ASSUME OutreachInv, NEW r \in Requests, NEW next \in Launches \cup {Outreach!IdleRequest},
           req' = [req EXCEPT ![r] = next],
           UNCHANGED <<enrolled, batches, due, contact, mailed, used, owed, charged, period>>,
           campaign' \in [status : {campaign.status}, owner : {campaign.owner},
                          key : Outreach!LaunchKeys \cup {None}],
           campaign'.key = campaign.key \/ (campaign.key = None /\ campaign'.key # None),
           next.at \in {"list", "mail", "record"} => next.key = campaign'.key,
           next.at = "idle" \/ Outreach!InFlight \/ campaign.status = "draft",
           next.at = "idle" \/ (next.by = campaign.owner /\ consent' = "asked") \/
              (req[r].at # "idle" /\ next.by = req[r].by),
           consent' \in {consent, "asked"}
    PROVE  OutreachInv'
<1> USE MessagingAssumption
<1>1. /\ campaign'.status = campaign.status /\ campaign'.owner = campaign.owner
      /\ campaign'.key \in Outreach!LaunchKeys \cup {None}
  OBVIOUS
<1>2. req' \in [Requests -> Launches \cup {Outreach!IdleRequest}]
      /\ req'[r] = next /\ \A q \in Requests \ {r} : req'[q] = req[q]
  BY DEF OutreachInv, RowsOK
<1>3. RowsOK'
  BY <1>1, <1>2 DEF OutreachInv, RowsOK
<1>4. OneKey'
  <2> SUFFICES ASSUME NEW q \in Requests, req'[q].at \in {"list", "mail", "record"}
               PROVE  req'[q].key = campaign'.key
    BY DEF OneKey
  <2>1. CASE q = r
    BY <1>2, <2>1
  <2>2. CASE q # r
    <3>1. req'[q] = req[q] /\ req[q].key = campaign.key
      BY <1>2, <2>2 DEF OutreachInv, OneKey
    <3>2. req[q] \in Launches
      BY <1>2, <2>2 DEF OutreachInv, RowsOK, Outreach!IdleRequest
    <3>3. campaign.key # None
      BY <3>1, <3>2 DEF Launches
    <3> QED BY <3>1, <3>3
  <2> QED BY <2>1, <2>2
<1>5. FirstStepOnce'
  BY <1>1 DEF OutreachInv, FirstStepOnce
<1>6. LaunchIsQuiet'
  <2>1. Outreach!InFlight' => Outreach!InFlight \/ campaign.status = "draft"
    BY <1>2 DEF Outreach!InFlight
  <2>2. NoFollowUps' <=> NoFollowUps
    BY DEF NoFollowUps
  <2> QED BY <1>1, <2>1, <2>2 DEF OutreachInv, LaunchIsQuiet
<1>7. StepsBehind' /\ ChargedOnce'
  BY DEF OutreachInv, StepsBehind, ChargedOnce
<1>8. AskedFor'
  <2>1. /\ campaign'.status = "running" => consent' \in {"asked", "undone"}
        /\ consent' \in {"asked", "stopped", "handed", "undone"}
    BY <1>1 DEF OutreachInv, AskedFor
  <2>2. ASSUME NEW q \in Requests, req'[q].at # "idle"
        PROVE  /\ req'[q].by = campaign.owner => consent' # "handed"
               /\ campaign.owner = "ann" => req'[q].by = "ann"
    <3>1. CASE q # r
      BY <1>2, <2>2, <3>1 DEF OutreachInv, AskedFor
    <3>2. CASE q = r
      BY <1>2, <2>2, <3>2 DEF OutreachInv, AskedFor
    <3> QED BY <3>1, <3>2
  <2> QED BY <1>1, <2>1, <2>2 DEF AskedFor
<1> QED BY <1>3, <1>4, <1>5, <1>6, <1>7, <1>8 DEF OutreachInv

LEMMA LaunchRow ==
    ASSUME RowsOK, NEW r \in Requests, req[r].at # "idle"
    PROVE  req[r] \in Launches
BY DEF RowsOK, Outreach!IdleRequest

\* Reading, claiming and listing, and a launch that ends without a result.
LEMMA LaunchProceeds ==
    ASSUME OutreachInv, NEW r \in Requests,
           \/ Outreach!ReadCampaign(r) \/ Outreach!ClaimKey(r) \/ Outreach!ListPending(r)
           \/ Outreach!GiveUp(r)
    PROVE  OutreachInv' /\ UNCHANGED <<contact, mailed, used, owed, charged, plan, period>>
<1> USE MessagingAssumption
<1>1. UNCHANGED <<enrolled, batches, due, contact, mailed, used, owed, charged, plan, period>>
  BY DEF Outreach!ReadCampaign, Outreach!ClaimKey, Outreach!ListPending, Outreach!GiveUp,
     Outreach!meterVars
<1>2. campaign \in [status : {campaign.status}, owner : {campaign.owner},
                    key : Outreach!LaunchKeys \cup {None}]
  BY DEF OutreachInv, RowsOK
<1>3. CASE Outreach!ReadCampaign(r)
  <2>1. PICK k \in Outreach!LaunchKeys :
            /\ k[1] = campaign.owner /\ campaign.key \in {None, k}
            /\ req' = [req EXCEPT ![r] =
                  [at |-> IF campaign.key = None THEN "claim" ELSE "list",
                   by |-> campaign.owner, key |-> k, all |-> {}, sent |-> {}]]
    BY <1>3 DEF Outreach!ReadCampaign
  <2> DEFINE next == [at |-> IF campaign.key = None THEN "claim" ELSE "list",
                      by |-> campaign.owner, key |-> k, all |-> {}, sent |-> {}]
  <2>2. next \in Launches
    BY <2>1 DEF OutreachInv, RowsOK, Launches
  <2>3. /\ UNCHANGED campaign /\ campaign.status = "draft" /\ consent' = "asked"
    BY <1>3 DEF Outreach!ReadCampaign
  <2>4. next.at \in {"list", "mail", "record"} => next.key = campaign'.key
    BY <2>1, <2>3
  <2>5. next.by = campaign.owner
    OBVIOUS
  <2> HIDE DEF next
  <2> QED BY <1>1, <1>2, <2>1, <2>2, <2>3, <2>4, <2>5, LaunchMoves DEF next
<1>4. CASE Outreach!ClaimKey(r)
  <2> DEFINE next == [req[r] EXCEPT !.at = "list"]
  <2>1. req[r] \in Launches /\ req[r].at = "claim"
    BY <1>4, LaunchRow DEF OutreachInv, Outreach!ClaimKey
  <2>2. next \in Launches /\ next.at = "list" /\ next.key = req[r].key /\ next.by = req[r].by
    BY <2>1 DEF Launches
  <2>3. req' = [req EXCEPT ![r] = next] /\ UNCHANGED consent
    BY <1>4 DEF Outreach!ClaimKey
  <2>4. Outreach!InFlight
    BY <2>1 DEF Outreach!InFlight
  <2>5. req[r].key \in Outreach!LaunchKeys
    BY <2>1 DEF Launches
  <2>6. /\ campaign' \in [status : {campaign.status}, owner : {campaign.owner},
                          key : Outreach!LaunchKeys \cup {None}]
        /\ campaign'.key = campaign.key \/ (campaign.key = None /\ campaign'.key # None)
        /\ campaign'.key = req[r].key
    <3>1. CASE campaign.key = None /\ campaign' = [campaign EXCEPT !.key = req[r].key]
      <4>1. campaign' = [status |-> campaign.status, owner |-> campaign.owner, key |-> req[r].key]
        BY <1>2, <3>1
      <4> QED BY <2>5, <3>1, <4>1
    <3>2. CASE campaign.key = req[r].key /\ UNCHANGED campaign
      BY <1>2, <3>2
    <3> QED BY <1>4, <3>1, <3>2 DEF Outreach!ClaimKey
  <2> HIDE DEF next
  <2> QED BY <1>1, <2>1, <2>2, <2>3, <2>4, <2>6, LaunchMoves
<1>5. CASE Outreach!ListPending(r)
  <2> DEFINE pending == {c \in Candidates : enrolled[c].status = "pending"}
             next == [req[r] EXCEPT !.at = "mail", !.all = pending]
  <2>1. req[r] \in Launches /\ req[r].at = "list" /\ UNCHANGED <<campaign, consent>>
    BY <1>5, LaunchRow DEF OutreachInv, Outreach!ListPending
  <2>2. next \in Launches /\ next.at = "mail" /\ next.key = req[r].key /\ next.by = req[r].by
    BY <2>1 DEF Launches
  <2>3. req' = [req EXCEPT ![r] = next]
    BY <1>5 DEF Outreach!ListPending
  <2>4. Outreach!InFlight /\ req[r].key = campaign.key
    BY <2>1 DEF OutreachInv, OneKey, Outreach!InFlight
  <2> HIDE DEF next
  <2> QED BY <1>1, <1>2, <2>1, <2>2, <2>3, <2>4, LaunchMoves
<1>6. CASE Outreach!GiveUp(r)
  <2>1. /\ req' = [req EXCEPT ![r] = Outreach!IdleRequest] /\ UNCHANGED <<campaign, consent>>
        /\ Outreach!IdleRequest.at = "idle"
    BY <1>6 DEF Outreach!GiveUp, Outreach!IdleRequest
  <2> QED BY <1>1, <1>2, <2>1, LaunchMoves
<1> QED BY <1>1, <1>3, <1>4, <1>5, <1>6

\* What the meter proves of a step.
Metered ==
    /\ used'[period] = used[period] + (owed'[period] - owed[period])
    /\ used' # used => used'[period] <= plan.limit

LEMMA NotMetered ==
    ASSUME OutreachInv, UNCHANGED <<used, owed>>
    PROVE  Metered
BY DEF OutreachInv, RowsOK, Metered

\* The transaction of BulkInMail: a known key is answered from its batch; a
\* new one mails the first step, which nobody has had.
LEMMA BulkMails ==
    ASSUME OutreachInv, NEW r \in Requests, Outreach!BulkInMail(r)
    PROVE  /\ OutreachInv' /\ Metered
           /\ \A c \in Candidates, s \in Outreach!Steps :
                 s > 1 => mailed'[<<c, s>>] = mailed[<<c, s>>]
           /\ consent \in {"asked", "stopped", "undone"}
<1> USE MessagingAssumption
<1> DEFINE q == req[r]
           sent == {c \in q.all : contact[c] # "recent"}
           cold == {c \in sent : contact[c] = "cold"}
<1>1. /\ q \in Launches /\ q.at = "mail" /\ UNCHANGED <<campaign, enrolled, due, consent>>
  BY LaunchRow DEF OutreachInv, Outreach!BulkInMail
<1>2. Outreach!InFlight /\ q.key = campaign.key /\ q.key \in Outreach!LaunchKeys
      /\ q.all \subseteq Candidates /\ q.key # None
  BY <1>1 DEF OutreachInv, OneKey, Outreach!InFlight, Launches
<1>3. /\ campaign \in [status : {campaign.status}, owner : {campaign.owner},
                       key : Outreach!LaunchKeys \cup {None}]
      /\ consent \in {"asked", "stopped", "undone"}
  BY <1>1 DEF OutreachInv, RowsOK, AskedFor, Outreach!BulkInMail
<1>4. ASSUME NEW T \in SUBSET Candidates,
             req' = [req EXCEPT ![r].at = "record", ![r].sent = T]
      PROVE  \E next \in Launches : /\ req' = [req EXCEPT ![r] = next]
                                    /\ next.at = "record" /\ next.key = q.key /\ next.by = q.by
  <2> DEFINE next == [q EXCEPT !.at = "record", !.sent = T]
  <2>1. next \in Launches /\ next.at = "record" /\ next.key = q.key /\ next.by = q.by
    BY <1>1 DEF Launches
  <2>2. req' = [req EXCEPT ![r] = next]
    BY <1>4
  <2> QED BY <2>1, <2>2
<1>5. CASE /\ Outreach!Known(q.key)
           /\ req' = [req EXCEPT ![r].at = "record", ![r].sent = batches[q.key].sent]
           /\ UNCHANGED <<batches, plan, period, charged, used, owed, contact, window, mailed>>
  <2>1. batches[q.key] \in Results
    BY <1>2, <1>5 DEF OutreachInv, RowsOK, Outreach!Known
  <2>2. PICK next \in Launches : /\ req' = [req EXCEPT ![r] = next]
                                 /\ next.at = "record" /\ next.key = q.key /\ next.by = q.by
    BY <1>4, <1>5, <2>1 DEF Results
  <2>3. UNCHANGED <<campaign, enrolled, batches, due, contact, mailed, used, owed, charged, period, consent>>
    BY <1>1, <1>5
  <2>4. next.by = req[r].by /\ req[r].at # "idle" /\ next.key = campaign'.key
    BY <1>1, <1>2, <2>2, <2>3
  <2>5. OutreachInv'
    BY <1>2, <1>3, <2>2, <2>3, <2>4, LaunchMoves
  <2> QED BY <1>3, <2>3, <2>5, NotMetered
<1>6. CASE /\ ~Outreach!Known(q.key)
           /\ Outreach!Consume(Cardinality(cold), <<"bulk", q.key>>)
           /\ batches' = [batches EXCEPT ![q.key] = [of |-> q.all, sent |-> sent]]
           /\ req' = [req EXCEPT ![r].at = "record", ![r].sent = sent]
           /\ contact' = [c \in Candidates |-> IF c \in sent THEN "recent" ELSE contact[c]]
           /\ mailed' = [x \in DOMAIN mailed |-> mailed[x] + (IF x[1] \in sent /\ x[2] = 1 THEN 1 ELSE 0)]
  <2>1. PICK next \in Launches : /\ req' = [req EXCEPT ![r] = next]
                                 /\ next.at = "record" /\ next.key = q.key /\ next.by = q.by
    <3>1. sent \in SUBSET Candidates
      BY <1>2
    <3> QED BY <1>4, <1>6, <3>1
  <2>2. Cardinality(cold) \in Nat
    <3>1. cold \subseteq Candidates
      BY <1>2
    <3> QED BY <3>1, FS_Subset, FS_CardinalityType
  <2>3. batches[campaign.key] = None /\ \A c \in Candidates : mailed[<<c, 1>>] = 0
    <3>1. batches[campaign.key] = None
      BY <1>2, <1>6 DEF Outreach!Known
    <3>2. ASSUME NEW c \in Candidates PROVE mailed[<<c, 1>>] = 0
      BY <3>1 DEF OutreachInv, FirstStepOnce
    <3> QED BY <3>1, <3>2
  <2>4. <<<<"bulk", q.key>>, period>> \notin charged
    BY <1>2, <2>3 DEF OutreachInv, RowsOK, ChargedOnce
  <2>5. /\ used' \in [Outreach!Periods -> Nat] /\ owed' \in [Outreach!Periods -> Nat]
        /\ UNCHANGED <<plan, period>>
        /\ charged' \subseteq charged \cup {<<<<"bulk", q.key>>, period>>}
        /\ Metered
    BY <1>6, <2>2, <2>4, Consumed DEF OutreachInv, Metered
  <2>6. /\ batches' \in [Outreach!LaunchKeys -> Results \cup {None}]
        /\ batches'[campaign.key] # None
        /\ \A k \in Outreach!LaunchKeys : batches[k] # None => batches'[k] # None
    <3>1. [of |-> q.all, sent |-> sent] \in Results
      BY <1>2 DEF Results
    <3>2. [of |-> q.all, sent |-> sent] # None
      BY <3>1 DEF Results
    <3> QED BY <1>2, <1>6, <3>1, <3>2 DEF OutreachInv, RowsOK
  <2>7. /\ mailed' \in [Candidates \X Outreach!Steps -> Nat]
        /\ \A c \in Candidates :
              /\ mailed'[<<c, 1>>] <= 1
              /\ \A s \in Outreach!Steps : /\ s > 1 => mailed'[<<c, s>>] = mailed[<<c, s>>]
                                           /\ mailed[<<c, s>>] # 0 => mailed'[<<c, s>>] # 0
    <3>1. mailed \in [Candidates \X Outreach!Steps -> Nat] /\ 1 \in Outreach!Steps
      BY DEF OutreachInv, RowsOK, Outreach!Steps
    <3>2. \A c \in Candidates, s \in Outreach!Steps :
              mailed'[<<c, s>>] = mailed[<<c, s>>] + (IF c \in sent /\ s = 1 THEN 1 ELSE 0)
      BY <1>6, <3>1
    <3>3. mailed' \in [Candidates \X Outreach!Steps -> Nat]
      BY <1>6, <3>1
    <3>4. \A c \in Candidates, s \in Outreach!Steps : s \in Int /\ mailed[<<c, s>>] \in Nat
      BY <3>1 DEF Outreach!Steps
    <3> HIDE DEF sent
    <3> QED BY <2>3, <3>1, <3>2, <3>3, <3>4
  <2>8. /\ contact' \in [Candidates -> {"cold", "known", "recent"}]
        /\ \A c \in Candidates : contact'[c] = "cold" => contact[c] = "cold"
    BY <1>6 DEF OutreachInv, RowsOK
  <2>9. /\ req' \in [Requests -> Launches \cup {Outreach!IdleRequest}]
        /\ req'[r] = next /\ \A p \in Requests \ {r} : req'[p] = req[p]
    BY <2>1 DEF OutreachInv, RowsOK
  <2>10. RowsOK'
    BY <1>1, <2>5, <2>6, <2>7, <2>8, <2>9 DEF OutreachInv, RowsOK
  <2>11. OneKey' /\ AskedFor'
    BY <1>1, <1>2, <2>1, <2>9 DEF OutreachInv, OneKey, AskedFor
  <2>12. FirstStepOnce'
    BY <1>1, <1>2, <2>6, <2>7 DEF FirstStepOnce
  <2>13. LaunchIsQuiet' /\ StepsBehind'
    BY <1>1, <1>2, <2>7 DEF OutreachInv, LaunchIsQuiet, NoFollowUps, StepsBehind
  <2>14. ChargedOnce'
    <3>1. \A p \in Outreach!Periods, c \in Candidates :
              <<<<"initiate", c>>, p>> \in charged' => <<<<"initiate", c>>, p>> \in charged
      BY <2>5
    <3>2. \A p \in Outreach!Periods, c \in Candidates, s \in Outreach!Steps :
              <<<<"followup", c, s>>, p>> \in charged' => <<<<"followup", c, s>>, p>> \in charged
      BY <2>5
    <3>3. \A p \in Outreach!Periods, k \in Outreach!LaunchKeys :
              <<<<"bulk", k>>, p>> \in charged' => <<<<"bulk", k>>, p>> \in charged \/ k = q.key
      BY <2>5
    <3>4. \A p \in Outreach!Periods, c \in Candidates :
              <<<<"initiate", c>>, p>> \in charged' => contact'[c] # "cold"
      BY <2>8, <3>1 DEF OutreachInv, ChargedOnce
    <3>5. \A p \in Outreach!Periods, c \in Candidates, s \in Outreach!Steps :
              <<<<"followup", c, s>>, p>> \in charged' => mailed'[<<c, s>>] # 0
      BY <2>7, <3>2 DEF OutreachInv, ChargedOnce
    <3>6. \A p \in Outreach!Periods, k \in Outreach!LaunchKeys :
              <<<<"bulk", k>>, p>> \in charged' => batches'[k] # None
      BY <1>2, <2>6, <3>3 DEF OutreachInv, ChargedOnce
    <3> QED BY <3>4, <3>5, <3>6 DEF ChargedOnce
  <2>15. OutreachInv'
    BY <2>10, <2>11, <2>12, <2>13, <2>14 DEF OutreachInv
  <2>16. \A c \in Candidates, s \in Outreach!Steps : s > 1 => mailed'[<<c, s>>] = mailed[<<c, s>>]
    BY <2>7
  <2> QED BY <1>3, <2>5, <2>15, <2>16
<1>7. \/ /\ Outreach!Known(q.key) /\ batches[q.key].of = q.all
         /\ req' = [req EXCEPT ![r].at = "record", ![r].sent = batches[q.key].sent]
         /\ UNCHANGED <<batches, Outreach!meterVars, contact, window, mailed>>
      \/ /\ ~Outreach!Known(q.key)
         /\ Outreach!Consume(Outreach!Cardinality(cold), <<"bulk", q.key>>)
         /\ batches' = [batches EXCEPT ![q.key] = [of |-> q.all, sent |-> sent]]
         /\ req' = [req EXCEPT ![r].at = "record", ![r].sent = sent]
         /\ contact' = [c \in Candidates |-> IF c \in sent THEN "recent" ELSE contact[c]]
         /\ mailed' = [x \in DOMAIN mailed |-> mailed[x] + (IF x[1] \in sent /\ x[2] = 1 THEN 1 ELSE 0)]
  BY Zenon DEF Outreach!BulkInMail, Outreach!Record
<1>8. UNCHANGED <<batches, Outreach!meterVars, contact, window, mailed>> =>
          UNCHANGED <<batches, plan, period, charged, used, owed, contact, window, mailed>>
  BY DEF Outreach!meterVars
<1> HIDE DEF sent, cold, q
<1>9. Outreach!Cardinality(cold) = Cardinality(cold)
  BY SameCount
<1> QED BY <1>5, <1>6, <1>7, <1>8, <1>9

LEMMA LaunchedRow ==
    ASSUME NEW c, NEW S
    PROVE  /\ Outreach!Launched(c, S) \in Enrolments
           /\ ~Outreach!Launched(c, S).due
           /\ Outreach!Launched(c, S).status = "active" =>
                 Outreach!Launched(c, S).step \in 2..LastStep
BY MessagingAssumption DEF Outreach!Launched, Outreach!Enrolment, Enrolments

\* The last transaction of a launch writes to rows that were never followed up,
\* for an owner who asked for it: what was stopped meanwhile goes on.
LEMMA LaunchRecorded ==
    ASSUME OutreachInv, NEW r \in Requests, Outreach!RecordLaunch(r)
    PROVE  OutreachInv' /\ UNCHANGED <<mailed, used, owed>>
<1> USE MessagingAssumption
<1>1. /\ UNCHANGED <<batches, due, contact, mailed, used, owed, charged, period>>
      /\ req[r].at = "record" /\ req[r].by = campaign.owner
      /\ req' = [req EXCEPT ![r] = Outreach!IdleRequest]
      /\ consent' = IF consent = "stopped" THEN "undone" ELSE consent
  BY DEF Outreach!RecordLaunch, Outreach!WriteOver, Outreach!meterVars
<1>2. req[r] \in Launches /\ Outreach!InFlight /\ req[r].key = campaign.key
  BY <1>1, LaunchRow DEF OutreachInv, OneKey, Outreach!InFlight
<1>3. NoFollowUps /\ consent' \in {"asked", "undone"}
  BY <1>1, <1>2 DEF OutreachInv, LaunchIsQuiet, AskedFor
<1>4. /\ campaign' \in [status : {"completed", "running"}, owner : {campaign.owner},
                        key : {campaign.key}]
      /\ campaign.owner \in Outreach!Recruiters
      /\ campaign.key \in Outreach!LaunchKeys \cup {None}
  BY <1>2 DEF OutreachInv, RowsOK, Outreach!RecordLaunch
<1>5. /\ enrolled' \in [Candidates -> Enrolments]
      /\ \A c \in Candidates :
            /\ ~enrolled'[c].due
            /\ enrolled'[c].status = "active" => enrolled'[c].step \in 2..LastStep
  <2>1. \A c \in Candidates : enrolled[c] \in Enrolments /\ ~enrolled[c].due
    BY <1>3 DEF OutreachInv, RowsOK, NoFollowUps
  <2>2. enrolled' = [c \in Candidates |->
            IF c \in req[r].all THEN Outreach!Launched(c, req[r].sent) ELSE enrolled[c]]
    BY DEF Outreach!RecordLaunch
  <2>3. ASSUME NEW c \in Candidates
        PROVE  /\ enrolled'[c] \in Enrolments /\ ~enrolled'[c].due
               /\ enrolled'[c].status = "active" => enrolled'[c].step \in 2..LastStep
    <3>1. CASE c \in req[r].all
      <4>1. enrolled'[c] = Outreach!Launched(c, req[r].sent)
        BY <2>2, <3>1
      <4> QED BY <4>1, LaunchedRow
    <3>2. CASE c \notin req[r].all
      BY <2>1, <2>2, <3>2 DEF OutreachInv, StepsBehind
    <3> QED BY <3>1, <3>2
  <2> QED BY <2>2, <2>3
<1>6. /\ req' \in [Requests -> Launches \cup {Outreach!IdleRequest}]
      /\ req'[r].at = "idle" /\ \A p \in Requests \ {r} : req'[p] = req[p]
  BY <1>1 DEF OutreachInv, RowsOK, Outreach!IdleRequest
<1>7. RowsOK'
  BY <1>1, <1>4, <1>5, <1>6 DEF OutreachInv, RowsOK
<1>8. OneKey' /\ FirstStepOnce' /\ AskedFor'
  BY <1>1, <1>3, <1>4, <1>6 DEF OutreachInv, OneKey, FirstStepOnce, AskedFor
<1>9. LaunchIsQuiet'
  BY <1>1, <1>3, <1>4, <1>5 DEF LaunchIsQuiet, NoFollowUps
<1>10. StepsBehind'
  BY <1>1, <1>3, <1>5 DEF StepsBehind, NoFollowUps
<1>11. ChargedOnce'
  BY <1>1 DEF OutreachInv, ChargedOnce
<1> QED BY <1>1, <1>7, <1>8, <1>9, <1>10, <1>11 DEF OutreachInv

-----------------------------------------------------------------------------
(* Follow-ups                                                              *)

\* The row of a candidate to whom a step has gone.
LEMMA NextStep ==
    ASSUME NEW e \in Enrolments, NEW n \in Nat \ {0}
    PROVE  /\ [e EXCEPT !.step = n, !.due = FALSE] \in Enrolments
           /\ [e EXCEPT !.step = n, !.due = FALSE].step = n
           /\ [e EXCEPT !.status = "completed", !.step = n, !.due = FALSE] \in Enrolments
           /\ [e EXCEPT !.status = "completed", !.step = n, !.due = FALSE].step = n
           /\ [e EXCEPT !.status = "completed", !.step = n, !.due = FALSE].status = "completed"
BY DEF Enrolments

LEMMA AdvancedRow ==
    ASSUME NEW i, enrolled[i.cand] \in Enrolments, i.step \in 2..LastStep
    PROVE  /\ Outreach!Advanced(i) \in Enrolments
           /\ Outreach!Advanced(i).step = i.step + 1
           /\ Outreach!Advanced(i).status = "active" => i.step # LastStep
<1> DEFINE e == enrolled[i.cand]
           n == i.step + 1
           last == [e EXCEPT !.status = "completed", !.step = n, !.due = FALSE]
           next == [e EXCEPT !.step = n, !.due = FALSE]
<1>1. n \in Nat \ {0}
  BY MessagingAssumption
<1>2. /\ last \in Enrolments /\ last.step = n /\ last.status = "completed"
      /\ next \in Enrolments /\ next.step = n
  <2> HIDE DEF n
  <2> QED BY <1>1, NextStep
<1>3. \/ i.step = LastStep /\ Outreach!Advanced(i) = last
      \/ i.step # LastStep /\ Outreach!Advanced(i) = next
  BY DEF Outreach!Advanced
<1> HIDE DEF last, next
<1> QED BY <1>2, <1>3

\* A follow-up goes out for a row read again under its lock: no launch is under way,
\* the step has not been mailed or charged, and the owner wants it.
LEMMA FollowedUp ==
    ASSUME OutreachInv, NEW w \in Workers, NEW i \in due[w], Outreach!FollowUp(w, i)
    PROVE  OutreachInv' /\ Metered /\ consent \in {"asked", "undone"}
<1> USE MessagingAssumption
<1> DEFINE c == i.cand
           s == i.step
<1>1. /\ c \in Candidates /\ i \in Items
      /\ enrolled[c] \in Enrolments /\ enrolled[c].step = s
      /\ campaign.status = "running" /\ enrolled[c].status = "active" /\ enrolled[c].due
  BY DEF OutreachInv, RowsOK, Items, Outreach!FollowUp, Outreach!StillDue, Outreach!IsDue
<1>2. s \in 2..LastStep /\ s \in Outreach!Steps /\ mailed[<<c, s>>] = 0
  <2>1. s \in 2..LastStep
    BY <1>1 DEF OutreachInv, StepsBehind
  <2>2. s \in Outreach!Steps
    BY <2>1 DEF Outreach!Steps
  <2> QED BY <1>1, <2>1, <2>2 DEF OutreachInv, StepsBehind
<1>3. ~Outreach!InFlight /\ consent \in {"asked", "undone"}
  BY <1>1 DEF OutreachInv, LaunchIsQuiet, NoFollowUps, AskedFor
<1>4. /\ UNCHANGED <<campaign, batches, req, consent>>
      /\ enrolled' = [enrolled EXCEPT ![c] = Outreach!Advanced(i)]
      /\ contact' = [contact EXCEPT ![c] = "recent"]
      /\ mailed' = [mailed EXCEPT ![<<c, s>>] = @ + 1]
      /\ due' = [due EXCEPT ![w] = @ \ {i}]
      /\ Outreach!Consume(1, <<"followup", c, s>>)
  BY DEF Outreach!FollowUp, Outreach!Drop, Outreach!FollowUpKey
<1>5. <<<<"followup", c, s>>, period>> \notin charged
  BY <1>1, <1>2 DEF OutreachInv, RowsOK, ChargedOnce
<1>6. /\ used' \in [Outreach!Periods -> Nat] /\ owed' \in [Outreach!Periods -> Nat]
      /\ UNCHANGED <<plan, period>>
      /\ charged' \subseteq charged \cup {<<<<"followup", c, s>>, period>>}
      /\ Metered
  BY <1>4, <1>5, Consumed DEF OutreachInv, Metered
<1>7. /\ enrolled' \in [Candidates -> Enrolments]
      /\ enrolled'[c].step = s + 1
      /\ enrolled'[c].status = "active" => s # LastStep
      /\ \A d \in Candidates \ {c} : enrolled'[d] = enrolled[d]
  <2> DEFINE row == Outreach!Advanced(i)
  <2>1. row \in Enrolments /\ row.step = s + 1 /\ (row.status = "active" => s # LastStep)
    BY <1>1, <1>2, AdvancedRow
  <2>2. enrolled' = [enrolled EXCEPT ![c] = row]
    BY <1>4
  <2> HIDE DEF row
  <2>3. /\ enrolled' \in [Candidates -> Enrolments]
        /\ enrolled'[c] = row /\ \A d \in Candidates \ {c} : enrolled'[d] = enrolled[d]
    BY <1>1, <2>1, <2>2, EnrolmentWritten DEF OutreachInv
  <2> QED BY <2>1, <2>3
<1>8. /\ mailed' \in [Candidates \X Outreach!Steps -> Nat]
      /\ mailed'[<<c, s>>] = 1
      /\ \A d \in Candidates, t \in Outreach!Steps : mailed'[<<d, t>>] = mailed[<<d, t>>] \/ (d = c /\ t = s)
  <2>1. <<c, s>> \in Candidates \X Outreach!Steps
    BY <1>1, <1>2
  <2> HIDE DEF c, s
  <2> QED BY <1>2, <1>4, <2>1 DEF OutreachInv, RowsOK
<1>9. /\ contact' \in [Candidates -> {"cold", "known", "recent"}]
      /\ \A d \in Candidates : contact'[d] = "cold" => contact[d] = "cold"
  BY <1>4 DEF OutreachInv, RowsOK
<1>10. RowsOK'
  <2>1. due' \in [Workers -> SUBSET Items]
    BY <1>4 DEF OutreachInv, RowsOK
  <2> QED BY <1>4, <1>6, <1>7, <1>8, <1>9, <2>1 DEF OutreachInv, RowsOK
<1>11. OneKey' /\ AskedFor'
  BY <1>4 DEF OutreachInv, OneKey, AskedFor
<1>12. FirstStepOnce'
  <2>1. 1 \in Outreach!Steps /\ s # 1
    BY <1>2 DEF Outreach!Steps
  <2>2. \A d \in Candidates : mailed'[<<d, 1>>] = mailed[<<d, 1>>]
    BY <1>8, <2>1
  <2> QED BY <1>4, <2>2 DEF OutreachInv, FirstStepOnce
<1>13. LaunchIsQuiet'
  BY <1>1, <1>3, <1>4 DEF LaunchIsQuiet, Outreach!InFlight
<1>14. StepsBehind'
  <2> SUFFICES ASSUME NEW d \in Candidates
               PROVE  /\ enrolled'[d].status = "active" => enrolled'[d].step \in 2..LastStep
                      /\ \A t \in Outreach!Steps : t > 1 =>
                            mailed'[<<d, t>>] <= 1 /\ (mailed'[<<d, t>>] # 0 => t < enrolled'[d].step)
    BY DEF StepsBehind
  <2>1. CASE d # c
    <3>1. enrolled'[d] = enrolled[d] /\ \A t \in Outreach!Steps : mailed'[<<d, t>>] = mailed[<<d, t>>]
      BY <1>7, <1>8, <2>1
    <3> QED BY <3>1 DEF OutreachInv, StepsBehind
  <2>2. CASE d = c
    <3>1. enrolled'[d].status = "active" => enrolled'[d].step \in 2..LastStep
      BY <1>2, <1>7, <2>2
    <3>2. ASSUME NEW t \in Outreach!Steps, t > 1
          PROVE  mailed'[<<d, t>>] <= 1 /\ (mailed'[<<d, t>>] # 0 => t < enrolled'[d].step)
      <4>1. CASE t = s
        BY <1>2, <1>7, <1>8, <2>2, <4>1
      <4>2. CASE t # s
        <5>1. mailed'[<<d, t>>] = mailed[<<d, t>>]
          BY <1>8, <4>2
        <5>2. mailed[<<d, t>>] <= 1 /\ (mailed[<<d, t>>] # 0 => t < s)
          BY <1>1, <2>2, <3>2 DEF OutreachInv, StepsBehind
        <5>3. t \in Int /\ s \in Int
          BY <1>2 DEF Outreach!Steps
        <5> QED BY <1>7, <2>2, <5>1, <5>2, <5>3
      <4> QED BY <4>1, <4>2
    <3> QED BY <3>1, <3>2
  <2> QED BY <2>1, <2>2
<1>15. ChargedOnce'
  <2>1. \A p \in Outreach!Periods, d \in Candidates :
            <<<<"initiate", d>>, p>> \in charged' => contact'[d] # "cold"
    BY <1>6, <1>9 DEF OutreachInv, ChargedOnce
  <2>2. ASSUME NEW p \in Outreach!Periods, NEW d \in Candidates, NEW t \in Outreach!Steps,
               <<<<"followup", d, t>>, p>> \in charged'
        PROVE  mailed'[<<d, t>>] # 0
    <3>1. CASE d = c /\ t = s
      BY <1>8, <3>1
    <3>2. CASE ~(d = c /\ t = s)
      <4>1. <<<<"followup", d, t>>, p>> \in charged
        BY <1>6, <2>2, <3>2
      <4>2. mailed[<<d, t>>] # 0
        BY <4>1 DEF OutreachInv, ChargedOnce
      <4>3. mailed'[<<d, t>>] = mailed[<<d, t>>]
        BY <1>8, <3>2
      <4> QED BY <4>2, <4>3
    <3> QED BY <3>1, <3>2
  <2>3. \A p \in Outreach!Periods, k \in Outreach!LaunchKeys :
            <<<<"bulk", k>>, p>> \in charged' => batches'[k] # None
    BY <1>4, <1>6 DEF OutreachInv, ChargedOnce
  <2> QED BY <2>1, <2>2, <2>3 DEF ChargedOnce
<1> QED BY <1>3, <1>6, <1>10, <1>11, <1>12, <1>13, <1>14, <1>15 DEF OutreachInv

-----------------------------------------------------------------------------
(* Every step of the outreach                                              *)

\* What goes out was asked for, unless it is the first step of a launch the owner has stopped.
Consented ==
    \A c \in Candidates, s \in Outreach!Steps : mailed'[<<c, s>>] # mailed[<<c, s>>] =>
        consent \in {"asked", "undone"} \/ (consent = "stopped" /\ s = 1)

LEMMA OutreachStep ==
    ASSUME OutreachInv, Outreach!Next
    PROVE  OutreachInv' /\ Metered /\ Consented
<1>1. CASE \/ Outreach!SetSubscription \/ Outreach!WindowPasses \/ Outreach!CreateSequence
           \/ \E c \in Candidates : Outreach!CooldownEnds(c) \/ Outreach!Apply(c)
  <2>1. OutreachInv' /\ UNCHANGED mailed
    BY <1>1, AroundCampaign
  <2>2. UNCHANGED <<used, owed>>
    BY <1>1 DEF Outreach!SetSubscription, Outreach!WindowPasses, Outreach!CreateSequence, Outreach!CooldownEnds,
       Outreach!Apply, Outreach!meterVars
  <2> QED BY <2>1, <2>2, NotMetered DEF Consented
<1>2. ASSUME NEW c \in Candidates, Outreach!Initiate(c)
      PROVE  OutreachInv' /\ Metered /\ Consented
  <2>1. OutreachInv' /\ UNCHANGED mailed
    BY <1>2, AroundCampaign
  <2>2. CASE contact[c] = "cold"
    <3>1. Outreach!Consume(1, <<"initiate", c>>)
      BY <1>2, <2>2 DEF Outreach!Initiate
    <3>2. <<<<"initiate", c>>, period>> \notin charged
      BY <2>2 DEF OutreachInv, RowsOK, ChargedOnce
    <3> QED BY <2>1, <3>1, <3>2, Consumed DEF OutreachInv, Metered, Consented
  <2>3. CASE contact[c] # "cold"
    <3>1. Outreach!Consume(0, <<"initiate", c>>)
      BY <1>2, <2>3 DEF Outreach!Initiate
    <3> QED BY <2>1, <3>1, Consumed DEF OutreachInv, Metered, Consented
  <2> QED BY <2>2, <2>3
<1>3. ASSUME NEW c \in Candidates, Outreach!Reply(c) \/ Outreach!BecomeDue(c)
      PROVE  OutreachInv' /\ Metered /\ Consented
  <2>1. UNCHANGED <<mailed, used, owed>>
    BY <1>3 DEF Outreach!Reply, Outreach!BecomeDue, Outreach!meterVars
  <2> QED BY <1>3, <2>1, ReplyOrDue, NotMetered DEF Consented
<1>4. CASE \/ Outreach!CreateCampaign \/ Outreach!Pause \/ Outreach!Resume \/ Outreach!Cancel
           \/ Outreach!HandOver \/ Outreach!CompleteCampaigns
  <2>1. UNCHANGED <<mailed, used, owed>>
    BY <1>4 DEF Outreach!CreateCampaign, Outreach!Pause, Outreach!Resume, Outreach!Cancel,
       Outreach!HandOver, Outreach!CompleteCampaigns, Outreach!meterVars
  <2> QED BY <1>4, <2>1, CampaignDecided, NotMetered DEF Consented
<1>5. ASSUME NEW r \in Requests, Outreach!Launching(r)
      PROVE  OutreachInv' /\ Metered /\ Consented
  <2>1. CASE \/ Outreach!ReadCampaign(r) \/ Outreach!ClaimKey(r) \/ Outreach!ListPending(r)
             \/ Outreach!GiveUp(r)
    BY <2>1, LaunchProceeds, NotMetered DEF Consented
  <2>2. CASE Outreach!BulkInMail(r)
    BY <2>2, BulkMails DEF Consented, Outreach!Steps
  <2>3. CASE Outreach!RecordLaunch(r)
    BY <2>3, LaunchRecorded, NotMetered DEF Consented
  <2> QED BY <1>5, <2>1, <2>2, <2>3 DEF Outreach!Launching
<1>6. ASSUME NEW w \in Workers, Outreach!StartPass(w) \/ \E i \in due[w] : Outreach!Deliver(w, i)
      PROVE  OutreachInv' /\ Metered /\ Consented
  <2>1. CASE \/ Outreach!StartPass(w)
             \/ \E i \in due[w] :
                  \/ Outreach!StopOnReply(w, i) \/ Outreach!RenderFails(w, i)
                  \/ Outreach!StopClosed(w, i) \/ Outreach!Postpone(w, i) \/ Outreach!Skip(w, i)
    BY <2>1, PassGoesOn, NotMetered DEF Consented
  <2>2. ASSUME NEW i \in due[w], Outreach!FollowUp(w, i)
        PROVE  OutreachInv' /\ Metered /\ Consented
    BY <2>2, FollowedUp DEF Consented
  <2> QED BY <1>6, <2>1, <2>2 DEF Outreach!Deliver
<1> QED BY <1>1, <1>2, <1>3, <1>4, <1>5, <1>6 DEF Outreach!Next

LEMMA OutreachRests ==
    ASSUME OutreachInv, UNCHANGED outreachVars
    PROVE  OutreachInv' /\ Metered /\ Consented
<1>1. OutreachInv'
  BY DEF OutreachInv, RowsOK, OneKey, FirstStepOnce, LaunchIsQuiet, NoFollowUps, StepsBehind,
     ChargedOnce, AskedFor, Outreach!InFlight, outreachVars
<1>2. UNCHANGED <<mailed, used, owed>>
  BY DEF outreachVars
<1> QED BY <1>1, <1>2, NotMetered DEF Consented

\* Rows, keys and deliveries of a campaign agree, whatever launches, workers and
\* the owner do at once.
THEOREM OutreachInvariant == MCSpec => []OutreachInv
<1>1. MCInit => OutreachInv
  BY OutreachInit DEF MCInit
<1>2. OutreachInv /\ [LeaseRuns \/ OutreachRuns \/ LiveRuns]_all => OutreachInv'
  BY OutreachStep, OutreachRests DEF LeaseRuns, OutreachRuns, LiveRuns, all
<1> QED BY <1>1, <1>2, PTL DEF MCSpec

\* A candidate gets a step of a campaign once, however often the launch is repeated
\* or taken up after a crash, and whatever the workers have read.
THEOREM StepsGoOutOnce == MCSpec => []StepSentOnce
<1>1. OutreachInv => StepSentOnce
  <2> SUFFICES ASSUME OutreachInv, NEW x \in DOMAIN mailed
               PROVE  mailed[x] <= 1
    BY DEF StepSentOnce, Outreach!StepSentOnce
  <2>1. PICK c \in Candidates, s \in Outreach!Steps : x = <<c, s>>
    BY DEF OutreachInv, RowsOK
  <2>2. s = 1 \/ s > 1
    BY DEF Outreach!Steps
  <2> QED BY <2>1, <2>2 DEF OutreachInv, FirstStepOnce, StepsBehind
<1> QED BY <1>1, OutreachInvariant, PTL

\* What is sent under a managed plan is counted once and within its limit. After a hand-over
\* nothing goes out until the new owner asks; after a pause or a cancellation no later step,
\* unless a launch that was under way has recorded its result since.
THEOREM OutreachWithinBounds == MCSpec => SentWithinBounds
<1>1. OutreachInv /\ [LeaseRuns \/ OutreachRuns \/ LiveRuns]_all => Metered /\ Consented
  BY OutreachStep, OutreachRests DEF LeaseRuns, OutreachRuns, LiveRuns, all
<1>2. OutreachInv /\ Metered => [/\ used'[period] = used[period] + (owed'[period] - owed[period])
                                 /\ used' # used => used'[period] <= plan.limit]_(Outreach!vars)
  BY DEF Metered
<1>3. OutreachInv /\ Consented =>
          [\A x \in DOMAIN mailed : mailed'[x] # mailed[x] =>
              consent \in {"asked", "undone"} \/ (consent = "stopped" /\ x[2] = 1)]_(Outreach!vars)
  BY DEF OutreachInv, RowsOK, Consented
<1> QED BY <1>1, <1>2, <1>3, OutreachInvariant, PTL
        DEF MCSpec, SentWithinBounds, Outreach!MeteredWithinLimit, Outreach!SentWithConsent

-----------------------------------------------------------------------------
(* Live delivery: the invariant                                            *)

Places ==
    /\ members \in [Live!Channels -> SUBSET Sockets]
    /\ socket \in [Sockets -> {"off", "upgraded", "open", "cut"}]
    /\ writer \in [Sockets -> {"gone", "waiting", "writing", "ending"}]
    /\ queue \in [Sockets -> Seq(BOOLEAN)]
    /\ sendClosed \in [Sockets -> BOOLEAN]
    /\ hubClosed \in BOOLEAN
    /\ letter \in [Letters -> {"none", "unread", "read"}]
    /\ receipts \in [Letters -> Nat]
    /\ \A e \in toSend : e.to \in Live!Channels

\* A socket is registered under its own channel, between its upgrade and its end;
\* before it is registered no writer holds its channel.
InPlace ==
    /\ \A c \in Live!Channels : \A s \in members[c] : ChannelOf[s] = c
    /\ \A s \in Sockets :
          /\ Live!Registered(s) => socket[s] \in {"open", "cut"}
          /\ socket[s] = "upgraded" => writer[s] = "gone"

\* What is marked as broadcast after the revocation waits behind what the writer
\* asked for before.
Asked ==
    \A s \in Sockets :
        /\ \A i \in 1..Len(queue[s]) : queue[s][i] => UserOf[s] \in revoked
        /\ writer[s] = "writing" => queue[s] # <<>> /\ ~queue[s][1]

ReadOnce == \A m \in Letters : receipts[m] <= (IF letter[m] = "read" THEN 1 ELSE 0)

Present == {s \in Sockets : Live!Registered(s)}

Counted ==
    /\ total = Cardinality(Present) /\ total <= MaxTotal
    /\ \A s \in Sockets : Live!Registered(s) <=> ~sendClosed[s]
    /\ hubClosed => total = 0

LiveInv == Places /\ InPlace /\ Asked /\ ReadOnce /\ Counted /\ heard = {}

LEMMA PresentFinite == IsFiniteSet(Present) /\ Cardinality(Present) \in Nat
<1>1. Present \in SUBSET Sockets
  BY DEF Present
<1> QED BY <1>1, FS_Subset, FS_CardinalityType, MessagingAssumption

LEMMA LiveInit ==
    ASSUME Live!Init
    PROVE  LiveInv
<1> USE MessagingAssumption DEF Live!Init
<1>1. Places
  <2>1. queue \in [Sockets -> Seq(BOOLEAN)]
    BY EmptySeq
  <2>2. /\ members \in [Live!Channels -> SUBSET Sockets]
        /\ socket \in [Sockets -> {"off", "upgraded", "open", "cut"}]
        /\ writer \in [Sockets -> {"gone", "waiting", "writing", "ending"}]
    OBVIOUS
  <2>3. sendClosed \in [Sockets -> BOOLEAN] /\ hubClosed \in BOOLEAN
    BY Zenon
  <2>4. /\ letter \in [Letters -> {"none", "unread", "read"}]
        /\ receipts \in [Letters -> Nat]
        /\ \A e \in toSend : e.to \in Live!Channels
    OBVIOUS
  <2> QED BY <2>1, <2>2, <2>3, <2>4 DEF Places
<1>2. InPlace /\ ReadOnce
  BY DEF InPlace, ReadOnce, Live!Registered
<1>3. Asked
  BY DEF Asked
<1>4. \A s \in Sockets : ~Live!Registered(s)
  BY DEF Live!Registered
<1>5. Present = {}
  BY <1>4 DEF Present
<1>6. Counted
  BY <1>4, <1>5, FS_EmptySet DEF Counted
<1> QED BY <1>1, <1>2, <1>3, <1>6 DEF LiveInv

\* Requests write letters and announce them; they touch neither hub nor socket.
LEMMA RequestHandled ==
    ASSUME LiveInv,
           \/ \E s \in Sockets : Live!Typing(s)
           \/ \E m \in Letters : Live!SendMessage(m)
           \/ \E u \in Users : \/ Live!MarkThreadRead(u) \/ Live!Revoke(u)
                               \/ \E S \in SUBSET Letters : Live!MarkMessagesRead(u, S)
    PROVE  LiveInv'
<1> USE MessagingAssumption
<1>1. UNCHANGED <<hubClosed, members, total, socket, writer, queue, sendClosed, heard>>
  BY DEF Live!Typing, Live!SendMessage, Live!MarkThreadRead, Live!Revoke, Live!MarkMessagesRead,
     Live!hub, Live!ends
<1>2. /\ letter' \in [Letters -> {"none", "unread", "read"}]
      /\ receipts' \in [Letters -> Nat]
      /\ ReadOnce'
  <2>1. CASE \E s \in Sockets : Live!Typing(s)
    BY <2>1 DEF LiveInv, Places, ReadOnce, Live!Typing, Live!lettersVars
  <2>2. CASE \E u \in Users : Live!Revoke(u)
    BY <2>2 DEF LiveInv, Places, ReadOnce, Live!Revoke, Live!lettersVars
  <2>3. ASSUME NEW m \in Letters, Live!SendMessage(m)
        PROVE  /\ letter' \in [Letters -> {"none", "unread", "read"}]
               /\ receipts' \in [Letters -> Nat]
               /\ ReadOnce'
    BY <2>3 DEF LiveInv, Places, ReadOnce, Live!SendMessage
  <2>4. ASSUME NEW u \in Users, Live!MarkThreadRead(u)
        PROVE  /\ letter' \in [Letters -> {"none", "unread", "read"}]
               /\ receipts' \in [Letters -> Nat]
               /\ ReadOnce'
    BY <2>4 DEF LiveInv, Places, ReadOnce, Live!MarkThreadRead, Live!UnreadOf
  <2>5. ASSUME NEW u \in Users, NEW S \in SUBSET Letters, Live!MarkMessagesRead(u, S)
        PROVE  /\ letter' \in [Letters -> {"none", "unread", "read"}]
               /\ receipts' \in [Letters -> Nat]
               /\ ReadOnce'
    BY <2>5 DEF LiveInv, Places, ReadOnce, Live!MarkMessagesRead, Live!UnreadOf
  <2> QED BY <2>1, <2>2, <2>3, <2>4, <2>5
<1>3. \A e \in toSend' : e.to \in Live!Channels
  <2>1. \A e \in toSend : e.to \in Live!Channels
    BY DEF LiveInv, Places
  <2>2. \A to \in Live!Channels : \A only, except : Live!Event(to, only, except).to \in Live!Channels
    BY DEF Live!Event
  <2>3. \A u \in Users : /\ u \in Live!Channels /\ Live!Other(u) \in Live!Channels
                         /\ "thread" \in Live!Channels
    BY DEF Live!Channels, Live!Other
  <2>4. ASSUME NEW m \in Letters, Live!SendMessage(m)
        PROVE  \A e \in toSend' : e.to \in Live!Channels
    <3>1. SenderOf[m] \in Users
      OBVIOUS
    <3>2. \A e \in Live!Announcement(m) : e.to \in Live!Channels
      BY <2>2, <2>3, <3>1 DEF Live!Announcement, Live!Everyone
    <3> QED BY <2>1, <2>4, <3>2 DEF Live!SendMessage
  <2>5. CASE \E s \in Sockets : Live!Typing(s)
    BY <2>1, <2>2, <2>5 DEF Live!Typing, Live!Channels
  <2>6. ASSUME NEW u \in Users, Live!MarkThreadRead(u)
        PROVE  \A e \in toSend' : e.to \in Live!Channels
    BY <2>1, <2>2, <2>3, <2>6 DEF Live!MarkThreadRead, Live!Everyone
  <2>7. ASSUME NEW u \in Users, NEW S \in SUBSET Letters, Live!MarkMessagesRead(u, S)
        PROVE  \A e \in toSend' : e.to \in Live!Channels
    <3> DEFINE now == Live!UnreadOf(u, S)
    <3>1. toSend' = toSend \cup {Live!Event("thread", {SenderOf[m]}, {}) : m \in now}
      BY <2>7 DEF Live!MarkMessagesRead
    <3>2. "thread" \in Live!Channels
      BY DEF Live!Channels
    <3> HIDE DEF now
    <3> QED BY <2>1, <2>2, <3>1, <3>2
  <2>8. CASE \E u \in Users : Live!Revoke(u)
    BY <2>1, <2>8 DEF Live!Revoke
  <2> QED BY <2>4, <2>5, <2>6, <2>7, <2>8
<1>4. revoked \subseteq revoked'
  BY DEF Live!Typing, Live!SendMessage, Live!MarkThreadRead, Live!Revoke, Live!MarkMessagesRead
<1>5. Places'
  BY <1>1, <1>2, <1>3 DEF LiveInv, Places
<1>6. InPlace'
  BY <1>1 DEF LiveInv, InPlace, Live!Registered
<1>7. Asked'
  BY <1>1, <1>4 DEF LiveInv, Asked
<1>8. Counted'
  BY <1>1 DEF LiveInv, Counted, Present, Live!Registered
<1> QED BY <1>1, <1>2, <1>5, <1>6, <1>7, <1>8 DEF LiveInv

\* Sockets connect and their writers work; the hub's books rest.
LEMMA SocketWorks ==
    ASSUME LiveInv, NEW s \in Sockets,
           \/ Live!Connect(s) \/ Live!Take(s) \/ Live!Ping(s) \/ Live!ChannelClosed(s)
           \/ Live!WriterReturns(s)
    PROVE  LiveInv'
<1> USE MessagingAssumption
<1> DEFINE Ends == {"off", "upgraded", "open", "cut"}
           Works == {"gone", "waiting", "writing", "ending"}
<1>1. UNCHANGED <<hubClosed, members, total, queue, sendClosed, revoked, letter, receipts, toSend, heard>>
  BY DEF Live!Connect, Live!Take, Live!Ping, Live!ChannelClosed, Live!WriterReturns, Live!hub,
     Live!lettersVars
<1>2. PICK e \in Ends, k \in Works :
          /\ socket' = [socket EXCEPT ![s] = e] /\ writer' = [writer EXCEPT ![s] = k]
          /\ e = "upgraded" => k = "gone"
          /\ socket[s] \in {"open", "cut"} => e \in {"open", "cut"}
          /\ k = "writing" => queue[s] # <<>> /\ UserOf[s] \notin revoked
  <2>1. /\ socket = [socket EXCEPT ![s] = socket[s]] /\ socket[s] \in Ends
        /\ writer = [writer EXCEPT ![s] = writer[s]] /\ writer[s] \in Works
        /\ socket[s] = "upgraded" => writer[s] = "gone"
    BY DEF LiveInv, Places, InPlace
  <2>2. CASE Live!Connect(s)
    BY <2>1, <2>2 DEF Live!Connect
  <2>3. CASE Live!Take(s)
    BY <2>1, <2>3 DEF Live!Take, Live!SessionAllowed
  <2>4. CASE Live!Ping(s) \/ Live!ChannelClosed(s)
    BY <2>1, <2>4 DEF Live!Ping, Live!ChannelClosed
  <2>5. CASE Live!WriterReturns(s)
    <3>1. writer' = [writer EXCEPT ![s] = "gone"]
      BY <2>5 DEF Live!WriterReturns
    <3>2. CASE socket[s] = "open" /\ ChannelOf[s] = "thread"
      <4>1. socket' = [socket EXCEPT ![s] = "cut"]
        BY <2>5, <3>2 DEF Live!WriterReturns
      <4> QED BY <3>1, <4>1
    <3>3. CASE ~(socket[s] = "open" /\ ChannelOf[s] = "thread")
      <4>1. socket' = [socket EXCEPT ![s] = socket[s]]
        BY <2>5, <3>3 DEF Live!WriterReturns
      <4> QED BY <2>1, <3>1, <4>1
    <3> QED BY <3>2, <3>3
  <2> QED BY <2>2, <2>3, <2>4, <2>5
<1>3. /\ socket' \in [Sockets -> Ends] /\ writer' \in [Sockets -> Works]
      /\ socket'[s] = e /\ writer'[s] = k
      /\ \A t \in Sockets \ {s} : socket'[t] = socket[t] /\ writer'[t] = writer[t]
  BY <1>2 DEF LiveInv, Places
<1>4. Places'
  BY <1>1, <1>3 DEF LiveInv, Places
<1>5. InPlace'
  BY <1>1, <1>2, <1>3 DEF LiveInv, InPlace, Live!Registered
<1>6. Asked'
  <2>1. \A t \in Sockets : \A i \in 1..Len(queue'[t]) : queue'[t][i] => UserOf[t] \in revoked'
    BY <1>1 DEF LiveInv, Asked
  <2>2. ASSUME NEW t \in Sockets, writer'[t] = "writing"
        PROVE  queue'[t] # <<>> /\ ~queue'[t][1]
    <3>1. CASE t # s
      BY <1>1, <1>3, <2>2, <3>1 DEF LiveInv, Asked
    <3>2. CASE t = s
      <4>1. queue[s] # <<>> /\ UserOf[s] \notin revoked /\ queue[s] \in Seq(BOOLEAN)
        BY <1>2, <1>3, <2>2, <3>2 DEF LiveInv, Places
      <4>2. 1 \in 1..Len(queue[s])
        BY <4>1
      <4>3. ~queue[s][1]
        BY <4>1, <4>2 DEF LiveInv, Asked
      <4> QED BY <1>1, <3>2, <4>1, <4>3
    <3> QED BY <3>1, <3>2
  <2> QED BY <2>1, <2>2 DEF Asked
<1>7. ReadOnce' /\ Counted'
  BY <1>1 DEF LiveInv, ReadOnce, Counted, Present, Live!Registered
<1> QED BY <1>1, <1>4, <1>5, <1>6, <1>7 DEF LiveInv

\* The head of a queue comes off.
LEMMA QueueShortened ==
    ASSUME NEW q \in Seq(BOOLEAN), q # <<>>, NEW u, \A i \in 1..Len(q) : q[i] => u \in revoked
    PROVE  /\ Tail(q) \in Seq(BOOLEAN) /\ Head(q) = q[1]
           /\ \A i \in 1..Len(Tail(q)) : Tail(q)[i] => u \in revoked
<1>1. /\ Tail(q) \in Seq(BOOLEAN) /\ Len(Tail(q)) = Len(q) - 1 /\ Len(q) \in Nat
      /\ \A i \in 1..Len(Tail(q)) : Tail(q)[i] = q[i + 1]
  BY HeadTailProperties
<1>2. Head(q) = q[1]
  OBVIOUS
<1>3. ASSUME NEW i \in 1..Len(Tail(q)), Tail(q)[i]
      PROVE  u \in revoked
  <2>1. i + 1 \in 1..Len(q) /\ Tail(q)[i] = q[i + 1]
    BY <1>1
  <2> QED BY <1>3, <2>1
<1> QED BY <1>1, <1>2, <1>3

\* The writer writes what it asked for, which was broadcast before the revocation.
LEMMA EventWritten ==
    ASSUME LiveInv, NEW s \in Sockets, Live!Write(s)
    PROVE  LiveInv'
<1> USE MessagingAssumption
<1>1. /\ UNCHANGED <<hubClosed, members, total, socket, sendClosed, revoked, letter, receipts, toSend>>
      /\ writer[s] = "writing" /\ queue[s] \in Seq(BOOLEAN)
  BY DEF LiveInv, Places, Live!Write, Live!hub, Live!lettersVars
<1>2. /\ queue[s] # <<>> /\ ~queue[s][1]
      /\ \A i \in 1..Len(queue[s]) : queue[s][i] => UserOf[s] \in revoked
  BY <1>1 DEF LiveInv, Asked
<1>3. /\ Tail(queue[s]) \in Seq(BOOLEAN) /\ Head(queue[s]) = queue[s][1]
      /\ \A i \in 1..Len(Tail(queue[s])) : Tail(queue[s])[i] => UserOf[s] \in revoked
  BY <1>1, <1>2, QueueShortened
<1>4. UNCHANGED heard
  BY <1>2, <1>3 DEF Live!Write
<1>5. PICK k \in {"waiting", "ending"} : writer' = [writer EXCEPT ![s] = k]
  BY DEF Live!Write
<1>6. queue' = [queue EXCEPT ![s] = Tail(queue[s])]
  BY DEF Live!Write
<1>7. /\ writer' \in [Sockets -> {"gone", "waiting", "writing", "ending"}] /\ writer'[s] = k
      /\ queue' \in [Sockets -> Seq(BOOLEAN)] /\ queue'[s] = Tail(queue[s])
      /\ \A t \in Sockets \ {s} : writer'[t] = writer[t] /\ queue'[t] = queue[t]
  BY <1>3, <1>5, <1>6 DEF LiveInv, Places
<1>8. Places'
  BY <1>1, <1>7 DEF LiveInv, Places
<1>9. InPlace'
  <2>1. socket[s] # "upgraded"
    BY <1>1 DEF LiveInv, InPlace
  <2> QED BY <1>1, <1>7, <2>1 DEF LiveInv, InPlace, Live!Registered
<1>10. Asked'
  <2> SUFFICES ASSUME NEW t \in Sockets
               PROVE  /\ \A i \in 1..Len(queue'[t]) : queue'[t][i] => UserOf[t] \in revoked'
                      /\ writer'[t] = "writing" => queue'[t] # <<>> /\ ~queue'[t][1]
    BY DEF Asked
  <2>1. CASE t = s
    <3>1. queue'[t] = Tail(queue[s]) /\ writer'[t] # "writing" /\ revoked' = revoked
      BY <1>1, <1>7, <2>1
    <3> QED BY <1>3, <2>1, <3>1
  <2>2. CASE t # s
    <3>1. queue'[t] = queue[t] /\ writer'[t] = writer[t] /\ revoked' = revoked
      BY <1>1, <1>7, <2>2
    <3> QED BY <3>1 DEF LiveInv, Asked
  <2> QED BY <2>1, <2>2
<1>11. ReadOnce' /\ Counted'
  BY <1>1 DEF LiveInv, ReadOnce, Counted, Present, Live!Registered
<1> QED BY <1>4, <1>8, <1>9, <1>10, <1>11 DEF LiveInv

\* The hub lets a socket in within its limits.
LEMMA SocketRegistered ==
    ASSUME LiveInv, NEW s \in Sockets, Live!Register(s)
    PROVE  LiveInv'
<1> USE MessagingAssumption
<1>1. /\ UNCHANGED <<hubClosed, revoked, letter, receipts, toSend, heard>>
      /\ socket[s] = "upgraded" /\ ~Live!Registered(s) /\ ChannelOf[s] \in Live!Channels
  BY DEF LiveInv, InPlace, Live!Register, Live!lettersVars
<1>2. CASE /\ socket' = [socket EXCEPT ![s] = "off"]
           /\ UNCHANGED <<members, total, sendClosed, queue, writer>>
  <2>1. Places'
    BY <1>1, <1>2 DEF LiveInv, Places
  <2>2. InPlace'
    BY <1>1, <1>2 DEF LiveInv, Places, InPlace, Live!Registered
  <2>3. Asked' /\ ReadOnce' /\ Counted'
    BY <1>1, <1>2 DEF LiveInv, Asked, ReadOnce, Counted, Present, Live!Registered
  <2> QED BY <1>1, <2>1, <2>2, <2>3 DEF LiveInv
<1>3. CASE /\ ~hubClosed /\ total < MaxTotal
           /\ members' = [members EXCEPT ![ChannelOf[s]] = @ \cup {s}]
           /\ total' = total + 1
           /\ socket' = [socket EXCEPT ![s] = "open"]
           /\ writer' = [writer EXCEPT ![s] = "waiting"]
           /\ queue' = [queue EXCEPT ![s] = <<>>]
           /\ sendClosed' = [sendClosed EXCEPT ![s] = FALSE]
  <2>1. /\ members' \in [Live!Channels -> SUBSET Sockets]
        /\ members'[ChannelOf[s]] = members[ChannelOf[s]] \cup {s}
        /\ \A c \in Live!Channels \ {ChannelOf[s]} : members'[c] = members[c]
    BY <1>1, <1>3 DEF LiveInv, Places
  <2>2. /\ socket' \in [Sockets -> {"off", "upgraded", "open", "cut"}] /\ socket'[s] = "open"
        /\ writer' \in [Sockets -> {"gone", "waiting", "writing", "ending"}] /\ writer'[s] = "waiting"
        /\ \A t \in Sockets \ {s} : socket'[t] = socket[t] /\ writer'[t] = writer[t]
    BY <1>3 DEF LiveInv, Places
  <2>3. queue' \in [Sockets -> Seq(BOOLEAN)] /\ queue'[s] = <<>> /\ Len(queue'[s]) = 0
        /\ \A t \in Sockets \ {s} : queue'[t] = queue[t]
    BY <1>3, EmptySeq DEF LiveInv, Places
  <2>4. sendClosed' \in [Sockets -> BOOLEAN] /\ ~sendClosed'[s]
        /\ \A t \in Sockets \ {s} : sendClosed'[t] = sendClosed[t]
    BY <1>3 DEF LiveInv, Places
  <2>5. Live!Registered(s)' /\ \A t \in Sockets \ {s} : Live!Registered(t)' <=> Live!Registered(t)
    BY <1>1, <2>1 DEF Live!Registered
  <2>6. Places'
    BY <1>1, <2>1, <2>2, <2>3, <2>4 DEF LiveInv, Places
  <2>7. InPlace'
    BY <1>1, <2>1, <2>2, <2>5 DEF LiveInv, InPlace
  <2>8. Asked'
    <3> SUFFICES ASSUME NEW t \in Sockets
                 PROVE  /\ \A i \in 1..Len(queue'[t]) : queue'[t][i] => UserOf[t] \in revoked'
                        /\ writer'[t] = "writing" => queue'[t] # <<>> /\ ~queue'[t][1]
      BY DEF Asked
    <3>1. CASE t = s
      BY <2>2, <2>3, <3>1
    <3>2. CASE t # s
      <4>1. queue'[t] = queue[t] /\ writer'[t] = writer[t] /\ revoked' = revoked
        BY <1>1, <2>2, <2>3, <3>2
      <4> QED BY <4>1 DEF LiveInv, Asked
    <3> QED BY <3>1, <3>2
  <2>9. Counted'
    <3>1. Present' = Present \cup {s} /\ s \notin Present
      BY <1>1, <2>5 DEF Present
    <3>2. Cardinality(Present') = Cardinality(Present) + 1
      BY <3>1, PresentFinite, FS_AddElement
    <3>3. total = Cardinality(Present) /\ \A t \in Sockets : Live!Registered(t) <=> ~sendClosed[t]
      BY DEF LiveInv, Counted
    <3>4. total' = Cardinality(Present') /\ total' <= MaxTotal
      BY <1>3, <3>2, <3>3, PresentFinite
    <3>5. \A t \in Sockets : Live!Registered(t)' <=> ~sendClosed'[t]
      BY <2>4, <2>5, <3>3
    <3> QED BY <1>1, <1>3, <3>4, <3>5 DEF Counted
  <2> QED BY <1>1, <2>6, <2>7, <2>8, <2>9 DEF LiveInv, ReadOnce
<1> QED BY <1>2, <1>3 DEF Live!Register

\* Sockets leave the hub and are counted out once.
LEMMA SocketsLeft ==
    ASSUME LiveInv, NEW S \in SUBSET Present, Live!Leave(S),
           \/ hubClosed' = hubClosed /\ total' = total - Cardinality(S)
           \/ S = Present /\ total' = 0
    PROVE  /\ members' \in [Live!Channels -> SUBSET Sockets]
           /\ sendClosed' \in [Sockets -> BOOLEAN]
           /\ \A c \in Live!Channels : \A s \in members'[c] : ChannelOf[s] = c
           /\ \A s \in Sockets : Live!Registered(s)' <=> Live!Registered(s) /\ s \notin S
           /\ Counted'
<1> USE MessagingAssumption
<1>1. members' = [c \in Live!Channels |-> members[c] \ S]
      /\ sendClosed' = [s \in Sockets |-> sendClosed[s] \/ s \in S]
  BY DEF Live!Leave
<1>2. /\ members' \in [Live!Channels -> SUBSET Sockets]
      /\ \A c \in Live!Channels : \A s \in members'[c] : ChannelOf[s] = c
  BY <1>1 DEF LiveInv, Places, InPlace
<1>3. /\ sendClosed' \in [Sockets -> BOOLEAN]
      /\ \A s \in Sockets : sendClosed'[s] <=> sendClosed[s] \/ s \in S
  BY <1>1, Zenon
<1>4. \A s \in Sockets : Live!Registered(s)' <=> Live!Registered(s) /\ s \notin S
  BY <1>1 DEF Live!Registered
<1>5. Present' = Present \ S
  BY <1>4 DEF Present
<1>6. /\ Cardinality(Present') = Cardinality(Present) - Cardinality(S)
      /\ Cardinality(Present') \in Nat /\ Cardinality(S) \in Nat
  <2>1. Present \cap S = S /\ IsFiniteSet(S) /\ IsFiniteSet(Present \ S)
    BY PresentFinite, FS_Subset, FS_Difference
  <2> QED BY <1>5, <2>1, PresentFinite, FS_Difference, FS_CardinalityType
<1>7. /\ total = Cardinality(Present) /\ total <= MaxTotal /\ (hubClosed => total = 0)
      /\ \A s \in Sockets : Live!Registered(s) <=> ~sendClosed[s]
  BY DEF LiveInv, Counted
<1>8. total' = Cardinality(Present')
  <2>1. CASE S = Present /\ total' = 0
    BY <1>5, <2>1, FS_EmptySet
  <2>2. CASE total' = total - Cardinality(S)
    BY <1>6, <1>7, <2>2
  <2> QED BY <2>1, <2>2
<1>9. total' <= MaxTotal /\ (hubClosed' => total' = 0)
  BY <1>6, <1>7, <1>8, PresentFinite
<1>10. \A s \in Sockets : Live!Registered(s)' <=> ~sendClosed'[s]
  BY <1>3, <1>4, <1>7
<1> QED BY <1>2, <1>3, <1>4, <1>8, <1>9, <1>10 DEF Counted

\* The reader of a socket returns and unregisters it, if the hub has not done so.
LEMMA ReaderReturned ==
    ASSUME LiveInv, NEW s \in Sockets, Live!ReaderReturns(s)
    PROVE  LiveInv'
<1> USE MessagingAssumption
<1>1. UNCHANGED <<hubClosed, writer, queue, revoked, letter, receipts, toSend, heard>>
      /\ socket' = [socket EXCEPT ![s] = "off"]
  BY DEF Live!ReaderReturns, Live!lettersVars
<1>2. PICK S : S = {s} \cap members[ChannelOf[s]]
  OBVIOUS
<1>3. Live!Leave(S) /\ total' = IF Live!Registered(s) THEN total - 1 ELSE total
  BY <1>2 DEF Live!ReaderReturns, Live!Unregister
<1>4. S \in SUBSET Present /\ total' = total - Cardinality(S) /\ (Live!Registered(s) => s \in S)
  <2>1. CASE Live!Registered(s)
    <3>1. S = {s} /\ total' = total - 1 /\ s \in Present
      BY <1>2, <1>3, <2>1 DEF Live!Registered, Present
    <3> QED BY <3>1, FS_Singleton
  <2>2. CASE ~Live!Registered(s)
    <3>1. S = {} /\ total' = total
      BY <1>2, <1>3, <2>2 DEF Live!Registered
    <3>2. total \in Nat
      BY PresentFinite DEF LiveInv, Counted
    <3> QED BY <2>2, <3>1, <3>2, FS_EmptySet
  <2> QED BY <2>1, <2>2
<1>5. /\ members' \in [Live!Channels -> SUBSET Sockets]
      /\ sendClosed' \in [Sockets -> BOOLEAN]
      /\ \A c \in Live!Channels : \A t \in members'[c] : ChannelOf[t] = c
      /\ \A t \in Sockets : Live!Registered(t)' <=> Live!Registered(t) /\ t \notin S
      /\ Counted'
  BY <1>1, <1>3, <1>4, SocketsLeft
<1>6. /\ socket' \in [Sockets -> {"off", "upgraded", "open", "cut"}] /\ socket'[s] = "off"
      /\ \A t \in Sockets \ {s} : socket'[t] = socket[t]
  BY <1>1 DEF LiveInv, Places
<1>7. Places'
  BY <1>1, <1>5, <1>6 DEF LiveInv, Places
<1>8. ~Live!Registered(s)'
  BY <1>4, <1>5
<1>9. InPlace'
  BY <1>1, <1>5, <1>6, <1>8 DEF LiveInv, InPlace
<1>10. Asked' /\ ReadOnce'
  BY <1>1 DEF LiveInv, Asked, ReadOnce
<1> QED BY <1>1, <1>5, <1>7, <1>9, <1>10 DEF LiveInv

\* A full socket is dropped; the others' queues get longer at the end.
LEMMA EventBroadcast ==
    ASSUME LiveInv, NEW e \in toSend, Live!Broadcast(e)
    PROVE  LiveInv'
<1> USE MessagingAssumption
<1>1. PICK slow, fed :
          /\ UNCHANGED <<hubClosed, writer, revoked, letter, receipts, heard>>
          /\ toSend' = toSend \ {e} /\ Live!Leave(slow)
          /\ total' = total - Live!Cardinality(slow)
          /\ socket' = [s \in Sockets |-> IF s \in slow THEN "cut" ELSE socket[s]]
          /\ queue' = [s \in Sockets |->
                IF s \in fed THEN Append(queue[s], UserOf[s] \in revoked) ELSE queue[s]]
          /\ slow \subseteq Live!Audience(e)
  <2> DEFINE s1 == {s \in Live!Audience(e) : Live!Full(s)}
             f1 == {s \in Live!Audience(e) : ~Live!Full(s)}
  <2>1. /\ UNCHANGED <<hubClosed, writer, revoked, letter, receipts, heard>>
        /\ toSend' = toSend \ {e} /\ Live!Leave(s1)
        /\ total' = total - Live!Cardinality(s1)
        /\ socket' = [s \in Sockets |-> IF s \in s1 THEN "cut" ELSE socket[s]]
        /\ queue' = [s \in Sockets |->
              IF s \in f1 THEN Append(queue[s], UserOf[s] \in revoked) ELSE queue[s]]
    BY Zenon DEF Live!Broadcast, Live!lettersVars
  <2>2. s1 \subseteq Live!Audience(e)
    OBVIOUS
  <2> HIDE DEF s1, f1
  <2> QED BY <2>1, <2>2, Zenon
<1>2. slow \in SUBSET Present
  BY <1>1 DEF LiveInv, Places, InPlace, Present, Live!Audience, Live!Registered
<1>3. /\ members' \in [Live!Channels -> SUBSET Sockets]
      /\ sendClosed' \in [Sockets -> BOOLEAN]
      /\ \A c \in Live!Channels : \A t \in members'[c] : ChannelOf[t] = c
      /\ \A t \in Sockets : Live!Registered(t)' <=> Live!Registered(t) /\ t \notin slow
      /\ Counted'
  <2>1. total' = total - Cardinality(slow)
    BY <1>1, SameCount
  <2> QED BY <1>1, <1>2, <2>1, SocketsLeft
<1>4. /\ socket' \in [Sockets -> {"off", "upgraded", "open", "cut"}]
      /\ \A t \in Sockets : socket'[t] = socket[t] \/ (t \in slow /\ socket'[t] = "cut")
  BY <1>1 DEF LiveInv, Places
<1>5. ASSUME NEW t \in Sockets
      PROVE  /\ queue'[t] \in Seq(BOOLEAN)
             /\ \A i \in 1..Len(queue'[t]) : queue'[t][i] => UserOf[t] \in revoked
             /\ queue[t] # <<>> => queue'[t] # <<>> /\ queue'[t][1] = queue[t][1]
  <2>1. /\ queue[t] \in Seq(BOOLEAN)
        /\ \A i \in 1..Len(queue[t]) : queue[t][i] => UserOf[t] \in revoked
    BY DEF LiveInv, Places, Asked
  <2>2. PICK b \in BOOLEAN : b <=> UserOf[t] \in revoked
    OBVIOUS
  <2>3. CASE t \in fed
    <3>1. queue'[t] = Append(queue[t], b)
      BY <1>1, <2>2, <2>3
    <3>2. /\ queue'[t] \in Seq(BOOLEAN) /\ queue'[t] # <<>> /\ Len(queue'[t]) = Len(queue[t]) + 1
          /\ \A i \in 1..Len(queue[t]) : queue'[t][i] = queue[t][i]
          /\ queue'[t][Len(queue[t]) + 1] = b
      BY <2>1, <3>1, AppendProperties
    <3>3. ASSUME NEW i \in 1..Len(queue'[t]), queue'[t][i]
          PROVE  UserOf[t] \in revoked
      <4>1. i \in 1..Len(queue[t]) \/ i = Len(queue[t]) + 1
        BY <2>1, <3>2
      <4> QED BY <2>1, <2>2, <3>2, <3>3, <4>1
    <3>4. queue[t] # <<>> => 1 \in 1..Len(queue[t])
      BY <2>1
    <3> QED BY <3>2, <3>3, <3>4
  <2>4. CASE t \notin fed
    BY <1>1, <2>1, <2>4
  <2> QED BY <2>3, <2>4
<1>6. queue' \in [Sockets -> Seq(BOOLEAN)]
  <2>1. queue' = [t \in Sockets |-> queue'[t]]
    BY <1>1
  <2> QED BY <1>5, <2>1
<1>7. Places'
  BY <1>1, <1>3, <1>4, <1>6 DEF LiveInv, Places
<1>8. InPlace'
  BY <1>1, <1>3, <1>4 DEF LiveInv, InPlace
<1>9. Asked'
  BY <1>1, <1>5 DEF LiveInv, Asked
<1> QED BY <1>1, <1>3, <1>7, <1>8, <1>9 DEF LiveInv, ReadOnce

\* Shutting down empties the hub.
LEMMA HubClosed ==
    ASSUME LiveInv, Live!CloseHub
    PROVE  LiveInv'
<1> USE MessagingAssumption
<1>1. PICK S :
          /\ S = UNION {members[c] : c \in Live!Channels}
          /\ UNCHANGED <<writer, queue, revoked, letter, receipts, toSend, heard>>
          /\ hubClosed' = TRUE /\ Live!Leave(S) /\ total' = 0
          /\ socket' = [s \in Sockets |-> IF s \in S THEN "cut" ELSE socket[s]]
  BY Zenon DEF Live!CloseHub, Live!lettersVars
<1>2. S = Present
  <2>1. ASSUME NEW c \in Live!Channels, NEW s \in members[c]
        PROVE  s \in Present
    BY DEF LiveInv, Places, InPlace, Present, Live!Registered
  <2>2. ASSUME NEW s \in Present
        PROVE  s \in S
    <3>1. ChannelOf[s] \in Live!Channels /\ s \in members[ChannelOf[s]]
      BY DEF Present, Live!Registered
    <3> QED BY <1>1, <3>1
  <2> QED BY <1>1, <2>1, <2>2
<1>3. /\ members' \in [Live!Channels -> SUBSET Sockets]
      /\ sendClosed' \in [Sockets -> BOOLEAN]
      /\ \A c \in Live!Channels : \A t \in members'[c] : ChannelOf[t] = c
      /\ \A t \in Sockets : Live!Registered(t)' <=> Live!Registered(t) /\ t \notin S
      /\ Counted'
  BY <1>1, <1>2, SocketsLeft
<1>4. /\ socket' \in [Sockets -> {"off", "upgraded", "open", "cut"}]
      /\ \A t \in Sockets : socket'[t] = socket[t] \/ (t \in S /\ socket'[t] = "cut")
  BY <1>1 DEF LiveInv, Places
<1>5. Places'
  BY <1>1, <1>3, <1>4 DEF LiveInv, Places
<1>6. InPlace'
  BY <1>1, <1>3, <1>4 DEF LiveInv, InPlace
<1>7. Asked' /\ ReadOnce'
  BY <1>1 DEF LiveInv, Asked, ReadOnce
<1> QED BY <1>1, <1>3, <1>5, <1>6, <1>7 DEF LiveInv

LEMMA LiveStep ==
    ASSUME LiveInv, Live!Next
    PROVE  LiveInv'
BY RequestHandled, SocketWorks, EventWritten, SocketRegistered, ReaderReturned, EventBroadcast,
   HubClosed DEF Live!Next, Live!SocketStep

LEMMA LiveRests ==
    ASSUME LiveInv, UNCHANGED liveVars
    PROVE  LiveInv'
BY DEF LiveInv, Places, InPlace, Asked, ReadOnce, Counted, Present, Live!Registered, liveVars

\* The hub's books, queues and receipts, whatever sockets, requests and
\* revocations overlap.
THEOREM LiveInvariant == MCSpec => []LiveInv
<1>1. MCInit => LiveInv
  BY LiveInit DEF MCInit
<1>2. LiveInv /\ [LeaseRuns \/ OutreachRuns \/ LiveRuns]_all => LiveInv'
  BY LiveStep, LiveRests DEF LeaseRuns, OutreachRuns, LiveRuns, all
<1> QED BY <1>1, <1>2, PTL DEF MCSpec

\* The hub counts its sockets within its limit and sends to open channels only; a
\* revoked session hears nothing broadcast later; a message is announced as read once.
THEOREM HubIsConsistent == MCSpec => []HubConsistent
<1>1. LiveInv => HubConsistent
  <2> SUFFICES ASSUME LiveInv PROVE HubConsistent
    OBVIOUS
  <2>1. Live!HubConsistent
    BY SameCount DEF LiveInv, Counted, Present, Live!HubConsistent
  <2>2. Live!RevokedHearsNothing
    BY DEF LiveInv, Live!RevokedHearsNothing
  <2>3. Live!ReceiptOnce
    BY DEF LiveInv, Places, ReadOnce, Live!ReceiptOnce
  <2> QED BY <2>1, <2>2, <2>3 DEF HubConsistent
<1> QED BY <1>1, LiveInvariant, PTL

-----------------------------------------------------------------------------
(* The lease of an outbox batch.  With two calls per row of a full batch   *)
(* inside the lease no recovery takes a row from a live worker.            *)

Inv == TypeOK /\ AgeBound /\ OnlyDeadWorkersRecovered

\* While a live worker has rows left its claim is within the lease, so the
\* recovery of claim() cannot match them (service.go:132-136).
LEMMA LiveClaimIsFresh ==
    ASSUME TypeOK, AgeBound, BatchFits, alive, left > 0
    PROVE  age <= Lease
<1> DEFINE c == CallsBefore
           B == 2 * MaxBatch
<1>1. c \in Nat /\ c + 1 <= B /\ B \in Nat
  BY LeaseAssumption DEF TypeOK, CallsBefore
<1>2. age <= CallTimeout * c + elapsed /\ elapsed <= CallTimeout /\ age \in Nat /\ elapsed \in Nat
  BY LeaseAssumption DEF TypeOK, AgeBound
<1>3. CallTimeout * B <= Lease
  BY DEF BatchFits
<1> HIDE DEF c, B
<1>4. CallTimeout * c + CallTimeout <= CallTimeout * B
  <2>1. PICK d \in Nat : B = c + 1 + d
    <3>1. B - c - 1 \in Nat /\ B = c + 1 + (B - c - 1)
      BY <1>1
    <3> QED BY <3>1
  <2>2. CallTimeout * (c + 1 + d) = CallTimeout * c + CallTimeout + CallTimeout * d
    BY <1>1, LeaseAssumption
  <2>3. CallTimeout * d >= 0 /\ CallTimeout * d \in Nat
    BY LeaseAssumption
  <2>4. CallTimeout * c \in Nat
    BY <1>1, LeaseAssumption
  <2> QED BY <2>1, <2>2, <2>3, <2>4, LeaseAssumption
<1>5. CallTimeout * c \in Nat /\ CallTimeout * B \in Nat
  BY <1>1, LeaseAssumption
<1> QED BY <1>2, <1>3, <1>4, <1>5, LeaseAssumption

\* One more call made leaves room for the one that just ended.
LEMMA OneMoreCall ==
    ASSUME NEW c \in Nat, NEW d \in Nat, d >= c + 1, NEW e \in 0..CallTimeout
    PROVE  CallTimeout * c + e <= CallTimeout * d
<1>1. PICK k \in Nat : d = c + 1 + k
  <2>1. d - c - 1 \in Nat /\ d = c + 1 + (d - c - 1)
    OBVIOUS
  <2> QED BY <2>1
<1>2. CallTimeout * (c + 1 + k) = CallTimeout * c + CallTimeout + CallTimeout * k
  BY LeaseAssumption
<1>3. CallTimeout * k \in Nat /\ CallTimeout * c \in Nat
  BY LeaseAssumption
<1> QED BY <1>1, <1>2, <1>3, LeaseAssumption

LEMMA ProductNat == \A c \in Nat : CallTimeout * c \in Nat
BY LeaseAssumption

\* The claim-age bound is inductive.
THEOREM LeaseInvariant == BatchFits /\ Spec => []Inv
<1> SUFFICES ASSUME BatchFits
             PROVE  Spec => []Inv
  OBVIOUS
<1>1. Init => Inv
  <2> SUFFICES ASSUME Init PROVE Inv
    OBVIOUS
  <2>1. alive \in BOOLEAN /\ takenFromLive \in BOOLEAN /\ OnlyDeadWorkersRecovered
    BY Zenon DEF Init, OnlyDeadWorkersRecovered
  <2>2. /\ size \in 0..MaxBatch /\ left \in 0..size /\ call \in {1, 2}
        /\ elapsed \in 0..CallTimeout /\ age \in 0..(Lease + 1)
    BY LeaseAssumption DEF Init
  <2>3. ~(left > 0)
    BY DEF Init
  <2> QED BY <2>1, <2>2, <2>3 DEF Inv, TypeOK, AgeBound
<1>2. ASSUME Inv, [Next]_vars
      PROVE  Inv'
  <2> USE <1>2, LeaseAssumption DEF Inv, TypeOK, OnlyDeadWorkersRecovered
  <2>1. CASE Claim
    <3>1. TypeOK' /\ OnlyDeadWorkersRecovered'
      BY <2>1 DEF Claim
    <3>2. size' = left' /\ left' \in Nat /\ call' = 1 /\ age' = 0 /\ elapsed' = 0
      BY <2>1 DEF Claim
    <3>3. CallsBefore' = 0
      <4>1. CallsBefore' = 2 * (size' - left') + (call' - 1)
        BY DEF CallsBefore
      <4>2. \A x \in Nat : 2 * (x - x) + (1 - 1) = 0
        OBVIOUS
      <4> QED BY <3>2, <4>1, <4>2
    <3>4. CallTimeout * CallsBefore' = 0
      BY <3>3
    <3>5. age' <= CallTimeout * CallsBefore' + elapsed'
      BY <3>2, <3>4
    <3> QED BY <3>1, <3>5 DEF AgeBound
  <2>2. CASE SuppressionAnswered
    <3>1. TypeOK' /\ OnlyDeadWorkersRecovered'
      BY <2>2 DEF SuppressionAnswered
    <3>2. CallsBefore \in Nat /\ CallsBefore' \in Nat /\ CallsBefore' >= CallsBefore + 1
      BY <2>2 DEF SuppressionAnswered, CallsBefore
    <3>3. CallTimeout * CallsBefore + elapsed <= CallTimeout * CallsBefore'
      BY <3>2, OneMoreCall
    <3>4. CallTimeout * CallsBefore \in Nat /\ CallTimeout * CallsBefore' \in Nat
      BY <3>2, ProductNat
    <3>5. age' = age /\ elapsed' = 0 /\ alive /\ left > 0
      BY <2>2 DEF SuppressionAnswered
    <3>6. age' <= CallTimeout * CallsBefore' + elapsed'
      BY <3>3, <3>4, <3>5 DEF AgeBound
    <3> QED BY <3>1, <3>6 DEF AgeBound
  <2>3. CASE RowDone
    <3>1. TypeOK' /\ OnlyDeadWorkersRecovered'
      BY <2>3 DEF RowDone
    <3>2. CallsBefore \in Nat /\ CallsBefore' \in Nat /\ CallsBefore' >= CallsBefore + 1
      BY <2>3 DEF RowDone, CallsBefore
    <3>3. CallTimeout * CallsBefore + elapsed <= CallTimeout * CallsBefore'
      BY <3>2, OneMoreCall
    <3>4. CallTimeout * CallsBefore \in Nat /\ CallTimeout * CallsBefore' \in Nat
      BY <3>2, ProductNat
    <3>5. age' = age /\ elapsed' = 0 /\ alive /\ left > 0
      BY <2>3 DEF RowDone
    <3>6. age' <= CallTimeout * CallsBefore' + elapsed'
      BY <3>3, <3>4, <3>5 DEF AgeBound
    <3> QED BY <3>1, <3>6 DEF AgeBound
  <2>4. CASE Tick
    <3>1. TypeOK' /\ OnlyDeadWorkersRecovered'
      BY <2>4 DEF Tick
    <3>2. CallsBefore \in Nat /\ CallsBefore' = CallsBefore
      BY <2>4 DEF Tick, CallsBefore
    <3>3. CallTimeout * CallsBefore \in Nat
      BY <3>2, ProductNat
    <3>4. ASSUME alive, left > 0
          PROVE  age' <= CallTimeout * CallsBefore' + elapsed'
      <4>1. age' = age + 1 /\ elapsed' = elapsed + 1
        BY <2>4, <3>4 DEF Tick
      <4>2. age <= CallTimeout * CallsBefore + elapsed
        BY <3>4 DEF AgeBound
      <4> QED BY <3>2, <3>3, <4>1, <4>2
    <3>5. alive' = alive /\ left' = left
      BY <2>4 DEF Tick
    <3> QED BY <3>1, <3>4, <3>5 DEF AgeBound
  <2>5. CASE Crash
    BY <2>5 DEF Crash, AgeBound
  <2>6. CASE StartUp
    BY <2>6 DEF StartUp, AgeBound
  <2>7. CASE Recover
    <3>1. ~alive
      BY <2>7, LiveClaimIsFresh DEF Recover
    <3> QED BY <2>7, <3>1 DEF Recover, AgeBound
  <2>8. CASE UNCHANGED vars
    BY <2>8 DEF vars, AgeBound, CallsBefore
  <2> QED BY <2>1, <2>2, <2>3, <2>4, <2>5, <2>6, <2>7, <2>8 DEF Next
<1> QED BY <1>1, <1>2, PTL DEF Spec

\* A lease only runs out on the rows of a dead process when the batch fits:
\* what EmailOutbox assumes of time with SlowWorkers = FALSE.
THEOREM LeaseSafe == BatchFits /\ Spec => []OnlyDeadWorkersRecovered
BY LeaseInvariant, PTL DEF Inv

=============================================================================
