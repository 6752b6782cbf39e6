-------------------------- MODULE EmailOutboxProofs --------------------------
(***************************************************************************)
(* For any messages, workers, attempt limit and batch size, and however    *)
(* slow a worker is: an attempt of a row belongs to one worker and reaches *)
(* the provider at most once, and an invitation that was replaced is not   *)
(* mailed.  If no worker outlives its lease, a row is in one hand, and then*)
(* nobody is mailed a redacted text and an outcome is final.               *)
(*                                                                         *)
(* After the outbox, part by part: the components that share a run with it,*)
(* in MCDelivery the breaker of the AI gateway, in MCInvitations saved     *)
(* searches, reviews, referrals, and notes with pools.  Each is proved of  *)
(* the component's own Init and Next, and then of the run.                 *)
(***************************************************************************)
EXTENDS MCDelivery, MCInvitations, Integers, SequenceTheorems, FiniteSetTheorems, TLAPS

Dispatching == {"provider", "resolve", "send", "record", "fail", "suppress"}

\* Which steps have a row in hand, and that a worker between passes holds none.
Control ==
    \A w \in Workers :
        /\ (cur[w] # NoItem) <=> (pc[w] \in Dispatching)
        /\ pc[w] \in {"idle", "claim"} => batch[w] = {}

\* Attempts held or submitted were counted in the row.
Counted ==
    /\ \A w \in Workers : \A i \in batch[w] : i.attempt <= attempts[i.msg]
    /\ \A w \in Workers : cur[w] # NoItem => cur[w].attempt <= attempts[cur[w].msg]
    /\ \A s \in submitted : s.attempt <= attempts[s.msg]

\* No attempt is in two hands.
OneHolder ==
    /\ \A v, w \in Workers : \A i \in batch[v], j \in batch[w] :
            SameAttempt(i, j) => v = w /\ i = j
    /\ \A v, w \in Workers : \A j \in batch[w] :
            cur[v] # NoItem => ~SameAttempt(cur[v], j)
    /\ \A v, w \in Workers :
            cur[v] # NoItem /\ cur[w] # NoItem /\ v # w => ~SameAttempt(cur[v], cur[w])

\* No attempt is submitted while it can still be sent.
NotYetSubmitted ==
    /\ \A w \in Workers : \A i \in batch[w], s \in submitted : ~SameAttempt(i, s)
    /\ \A w \in Workers : pc[w] \in {"provider", "resolve", "send"} =>
            \A s \in submitted : ~SameAttempt(cur[w], s)
    /\ \A s, t \in submitted : SameAttempt(s, t) => s = t

IInv == TypeOK /\ Control /\ Counted /\ OneHolder /\ NotYetSubmitted

\* The claim hands out attempt numbers above every one in use.
LEMMA InitIInv == Init => IInv
BY OutboxAssumption DEF Init, IInv, TypeOK, Control, Counted, OneHolder, NotYetSubmitted,
   Statuses, Bodies, Steps, Dispatching

\* Steps that leave the workers, the attempt counts and the provider alone.
LEMMA OthersPreserve ==
    ASSUME IInv, TypeOK', UNCHANGED <<worker, attempts, submitted>>
    PROVE  IInv'
BY DEF IInv, Control, Counted, OneHolder, NotYetSubmitted, SameAttempt, worker

\* Steps of a worker that drop what it holds, or only move its step within
\* the dispatch of one row, without a submission.
LEMMA FinishPreserves ==
    ASSUME IInv, TypeOK', NEW w \in Workers, UNCHANGED <<attempts, batch, submitted>>,
           cur' = [cur EXCEPT ![w] = NoItem], pc' = [pc EXCEPT ![w] = "dispatch"]
    PROVE  IInv'
BY DEF IInv, TypeOK, Control, Counted, OneHolder, NotYetSubmitted, SameAttempt, Dispatching

\* Steps that only move a worker to another step of the same dispatch.
LEMMA MovePreserves ==
    ASSUME IInv, TypeOK', NEW w \in Workers, UNCHANGED <<attempts, batch, cur, submitted>>,
           NEW p \in Dispatching, pc' = [pc EXCEPT ![w] = p], pc[w] \in Dispatching,
           p \in {"provider", "resolve", "send"} => pc[w] \in {"provider", "resolve", "send"}
    PROVE  IInv'
BY DEF IInv, TypeOK, Control, Counted, OneHolder, NotYetSubmitted, SameAttempt, Dispatching

LEMMA ExpirePreserves ==
    ASSUME IInv, NEW w \in Workers, ExpireSensitiveContent(w)
    PROVE  IInv'
<1>1. TypeOK'
  BY DEF IInv, TypeOK, ExpireSensitiveContent, Statuses, Bodies, Steps, supp, invite, history
<1>2. Control'
  BY DEF IInv, TypeOK, Control, ExpireSensitiveContent, Dispatching
<1>3. pc' = [pc EXCEPT ![w] = "claim"] \/ pc' = [pc EXCEPT ![w] = "idle"]
  BY DEF ExpireSensitiveContent
<1>4. Counted' /\ OneHolder' /\ NotYetSubmitted'
  BY <1>3 DEF IInv, TypeOK, Counted, OneHolder, NotYetSubmitted, SameAttempt,
     ExpireSensitiveContent, history
<1> QED BY <1>1, <1>2, <1>4 DEF IInv

LEMMA ClaimPreserves ==
    ASSUME IInv, NEW w \in Workers, Claim(w)
    PROVE  IInv'
<1> USE OutboxAssumption
<1> PICK S \in SUBSET Claimable :
        /\ status' = [m \in Messages |-> IF m \in S THEN "sending"
                                         ELSE IF m \in Recovered THEN "failed" ELSE status[m]]
        /\ attempts' = [m \in Messages |-> IF m \in S THEN NextAttempt(m) ELSE attempts[m]]
        /\ batch' = [batch EXCEPT ![w] =
                        {[msg |-> m, attempt |-> NextAttempt(m), body |-> body[m]] : m \in S}]
  BY DEF Claim
<1> DEFINE New == {[msg |-> m, attempt |-> NextAttempt(m), body |-> body[m]] : m \in S}
<1>1. /\ pc[w] = "claim" /\ pc' = [pc EXCEPT ![w] = "dispatch"] /\ cur' = cur
      /\ submitted' = submitted /\ batch' = [batch EXCEPT ![w] = New]
  BY DEF Claim, history
<1>2. \A m \in Messages : attempts[m] \in 0..MaxAttempts
                       /\ attempts'[m] \in 0..MaxAttempts /\ attempts[m] <= attempts'[m]
  BY DEF IInv, TypeOK, Claimable, NextAttempt
<1>3. \A i \in New : /\ i \in Items
                     /\ i.attempt = attempts[i.msg] + 1
                     /\ i.attempt = attempts'[i.msg]
  BY <1>2 DEF IInv, TypeOK, Claimable, NextAttempt, Items
<1>4. \A i, j \in New : SameAttempt(i, j) => i = j
  BY DEF SameAttempt
<1>5. TypeOK'
  <2>1. status' \in [Messages -> Statuses]
    BY DEF IInv, TypeOK, Statuses
  <2>2. attempts' \in [Messages -> 0..MaxAttempts]
    BY <1>2
  <2>3. batch' \in [Workers -> SUBSET Items]
    BY <1>1, <1>3 DEF IInv, TypeOK
  <2>4. /\ nextAttempt' \in [Messages -> {"now", "backoff", "expiry"}]
        /\ leaseOver' \in [Messages -> BOOLEAN]
        /\ pc' \in [Workers -> Steps]
    BY DEF IInv, TypeOK, Claim, Steps
  <2> QED BY <2>1, <2>2, <2>3, <2>4 DEF IInv, TypeOK, Claim, supp, invite, history
<1>6. Control'
  BY <1>1 DEF IInv, TypeOK, Control, Dispatching
<1>7. \A v \in Workers : \A i \in batch[v] : i \in Items /\ i.attempt < attempts[i.msg] + 1
  BY <1>2 DEF IInv, TypeOK, Counted, Items
<1>8. \A v \in Workers : cur[v] # NoItem =>
            cur[v] \in Items /\ cur[v].attempt < attempts[cur[v].msg] + 1
  BY <1>2 DEF IInv, TypeOK, Counted, Items
<1>9. \A s \in submitted : s \in Items /\ s.attempt < attempts[s.msg] + 1
  BY <1>2 DEF IInv, TypeOK, Counted, Items
<1>10. \A v \in Workers : batch'[v] = IF v = w THEN New ELSE batch[v]
  BY <1>1 DEF IInv, TypeOK
<1> HIDE DEF New
<1>11. Counted'
  BY <1>1, <1>2, <1>3, <1>7, <1>8, <1>9, <1>10 DEF IInv, TypeOK, Counted, Items
<1>12. OneHolder'
  <2>1. \A v \in Workers : \A i \in batch[v], j \in New : ~SameAttempt(i, j) /\ ~SameAttempt(j, i)
    <3> SUFFICES ASSUME NEW v \in Workers, NEW i \in batch[v], NEW j \in New, i.msg = j.msg
                 PROVE  i.attempt # j.attempt
      BY DEF SameAttempt
    <3>1. i.attempt \in Nat /\ i.attempt < j.attempt
      BY <1>2, <1>3, <1>7 DEF Items
    <3>2. j.attempt \in Nat
      BY <1>3 DEF Items
    <3> QED BY <3>1, <3>2
  <2>2. \A v \in Workers : \A j \in New : cur[v] # NoItem => ~SameAttempt(cur[v], j)
    <3> SUFFICES ASSUME NEW v \in Workers, NEW j \in New, cur[v] # NoItem, cur[v].msg = j.msg
                 PROVE  cur[v].attempt # j.attempt
      BY DEF SameAttempt
    <3>1. cur[v].attempt \in Nat /\ cur[v].attempt < j.attempt
      BY <1>2, <1>3, <1>8 DEF Items
    <3>2. j.attempt \in Nat
      BY <1>3 DEF Items
    <3> QED BY <3>1, <3>2
  <2> QED BY <1>1, <1>4, <1>10, <2>1, <2>2 DEF IInv, OneHolder
<1>13. NotYetSubmitted'
  <2>1. \A j \in New, s \in submitted : ~SameAttempt(j, s)
    <3> SUFFICES ASSUME NEW s \in submitted, NEW j \in New, s.msg = j.msg
                 PROVE  s.attempt # j.attempt
      BY DEF SameAttempt
    <3>1. s.attempt \in Nat /\ s.attempt < j.attempt
      BY <1>2, <1>3, <1>9 DEF Items
    <3>2. j.attempt \in Nat
      BY <1>3 DEF Items
    <3> QED BY <3>1, <3>2
  <2> QED BY <1>1, <1>10, <2>1 DEF IInv, TypeOK, NotYetSubmitted
<1> QED BY <1>5, <1>6, <1>11, <1>12, <1>13 DEF IInv

LEMMA StartDispatchPreserves ==
    ASSUME IInv, NEW w \in Workers, StartDispatch(w)
    PROVE  IInv'
<1> PICK i \in batch[w] :
        /\ batch' = [batch EXCEPT ![w] = @ \ {i}]
        /\ cur' = [cur EXCEPT ![w] = i]
        /\ pc' = [pc EXCEPT ![w] = IF RecipientOf[i.msg] \in localSup THEN "suppress" ELSE "provider"]
  BY DEF StartDispatch
<1>1. /\ pc[w] = "dispatch" /\ i \in Items /\ i # NoItem /\ attempts' = attempts
      /\ submitted' = submitted
  BY OutboxAssumption DEF StartDispatch, IInv, TypeOK, row, history
<1>2. TypeOK'
  BY <1>1 DEF IInv, TypeOK, StartDispatch, row, clock, supp, invite, history, Steps
<1>3. Control'
  BY <1>1 DEF IInv, TypeOK, Control, Dispatching
<1>4. Counted'
  BY <1>1 DEF IInv, TypeOK, Counted
<1>5. OneHolder'
  BY <1>1 DEF IInv, TypeOK, OneHolder, SameAttempt
<1>6. NotYetSubmitted'
  BY <1>1 DEF IInv, TypeOK, NotYetSubmitted, SameAttempt
<1> QED BY <1>2, <1>3, <1>4, <1>5, <1>6 DEF IInv

LEMMA EndPassPreserves ==
    ASSUME IInv, NEW w \in Workers, EndPass(w)
    PROVE  IInv'
<1>1. TypeOK'
  BY DEF IInv, TypeOK, EndPass, row, clock, supp, invite, history, Steps
<1>2. Control' /\ Counted' /\ OneHolder' /\ NotYetSubmitted'
  BY DEF IInv, TypeOK, EndPass, row, history, Control, Counted, OneHolder,
     NotYetSubmitted, SameAttempt, Dispatching
<1> QED BY <1>1, <1>2 DEF IInv

LEMMA CheckProviderPreserves ==
    ASSUME IInv, NEW w \in Workers, CheckProvider(w)
    PROVE  IInv'
<1>1. PICK p \in {"fail", "suppress", "resolve", "send"} : pc' = [pc EXCEPT ![w] = p]
  BY DEF CheckProvider, Suppression
<1>2. cur[w] \in Items
  BY DEF IInv, TypeOK, Control, CheckProvider, Suppression, Dispatching
<1>3. TypeOK'
  BY <1>1, <1>2, OutboxAssumption DEF IInv, TypeOK, CheckProvider, Suppression, row, clock, invite, history, Steps, Items
<1>4. UNCHANGED <<attempts, batch, cur, submitted>> /\ pc[w] = "provider"
  BY DEF CheckProvider, Suppression, row, history
<1> QED BY <1>1, <1>3, <1>4, MovePreserves DEF Dispatching

LEMMA ResolveContentPreserves ==
    ASSUME IInv, NEW w \in Workers, ResolveContent(w)
    PROVE  IInv'
<1>1. CASE cur' = cur
  <2>1. PICK p \in {"suppress", "fail", "send"} : pc' = [pc EXCEPT ![w] = p]
    BY DEF ResolveContent, ReferralDelivery
  <2>2. TypeOK'
    BY <1>1, <2>1 DEF IInv, TypeOK, ResolveContent, ReferralDelivery, row, clock, supp, invite, history, Steps
  <2>3. UNCHANGED <<attempts, batch, cur, submitted>> /\ pc[w] = "resolve"
    BY <1>1 DEF ResolveContent, ReferralDelivery, row, history
  <2> QED BY <2>1, <2>2, <2>3, MovePreserves DEF Dispatching
<1>2. CASE cur' # cur
  <2>1. /\ cur' = [cur EXCEPT ![w].body = "text"] /\ pc' = [pc EXCEPT ![w] = "send"]
        /\ pc[w] = "resolve"
        /\ UNCHANGED <<row, clock, supp, invite, batch, history>>
    BY <1>2 DEF ResolveContent, ReferralDelivery
  <2>2. cur[w] \in Items /\ cur[w] # NoItem
    BY <2>1 DEF IInv, TypeOK, Control, Dispatching
  <2>3. /\ cur'[w] \in Items /\ cur'[w] # NoItem
        /\ cur'[w].msg = cur[w].msg /\ cur'[w].attempt = cur[w].attempt
        /\ \A v \in Workers \ {w} : cur'[v] = cur[v]
        /\ DOMAIN cur' = Workers
    BY <2>1, <2>2, OutboxAssumption DEF IInv, TypeOK, Items, Bodies
  <2>4. TypeOK'
    BY <2>1, <2>3 DEF IInv, TypeOK, row, clock, supp, invite, history, Steps
  <2>5. Control'
    BY <2>1, <2>3 DEF IInv, TypeOK, Control, Dispatching
  <2>6. Counted'
    BY <2>1, <2>2, <2>3 DEF IInv, Counted, row, history
  <2>7. OneHolder'
    BY <2>1, <2>2, <2>3 DEF IInv, OneHolder, SameAttempt
  <2>8. NotYetSubmitted'
    BY <2>1, <2>2, <2>3 DEF IInv, TypeOK, NotYetSubmitted, SameAttempt, history
  <2> QED BY <2>4, <2>5, <2>6, <2>7, <2>8 DEF IInv
<1> QED BY <1>1, <1>2

LEMMA SendSubmits ==
    ASSUME NEW w \in Workers, Send(w)
    PROVE  /\ pc[w] = "send"
           /\ UNCHANGED <<row, clock, supp, invite, batch, cur, excused>>
           /\ submitted' = submitted \/ submitted' = submitted \cup {cur[w]}
           /\ \E p \in {"record", "fail"} : pc' = [pc EXCEPT ![w] = p]
<1>1. PICK answer \in ProviderSend(cur[w]) :
        /\ submitted' = answer.accepted
        /\ pc' = [pc EXCEPT ![w] = IF answer.ok THEN "record" ELSE "fail"]
  BY DEF Send
<1>2. answer.accepted \in {submitted, submitted \cup {cur[w]}}
  BY DEF ProviderSend
<1>3. (IF answer.ok THEN "record" ELSE "fail") \in {"record", "fail"}
  OBVIOUS
<1> QED BY <1>1, <1>2, <1>3 DEF Send

LEMMA SendPreserves ==
    ASSUME IInv, NEW w \in Workers, Send(w)
    PROVE  IInv'
<1>1. PICK p \in {"record", "fail"} : pc' = [pc EXCEPT ![w] = p]
  BY SendSubmits
<1>2. /\ cur[w] \in Items /\ cur[w] # NoItem /\ pc[w] = "send"
      /\ UNCHANGED <<row, clock, supp, invite, batch, cur, excused>>
  BY SendSubmits DEF IInv, TypeOK, Control, Dispatching
<1>3. submitted' = submitted \/ submitted' = submitted \cup {cur[w]}
  BY SendSubmits
<1>4. TypeOK'
  BY <1>1, <1>2, <1>3 DEF IInv, TypeOK, row, clock, supp, invite, Steps
<1>5. Control' /\ Counted' /\ OneHolder'
  BY <1>1, <1>2, <1>3 DEF IInv, TypeOK, Control, Counted, OneHolder, SameAttempt, Dispatching, row
<1>6. NotYetSubmitted'
  <2>1. \A v \in Workers : \A i \in batch[v] : ~SameAttempt(i, cur[w])
    BY <1>2 DEF IInv, OneHolder, SameAttempt
  <2>2. \A v \in Workers \ {w} : pc[v] \in {"provider", "resolve", "send"} =>
            ~SameAttempt(cur[v], cur[w])
    BY <1>2 DEF IInv, OneHolder, Control, Dispatching
  <2>3. \A s \in submitted : ~SameAttempt(s, cur[w]) /\ ~SameAttempt(cur[w], s)
    BY <1>2 DEF IInv, NotYetSubmitted, SameAttempt
  <2> QED BY <1>1, <1>2, <1>3, <2>1, <2>2, <2>3 DEF IInv, TypeOK, NotYetSubmitted
<1> QED BY <1>4, <1>5, <1>6 DEF IInv

LEMMA OutcomePreserves ==
    ASSUME IInv, NEW w \in Workers, RecordSent(w) \/ MarkSuppressed(w) \/ MarkFailed(w) \/ Abandon(w)
    PROVE  IInv'
<1>1. cur' = [cur EXCEPT ![w] = NoItem] /\ pc' = [pc EXCEPT ![w] = "dispatch"]
  BY DEF RecordSent, MarkSuppressed, MarkFailed, Abandon, Finish
<1>2. UNCHANGED <<attempts, batch, submitted>>
  BY DEF RecordSent, MarkSuppressed, MarkFailed, Abandon, row, history
<1>3. cur' \in [Workers -> Items \cup {NoItem}] /\ pc' \in [Workers -> Steps]
  BY <1>1 DEF IInv, TypeOK, Steps
<1>4. UNCHANGED <<expired, supp, invite, history>>
  BY DEF RecordSent, MarkSuppressed, MarkFailed, Abandon, row, clock
<1>5. leaseOver' \in [Messages -> BOOLEAN] /\ nextAttempt' \in [Messages -> {"now", "backoff", "expiry"}]
  <2>1. CASE RecordSent(w) \/ MarkSuppressed(w)
    BY <2>1 DEF RecordSent, MarkSuppressed, Finish, IInv, TypeOK
  <2>2. CASE MarkFailed(w)
    BY <2>2 DEF MarkFailed, Finish, IInv, TypeOK
  <2>3. CASE Abandon(w)
    BY <2>3 DEF Abandon, clock, IInv, TypeOK
  <2> QED BY <2>1, <2>2, <2>3
<1>6. status' \in [Messages -> Statuses] /\ body' \in [Messages -> Bodies]
  <2>1. CASE RecordSent(w) \/ MarkSuppressed(w)
    BY <2>1 DEF RecordSent, MarkSuppressed, IInv, TypeOK, Statuses, Bodies
  <2>2. CASE MarkFailed(w)
    BY <2>2 DEF MarkFailed, IInv, TypeOK, Statuses, Bodies
  <2>3. CASE Abandon(w)
    BY <2>3 DEF Abandon, row, IInv, TypeOK
  <2> QED BY <2>1, <2>2, <2>3
<1>7. TypeOK'
  BY <1>2, <1>3, <1>4, <1>5, <1>6 DEF IInv, TypeOK, supp, invite, history
<1> QED BY <1>1, <1>2, <1>7, FinishPreserves

LEMMA RestartPreserves ==
    ASSUME IInv, NEW w \in Workers, Restart(w)
    PROVE  IInv'
<1>1. TypeOK'
  BY DEF IInv, TypeOK, Restart, row, clock, supp, invite, history, Steps
<1>2. Control' /\ Counted' /\ OneHolder' /\ NotYetSubmitted'
  BY DEF IInv, TypeOK, Restart, row, history, Control, Counted, OneHolder,
     NotYetSubmitted, SameAttempt, Dispatching
<1> QED BY <1>1, <1>2 DEF IInv

\* Handlers, clock, provider and suppression list.
LEMMA EnvironmentPreserves ==
    ASSUME IInv,
           \/ \E m \in Messages : EnqueueSecurityEmail(m) \/ SendInvitation(m)
           \/ CancelInvitation
           \/ CandidateAnswers
           \/ \E w \in Workers : SyncSuppressions(w)
           \/ \E m \in Messages : BecomeDue(m) \/ Expire(m) \/ LeaseRunsOut(m)
           \/ \E r \in Recipients : ProviderSuppresses(r)
    PROVE  IInv'
<1>1. UNCHANGED <<worker, attempts, submitted>>
  BY DEF EnqueueSecurityEmail, SendInvitation, CancelInvitation, CandidateAnswers,
     SyncSuppressions, BecomeDue,
     Expire, LeaseRunsOut, ProviderSuppresses, row, history
<1>2. TypeOK'
  <2> USE OutboxAssumption DEF IInv, TypeOK, row, clock, supp, invite, worker, history, Statuses, Bodies
  <2>1. ASSUME NEW m \in Messages, EnqueueSecurityEmail(m)  PROVE TypeOK'
    BY <2>1 DEF EnqueueSecurityEmail
  <2>2. ASSUME NEW m \in Messages, SendInvitation(m)  PROVE TypeOK'
    BY <2>2 DEF SendInvitation, InFlight
  <2>3. CASE CancelInvitation
    BY <2>3 DEF CancelInvitation, InFlight
  <2>7. CASE CandidateAnswers
    BY <2>7 DEF CandidateAnswers, InFlight
  <2>4. ASSUME NEW w \in Workers, SyncSuppressions(w)  PROVE TypeOK'
    BY <2>4 DEF SyncSuppressions, Suppressions
  <2>5. ASSUME NEW m \in Messages, BecomeDue(m) \/ Expire(m) \/ LeaseRunsOut(m)  PROVE TypeOK'
    BY <2>5 DEF BecomeDue, Expire, LeaseRunsOut
  <2>6. ASSUME NEW r \in Recipients, ProviderSuppresses(r)  PROVE TypeOK'
    BY <2>6 DEF ProviderSuppresses
  <2> QED BY <2>1, <2>2, <2>3, <2>4, <2>5, <2>6, <2>7
<1> QED BY <1>1, <1>2, OthersPreserve

\* Types, and what each worker holds, are as declared in every reachable state.
THEOREM OutboxInvariant == Spec => []IInv
<1>1. Init => IInv
  BY InitIInv
<1>2. IInv /\ [Next]_vars => IInv'
  <2> SUFFICES ASSUME IInv, [Next]_vars PROVE IInv'
    OBVIOUS
  <2>1. ASSUME NEW w \in Workers, WorkerStep(w) \/ Abandon(w) \/ Restart(w)
        PROVE  IInv'
    BY <2>1, ExpirePreserves, ClaimPreserves, StartDispatchPreserves, EndPassPreserves,
       CheckProviderPreserves, ResolveContentPreserves, SendPreserves, OutcomePreserves,
       RestartPreserves DEF WorkerStep
  <2>2. CASE UNCHANGED vars
    BY <2>2 DEF vars, row, clock, supp, invite, worker, history, IInv, TypeOK, Control, Counted,
       OneHolder, NotYetSubmitted, SameAttempt
  <2> QED BY <2>1, <2>2, EnvironmentPreserves DEF Next
<1> QED BY <1>1, <1>2, PTL DEF Spec

\* Columns, clocks and workers keep their types.
THEOREM OutboxTypeCorrect == Spec => []TypeOK
BY OutboxInvariant, PTL DEF IInv

\* One attempt, one worker, at most one submission to the provider.
THEOREM AttemptExclusive == Spec => []AttemptSubmittedOnce
<1>1. IInv => AttemptSubmittedOnce
  <2> SUFFICES ASSUME IInv PROVE AttemptSubmittedOnce
    OBVIOUS
  <2>1. \A v, w \in Workers : \A i \in Held(v), j \in Held(w) : SameAttempt(i, j) => v = w /\ i = j
    BY DEF IInv, OneHolder, Held, SameAttempt
  <2>2. \A w \in Workers : \A i \in Unsent(w), s \in submitted : ~SameAttempt(i, s)
    BY DEF IInv, NotYetSubmitted, Unsent
  <2> QED BY <2>1, <2>2 DEF IInv, Counted, NotYetSubmitted, AttemptSubmittedOnce
<1> QED BY <1>1, OutboxInvariant, PTL

-----------------------------------------------------------------------------
(* Replaced and cancelled invitations                                      *)

\* An invitation past the resolver is current or was replaced after it was resolved.
Resolved ==
    /\ \A w \in Workers : pc[w] = "send" /\ cur[w].msg \in Invitations \ current
            => cur[w].msg \in excused
    /\ SupersededStaysSilent

\* The handlers that replace, cancel or answer excuse what is past the resolver.
LEMMA ExcusedResolved ==
    ASSUME IInv, Resolved, UNCHANGED <<worker, submitted>>, excused' = excused \cup InFlight
    PROVE  Resolved'
<1>1. ASSUME NEW w \in Workers, pc'[w] = "send", cur'[w].msg \in Invitations
      PROVE  cur'[w].msg \in excused'
  BY <1>1 DEF worker, InFlight
<1>2. ASSUME NEW s \in submitted', s.msg \in Invitations
      PROVE  s.msg \in excused'
  BY <1>2 DEF InFlight
<1> QED BY <1>1, <1>2 DEF Resolved, SupersededStaysSilent

LEMMA ResolvedStep ==
    ASSUME IInv, Resolved, [Next]_vars
    PROVE  Resolved'
<1> USE DEF Resolved, SupersededStaysSilent
<1>1. CASE \E m \in Messages : SendInvitation(m)
  BY <1>1, ExcusedResolved DEF SendInvitation
<1>2. CASE CancelInvitation \/ CandidateAnswers
  BY <1>2, ExcusedResolved DEF CancelInvitation, CandidateAnswers, history
<1>3. ASSUME NEW w \in Workers, WorkerStep(w) \/ Abandon(w) \/ Restart(w)
      PROVE  Resolved'
  <2>1. current' = current /\ excused' = excused
    BY <1>3 DEF WorkerStep, Abandon, Restart, ExpireSensitiveContent, Claim, StartDispatch, EndPass,
       CheckProvider, Suppression, ResolveContent, ReferralDelivery, Send, ProviderSend, RecordSent,
       MarkSuppressed, MarkFailed, invite, history
  <2>2. CASE Send(w)
    <3>1. /\ pc[w] = "send" /\ cur' = cur /\ submitted' \subseteq submitted \cup {cur[w]}
          /\ \E p \in {"record", "fail"} : pc' = [pc EXCEPT ![w] = p]
      BY <2>2, SendSubmits
    <3> QED BY <2>1, <3>1 DEF IInv, TypeOK
  <2>3. CASE ResolveContent(w)
    <3>1. /\ submitted' = submitted
          /\ \A v \in Workers \ {w} : pc'[v] = pc[v] /\ cur'[v] = cur[v]
          /\ pc'[w] = "send" => cur'[w].msg \in current
      <4>1. CASE cur' = cur
        BY <2>3, <4>1 DEF ResolveContent, ReferralDelivery, history, IInv, TypeOK
      <4>2. CASE cur' # cur
        <5>1. /\ cur' = [cur EXCEPT ![w].body = "text"] /\ cur[w].msg \in current
              /\ pc' = [pc EXCEPT ![w] = "send"] /\ pc[w] = "resolve" /\ submitted' = submitted
          BY <2>3, <4>2 DEF ResolveContent, ReferralDelivery, history
        <5>2. cur[w] \in Items
          BY <5>1 DEF IInv, TypeOK, Control, Dispatching
        <5> QED BY <5>1, <5>2 DEF IInv, TypeOK, Items
      <4> QED BY <4>1, <4>2
    <3> QED BY <2>1, <3>1
  <2>4. CASE CheckProvider(w)
    <3>1. /\ submitted' = submitted /\ cur' = cur
          /\ \A v \in Workers \ {w} : pc'[v] = pc[v]
          /\ pc'[w] = "send" => cur[w].msg \notin Invitations
      BY <2>4 DEF CheckProvider, Suppression, history, IInv, TypeOK
    <3> QED BY <2>1, <3>1
  <2>5. CASE ~Send(w) /\ ~ResolveContent(w) /\ ~CheckProvider(w)
    <3>1. submitted' = submitted
      BY <1>3, <2>5 DEF WorkerStep, Abandon, Restart, ExpireSensitiveContent, Claim, StartDispatch,
         EndPass, RecordSent, MarkSuppressed, MarkFailed, history
    <3>2. \A v \in Workers : pc'[v] = "send" => pc[v] = "send" /\ cur'[v] = cur[v]
      BY <1>3, <2>5 DEF WorkerStep, Abandon, Restart, ExpireSensitiveContent, Claim, StartDispatch,
         EndPass, RecordSent, MarkSuppressed, MarkFailed, Finish, IInv, TypeOK
    <3> QED BY <2>1, <3>1, <3>2
  <2> QED BY <2>2, <2>3, <2>4, <2>5
<1>4. CASE \/ \E m \in Messages : EnqueueSecurityEmail(m) \/ BecomeDue(m) \/ Expire(m) \/ LeaseRunsOut(m)
           \/ \E w \in Workers : SyncSuppressions(w)
           \/ \E r \in Recipients : ProviderSuppresses(r)
           \/ UNCHANGED vars
  <2>1. UNCHANGED <<worker, current, history>>
    BY <1>4 DEF EnqueueSecurityEmail, BecomeDue, Expire, LeaseRunsOut, SyncSuppressions,
       ProviderSuppresses, invite, vars
  <2> QED BY <2>1 DEF worker, history
<1> QED BY <1>1, <1>2, <1>3, <1>4 DEF Next

\* A replaced or cancelled invitation is not mailed later, unless a worker had already
\* resolved its content (the resolver of referral_invitations.go compares the nonce).
THEOREM SupersededInvitationsSilent == Spec => []SupersededStaysSilent
<1>1. Init => Resolved
  BY DEF Init, Resolved, SupersededStaysSilent
<1>2. IInv /\ Resolved /\ [Next]_vars => Resolved'
  BY ResolvedStep
<1>3. Resolved => SupersededStaysSilent
  BY DEF Resolved
<1> QED BY <1>1, <1>2, <1>3, OutboxInvariant, PTL DEF Spec

-----------------------------------------------------------------------------
(* Workers that do not outlive their lease                                 *)

\* The row of an item in hand: claimed and not taken away, or expired for good.
Kept(m) ==
    \/ status[m] = "sending" /\ ~leaseOver[m]
    \/ status[m] = "expired" /\ expired[m]

\* An item as the claim may hand it out; the content of an invitation is made later.
Sound(i) == Kept(i.msg) /\ (i.msg \notin Invitations => i.body = "text")

\* Every row is in one hand.
OneHand ==
    /\ \A v, w \in Workers : \A i \in batch[v], j \in batch[w] :
            i.msg = j.msg => v = w /\ i = j
    /\ \A v, w \in Workers : \A j \in batch[w] : cur[v] # NoItem => cur[v].msg # j.msg
    /\ \A v, w \in Workers :
            cur[v] # NoItem /\ cur[w] # NoItem /\ v # w => cur[v].msg # cur[w].msg

SoundHands ==
    /\ \A w \in Workers : \A i \in batch[w] : Sound(i)
    /\ \A w \in Workers : cur[w] # NoItem => Sound(cur[w])
    /\ \A w \in Workers : pc[w] = "send" => cur[w].body = "text"

\* A row that no claim takes any more, whatever its status becomes.
Spent(m) ==
    expired[m] \/ status[m] \in {"sent", "suppressed"} \/ attempts[m] >= MaxAttempts

SoundRows ==
    \A m \in Messages :
        /\ leaseOver[m] => status[m] = "sending"
        /\ body[m] = "redacted" /\ m \notin Invitations => Spent(m)

Prompt == OneHand /\ SoundHands /\ SoundRows /\ NoRedactedDelivery

\* Nobody takes a row into his hands, and what is still held is kept.
LEMMA HandsFall ==
    ASSUME IInv, Prompt,
           \A v \in Workers :
              /\ batch'[v] \subseteq batch[v]
              /\ cur'[v] # NoItem => cur'[v] = cur[v]
              /\ pc'[v] = "send" => cur'[v] # NoItem /\ cur[v].body = "text",
           \A v \in Workers : \A i \in batch'[v] : Kept(i.msg) => Kept(i.msg)',
           \A v \in Workers : cur'[v] # NoItem /\ Kept(cur[v].msg) => Kept(cur[v].msg)'
    PROVE  OneHand' /\ SoundHands'
<1>1. OneHand'
  BY DEF Prompt, OneHand
<1>2. ASSUME NEW v \in Workers, NEW i \in batch'[v] PROVE Sound(i)'
  BY <1>2 DEF Prompt, SoundHands, Sound
<1>3. ASSUME NEW v \in Workers, cur'[v] # NoItem PROVE Sound(cur[v])'
  <2>1. Sound(cur[v]) /\ cur'[v] = cur[v]
    BY <1>3 DEF Prompt, SoundHands
  <2>2. Kept(cur[v].msg)'
    BY <1>3, <2>1 DEF Sound
  <2> QED BY <2>1, <2>2 DEF Sound
<1> QED BY <1>1, <1>2, <1>3 DEF SoundHands

\* The hands rest, and no row that is held is taken away.
LEMMA HandsRest ==
    ASSUME IInv, Prompt, UNCHANGED worker,
           \A m \in Messages : (\E w \in Workers : HeldBy(w, m)) /\ Kept(m) => Kept(m)'
    PROVE  OneHand' /\ SoundHands'
<1>1. \A v \in Workers : batch'[v] = batch[v] /\ cur'[v] = cur[v] /\ pc'[v] = pc[v]
  BY DEF worker
<1>2. \A v \in Workers : pc[v] = "send" => cur[v] # NoItem /\ cur[v].body = "text"
  BY DEF IInv, Control, Dispatching, Prompt, SoundHands
<1>3. ASSUME NEW v \in Workers, NEW i \in batch[v], Kept(i.msg) PROVE Kept(i.msg)'
  <2>1. i \in Held(v) /\ i \in Items
    BY DEF IInv, TypeOK, Held
  <2> QED BY <1>3, <2>1 DEF HeldBy, Items
<1>4. ASSUME NEW v \in Workers, cur[v] # NoItem, Kept(cur[v].msg) PROVE Kept(cur[v].msg)'
  <2>1. cur[v] \in Held(v) /\ cur[v] \in Items
    BY <1>4 DEF IInv, TypeOK, Held
  <2>2. cur[v].msg \in Messages /\ HeldBy(v, cur[v].msg)
    BY <2>1 DEF HeldBy, Items
  <2> QED BY <1>1, <1>4, <2>2 DEF Kept
<1> QED BY <1>1, <1>2, <1>3, <1>4, HandsFall

\* Handlers, the clock and the provider's list.
LEMMA EnvironmentPrompt ==
    ASSUME IInv, Prompt, ~SlowWorkers,
           \/ \E m \in Messages : EnqueueSecurityEmail(m) \/ SendInvitation(m)
           \/ CancelInvitation
           \/ CandidateAnswers
           \/ \E w \in Workers : SyncSuppressions(w)
           \/ \E m \in Messages : BecomeDue(m) \/ Expire(m) \/ LeaseRunsOut(m)
           \/ \E r \in Recipients : ProviderSuppresses(r)
    PROVE  Prompt'
<1> USE DEF Kept, Spent, SoundRows
<1> SUFFICES SoundRows' /\ UNCHANGED <<worker, submitted>>
             /\ \A m \in Messages : (\E w \in Workers : HeldBy(w, m)) /\ Kept(m) => Kept(m)'
  BY HandsRest DEF Prompt, NoRedactedDelivery
<1>1. ASSUME NEW m \in Messages, EnqueueSecurityEmail(m)
      PROVE  /\ SoundRows' /\ UNCHANGED <<worker, submitted>>
             /\ \A n \in Messages : Kept(n) => Kept(n)'
  BY <1>1 DEF EnqueueSecurityEmail, clock, history, IInv, TypeOK, Prompt
<1>2. ASSUME \/ \E m \in Messages : SendInvitation(m)
             \/ CancelInvitation
      PROVE  /\ SoundRows' /\ UNCHANGED <<worker, submitted>>
             /\ \A n \in Messages : Kept(n) => Kept(n)'
  BY <1>2 DEF SendInvitation, CancelInvitation, Queued, clock, IInv, TypeOK, Prompt
<1>3. ASSUME CandidateAnswers \/ (\E w \in Workers : SyncSuppressions(w))
             \/ (\E r \in Recipients : ProviderSuppresses(r))
      PROVE  /\ SoundRows' /\ UNCHANGED <<worker, submitted>>
             /\ \A n \in Messages : Kept(n) => Kept(n)'
  BY <1>3 DEF CandidateAnswers, SyncSuppressions, ProviderSuppresses, row, clock, history, Prompt
<1>4. ASSUME NEW m \in Messages, BecomeDue(m) \/ Expire(m)
      PROVE  /\ SoundRows' /\ UNCHANGED <<worker, submitted>>
             /\ \A n \in Messages : Kept(n) => Kept(n)'
  BY <1>4 DEF BecomeDue, Expire, row, history, IInv, TypeOK, Prompt
<1>5. ASSUME NEW m \in Messages, LeaseRunsOut(m)
      PROVE  /\ SoundRows' /\ UNCHANGED <<worker, submitted>>
             /\ \A n \in Messages : (\E w \in Workers : HeldBy(w, n)) /\ Kept(n) => Kept(n)'
  BY <1>5 DEF LeaseRunsOut, row, history, IInv, TypeOK, Prompt
<1> QED BY <1>1, <1>2, <1>3, <1>4, <1>5

LEMMA ExpirePrompt ==
    ASSUME IInv, Prompt, NEW w \in Workers, ExpireSensitiveContent(w)
    PROVE  Prompt'
<1> USE DEF Kept, Spent, SoundRows
<1>1. \A v \in Workers : batch'[v] = batch[v] /\ cur'[v] = cur[v] /\ (pc'[v] = "send" => pc[v] = "send")
  BY DEF ExpireSensitiveContent, IInv, TypeOK
<1>2. \A m \in Messages : Kept(m) => Kept(m)'
  BY DEF ExpireSensitiveContent, Lapsed
<1>3. \A v \in Workers : pc[v] = "send" => cur[v] # NoItem /\ cur[v].body = "text"
  BY DEF IInv, Control, Dispatching, Prompt, SoundHands
<1>4. OneHand' /\ SoundHands'
  <2>1. ASSUME NEW v \in Workers, NEW i \in batch[v] PROVE i.msg \in Messages
    BY DEF IInv, TypeOK, Items
  <2>2. ASSUME NEW v \in Workers, cur[v] # NoItem PROVE cur[v].msg \in Messages
    BY <2>2 DEF IInv, TypeOK, Items
  <2>3. \A v \in Workers : cur'[v] # NoItem /\ Kept(cur[v].msg) => Kept(cur[v].msg)'
    BY <1>1, <1>2, <2>2
  <2> QED BY <1>1, <1>2, <1>3, <2>1, <2>3, HandsFall
<1>5. SoundRows'
  BY DEF ExpireSensitiveContent, Lapsed, IInv, TypeOK, Prompt, Bodies
<1>6. submitted' = submitted
  BY DEF ExpireSensitiveContent, history
<1> QED BY <1>4, <1>5, <1>6 DEF Prompt, NoRedactedDelivery

\* The claim takes rows that nobody holds, and their text.
LEMMA ClaimPrompt ==
    ASSUME IInv, Prompt, NEW w \in Workers, Claim(w)
    PROVE  Prompt'
<1> USE DEF Kept, Spent, SoundRows
<1> PICK S \in SUBSET Claimable :
        /\ status' = [m \in Messages |-> IF m \in S THEN "sending"
                                         ELSE IF m \in Recovered THEN "failed" ELSE status[m]]
        /\ attempts' = [m \in Messages |-> IF m \in S THEN NextAttempt(m) ELSE attempts[m]]
        /\ batch' = [batch EXCEPT ![w] =
                        {[msg |-> m, attempt |-> NextAttempt(m), body |-> body[m]] : m \in S}]
  BY DEF Claim
<1> DEFINE New == {[msg |-> m, attempt |-> NextAttempt(m), body |-> body[m]] : m \in S}
<1>1. /\ pc[w] = "claim" /\ pc' = [pc EXCEPT ![w] = "dispatch"] /\ cur' = cur
      /\ leaseOver' = [m \in Messages |-> leaseOver[m] /\ m \notin Recovered]
      /\ submitted' = submitted /\ body' = body /\ expired' = expired
  BY DEF Claim, history
<1>2. S \subseteq Messages
  BY DEF Claimable
<1>3. \A i \in New : /\ i.msg \in S
                     /\ i.msg \notin Invitations => i.body = "text"
  BY <1>2, OutboxAssumption DEF Claimable, Recovered, IInv, TypeOK, Bodies, Prompt
<1>4. \A i, j \in New : i.msg = j.msg => i = j
  OBVIOUS
<1>5. \A m \in Messages : Kept(m) => m \notin S /\ Kept(m)'
  BY <1>1 DEF Claimable, Recovered
<1>6. \A m \in S : Kept(m)'
  BY <1>1, <1>2 DEF Claimable, Recovered, IInv, TypeOK, Prompt
<1>7. \A v \in Workers : batch'[v] = IF v = w THEN New ELSE batch[v]
  BY DEF IInv, TypeOK
<1>8. \A v \in Workers : \A i \in batch[v] : i.msg \in Messages /\ Sound(i)
  BY DEF IInv, TypeOK, Items, Prompt, SoundHands
<1>9. \A v \in Workers : cur[v] # NoItem => cur[v].msg \in Messages /\ Sound(cur[v])
  BY DEF IInv, TypeOK, Items, Prompt, SoundHands
<1> HIDE DEF New, Kept
<1>10. OneHand'
  BY <1>1, <1>3, <1>4, <1>5, <1>7, <1>8, <1>9 DEF Prompt, OneHand, Sound
<1>11. SoundHands'
  <2>1. ASSUME NEW v \in Workers, NEW i \in batch'[v] PROVE Sound(i)'
    BY <1>3, <1>5, <1>6, <1>7, <1>8 DEF Sound
  <2>2. ASSUME NEW v \in Workers, cur[v] # NoItem, NEW i, i = cur[v] PROVE Sound(i)'
    BY <1>5, <1>9, <2>2 DEF Sound
  <2>3. \A v \in Workers : pc'[v] = "send" => pc[v] = "send"
    BY <1>1 DEF IInv, TypeOK
  <2> QED BY <1>1, <2>1, <2>2, <2>3 DEF SoundHands, Prompt
<1>12. SoundRows'
  <2>1. \A m \in Messages : leaseOver'[m] => status'[m] = "sending"
    BY <1>1 DEF Claimable, Recovered, IInv, TypeOK, Prompt
  <2>2. \A m \in Messages : Spent(m) => Spent(m)'
    BY <1>1, OutboxAssumption DEF Claimable, Recovered, IInv, TypeOK
  <2> QED BY <1>1, <2>1, <2>2 DEF Prompt
<1> QED BY <1>1, <1>10, <1>11, <1>12 DEF Prompt, NoRedactedDelivery

LEMMA StartDispatchPrompt ==
    ASSUME IInv, Prompt, NEW w \in Workers, StartDispatch(w)
    PROVE  Prompt'
<1> PICK i \in batch[w] :
        /\ batch' = [batch EXCEPT ![w] = @ \ {i}]
        /\ cur' = [cur EXCEPT ![w] = i]
        /\ pc' = [pc EXCEPT ![w] = IF RecipientOf[i.msg] \in localSup THEN "suppress" ELSE "provider"]
  BY DEF StartDispatch
<1>1. /\ UNCHANGED <<row, clock, submitted>> /\ i \in Items /\ i # NoItem /\ cur[w] = NoItem
  BY OutboxAssumption DEF StartDispatch, history, IInv, TypeOK, Control, Dispatching
<1>2. \A j : Sound(j) => Sound(j)'
  BY <1>1 DEF Sound, Kept, row, clock
<1>3. \A v \in Workers : /\ batch'[v] = IF v = w THEN batch[w] \ {i} ELSE batch[v]
                         /\ cur'[v] = IF v = w THEN i ELSE cur[v]
                         /\ pc'[v] = "send" => v # w /\ pc[v] = "send"
  BY DEF IInv, TypeOK
<1>4. OneHand'
  BY <1>1, <1>3 DEF Prompt, OneHand
<1>5. SoundHands'
  <2>1. ASSUME NEW v \in Workers, NEW j, j = cur'[v], j # NoItem PROVE Sound(j)'
    BY <1>2, <1>3, <2>1 DEF Prompt, SoundHands
  <2> QED BY <1>2, <1>3, <2>1 DEF Prompt, SoundHands
<1>6. SoundRows'
  BY <1>1 DEF SoundRows, Spent, Prompt, row, clock
<1> QED BY <1>1, <1>4, <1>5, <1>6 DEF Prompt, NoRedactedDelivery

\* Steps between the calls, and the end of a process.
LEMMA MovePrompt ==
    ASSUME IInv, Prompt, NEW w \in Workers,
           \/ EndPass(w) \/ CheckProvider(w) \/ Abandon(w) \/ Restart(w)
           \/ ResolveContent(w) /\ cur' = cur
    PROVE  Prompt'
<1>1. UNCHANGED <<row, clock, submitted>>
  BY DEF EndPass, CheckProvider, Suppression, Abandon, Restart, ResolveContent, ReferralDelivery, history
<1>2. \A v \in Workers :
         /\ batch'[v] \subseteq batch[v]
         /\ cur'[v] # NoItem => cur'[v] = cur[v]
  BY DEF EndPass, CheckProvider, Suppression, Abandon, Restart, ResolveContent, ReferralDelivery, IInv, TypeOK
<1>3. \A v \in Workers \ {w} : pc'[v] = pc[v] /\ cur'[v] = cur[v]
  BY DEF EndPass, CheckProvider, Suppression, Abandon, Restart, ResolveContent, ReferralDelivery, IInv, TypeOK
<1>4. ASSUME pc'[w] = "send" PROVE cur'[w] # NoItem /\ cur[w].body = "text"
  <2>1. CASE CheckProvider(w)
    <3>1. cur[w] # NoItem /\ cur' = cur /\ cur[w].msg \notin Invitations
      BY <1>4, <2>1 DEF CheckProvider, Suppression, IInv, TypeOK, Control, Dispatching
    <3> QED BY <3>1 DEF Prompt, SoundHands, Sound
  <2>2. CASE ResolveContent(w) /\ cur' = cur
    <3>1. /\ cur' = [cur EXCEPT ![w].body = "text"] /\ cur[w] # NoItem /\ cur[w] \in Items
      BY <1>4, <2>2 DEF ResolveContent, ReferralDelivery, IInv, TypeOK, Control, Dispatching
    <3>2. cur'[w].body = "text"
      BY <3>1 DEF IInv, TypeOK, Items
    <3> QED BY <2>2, <3>1, <3>2
  <2>3. CASE EndPass(w) \/ Abandon(w) \/ Restart(w)
    BY <1>4, <2>3 DEF EndPass, Abandon, Restart, IInv, TypeOK
  <2> QED BY <2>1, <2>2, <2>3
<1>5. \A v \in Workers \ {w} : pc[v] = "send" => cur[v] # NoItem /\ cur[v].body = "text"
  BY DEF IInv, Control, Dispatching, Prompt, SoundHands
<1>6. \A m : Kept(m) => Kept(m)'
  BY <1>1 DEF Kept, row, clock
<1>7. \A v \in Workers : cur'[v] # NoItem /\ Kept(cur[v].msg) => Kept(cur[v].msg)'
  BY <1>2, <1>6
<1>8. OneHand' /\ SoundHands'
  BY <1>2, <1>3, <1>4, <1>5, <1>6, <1>7, HandsFall
<1>9. SoundRows'
  BY <1>1 DEF SoundRows, Spent, Prompt, row, clock
<1> QED BY <1>1, <1>8, <1>9 DEF Prompt, NoRedactedDelivery

\* The content of an invitation is made.
LEMMA ResolvePrompt ==
    ASSUME IInv, Prompt, NEW w \in Workers, ResolveContent(w), cur' # cur
    PROVE  Prompt'
<1>1. /\ cur' = [cur EXCEPT ![w].body = "text"] /\ pc' = [pc EXCEPT ![w] = "send"]
      /\ batch' = batch /\ UNCHANGED <<row, clock, submitted>>
      /\ cur[w] \in Items /\ cur[w] # NoItem
  BY DEF ResolveContent, ReferralDelivery, history, IInv, TypeOK, Control, Dispatching
<1>2. /\ cur'[w].msg = cur[w].msg /\ cur'[w].body = "text"
      /\ \A v \in Workers \ {w} : cur'[v] = cur[v] /\ pc'[v] = pc[v]
  BY <1>1 DEF IInv, TypeOK, Items
<1>3. \A j : Sound(j) => Sound(j)'
  BY <1>1 DEF Sound, Kept, row, clock
<1>4. OneHand'
  BY <1>1, <1>2 DEF Prompt, OneHand
<1>5. SoundHands'
  <2>1. ASSUME NEW v \in Workers, NEW j, j = cur'[v], j # NoItem PROVE Sound(j)'
    <3>1. CASE v = w
      <4>1. Kept(j.msg)
        BY <1>1, <1>2, <2>1, <3>1 DEF Prompt, SoundHands, Sound
      <4>2. Sound(j)
        BY <1>2, <2>1, <3>1, <4>1 DEF Sound
      <4> QED BY <1>3, <4>2
    <3>2. CASE v # w
      BY <1>2, <1>3, <2>1, <3>2 DEF Prompt, SoundHands
    <3> QED BY <3>1, <3>2
  <2> QED BY <1>1, <1>2, <1>3, <2>1 DEF Prompt, SoundHands
<1>6. SoundRows'
  BY <1>1 DEF SoundRows, Spent, Prompt, row, clock
<1> QED BY <1>1, <1>4, <1>5, <1>6 DEF Prompt, NoRedactedDelivery

LEMMA SendPrompt ==
    ASSUME IInv, Prompt, NEW w \in Workers, Send(w)
    PROVE  Prompt'
<1>1. /\ UNCHANGED <<row, clock, batch, cur>> /\ pc[w] = "send" /\ cur[w] # NoItem
      /\ submitted' \subseteq submitted \cup {cur[w]}
      /\ \E p \in {"record", "fail"} : pc' = [pc EXCEPT ![w] = p]
  BY SendSubmits DEF IInv, Control, Dispatching
<1>2. \A v \in Workers : pc'[v] = "send" => pc[v] = "send"
  BY <1>1 DEF IInv, TypeOK
<1>3. \A v \in Workers : pc[v] = "send" => cur[v] # NoItem /\ cur[v].body = "text"
  BY DEF IInv, Control, Dispatching, Prompt, SoundHands
<1>4. \A m : Kept(m) => Kept(m)'
  BY <1>1 DEF Kept, row, clock
<1>5. \A v \in Workers : cur'[v] # NoItem /\ Kept(cur[v].msg) => Kept(cur[v].msg)'
  BY <1>1, <1>4
<1>6. OneHand' /\ SoundHands'
  BY <1>1, <1>2, <1>3, <1>4, <1>5, HandsFall
<1>7. SoundRows'
  BY <1>1 DEF SoundRows, Spent, Prompt, row, clock
<1> QED BY <1>1, <1>3, <1>6, <1>7 DEF Prompt, NoRedactedDelivery

\* An outcome is written to the row in hand, which nobody else holds.
LEMMA OutcomePrompt ==
    ASSUME IInv, Prompt, NEW w \in Workers, RecordSent(w) \/ MarkSuppressed(w) \/ MarkFailed(w)
    PROVE  Prompt'
<1> PICK m : m = cur[w].msg
  OBVIOUS
<1>1. cur[w] # NoItem /\ cur[w] \in Items /\ m \in Messages
  BY DEF RecordSent, MarkSuppressed, MarkFailed, IInv, TypeOK, Control, Dispatching, Items
<1>2. /\ cur' = [cur EXCEPT ![w] = NoItem] /\ pc' = [pc EXCEPT ![w] = "dispatch"]
      /\ leaseOver' = [leaseOver EXCEPT ![m] = FALSE]
      /\ UNCHANGED <<attempts, expired, batch, submitted>>
  BY DEF RecordSent, MarkSuppressed, MarkFailed, Finish, history
<1>3. /\ \A n \in Messages \ {m} : status'[n] = status[n] /\ body'[n] = body[n]
      /\ status'[m] \in {"sent", "suppressed", "failed"}
      /\ status'[m] = "failed" => body'[m] = body[m] \/ cur[w].attempt >= MaxAttempts
  BY <1>1 DEF RecordSent, MarkSuppressed, MarkFailed, IInv, TypeOK
<1>4. Kept(m)
  BY <1>1 DEF Prompt, SoundHands, Sound
<1>5. \A n \in Messages \ {m} : Kept(n) => Kept(n)'
  BY <1>1, <1>2, <1>3 DEF Kept, IInv, TypeOK
<1>6. \A v \in Workers : \A i \in batch[v] : i.msg \in Messages \ {m}
  BY <1>1 DEF Prompt, OneHand, IInv, TypeOK, Items
<1>7. \A v \in Workers \ {w} : cur[v] # NoItem => cur[v].msg \in Messages \ {m}
  BY <1>1 DEF Prompt, OneHand, IInv, TypeOK, Items
<1>8. /\ cur'[w] = NoItem /\ pc'[w] = "dispatch"
      /\ \A v \in Workers \ {w} : cur'[v] = cur[v] /\ pc'[v] = pc[v]
  BY <1>2 DEF IInv, TypeOK
<1>9. \A v \in Workers : pc[v] = "send" => cur[v] # NoItem /\ cur[v].body = "text"
  BY DEF IInv, Control, Dispatching, Prompt, SoundHands
<1>10. \A v \in Workers : cur'[v] # NoItem /\ Kept(cur[v].msg) => Kept(cur[v].msg)'
  BY <1>5, <1>7, <1>8
<1>11. OneHand' /\ SoundHands'
  BY <1>2, <1>5, <1>6, <1>8, <1>9, <1>10, HandsFall
<1>12. SoundRows'
  <2>1. ASSUME NEW n \in Messages \ {m}
        PROVE  /\ leaseOver'[n] => status'[n] = "sending"
               /\ body'[n] = "redacted" /\ n \notin Invitations => Spent(n)'
    BY <1>1, <1>2, <1>3 DEF Prompt, SoundRows, Spent, IInv, TypeOK
  <2>2. ~leaseOver'[m]
    BY <1>1, <1>2 DEF IInv, TypeOK
  <2>3. ASSUME body'[m] = "redacted", m \notin Invitations PROVE Spent(m)'
    <3>1. CASE status'[m] \in {"sent", "suppressed"}
      BY <3>1 DEF Spent
    <3>2. CASE status'[m] = "failed" /\ body'[m] = body[m]
      BY <1>1, <1>2, <1>4, <2>3, <3>2 DEF Prompt, SoundRows, Spent, Kept
    <3>3. CASE cur[w].attempt >= MaxAttempts
      <4>1. attempts[m] >= MaxAttempts
        <5>1. cur[w].attempt <= attempts[m]
          BY <1>1 DEF IInv, Counted
        <5>2. cur[w].attempt \in Nat /\ attempts[m] \in Nat /\ MaxAttempts \in Nat
          BY <1>1, OutboxAssumption DEF Items, IInv, TypeOK
        <5> QED BY <3>3, <5>1, <5>2
      <4> QED BY <1>2, <4>1 DEF Spent
    <3> QED BY <1>3, <3>1, <3>2, <3>3
  <2> QED BY <2>1, <2>2, <2>3 DEF SoundRows
<1> QED BY <1>2, <1>11, <1>12 DEF Prompt, NoRedactedDelivery

LEMMA PromptInvariant == ~SlowWorkers /\ Spec => [](IInv /\ Prompt)
<1> SUFFICES ASSUME ~SlowWorkers PROVE Spec => [](IInv /\ Prompt)
  OBVIOUS
<1>1. Init => Prompt
  BY DEF Init, Prompt, OneHand, SoundHands, Sound, SoundRows, Spent, NoRedactedDelivery
<1>2. IInv /\ Prompt /\ [Next]_vars => Prompt'
  <2> SUFFICES ASSUME IInv, Prompt, [Next]_vars PROVE Prompt'
    OBVIOUS
  <2>1. ASSUME NEW w \in Workers, WorkerStep(w) \/ Abandon(w) \/ Restart(w)
        PROVE  Prompt'
    <3>1. CASE ResolveContent(w)
      <4>1. CASE cur' = cur
        BY <3>1, <4>1, MovePrompt
      <4>2. CASE cur' # cur
        BY <3>1, <4>2, ResolvePrompt
      <4> QED BY <4>1, <4>2
    <3>2. CASE EndPass(w) \/ CheckProvider(w) \/ Abandon(w) \/ Restart(w)
      BY <3>2, MovePrompt
    <3>3. CASE RecordSent(w) \/ MarkSuppressed(w) \/ MarkFailed(w)
      BY <3>3, OutcomePrompt
    <3> QED BY <2>1, <3>1, <3>2, <3>3, ExpirePrompt, ClaimPrompt, StartDispatchPrompt, SendPrompt
            DEF WorkerStep
  <2>2. CASE UNCHANGED vars
    <3>1. UNCHANGED <<worker, row, clock, submitted>>
      BY <2>2 DEF vars, history
    <3>2. OneHand' /\ SoundHands'
      BY <3>1, HandsRest DEF Kept, row, clock
    <3>3. SoundRows' /\ NoRedactedDelivery'
      BY <3>1 DEF Prompt, SoundRows, Spent, NoRedactedDelivery, row, clock
    <3> QED BY <3>2, <3>3 DEF Prompt
  <2> QED BY <2>1, <2>2, EnvironmentPrompt DEF Next
<1> QED BY <1>1, <1>2, OutboxInvariant, PTL DEF Spec

\* Nobody is mailed the text that replaces an erased code or link, while no worker outlives
\* its lease (service.go:115, 243, 264, 278).  A slow worker that fails a row which another has
\* sent meanwhile would reopen it without its text.
THEOREM TextIsDelivered == ~SlowWorkers /\ Spec => []NoRedactedDelivery
BY PromptInvariant, PTL DEF Prompt

\* A row recorded as sent or suppressed keeps that outcome, while no worker outlives its
\* lease: the updates that write outcomes look at the id only (service.go:243, 264, 278, 281).
THEOREM OutcomeStays == ~SlowWorkers /\ Spec => OutcomeIsFinal
<1> DEFINE Final == \A m \in Messages : status[m] \in {"sent", "suppressed"} => status'[m] = status[m]
<1>1. IInv /\ Prompt /\ [Next]_vars => Final
  <2> SUFFICES ASSUME IInv, Prompt, [Next]_vars, NEW m \in Messages, status[m] \in {"sent", "suppressed"}
               PROVE  status'[m] = status[m]
    OBVIOUS
  <2>1. ASSUME NEW w \in Workers, RecordSent(w) \/ MarkSuppressed(w) \/ MarkFailed(w)
        PROVE  status'[m] = status[m]
    <3>1. cur[w] # NoItem /\ cur[w].msg \in Messages
      BY <2>1 DEF RecordSent, MarkSuppressed, MarkFailed, IInv, TypeOK, Control, Dispatching, Items
    <3>2. cur[w].msg # m
      BY <3>1 DEF Prompt, SoundHands, Sound, Kept
    <3> QED BY <2>1, <3>1, <3>2 DEF RecordSent, MarkSuppressed, MarkFailed, IInv, TypeOK
  <2>2. ASSUME NEW w \in Workers, WorkerStep(w) \/ Abandon(w) \/ Restart(w) \/ SyncSuppressions(w)
        PROVE  status'[m] = status[m]
    BY <2>1, <2>2 DEF WorkerStep, Abandon, Restart, SyncSuppressions, ExpireSensitiveContent, Lapsed, Claim,
       Claimable, Recovered, StartDispatch, EndPass, CheckProvider, Suppression, ResolveContent,
       ReferralDelivery, Send, ProviderSend, row
  <2>3. ASSUME NEW n \in Messages, EnqueueSecurityEmail(n) \/ SendInvitation(n)
        PROVE  status'[m] = status[m]
    BY <2>3 DEF EnqueueSecurityEmail, SendInvitation, Queued, IInv, TypeOK
  <2>4. CASE \/ CancelInvitation \/ CandidateAnswers
             \/ \E n \in Messages : BecomeDue(n) \/ Expire(n) \/ LeaseRunsOut(n)
             \/ \E r \in Recipients : ProviderSuppresses(r)
             \/ UNCHANGED vars
    BY <2>4 DEF CancelInvitation, Queued, CandidateAnswers, BecomeDue, Expire, LeaseRunsOut,
       ProviderSuppresses, row, vars
  <2> QED BY <2>2, <2>3, <2>4 DEF Next
<1>2. IInv /\ Prompt /\ [Next]_vars => [Final]_vars
  BY <1>1
<1> QED BY <1>2, PromptInvariant, PTL DEF Spec, OutcomeIsFinal

-----------------------------------------------------------------------------
(* The gateway's breaker, in the run that hosts both services              *)

\* A caller's rows, and the counters as far as they are told apart.
CallRows ==
    /\ enabled \in BOOLEAN
    /\ failures \in Nat
    /\ step \in [Callers -> {"idle", "gated", "slot", "attempt", "reserved", "provider",
                             "answered", "waiting", "ended", "leaving"}]
    /\ unsettled \in [Callers -> Int]
    /\ since \in [Callers -> Nat]

\* While the gate is closed an operation is on its only call, or after it.
Quiet ==
    ~enabled => \A c \in Callers :
        \/ since[c] = 0
        \/ since[c] = 1 /\ step[c] \in {"provider", "answered", "waiting", "ended", "leaving"}

BreakerInv == CallRows /\ Quiet /\ Calls!OpenedForFailures /\ Calls!OneReservation

LEMMA CallsInit ==
    ASSUME Calls!Init
    PROVE  BreakerInv
<1> USE CallsAssumption DEF Calls!Init
<1>1. CallRows
  BY DEF CallRows
<1>2. Quiet
  BY DEF Quiet
<1>3. Calls!OpenedForFailures /\ Calls!OneReservation
  BY DEF Calls!OpenedForFailures, Calls!OneReservation
<1> QED BY <1>1, <1>2, <1>3 DEF BreakerInv

\* Admission, the attempt and its budget, up to its result.
LEMMA CallProceeds ==
    ASSUME BreakerInv, NEW c \in Callers,
           \/ Calls!Enter(c) \/ Calls!Turned(c) \/ Calls!TakeSlot(c) \/ Calls!Begin(c)
           \/ Calls!Reserve(c) \/ Calls!Journal(c) \/ Calls!Answer(c) \/ Calls!Settle(c)
           \/ Calls!Retry(c) \/ Calls!Leave(c)
    PROVE  BreakerInv'
<1> USE DEF BreakerInv, CallRows
<1>1. UNCHANGED <<enabled, failures, circuit>>
  BY DEF Calls!Enter, Calls!Turned, Calls!TakeSlot, Calls!Begin, Calls!Reserve, Calls!Journal,
     Calls!Answer, Calls!Settle, Calls!Retry, Calls!Leave, Calls!breaker
<1>2. Calls!OpenedForFailures'
  BY <1>1 DEF Calls!OpenedForFailures
<1>3. CASE Calls!Enter(c) \/ Calls!Turned(c) \/ Calls!TakeSlot(c) \/ Calls!Begin(c)
  <2>1. /\ UNCHANGED <<unsettled, since>> /\ step[c] \in {"idle", "gated", "slot"}
        /\ \E k \in {"idle", "gated", "slot", "attempt", "leaving"} : step' = [step EXCEPT ![c] = k]
    BY <1>3 DEF Calls!Enter, Calls!Turned, Calls!TakeSlot, Calls!Begin, Calls!operation
  <2>2. CallRows' /\ Quiet' /\ Calls!OneReservation'
    BY <1>1, <2>1 DEF Quiet, Calls!OneReservation
  <2> QED BY <1>2, <2>2
<1>4. CASE Calls!Reserve(c)
  <2>1. /\ UNCHANGED since /\ step[c] = "attempt"
        /\ \/ step' = [step EXCEPT ![c] = "reserved"] /\ unsettled' = [unsettled EXCEPT ![c] = @ + 1]
           \/ step' = [step EXCEPT ![c] = "ended"] /\ UNCHANGED unsettled
    BY <1>4 DEF Calls!Reserve, Calls!Ends
  <2>2. CallRows' /\ Quiet' /\ Calls!OneReservation'
    BY <1>1, <2>1 DEF Quiet, Calls!OneReservation
  <2> QED BY <1>2, <2>2
<1>5. CASE Calls!Journal(c)
  <2>1. CASE /\ step' = [step EXCEPT ![c] = "provider"] /\ UNCHANGED unsettled
             /\ since' = [since EXCEPT ![c] = @ + 1]
    <3>1. step[c] = "reserved" /\ (~enabled => since[c] = 0)
      BY <1>5 DEF Quiet, Calls!Journal
    <3>2. CallRows'
      BY <1>1, <2>1
    <3>3. Quiet'
      BY <1>1, <2>1, <3>1 DEF Quiet
    <3>4. Calls!OneReservation'
      BY <1>1, <2>1, <3>1 DEF Calls!OneReservation
    <3> QED BY <1>2, <3>2, <3>3, <3>4
  <2>2. CASE /\ step' = [step EXCEPT ![c] = "ended"] /\ UNCHANGED since
             /\ unsettled' = [unsettled EXCEPT ![c] = @ - 1]
    <3>1. step[c] = "reserved"
      BY <1>5 DEF Calls!Journal
    <3>2. CallRows' /\ Quiet' /\ Calls!OneReservation'
      BY <1>1, <2>2, <3>1 DEF Quiet, Calls!OneReservation
    <3> QED BY <1>2, <3>2
  <2> QED BY <1>5, <2>1, <2>2 DEF Calls!Journal, Calls!Ends
<1>6. CASE Calls!Answer(c)
  <2>1. UNCHANGED <<unsettled, since>> /\ step[c] = "provider" /\ step' = [step EXCEPT ![c] = "answered"]
    BY <1>6 DEF Calls!Answer
  <2>2. CallRows' /\ Quiet' /\ Calls!OneReservation'
    BY <1>1, <2>1 DEF Quiet, Calls!OneReservation
  <2> QED BY <1>2, <2>2
<1>7. CASE Calls!Settle(c)
  <2>1. /\ UNCHANGED since /\ step[c] = "answered" /\ unsettled' = [unsettled EXCEPT ![c] = @ - 1]
        /\ \E k \in {"ended", "waiting"} : step' = [step EXCEPT ![c] = k]
    BY <1>7 DEF Calls!Settle, Calls!Ends
  <2>2. CallRows' /\ Quiet' /\ Calls!OneReservation'
    BY <1>1, <2>1 DEF Quiet, Calls!OneReservation
  <2> QED BY <1>2, <2>2
<1>8. CASE Calls!Retry(c)
  <2>1. /\ UNCHANGED <<unsettled, since>> /\ step[c] = "waiting"
        /\ \/ enabled /\ step' = [step EXCEPT ![c] = "attempt"]
           \/ step' = [step EXCEPT ![c] = "ended"]
    BY <1>8 DEF Calls!Retry, Calls!Ends
  <2>2. CallRows' /\ Quiet' /\ Calls!OneReservation'
    BY <1>1, <2>1 DEF Quiet, Calls!OneReservation
  <2> QED BY <1>2, <2>2
<1>9. CASE Calls!Leave(c)
  <2>1. /\ UNCHANGED unsettled /\ step[c] = "leaving" /\ step' = [step EXCEPT ![c] = "idle"]
        /\ since' = [since EXCEPT ![c] = 0]
    BY <1>9 DEF Calls!Leave
  <2>2. CallRows' /\ Quiet' /\ Calls!OneReservation'
    BY <1>1, <2>1 DEF Quiet, Calls!OneReservation
  <2> QED BY <1>2, <2>2
<1> QED BY <1>3, <1>4, <1>5, <1>6, <1>7, <1>8, <1>9

\* The result is recorded: the breaker opens with its reason and closes without.
LEMMA ResultRecorded ==
    ASSUME BreakerInv, NEW c \in Callers, Calls!Record(c)
    PROVE  BreakerInv'
<1> USE CallsAssumption DEF BreakerInv, CallRows
<1>1. UNCHANGED <<enabled, unsettled, since>> /\ step[c] = "ended" /\ step' = [step EXCEPT ![c] = "leaving"]
  BY DEF Calls!Record, Calls!operation
<1>2. CASE failures' = 0 /\ circuit' = "zero"
  BY <1>1, <1>2 DEF Quiet, Calls!OneReservation, Calls!OpenedForFailures
<1>3. CASE UNCHANGED <<failures, circuit>>
  BY <1>1, <1>3 DEF Quiet, Calls!OneReservation, Calls!OpenedForFailures
<1>4. CASE /\ failures' = Calls!Bounded(failures + 1)
           /\ circuit' = "future" \/ (failures + 1 < Threshold /\ circuit' = circuit)
  <2>1. failures' \in Nat \ {0} /\ (failures' = Threshold => failures + 1 >= Threshold)
    BY <1>4 DEF Calls!Bounded
  <2>2. Calls!OpenedForFailures'
    BY <1>4, <2>1 DEF Calls!OpenedForFailures
  <2>3. CallRows' /\ Quiet' /\ Calls!OneReservation'
    BY <1>1, <2>1 DEF Quiet, Calls!OneReservation
  <2> QED BY <2>2, <2>3
<1> QED BY <1>2, <1>3, <1>4 DEF Calls!Record

\* The breaker cools down; the gate opens or closes and the count of calls starts anew.
LEMMA GateMoves ==
    ASSUME BreakerInv, Calls!CooledDown \/ Calls!SetGate
    PROVE  BreakerInv'
<1> USE DEF BreakerInv, CallRows
<1>1. CASE Calls!CooledDown
  <2>1. UNCHANGED <<enabled, failures, step, unsettled, since>> /\ circuit = "future" /\ circuit' = "past"
    BY <1>1 DEF Calls!CooledDown, Calls!operation
  <2> QED BY <2>1 DEF Quiet, Calls!OneReservation, Calls!OpenedForFailures
<1>2. CASE Calls!SetGate
  <2>1. UNCHANGED <<failures, circuit, step, unsettled>> /\ since' = [c \in Callers |-> 0]
    BY <1>2 DEF Calls!SetGate, Calls!operation, Calls!breaker
  <2>2. enabled' \in BOOLEAN
    BY <1>2, Zenon DEF Calls!SetGate
  <2>3. Quiet' /\ Calls!OneReservation' /\ Calls!OpenedForFailures'
    BY <2>1 DEF Quiet, Calls!OneReservation, Calls!OpenedForFailures
  <2> QED BY <2>1, <2>2, <2>3
<1> QED BY <1>1, <1>2

\* The breaker is open exactly while its reason is counted, a switched-off gateway
\* makes no retry, and no reservation is left behind, for any number of callers.
THEOREM BreakerStaysHonest == DeliverySpec => []BreakerIsHonest
<1>1. DeliveryInit => BreakerInv
  BY CallsInit DEF DeliveryInit
<1>2. BreakerInv /\ [EmailsRun \/ CallsRun]_<<service, vars, callVars>> => BreakerInv'
  <2>1. ASSUME BreakerInv, Calls!Next PROVE BreakerInv'
    BY <2>1, CallProceeds, ResultRecorded, GateMoves DEF Calls!Next, Calls!CallStep
  <2>2. ASSUME BreakerInv, UNCHANGED callVars PROVE BreakerInv'
    BY <2>2 DEF BreakerInv, CallRows, Quiet, Calls!OpenedForFailures, Calls!OneReservation, callVars
  <2> QED BY <2>1, <2>2 DEF EmailsRun, CallsRun
<1>3. BreakerInv => BreakerIsHonest
  BY DEF BreakerInv, CallRows, Quiet, BreakerIsHonest, Calls!BreakerIsHonest, Calls!SwitchStopsRetries
<1> QED BY <1>1, <1>2, <1>3, PTL DEF DeliverySpec

-----------------------------------------------------------------------------
(* The alerts of saved searches, in the run that hosts them                *)

\* A later time that is a whole period ahead falls in a later window.
LEMMA LaterWindow ==
    ASSUME NEW x \in Nat, NEW t \in Nat, NEW p \in Nat \ {0}, x + p <= t
    PROVE  /\ x \div p \in Nat /\ t \div p \in Nat
           /\ x \div p < t \div p
<1>1. /\ x \div p \in Int /\ t \div p \in Int
      /\ p * (x \div p) <= x /\ t < p * (t \div p) + p
      /\ x < p * (x \div p) + p /\ p * (t \div p) <= t
  OBVIOUS
<1>2. ASSUME NEW q \in Int, NEW y \in Nat, y < p * q + p PROVE q >= 0
  <2> SUFFICES ASSUME q <= -1 PROVE FALSE OBVIOUS
  <2>1. p * (q + 1) <= 0 OBVIOUS
  <2>2. p * (q + 1) = p * q + p OBVIOUS
  <2>3. \A m \in Int : y < m => ~(m <= 0) OBVIOUS
  <2> QED BY <2>1, <2>2, <2>3, <1>2
<1>3. ASSUME t \div p <= x \div p PROVE FALSE
  <2>1. \A a, b \in Int : a <= b => p * a <= p * b OBVIOUS
  <2>2. p * (t \div p) <= p * (x \div p) BY <2>1, <1>1, <1>3
  <2>3. \A m, n \in Int : x + p <= t /\ m <= x /\ t < n + p => m < n OBVIOUS
  <2> QED BY <2>2, <2>3, <1>1
<1> QED BY <1>1, <1>2, <1>3

LEMMA WindowOf ==
    ASSUME NEW t \in Nat, NEW p \in Nat \ {0}
    PROVE  t \div p \in Nat
<1>1. t + p \in Nat /\ t + p <= t + p
  OBVIOUS
<1> QED BY <1>1, LaterWindow

Times == Nat \cup {None}
Saves == [status : {"none", "live", "deleted"}, enabled : BOOLEAN, last : Times, saved : Nat]
Rows == [id : SearchRows, last : Times, saved : Nat, valid : BOOLEAN]
Found == [step : {"found"}, row : Rows, found : BOOLEAN]
Recording == [step : {"record"}, row : Rows, found : BOOLEAN, at : Nat]

SearchTypes ==
    /\ now \in Nat
    /\ search \in [SearchRows -> Saves]
    /\ profile \in [updated : Times, visible : BOOLEAN]
    /\ pass \in [Workers -> Seq(Rows)]
    /\ evaluation \in [Workers -> {Searches!Idle} \cup Found \cup Recording]
    /\ emails \subseteq SearchRows \X Nat

\* The rows a process has read and not finished with.
InHand(w) ==
    {pass[w][k] : k \in 1 .. Len(pass[w])}
        \cup (IF evaluation[w] = Searches!Idle THEN {} ELSE {evaluation[w].row})

\* Every alert of the search is of a window that ended before the last one did.
Told(s, last) ==
    \A e \in emails : e[1] = s => last # None /\ e[2] <= last \div AlertPeriod

\* No time is ahead of the clock.
Past(t) == t # None => t <= now

Clocked ==
    /\ Past(profile.updated)
    /\ \A s \in SearchRows : Past(search[s].last) /\ search[s].saved <= now

\* A search with news was read with a time before them, and is due in a new window.
Handled ==
    \A w \in Workers : \A r \in InHand(w) :
        /\ search[r.id].status # "none"
        /\ r.last # None => r.last + AlertPeriod <= now
        /\ Searches!News(r.id) => profile.updated >= Searches!Since(r) /\ Told(r.id, r.last)

\* An evaluation that found nothing overlooked nothing, and it records a time that is due.
Evaluation ==
    \A w \in Workers :
        /\ evaluation[w] # Searches!Idle /\ ~evaluation[w].found =>
              ~Searches!News(evaluation[w].row.id)
        /\ evaluation[w].step = "record" =>
              /\ evaluation[w].at <= now
              /\ evaluation[w].row.last # None =>
                    evaluation[w].row.last + AlertPeriod <= evaluation[w].at

\* A search that has never been evaluated has no alerts yet.
Unheard(s) == search[s].status = "none" \/ (Searches!Live(s) /\ search[s].last = None)

Emails ==
    \A s \in SearchRows :
        /\ Unheard(s) => \A e \in emails : e[1] # s
        /\ Searches!News(s) => Told(s, search[s].last)

SearchInv ==
    SearchTypes /\ Clocked /\ Handled /\ Evaluation /\ Emails /\ Searches!NothingMissed

LEMMA CountOfSearches ==
    ASSUME NEW S
    PROVE  Searches!Cardinality(S) = Cardinality(S)
BY Zenon DEF Searches!Cardinality, Cardinality

LEMMA SearchesStart ==
    ASSUME Searches!Init
    PROVE  SearchInv
<1>1. /\ now = 0 /\ profile = [updated |-> None, visible |-> TRUE]
      /\ pass = [w \in Workers |-> <<>>] /\ evaluation = [w \in Workers |-> Searches!Idle]
      /\ emails = {}
      /\ search \in [SearchRows -> {Searches!Saved, Searches!NoRow}]
  BY DEF Searches!Init
<1>2. SearchTypes
  <2>1. Searches!Saved \in Saves /\ Searches!NoRow \in Saves
    BY DEF Saves, Times, Searches!Saved, Searches!NoRow
  <2>2. pass \in [Workers -> Seq(Rows)]
    BY <1>1
  <2>3. profile \in [updated : Times, visible : BOOLEAN]
    BY <1>1 DEF Times
  <2> QED BY <1>1, <2>1, <2>2, <2>3 DEF SearchTypes
<1>3. \A s \in SearchRows : search[s].last = None /\ search[s].saved = 0 /\ ~Searches!News(s)
  BY <1>1 DEF Searches!Saved, Searches!NoRow, Searches!News
<1>4. Clocked
  BY <1>1, <1>3 DEF Clocked, Past
<1>5. \A w \in Workers : InHand(w) = {}
  BY <1>1 DEF InHand
<1>6. Evaluation
  BY <1>1 DEF Evaluation, Searches!Idle
<1> QED BY <1>1, <1>2, <1>3, <1>4, <1>5, <1>6 DEF SearchInv, Handled, Emails, Searches!NothingMissed

LEMMA HandRows ==
    ASSUME SearchTypes, NEW w \in Workers, NEW r \in InHand(w)
    PROVE  r \in Rows /\ r.id \in SearchRows
<1>1. CASE r \in {pass[w][k] : k \in 1 .. Len(pass[w])}
  <2>1. PICK k \in 1 .. Len(pass[w]) : r = pass[w][k]
    BY <1>1
  <2>2. pass[w] \in Seq(Rows)
    BY DEF SearchTypes
  <2>3. r \in Rows
    BY <2>1, <2>2
  <2> QED BY <2>3 DEF Rows
<1>2. CASE evaluation[w] # Searches!Idle /\ r = evaluation[w].row
  BY <1>2 DEF SearchTypes, Found, Recording, Rows
<1> QED BY <1>1, <1>2 DEF InHand

\* While no alert is stored and no update comes, news stay news of the same search.
LEMMA OwnersMove ==
    ASSUME SearchInv, SearchTypes', Clocked', now <= now',
           UNCHANGED <<pass, evaluation, emails>>, profile'.updated = profile.updated,
           \A s \in SearchRows :
              /\ search[s].status # "none" => search'[s].status # "none"
              /\ Unheard(s)' => Unheard(s)
              /\ Searches!News(s)' =>
                    /\ Searches!News(s) /\ search'[s].last = search[s].last
                    /\ Searches!Since(search'[s]) = Searches!Since(search[s])
    PROVE  SearchInv'
<1> USE DEF SearchInv
<1>1. \A w \in Workers : InHand(w)' = InHand(w)
  BY DEF InHand
<1>2. \A w \in Workers : \A r \in InHand(w) : r \in Rows
  BY HandRows
<1>3. \A s, t : Told(s, t)' <=> Told(s, t)
  BY DEF Told
<1>4. Handled'
  <2> SUFFICES ASSUME NEW w \in Workers, NEW r \in InHand(w)
               PROVE  /\ search'[r.id].status # "none"
                      /\ r.last # None => r.last + AlertPeriod <= now'
                      /\ Searches!News(r.id)' =>
                            profile'.updated >= Searches!Since(r) /\ Told(r.id, r.last)'
    BY <1>1 DEF Handled, Searches!Since
  <2>1. r \in Rows /\ r.id \in SearchRows /\ r.last \in Times
    BY <1>2 DEF Rows
  <2>2. /\ search[r.id].status # "none"
        /\ r.last # None => r.last + AlertPeriod <= now
        /\ Searches!News(r.id) => profile.updated >= Searches!Since(r) /\ Told(r.id, r.last)
    BY DEF Handled
  <2>3. r.last # None => r.last + AlertPeriod <= now'
    BY <2>1, <2>2, SearchesAssumption DEF SearchTypes, Times
  <2> QED BY <1>3, <2>1, <2>2, <2>3
<1>5. Evaluation'
  <2> SUFFICES ASSUME NEW w \in Workers
               PROVE  /\ evaluation[w] # Searches!Idle /\ ~evaluation[w].found =>
                            ~Searches!News(evaluation[w].row.id)'
                      /\ evaluation[w].step = "record" =>
                            /\ evaluation[w].at <= now'
                            /\ evaluation[w].row.last # None =>
                                  evaluation[w].row.last + AlertPeriod <= evaluation[w].at
    BY DEF Evaluation, Searches!Idle
  <2>1. evaluation[w] # Searches!Idle => evaluation[w].row \in InHand(w) /\ evaluation[w].row.id \in SearchRows
    BY <1>2 DEF InHand, Rows
  <2>2. evaluation[w].step = "record" => evaluation[w].at \in Nat
    BY DEF SearchTypes, Found, Recording, Searches!Idle
  <2> QED BY <2>1, <2>2 DEF Evaluation, SearchTypes
<1>6. Emails'
  BY <1>3 DEF Emails
<1>7. Searches!NothingMissed'
  BY DEF Searches!NothingMissed
<1> QED BY <1>4, <1>5, <1>6, <1>7

\* The clock, consent, the plan and the owners' commands.
LEMMA OwnersPreserve ==
    ASSUME SearchInv,
           \/ Searches!Tick \/ Searches!SetVisible
           \/ \E s \in SearchRows :
                 \/ Searches!SetPlan(s) \/ Searches!SaveSearch(s) \/ Searches!DeleteSavedSearch(s)
                 \/ \E on, filters \in BOOLEAN : Searches!UpdateSavedSearch(s, on, filters)
    PROVE  SearchInv'
<1> USE SearchesAssumption DEF SearchInv, SearchTypes, Clocked, Past, Times,
        Searches!clock, Searches!owned, Searches!worker
<1>1. CASE Searches!Tick
  <2>1. /\ now' = now + 1
        /\ UNCHANGED <<search, valid, allowed, profile, pass, evaluation, emails, told, unasked>>
    BY <1>1 DEF Searches!Tick
  <2>2. SearchTypes' /\ now <= now'
    BY <2>1
  <2>3. Clocked'
    BY <2>1 DEF Saves
  <2> QED BY <2>1, <2>2, <2>3, OwnersMove DEF Searches!News, Searches!Live, Unheard
<1>2. CASE Searches!SetVisible
  <2>1. /\ profile' = [profile EXCEPT !.visible = ~@]
        /\ UNCHANGED <<now, search, valid, allowed, pass, evaluation, emails, told, unasked>>
    BY <1>2 DEF Searches!SetVisible
  <2>2. profile' \in [updated : Times, visible : BOOLEAN] /\ profile'.updated = profile.updated
    BY <2>1
  <2>3. SearchTypes' /\ Clocked' /\ now <= now'
    BY <2>1, <2>2
  <2> QED BY <2>1, <2>2, <2>3, OwnersMove DEF Searches!News, Searches!Live, Unheard
<1>3. ASSUME NEW s \in SearchRows, Searches!SetPlan(s) PROVE SearchInv'
  <2>1. UNCHANGED <<now, profile, search, pass, evaluation, emails, told, unasked>>
    BY <1>3 DEF Searches!SetPlan
  <2>2. SearchTypes' /\ Clocked' /\ now <= now'
    BY <2>1
  <2> QED BY <2>1, <2>2, OwnersMove DEF Searches!News, Searches!Live, Unheard
<1>4. ASSUME NEW s \in SearchRows, Searches!SaveSearch(s) PROVE SearchInv'
  <2> DEFINE new == [Searches!NoRow EXCEPT !.status = "live", !.saved = now]
  <2>1. /\ UNCHANGED <<now, profile, pass, evaluation, emails, told>>
        /\ search[s].status = "none" /\ unasked' = unasked \cup {s}
        /\ search' = [search EXCEPT ![s] = new]
    BY <1>4 DEF Searches!SaveSearch
  <2>2. /\ new \in Saves
        /\ new.status = "live" /\ new.last = None /\ new.saved = now
    BY DEF Searches!NoRow, Saves
  <2> HIDE DEF new
  <2>3. SearchTypes' /\ Clocked' /\ now <= now'
    BY <2>1, <2>2
  <2> QED BY <2>1, <2>2, <2>3, OwnersMove DEF Searches!News, Searches!Live, Unheard
<1>5. ASSUME NEW s \in SearchRows, Searches!DeleteSavedSearch(s) PROVE SearchInv'
  <2> DEFINE new == [Searches!NoRow EXCEPT !.status = "deleted"]
  <2>1. /\ UNCHANGED <<now, profile, pass, evaluation, emails, told, unasked>>
        /\ search' = [search EXCEPT ![s] = new]
    BY <1>5 DEF Searches!DeleteSavedSearch
  <2>2. /\ new \in Saves
        /\ new.status = "deleted" /\ new.last = None /\ new.saved = 0
    BY DEF Searches!NoRow, Saves
  <2> HIDE DEF new
  <2>3. SearchTypes' /\ Clocked' /\ now <= now'
    BY <2>1, <2>2
  <2> QED BY <2>1, <2>2, <2>3, OwnersMove DEF Searches!News, Searches!Live, Unheard
<1>6. ASSUME NEW s \in SearchRows, NEW on \in BOOLEAN, NEW filters \in BOOLEAN,
             Searches!UpdateSavedSearch(s, on, filters)
      PROVE  SearchInv'
  <2>1. PICK old \in Saves : old = search[s]
    OBVIOUS
  <2> DEFINE new == [old EXCEPT !.enabled = on, !.saved = now]
  <2>2. /\ UNCHANGED <<now, profile, pass, evaluation, emails, told>>
        /\ search' = [search EXCEPT ![s] = new]
        /\ unasked \subseteq unasked'
        /\ search[s].last = None => unasked' = unasked \cup {s}
    BY <1>6, <2>1 DEF Searches!UpdateSavedSearch
  <2>3. /\ new \in Saves
        /\ new.status = search[s].status /\ new.last = search[s].last /\ new.saved = now
    BY <2>1 DEF Saves
  <2> HIDE DEF new
  <2>4. SearchTypes'
    <3>1. search' \in [SearchRows -> Saves]
      BY <2>2, <2>3
    <3> QED BY <2>2, <3>1
  <2>5. Clocked' /\ now <= now'
    BY <2>1, <2>2, <2>3
  <2> QED BY <2>1, <2>2, <2>3, <2>4, <2>5, OwnersMove
          DEF Searches!News, Searches!Live, Unheard, Searches!Since
<1> QED BY <1>1, <1>2, <1>3, <1>4, <1>5, <1>6

\* An update is news to every search that no process has in hand and whose time is in order.
LEMMA UpdatePreserves ==
    ASSUME SearchInv, Searches!UpdateProfile
    PROVE  SearchInv'
<1> USE SearchesAssumption DEF SearchInv
<1>1. /\ UNCHANGED <<now, search, pass, evaluation, emails>>
      /\ profile' = [profile EXCEPT !.updated = now] /\ told' = {}
      /\ unasked' = {s \in SearchRows : Searches!Evaluated(s) \/ Searches!SetBack(s)}
  BY DEF Searches!UpdateProfile, Searches!owned, Searches!worker
<1>2. profile' \in [updated : Times, visible : BOOLEAN] /\ profile'.updated = now
  BY <1>1 DEF SearchTypes, Times
<1>3. SearchTypes' /\ Clocked'
  BY <1>1, <1>2 DEF SearchTypes, Clocked, Past
<1>4. ASSUME NEW w \in Workers, NEW r \in InHand(w) PROVE r \in Rows /\ Searches!Evaluated(r.id)
  <2>1. evaluation[w] # Searches!Idle => evaluation[w].step # "idle"
    BY DEF SearchTypes, Found, Recording
  <2> QED BY <2>1, HandRows DEF InHand, Searches!Evaluated
<1>5. ASSUME NEW s \in SearchRows, Searches!News(s)' PROVE ~Searches!Evaluated(s) /\ ~Searches!SetBack(s)
  BY <1>1, <1>5 DEF Searches!News
<1>6. \A w \in Workers : InHand(w)' = InHand(w)
  BY <1>1 DEF InHand
<1>7. \A w \in Workers : \A r \in InHand(w) : ~Searches!News(r.id)'
  BY <1>4, <1>5 DEF Rows
<1>8. Handled'
  BY <1>1, <1>6, <1>7 DEF Handled
<1>9. Evaluation'
  <2>1. \A w \in Workers : evaluation[w] # Searches!Idle => evaluation[w].row \in InHand(w)
    BY DEF InHand
  <2> QED BY <1>1, <1>7, <2>1 DEF Evaluation
<1>10. Emails'
  <2>1. ASSUME NEW s \in SearchRows, Searches!News(s)' PROVE Told(s, search[s].last)
    <3>1. Searches!Live(s) /\ ~Searches!SetBack(s)
      BY <1>1, <1>5, <2>1 DEF Searches!News, Searches!Live
    <3>2. CASE search[s].last = None
      BY <3>1, <3>2 DEF Emails, Unheard, Told
    <3>3. CASE search[s].last # None
      <4>1. search[s].last \div AlertPeriod \in Nat
        <5>1. search[s].last \in Nat
          BY <3>3 DEF SearchTypes, Saves, Times
        <5> QED BY <5>1, WindowOf
      <4>2. \A e \in emails : e[2] \in Nat /\ ~(e[1] = s /\ e[2] > search[s].last \div AlertPeriod)
        BY <3>1, <3>3 DEF Searches!SetBack, SearchTypes
      <4> QED BY <3>3, <4>1, <4>2 DEF Told
    <3> QED BY <3>2, <3>3
  <2> QED BY <1>1, <2>1 DEF Emails, Unheard, Searches!Live, Told
<1>11. Searches!NothingMissed'
  BY <1>1, <1>2 DEF Searches!NothingMissed, Clocked, Past, Searches!Since, SearchTypes
<1> QED BY <1>3, <1>8, <1>9, <1>10, <1>11

\* A process goes on in its pass and stores nothing.
LEMMA PassGoesOn ==
    ASSUME SearchInv, SearchTypes', Evaluation',
           UNCHANGED <<now, search, profile, emails, told>>, unasked \subseteq unasked',
           \A w \in Workers : InHand(w)' \subseteq InHand(w)
    PROVE  SearchInv'
<1> USE DEF SearchInv
<1>1. \A s : (Searches!News(s)' => Searches!News(s)) /\ (Unheard(s)' <=> Unheard(s))
             /\ \A t : Told(s, t)' <=> Told(s, t)
  BY DEF Searches!News, Searches!Live, Unheard, Told
<1>2. Clocked'
  BY DEF Clocked, Past
<1>3. Handled'
  <2> SUFFICES ASSUME NEW w \in Workers, NEW r \in InHand(w)
               PROVE  /\ search[r.id].status # "none"
                      /\ r.last # None => r.last + AlertPeriod <= now
                      /\ Searches!News(r.id)' =>
                            profile.updated >= Searches!Since(r) /\ Told(r.id, r.last)'
    BY DEF Handled, Searches!Since
  <2> QED BY <1>1 DEF Handled
<1>4. Emails'
  BY <1>1 DEF Emails
<1>5. Searches!NothingMissed'
  BY <1>1 DEF Searches!NothingMissed, Searches!Since
<1> QED BY <1>2, <1>3, <1>4, <1>5

\* What the query returns was due, and nothing told before it is missed.
LEMMA StartPassPreserves ==
    ASSUME SearchInv, NEW w \in Workers, Searches!StartPass(w)
    PROVE  SearchInv'
<1> USE SearchesAssumption DEF SearchInv
<1>1. /\ UNCHANGED <<now, search, profile, evaluation, emails, told, unasked>>
      /\ evaluation[w] = Searches!Idle /\ pass[w] = <<>>
  BY DEF Searches!StartPass, Searches!clock, Searches!owned
<1>2. PICK q \in Searches!DueSavedSearchAlerts :
         pass' = [pass EXCEPT ![w] = [k \in DOMAIN q |-> Searches!Read(q[k])]]
  BY DEF Searches!StartPass
<1> DEFINE due == {s \in SearchRows : Searches!Due(s)}
<1>3. PICK n \in Nat : q \in [1 .. n -> due]
  <2>1. IsFiniteSet(due) /\ Searches!Cardinality(due) = Cardinality(due)
    BY FS_Subset, CountOfSearches
  <2>2. Cardinality(due) \in Nat
    BY <2>1, FS_CardinalityType
  <2> QED BY <2>1, <2>2 DEF Searches!DueSavedSearchAlerts
<1> DEFINE rows == [k \in 1 .. n |-> Searches!Read(q[k])]
<1>4. \A k \in 1 .. n : q[k] \in SearchRows /\ Searches!Due(q[k])
  BY <1>3
<1>5. \A k \in 1 .. n : Searches!Read(q[k]) \in Rows
  <2> SUFFICES ASSUME NEW s \in SearchRows PROVE Searches!Read(s) \in Rows
    BY <1>4
  <2>1. search[s].last \in Times /\ search[s].saved \in Nat
    BY DEF SearchTypes, Saves
  <2>2. (s \in valid) \in BOOLEAN
    OBVIOUS
  <2> QED BY <2>1, <2>2 DEF Searches!Read, Rows
<1>6. rows \in Seq(Rows) /\ Len(rows) = n
  BY <1>5
<1>7. pass' = [pass EXCEPT ![w] = rows]
  BY <1>2, <1>3
<1> HIDE DEF rows
<1>8. SearchTypes'
  BY <1>1, <1>6, <1>7 DEF SearchTypes
<1>9. ASSUME NEW v \in Workers, NEW r \in InHand(v)', r \notin InHand(v)
      PROVE  \E k \in 1 .. n : r = Searches!Read(q[k])
  <2>1. CASE v = w
    <3>1. pass'[v] = rows
      BY <1>7, <2>1 DEF SearchTypes
    <3>2. r \in {pass'[v][k] : k \in 1 .. Len(pass'[v])}
      BY <1>1, <1>9, <2>1 DEF InHand
    <3> QED BY <1>6, <3>1, <3>2 DEF rows
  <2>2. CASE v # w
    <3>1. pass'[v] = pass[v]
      BY <1>7, <2>2 DEF SearchTypes
    <3> QED BY <1>1, <1>9, <3>1 DEF InHand
  <2> QED BY <2>1, <2>2
<1>10. \A s, t : /\ Told(s, t)' <=> Told(s, t)
                 /\ Searches!News(s)' <=> Searches!News(s)
                 /\ Unheard(s)' <=> Unheard(s)
  BY <1>1 DEF Told, Searches!News, Searches!Live, Unheard
<1>11. Handled'
  <2> SUFFICES ASSUME NEW v \in Workers, NEW r \in InHand(v)'
               PROVE  /\ search[r.id].status # "none"
                      /\ r.last # None => r.last + AlertPeriod <= now
                      /\ Searches!News(r.id) =>
                            profile.updated >= Searches!Since(r) /\ Told(r.id, r.last)
    BY <1>1, <1>10 DEF Handled, Searches!Since
  <2>1. CASE r \in InHand(v)
    BY <2>1 DEF Handled
  <2>2. CASE r \notin InHand(v)
    <3>1. PICK k \in 1 .. n : r = Searches!Read(q[k])
      BY <1>9, <2>2
    <3>2. /\ r.id = q[k] /\ r.last = search[q[k]].last /\ r.saved = search[q[k]].saved
          /\ q[k] \in SearchRows /\ Searches!Due(q[k])
      BY <1>4, <3>1 DEF Searches!Read
    <3> QED BY <3>2 DEF Searches!Due, Searches!Live, Searches!Since, Emails, Searches!NothingMissed
  <2> QED BY <2>1, <2>2
<1>12. Clocked' /\ Evaluation'
  BY <1>1, <1>10 DEF Clocked, Past, Evaluation
<1>13. Emails' /\ Searches!NothingMissed'
  BY <1>1, <1>10 DEF Emails, Searches!NothingMissed, Searches!Since
<1> QED BY <1>8, <1>11, <1>12, <1>13

\* Hands and types, when a row leaves a pass and when an evaluation moves.
LEMMA FirstRow ==
    ASSUME SearchTypes, NEW w \in Workers, pass[w] # <<>>
    PROVE  /\ Head(pass[w]) \in Rows /\ Tail(pass[w]) \in Seq(Rows)
           /\ Head(pass[w]) \in {pass[w][k] : k \in 1 .. Len(pass[w])}
           /\ {Tail(pass[w])[k] : k \in 1 .. Len(Tail(pass[w]))}
                 \subseteq {pass[w][k] : k \in 1 .. Len(pass[w])}
<1>1. pass[w] \in Seq(Rows)
  BY DEF SearchTypes
<1>2. /\ Len(pass[w]) \in Nat \ {0} /\ Head(pass[w]) = pass[w][1] /\ Head(pass[w]) \in Rows
      /\ Tail(pass[w]) \in Seq(Rows) /\ Len(Tail(pass[w])) = Len(pass[w]) - 1
      /\ \A k \in 1 .. Len(Tail(pass[w])) : Tail(pass[w])[k] = pass[w][k + 1]
  BY <1>1
<1>3. \A k \in 1 .. Len(pass[w]) - 1 : k + 1 \in 1 .. Len(pass[w])
  BY <1>2
<1> QED BY <1>2, <1>3

LEMMA PassPreserves ==
    ASSUME SearchInv, NEW w \in Workers,
           Searches!SkipSearch(w) \/ Searches!Discover(w) \/ Searches!TakeTime(w) \/ Searches!Abort(w)
    PROVE  SearchInv'
<1> USE SearchesAssumption DEF SearchInv
<1>1. UNCHANGED <<now, search, profile, emails, told>> /\ unasked \subseteq unasked'
  BY DEF Searches!SkipSearch, Searches!Discover, Searches!TakeTime, Searches!Abort,
     Searches!clock, Searches!owned
<1>2. \A s : Searches!News(s)' => Searches!News(s)
  BY <1>1 DEF Searches!News, Searches!Live
<1>3. CASE Searches!SkipSearch(w)
  <2>1. pass[w] # <<>> /\ UNCHANGED evaluation /\ pass' = [pass EXCEPT ![w] = Tail(@)]
    BY <1>3 DEF Searches!SkipSearch, Searches!Next1
  <2>2. SearchTypes'
    BY <1>1, <2>1, FirstRow DEF SearchTypes
  <2>3. \A v \in Workers : InHand(v)' \subseteq InHand(v)
    <3> SUFFICES InHand(w)' \subseteq InHand(w)
      BY <2>1 DEF InHand, SearchTypes
    <3>1. pass'[w] = Tail(pass[w]) /\ evaluation'[w] = evaluation[w]
      BY <2>1 DEF SearchTypes
    <3> QED BY <2>1, <3>1, FirstRow DEF InHand
  <2>4. Evaluation'
    BY <1>1, <1>2, <2>1 DEF Evaluation
  <2> QED BY <1>1, <2>2, <2>3, <2>4, PassGoesOn
<1>4. CASE Searches!Discover(w)
  <2>1. pass[w] # <<>> /\ pass' = [pass EXCEPT ![w] = Tail(@)]
    BY <1>4 DEF Searches!Discover, Searches!Next1
  <2>2. PICK first \in Rows : first = Head(pass[w]) /\ first \in InHand(w)
    BY <2>1, FirstRow DEF InHand
  <2>3. PICK next \in Found :
           /\ evaluation' = [evaluation EXCEPT ![w] = next]
           /\ next.step = "found" /\ next.row = first /\ next # Searches!Idle
           /\ next.found = Searches!Matches(first)
    <3> DEFINE new == [step |-> "found", row |-> first, found |-> Searches!Matches(first)]
    <3>1. evaluation' = [evaluation EXCEPT ![w] = new]
      BY <1>4, <2>2 DEF Searches!Discover
    <3>2. Searches!Matches(first) \in BOOLEAN
      BY DEF Searches!Matches
    <3>3. new \in Found /\ new.step = "found" /\ new.row = first /\ new # Searches!Idle
          /\ new.found = Searches!Matches(first)
      BY <3>2 DEF Found, Searches!Idle
    <3> HIDE DEF new
    <3> QED BY <3>1, <3>3
  <2>4. ~Searches!Matches(first) => ~Searches!News(first.id)'
    <3>1. CASE ~profile.visible
      <4>1. first.id \in unasked'
        BY <1>4, <2>2, <3>1 DEF Searches!Discover
      <4> QED BY <4>1 DEF Searches!News
    <3>2. CASE profile.visible
      <4>1. Searches!News(first.id) => profile.updated # None /\ profile.updated >= Searches!Since(first)
        BY <2>2 DEF Handled, Searches!News
      <4> QED BY <1>2, <3>2, <4>1 DEF Searches!Matches
    <3> QED BY <3>1, <3>2
  <2>5. SearchTypes'
    BY <1>1, <2>1, <2>3, FirstRow DEF SearchTypes
  <2>6. \A v \in Workers : InHand(v)' \subseteq InHand(v)
    <3>1. \A v \in Workers \ {w} : pass'[v] = pass[v] /\ evaluation'[v] = evaluation[v]
      BY <2>1, <2>3 DEF SearchTypes
    <3>2. pass'[w] = Tail(pass[w]) /\ evaluation'[w] = next
      BY <2>1, <2>3 DEF SearchTypes
    <3>3. first \in {pass[w][k] : k \in 1 .. Len(pass[w])}
      BY <2>1, <2>2, FirstRow
    <3>4. InHand(w)' = {Tail(pass[w])[k] : k \in 1 .. Len(Tail(pass[w]))} \cup {first}
      BY <2>3, <3>2 DEF InHand
    <3>5. InHand(w)' \subseteq {pass[w][k] : k \in 1 .. Len(pass[w])}
      BY <2>1, <3>3, <3>4, FirstRow
    <3>6. InHand(w)' \subseteq InHand(w)
      BY <3>5 DEF InHand
    <3>7. \A v \in Workers \ {w} : InHand(v)' \subseteq InHand(v)
      BY <3>1 DEF InHand
    <3> QED BY <3>6, <3>7
  <2>7. Evaluation'
    <3>1. \A v \in Workers \ {w} : evaluation'[v] = evaluation[v]
      BY <2>3 DEF SearchTypes
    <3>2. evaluation'[w] = next
      BY <2>3 DEF SearchTypes
    <3> QED BY <1>1, <1>2, <2>3, <2>4, <3>1, <3>2 DEF Evaluation
  <2> QED BY <1>1, <2>5, <2>6, <2>7, PassGoesOn
<1>5. CASE Searches!TakeTime(w)
  <2> DEFINE next == [step |-> "record", row |-> evaluation[w].row,
                      found |-> evaluation[w].found, at |-> now]
  <2>1. /\ evaluation[w].step = "found" /\ UNCHANGED pass
        /\ evaluation' = [evaluation EXCEPT ![w] = next]
    BY <1>5 DEF Searches!TakeTime
  <2>2. evaluation[w] \in Found /\ evaluation[w] # Searches!Idle
    BY <2>1 DEF SearchTypes, Recording, Searches!Idle
  <2>3. /\ next \in Recording /\ next.step = "record" /\ next.row = evaluation[w].row
        /\ next.found = evaluation[w].found /\ next.at = now /\ next # Searches!Idle
    BY <2>2 DEF Found, Recording, SearchTypes, Searches!Idle
  <2> HIDE DEF next
  <2>4. SearchTypes'
    BY <1>1, <2>1, <2>3 DEF SearchTypes
  <2>5. \A v \in Workers : InHand(v)' \subseteq InHand(v)
    BY <2>1, <2>2, <2>3 DEF InHand, SearchTypes
  <2>6. evaluation[w].row \in InHand(w)
    BY <2>2 DEF InHand
  <2>7. Evaluation'
    <3>1. \A v \in Workers \ {w} : evaluation'[v] = evaluation[v]
      BY <2>1 DEF SearchTypes
    <3>2. evaluation'[w] = next
      BY <2>1 DEF SearchTypes
    <3>3. ~next.found => ~Searches!News(next.row.id)
      BY <2>2, <2>3 DEF Evaluation
    <3>4. next.row.last # None => next.row.last + AlertPeriod <= now
      BY <2>3, <2>6 DEF Handled
    <3>5. next.at <= now
      BY <2>3 DEF SearchTypes
    <3>6. ASSUME NEW v \in Workers
          PROVE  /\ evaluation'[v] # Searches!Idle /\ ~evaluation'[v].found =>
                       ~Searches!News(evaluation'[v].row.id)
                 /\ evaluation'[v].step = "record" =>
                       /\ evaluation'[v].at <= now
                       /\ evaluation'[v].row.last # None =>
                             evaluation'[v].row.last + AlertPeriod <= evaluation'[v].at
      <4>1. CASE v = w
        BY <2>3, <3>2, <3>3, <3>4, <3>5, <4>1
      <4>2. CASE v # w
        BY <3>1, <4>2 DEF Evaluation
      <4> QED BY <4>1, <4>2
    <3> QED BY <1>1, <1>2, <3>6 DEF Evaluation, Searches!Idle
  <2> QED BY <1>1, <2>4, <2>5, <2>7, PassGoesOn
<1>6. CASE Searches!Abort(w)
  <2>1. /\ pass' = [pass EXCEPT ![w] = <<>>]
        /\ evaluation' = [evaluation EXCEPT ![w] = Searches!Idle]
    BY <1>6 DEF Searches!Abort
  <2>2. SearchTypes'
    BY <1>1, <2>1 DEF SearchTypes
  <2>3. \A v \in Workers : InHand(v)' \subseteq InHand(v)
    BY <2>1 DEF InHand, SearchTypes
  <2>4. Evaluation'
    <3>1. \A v \in Workers \ {w} : evaluation'[v] = evaluation[v]
      BY <2>1 DEF SearchTypes
    <3>2. evaluation'[w] = Searches!Idle /\ Searches!Idle.step = "idle"
      BY <2>1 DEF SearchTypes, Searches!Idle
    <3> QED BY <1>1, <1>2, <3>1, <3>2 DEF Evaluation
  <2> QED BY <1>1, <2>2, <2>3, <2>4, PassGoesOn
<1> QED BY <1>3, <1>4, <1>5, <1>6

\* An alert that is dropped was told; one that is stored tells; and without one, none was due.
LEMMA RecordPreserves ==
    ASSUME SearchInv, NEW w \in Workers, Searches!RecordAlert(w)
    PROVE  SearchInv'
<1> USE SearchesAssumption DEF SearchInv
<1>1. /\ evaluation[w].step = "record" /\ UNCHANGED <<now, profile, pass, unasked>>
      /\ evaluation' = [evaluation EXCEPT ![w] = Searches!Idle]
  BY DEF Searches!RecordAlert, Searches!clock
<1>2. evaluation[w] \in Recording /\ evaluation[w] # Searches!Idle
  BY <1>1 DEF SearchTypes, Found, Searches!Idle
<1>3. PICK read_row \in Rows, s \in SearchRows, at \in Nat :
         /\ read_row = evaluation[w].row /\ s = read_row.id /\ at = evaluation[w].at
         /\ read_row \in InHand(w)
  BY <1>2 DEF Recording, Rows, InHand
<1> DEFINE window == at \div AlertPeriod
<1>4. /\ window \in Nat /\ at <= now
      /\ read_row.last # None => read_row.last \in Nat /\ read_row.last \div AlertPeriod < window
  <2>1. /\ at <= now
        /\ read_row.last # None => read_row.last + AlertPeriod <= at
    BY <1>1, <1>3 DEF Evaluation
  <2>2. read_row.last # None => read_row.last \in Nat
    BY DEF Rows, Times
  <2> QED BY <2>1, <2>2, WindowOf, LaterWindow
<1>5. /\ search[s].status # "none"
      /\ Searches!News(s) => Told(s, read_row.last)
      /\ ~evaluation[w].found => ~Searches!News(s)
  BY <1>2, <1>3 DEF Handled, Evaluation
<1>6. Searches!News(s) => <<s, window>> \notin emails
  <2> SUFFICES ASSUME Searches!News(s), <<s, window>> \in emails PROVE FALSE
    OBVIOUS
  <2>1. read_row.last # None /\ window <= read_row.last \div AlertPeriod
    BY <1>5 DEF Told
  <2>2. read_row.last \div AlertPeriod \in Nat
    BY <1>4, <2>1, WindowOf
  <2> QED BY <1>4, <2>1, <2>2
<1> HIDE DEF window
\* Either nothing is stored, or the time is, and either the search had no news or has none left.
<1>7. \/ UNCHANGED <<search, emails, told>>
      \/ /\ search' = IF Searches!Live(s) THEN [search EXCEPT ![s].last = at] ELSE search
         /\ emails' \subseteq emails \cup {<<s, window>>} /\ emails \subseteq emails'
         /\ told \subseteq told'
         /\ ~Searches!News(s) \/ s \in told'
         /\ emails' # emails => s \in told'
  <2>1. CASE evaluation[w].found /\ s \notin allowed
    BY <1>3, <2>1 DEF Searches!RecordAlert
  <2>2. CASE ~(evaluation[w].found /\ s \notin allowed)
    <3>1. /\ search' = IF Searches!Live(s) THEN [search EXCEPT ![s].last = at] ELSE search
          /\ IF evaluation[w].found
               THEN /\ emails' = emails \cup {<<s, window>>}
                    /\ told' = IF <<s, window>> \in emails THEN told ELSE told \cup {s}
               ELSE UNCHANGED <<emails, told>>
      BY <1>3, <2>2 DEF Searches!RecordAlert, Searches!Stamped, window
    <3> QED BY <1>5, <1>6, <3>1
  <2> QED BY <2>1, <2>2
<1>8. \A v \in Workers : InHand(v)' \subseteq InHand(v)
  BY <1>1 DEF InHand, SearchTypes
<1>9. \A v \in Workers \ {w} : evaluation'[v] = evaluation[v]
  BY <1>1 DEF SearchTypes
<1>10. evaluation'[w] = Searches!Idle /\ Searches!Idle.step = "idle"
  BY <1>1 DEF SearchTypes, Searches!Idle
<1>11. CASE UNCHANGED <<search, emails, told>>
  <2>1. SearchTypes'
    BY <1>1, <1>11 DEF SearchTypes
  <2>2. Evaluation'
    BY <1>1, <1>9, <1>10, <1>11 DEF Evaluation, Searches!News, Searches!Live
  <2> QED BY <1>1, <1>8, <1>11, <2>1, <2>2, PassGoesOn
<1>12. CASE /\ search' = IF Searches!Live(s) THEN [search EXCEPT ![s].last = at] ELSE search
            /\ emails' \subseteq emails \cup {<<s, window>>} /\ emails \subseteq emails'
            /\ told \subseteq told'
            /\ ~Searches!News(s) \/ s \in told'
            /\ emails' # emails => s \in told'
  <2> DEFINE new == [search[s] EXCEPT !.last = at]
  <2>1. /\ new \in Saves /\ new.status = search[s].status /\ new.last = at
        /\ new.saved = search[s].saved /\ search[s] \in Saves
    BY DEF SearchTypes, Saves, Times
  <2>2. search' = IF Searches!Live(s) THEN [search EXCEPT ![s] = new] ELSE search
    BY <1>12
  <2> HIDE DEF new
  <2>3. /\ search' \in [SearchRows -> Saves]
        /\ \A t \in SearchRows \ {s} : search'[t] = search[t]
        /\ search'[s] = IF Searches!Live(s) THEN new ELSE search[s]
    BY <2>1, <2>2 DEF SearchTypes
  <2>4. SearchTypes'
    <3>1. <<s, window>> \in SearchRows \X Nat
      BY <1>4
    <3>2. evaluation' \in [Workers -> {Searches!Idle} \cup Found \cup Recording]
      BY <1>1 DEF SearchTypes
    <3> QED BY <1>1, <1>12, <2>3, <3>1, <3>2 DEF SearchTypes
  <2>5. ~Searches!News(s)'
    BY <1>1, <1>12, <2>1, <2>3 DEF Searches!News, Searches!Live
  <2>6. \A t \in SearchRows : Searches!News(t)' => t # s /\ Searches!News(t) /\ search'[t] = search[t]
    BY <1>1, <1>12, <2>3, <2>5 DEF Searches!News, Searches!Live
  <2>7. \A t, x : t # s => (Told(t, x) => Told(t, x)')
    BY <1>12 DEF Told
  <2>8. Clocked'
    BY <1>1, <1>4, <2>1, <2>3 DEF Clocked, Past, SearchTypes
  <2>9. Handled'
    <3> SUFFICES ASSUME NEW v \in Workers, NEW r \in InHand(v)
                 PROVE  /\ search'[r.id].status # "none"
                        /\ r.last # None => r.last + AlertPeriod <= now
                        /\ Searches!News(r.id)' =>
                              profile.updated >= Searches!Since(r) /\ Told(r.id, r.last)'
      BY <1>1, <1>8 DEF Handled, Searches!Since
    <3>1. r.id \in SearchRows
      BY HandRows
    <3>2. /\ search[r.id].status # "none"
          /\ r.last # None => r.last + AlertPeriod <= now
          /\ Searches!News(r.id) => profile.updated >= Searches!Since(r) /\ Told(r.id, r.last)
      BY DEF Handled
    <3>3. search'[r.id].status # "none"
      BY <2>1, <2>3, <3>1, <3>2
    <3> QED BY <2>6, <2>7, <3>1, <3>2, <3>3
  <2>10. Evaluation'
    <3> SUFFICES ASSUME NEW v \in Workers, v # w
                 PROVE  /\ evaluation[v] # Searches!Idle /\ ~evaluation[v].found =>
                              ~Searches!News(evaluation[v].row.id)'
                        /\ evaluation[v].step = "record" =>
                              /\ evaluation[v].at <= now
                              /\ evaluation[v].row.last # None =>
                                    evaluation[v].row.last + AlertPeriod <= evaluation[v].at
      BY <1>1, <1>9, <1>10 DEF Evaluation
    <3>1. evaluation[v] # Searches!Idle => evaluation[v].row.id \in SearchRows
      BY HandRows DEF InHand
    <3> QED BY <1>9, <2>6, <3>1 DEF Evaluation
  <2>11. Emails'
    <3> SUFFICES ASSUME NEW t \in SearchRows
                 PROVE  /\ Unheard(t)' => \A e \in emails' : e[1] # t
                        /\ Searches!News(t)' => Told(t, search[t].last)'
      BY DEF Emails
    <3>1. CASE t = s
      <4>1. ~Unheard(s)'
        BY <1>5, <2>1, <2>3 DEF Unheard, Searches!Live, Times
      <4> QED BY <2>5, <3>1, <4>1
    <3>2. CASE t # s
      <4>1. Unheard(t)' => Unheard(t)
        BY <2>3, <3>2 DEF Unheard, Searches!Live
      <4>2. Unheard(t)' => \A e \in emails' : e[1] # t
        BY <1>12, <3>2, <4>1 DEF Emails
      <4>3. Searches!News(t)' => Told(t, search[t].last)'
        BY <2>3, <2>6, <2>7, <3>2 DEF Emails, Told
      <4> QED BY <4>2, <4>3
    <3> QED BY <3>1, <3>2
  <2>12. Searches!NothingMissed'
    BY <1>1, <2>6 DEF Searches!NothingMissed, Searches!Since
  <2> QED BY <2>4, <2>8, <2>9, <2>10, <2>11, <2>12
<1> QED BY <1>7, <1>11, <1>12

LEMMA SearchesProceed ==
    ASSUME SearchInv, [Searches!Next]_searchVars
    PROVE  SearchInv'
<1>1. ASSUME UNCHANGED searchVars PROVE SearchInv'
  <2>1. UNCHANGED <<now, search, profile, pass, evaluation, emails, told, unasked>>
    BY <1>1 DEF searchVars
  <2>2. SearchTypes' /\ Clocked' /\ now <= now'
    BY <2>1 DEF SearchInv, SearchTypes, Clocked, Past
  <2> QED BY <2>1, <2>2, OwnersMove DEF Searches!News, Searches!Live, Unheard
<1>2. ASSUME NEW w \in Workers, Searches!WorkerStep(w) \/ Searches!Abort(w) PROVE SearchInv'
  BY <1>2, StartPassPreserves, PassPreserves, RecordPreserves DEF Searches!WorkerStep
<1> QED BY <1>1, <1>2, OwnersPreserve, UpdatePreserves DEF Searches!Next

\* For any searches, processes, periods and limits: an update nobody was told of still counts
\* for the next alert, although processes evaluate one search at once and without a lock.
THEOREM UpdatesAreTold ==
    Searches!Init /\ [][Searches!Next]_searchVars => []Searches!NothingMissed
<1>1. SearchInv => Searches!NothingMissed
  BY DEF SearchInv
<1> QED BY <1>1, SearchesStart, SearchesProceed, PTL

\* The same in the run that hosts the searches.
THEOREM NothingIsMissed == MCSpec => []NothingMissed
<1>1. MCInit => SearchInv
  BY SearchesStart DEF MCInit
<1>2. SearchInv /\ [MCNext]_<<subject, vars, reviewVars, referralVars, searchVars, sourcingVars>> => SearchInv'
  <2>1. MCNext => [Searches!Next]_searchVars
    BY DEF MCNext, LinksRun, ReviewsRun, ReferralsRun, SearchesRun, SourcingRun
  <2> QED BY <2>1, SearchesProceed
<1>3. SearchInv => NothingMissed
  BY DEF SearchInv, NothingMissed
<1> QED BY <1>1, <1>2, <1>3, PTL DEF MCSpec

-----------------------------------------------------------------------------
(* Reviews of a company, in the run that hosts them                        *)

ReviewRecords ==
    [status : {"none", "pending", "published", "rejected", "deleted"}, rev : Nat,
     verified : BOOLEAN, text : {"none", "clean", "private"},
     basis : {"none", "manual_review_required", "completed_interview", "platform_relationship_review"}]

ReviewRequests ==
    [kind : {"review"}, review : ReviewRows, in : Reviews!Inputs]
        \cup [kind : {"answer"}, review : ReviewRows]
        \cup [kind : {"report", "appeal"}, review : ReviewRows, by : Readers \cup {ReviewAuthor[r] : r \in ReviewRows}]

ReviewTypes ==
    /\ review \in [ReviewRows -> ReviewRecords]
    /\ vetted \in [ReviewRows -> Nat]
    /\ pending \subseteq ReviewRequests
    /\ \A p \in pending : p.kind = "review" => p.in.text # "short"

\* Words are there while the review lives, and what is published is what was read.
Worded(r) ==
    /\ review[r].text = "none" <=> review[r].status \in {"none", "deleted"}
    /\ review[r].status = "published" => review[r].text = "clean"

\* A moderator has vouched for the revision of an employee's review that counts as verified;
\* that of an interview was read when it was published.
VouchedFor(r) ==
    Reviews!Live(r) /\ review[r].verified =>
        IF ReviewKind[r] = "employee" THEN vetted[r] = review[r].rev
        ELSE review[r].status = "published" => vetted[r] = review[r].rev

\* The index over the live reviews of an author and kind.
OneEach ==
    \A r, q \in ReviewRows :
        /\ Reviews!Live(r) /\ Reviews!Live(q)
        /\ ReviewAuthor[r] = ReviewAuthor[q] /\ ReviewKind[r] = ReviewKind[q]
        => r = q

ReviewInv ==
    ReviewTypes /\ (\A r \in ReviewRows : Worded(r) /\ VouchedFor(r)) /\ OneEach

LEMMA ReviewsStart ==
    ASSUME Reviews!Init
    PROVE  ReviewInv
<1>1. \A r \in ReviewRows : review[r] = Reviews!Absent
  BY DEF Reviews!Init
<1>2. ReviewTypes
  <2>1. Reviews!Absent \in ReviewRecords
    BY DEF Reviews!Absent, ReviewRecords
  <2> QED BY <2>1 DEF Reviews!Init, ReviewTypes
<1>3. \A r \in ReviewRows : Worded(r) /\ ~Reviews!Live(r)
  BY <1>1 DEF Worded, Reviews!Live, Reviews!Absent
<1> QED BY <1>2, <1>3 DEF ReviewInv, VouchedFor, OneEach

\* The invariant says what readers may rely on.
LEMMA VettedNow ==
    ASSUME ReviewInv
    PROVE  Reviews!PublicIsVetted /\ Reviews!OneVoice
<1>1. Reviews!PublicIsVetted
  BY ReviewsAssumption DEF ReviewInv, Worded, VouchedFor, Reviews!PublicIsVetted,
     Reviews!PublicReviews, Reviews!Published, Reviews!Live
<1>2. Reviews!OneVoice
  BY DEF ReviewInv, OneEach, Reviews!OneVoice, Reviews!CategoryRatings, Reviews!PublicReviews,
     Reviews!Published, Reviews!Live
<1> QED BY <1>1, <1>2

LEMMA VettedNext ==
    ASSUME ReviewInv'
    PROVE  Reviews!PublicIsVetted' /\ Reviews!OneVoice'
BY VettedNow, PTL

\* Requests come and go, and the rows rest.
LEMMA RowsRest ==
    ASSUME ReviewInv, UNCHANGED <<review, vetted>>, pending' \subseteq ReviewRequests,
           \A p \in pending' : p.kind = "review" => p.in.text # "short"
    PROVE  ReviewInv' /\ Reviews!AllVetted
<1>1. ReviewInv'
  BY DEF ReviewInv, ReviewTypes, Worded, VouchedFor, OneEach, Reviews!Live
<1>2. Reviews!FromTheModerator
  BY DEF Reviews!FromTheModerator, Reviews!PublicReviews, Reviews!Published, ReviewInv, Worded
<1> QED BY <1>1, <1>2, VettedNext DEF Reviews!AllVetted

LEMMA RequestsPreserve ==
    ASSUME ReviewInv,
           \/ Reviews!Surroundings
           \/ \E r \in ReviewRows :
                 \/ \E in \in Reviews!Inputs : Reviews!CheckAuthor(r, in)
                 \/ Reviews!CheckAnswer(r)
                 \/ \E who \in Readers : Reviews!ReviewVote(who, r) \/ Reviews!CheckReport(who, r, "report")
                 \/ Reviews!CheckReport(ReviewAuthor[r], r, "appeal")
           \/ \E p \in pending : Reviews!ReviewResponse(p) \/ Reviews!ReportReview(p)
    PROVE  ReviewInv' /\ Reviews!AllVetted
<1> DEFINE WellMade(p) == p \in ReviewRequests /\ (p.kind = "review" => p.in.text # "short")
<1>1. \A p \in pending : WellMade(p)
  BY DEF ReviewInv, ReviewTypes
<1>2. UNCHANGED <<review, vetted>>
  BY DEF Reviews!Surroundings, Reviews!CheckAuthor, Reviews!CheckAnswer, Reviews!ReviewVote,
     Reviews!CheckReport, Reviews!ReviewResponse, Reviews!ReportReview, Reviews!Ask
<1>3. CASE pending' \subseteq pending
  BY <1>1, <1>2, <1>3, RowsRest
<1>4. ASSUME NEW p, WellMade(p), Reviews!Ask(p) PROVE ReviewInv' /\ Reviews!AllVetted
  <2>1. pending' = pending \cup {p}
    BY <1>4 DEF Reviews!Ask
  <2> QED BY <1>1, <1>2, <1>4, <2>1, RowsRest
<1>5. ASSUME NEW r \in ReviewRows, NEW in \in Reviews!Inputs, Reviews!CheckAuthor(r, in)
      PROVE  ReviewInv' /\ Reviews!AllVetted
  <2> DEFINE p == [kind |-> "review", review |-> r, in |-> in]
  <2>1. WellMade(p) /\ Reviews!Ask(p)
    BY <1>5 DEF Reviews!CheckAuthor, Reviews!ValidateReview, ReviewRequests
  <2> HIDE DEF p, WellMade
  <2> QED BY <1>4, <2>1
<1>6. ASSUME NEW r \in ReviewRows, Reviews!CheckAnswer(r) PROVE ReviewInv' /\ Reviews!AllVetted
  <2> DEFINE p == [kind |-> "answer", review |-> r]
  <2>1. WellMade(p) /\ Reviews!Ask(p)
    BY <1>6 DEF Reviews!CheckAnswer, ReviewRequests
  <2> HIDE DEF p, WellMade
  <2> QED BY <1>4, <2>1
<1>7. ASSUME NEW r \in ReviewRows, NEW who, NEW kind,
             \/ who \in Readers /\ kind = "report"
             \/ who = ReviewAuthor[r] /\ kind = "appeal",
             Reviews!CheckReport(who, r, kind)
      PROVE  ReviewInv' /\ Reviews!AllVetted
  <2> DEFINE p == [kind |-> kind, review |-> r, by |-> who]
  <2>1. WellMade(p) /\ Reviews!Ask(p)
    BY <1>7 DEF Reviews!CheckReport, ReviewRequests
  <2> HIDE DEF p, WellMade
  <2> QED BY <1>4, <2>1
<1>8. CASE \/ Reviews!Surroundings
           \/ \E who \in Readers, r \in ReviewRows : Reviews!ReviewVote(who, r)
           \/ \E p \in pending : Reviews!ReviewResponse(p) \/ Reviews!ReportReview(p)
  <2>1. pending' \subseteq pending
    BY <1>8 DEF Reviews!Surroundings, Reviews!ReviewVote, Reviews!ReviewResponse, Reviews!ReportReview
  <2> QED BY <1>3, <2>1
<1> QED BY <1>5, <1>6, <1>7, <1>8

\* A row with a new revision is not public; the rest follows for the other rows.
LEMMA RevisionPreserves ==
    ASSUME ReviewInv, NEW r \in ReviewRows, NEW new \in ReviewRecords,
           review' = [review EXCEPT ![r] = new], vetted' = vetted, pending' \subseteq pending,
           \/ /\ new.status = "deleted" /\ new.text = "none"
           \/ /\ new.status = "pending" /\ new.text # "none" /\ review[r].status # "deleted"
              /\ new.verified = (ReviewKind[r] = "interview")
              /\ Reviews!Live(r) \/ Reviews!Free(r)
    PROVE  ReviewInv' /\ Reviews!AllVetted
<1> USE ReviewsAssumption DEF ReviewInv
<1>1. /\ review' \in [ReviewRows -> ReviewRecords] /\ review'[r] = new
      /\ \A q \in ReviewRows \ {r} : review'[q] = review[q]
  BY DEF ReviewTypes
<1>2. ReviewTypes'
  BY <1>1 DEF ReviewTypes
<1>3. \A q \in ReviewRows : (Worded(q) /\ VouchedFor(q))'
  BY <1>1 DEF Worded, VouchedFor, Reviews!Live
<1>4. OneEach'
  BY <1>1 DEF OneEach, Reviews!Live, Reviews!Free
<1>5. Reviews!FromTheModerator
  BY <1>1 DEF Reviews!FromTheModerator, Reviews!PublicReviews, Reviews!Published, Worded
<1> QED BY <1>2, <1>3, <1>4, <1>5, VettedNext DEF Reviews!AllVetted

LEMMA BlankedRow ==
    ASSUME ReviewTypes, NEW r \in ReviewRows
    PROVE  /\ Reviews!Blanked(r) \in ReviewRecords
           /\ Reviews!Blanked(r).status = "deleted" /\ Reviews!Blanked(r).text = "none"
<1>1. PICK old \in ReviewRecords : old = review[r]
  BY DEF ReviewTypes
<1> DEFINE new == [old EXCEPT !.status = "deleted", !.rev = @ + 1, !.basis = "none", !.text = "none"]
<1>2. new \in ReviewRecords /\ new.status = "deleted" /\ new.text = "none"
  <2>1. old.rev + 1 \in Nat
    BY DEF ReviewRecords
  <2> QED BY <2>1 DEF ReviewRecords
<1>3. Reviews!Blanked(r) = new
  BY <1>1 DEF Reviews!Blanked
<1> QED BY <1>2, <1>3

LEMMA AuthorPreserves ==
    ASSUME ReviewInv,
           \/ \E p \in pending : Reviews!SaveReview(p)
           \/ \E r \in ReviewRows : Reviews!DeleteReview(r)
    PROVE  ReviewInv' /\ Reviews!AllVetted
<1> USE DEF ReviewInv
<1>1. ASSUME NEW p \in pending, Reviews!SaveReview(p) PROVE ReviewInv' /\ Reviews!AllVetted
  <2>1. /\ p.review \in ReviewRows /\ p.kind = "review" /\ p.in \in Reviews!Inputs
        /\ p.in.text # "short"
    BY <1>1 DEF Reviews!SaveReview, ReviewTypes, ReviewRequests
  <2>2. PICK r \in ReviewRows : r = p.review
    BY <2>1
  <2>3. CASE /\ (review[r].status = "none" /\ Reviews!Free(r)) \/ Reviews!Live(r)
             /\ review' = [review EXCEPT ![r] = Reviews!Written(r, p.in)]
             /\ pending' = pending \ {p} /\ vetted' = vetted
    <3>1. PICK new \in ReviewRecords :
             /\ new = Reviews!Written(r, p.in) /\ new.status = "pending" /\ new.text # "none"
             /\ new.verified = (ReviewKind[r] = "interview")
      <4>1. (ReviewKind[r] = "interview") \in BOOLEAN /\ review[r].rev \in Nat
        BY DEF ReviewTypes, ReviewRecords
      <4>2. p.in.text \in {"clean", "private"}
        BY <2>1 DEF Reviews!Inputs
      <4>3. Reviews!Written(r, p.in) \in ReviewRecords
        BY <4>1, <4>2 DEF Reviews!Written, ReviewRecords
      <4> QED BY <4>1, <4>2, <4>3 DEF Reviews!Written
    <3>2. review[r].status # "deleted"
      BY <2>3 DEF Reviews!Live
    <3> QED BY <2>3, <3>1, <3>2, RevisionPreserves
  <2>4. CASE UNCHANGED <<review, vetted>> /\ pending' = pending \ {p}
    BY <2>4, RowsRest DEF ReviewTypes
  <2> QED BY <1>1, <2>2, <2>3, <2>4 DEF Reviews!SaveReview, Reviews!Refused
<1>2. ASSUME NEW r \in ReviewRows, Reviews!DeleteReview(r) PROVE ReviewInv' /\ Reviews!AllVetted
  <2>1. PICK new \in ReviewRecords :
           new = Reviews!Blanked(r) /\ new.status = "deleted" /\ new.text = "none"
    BY BlankedRow
  <2>2. review' = [review EXCEPT ![r] = new] /\ UNCHANGED <<pending, vetted>>
    BY <1>2, <2>1 DEF Reviews!DeleteReview
  <2> QED BY <2>1, <2>2, RevisionPreserves
<1> QED BY <1>1, <1>2

\* An erasure blanks all the rows of an author.
LEMMA ErasurePreserves ==
    ASSUME ReviewInv, NEW a, Reviews!EraseAuthor(a)
    PROVE  ReviewInv' /\ Reviews!AllVetted
<1> USE DEF ReviewInv
<1>1. UNCHANGED <<pending, vetted>>
  BY DEF Reviews!EraseAuthor
<1>2. \A r \in ReviewRows :
         /\ Reviews!Blanked(r) \in ReviewRecords
         /\ Reviews!Blanked(r).status = "deleted" /\ Reviews!Blanked(r).text = "none"
  BY BlankedRow
<1>3. /\ review' \in [ReviewRows -> ReviewRecords]
      /\ \A r \in ReviewRows :
            \/ review'[r] = review[r]
            \/ review'[r].status = "deleted" /\ review'[r].text = "none"
  <2>1. review' = [r \in ReviewRows |->
                     IF ReviewAuthor[r] = a /\ review[r].status # "none"
                       THEN Reviews!Blanked(r) ELSE review[r]]
    BY DEF Reviews!EraseAuthor
  <2> QED BY <1>2, <2>1 DEF ReviewTypes
<1>4. ReviewTypes'
  BY <1>1, <1>3 DEF ReviewTypes
<1>5. \A r \in ReviewRows : (Worded(r) /\ VouchedFor(r))'
  BY <1>1, <1>3 DEF Worded, VouchedFor, Reviews!Live
<1>6. OneEach'
  BY <1>3 DEF OneEach, Reviews!Live
<1>7. Reviews!FromTheModerator
  BY <1>3 DEF Reviews!FromTheModerator, Reviews!PublicReviews, Reviews!Published, Worded
<1> QED BY <1>4, <1>5, <1>6, <1>7, VettedNext DEF Reviews!AllVetted

\* A decision is about the revision there is, and a public one has been vouched for.
LEMMA DecisionPreserves ==
    ASSUME ReviewInv, NEW r \in ReviewRows, NEW m, NEW rev, NEW publish \in BOOLEAN, NEW vouch \in BOOLEAN,
           Reviews!ModerateReview(m, r, rev, publish, vouch)
    PROVE  ReviewInv' /\ Reviews!AllVetted
<1> USE ReviewsAssumption DEF ReviewInv
<1>1. Reviews!Live(r) /\ review[r].rev = rev /\ UNCHANGED pending /\ review[r] \in ReviewRecords
  BY DEF Reviews!ModerateReview, Reviews!Moderable, ReviewTypes
<1>2. PICK new \in ReviewRecords :
         /\ review' = [review EXCEPT ![r] = new]
         /\ new.rev = rev /\ new.text = review[r].text
         /\ \/ /\ new.status = "published" /\ new.verified /\ new.text # "private"
               /\ review[r].verified \/ vouch
               /\ vetted' = IF vouch \/ ReviewKind[r] = "interview"
                              THEN [vetted EXCEPT ![r] = rev] ELSE vetted
            \/ /\ new.status = "rejected" /\ new.verified = review[r].verified
               /\ vetted' = vetted
  <2>1. CASE publish
    <3> DEFINE new == [review[r] EXCEPT !.status = "published", !.verified = TRUE,
                          !.basis = IF @ = "manual_review_required"
                                      THEN "platform_relationship_review" ELSE @]
    <3>1. new \in ReviewRecords /\ new.rev = rev /\ new.text = review[r].text
          /\ new.status = "published" /\ new.verified = TRUE
      BY <1>1 DEF ReviewRecords
    <3>2. review' = [review EXCEPT ![r] = new]
      BY <2>1 DEF Reviews!ModerateReview
    <3>3. /\ review[r].text # "private" /\ (review[r].verified \/ vouch)
          /\ vetted' = IF vouch \/ ReviewKind[r] = "interview"
                         THEN [vetted EXCEPT ![r] = rev] ELSE vetted
      BY <2>1 DEF Reviews!ModerateReview, Reviews!Publishable
    <3> HIDE DEF new
    <3> QED BY <3>1, <3>2, <3>3
  <2>2. CASE ~publish
    <3> DEFINE new == [review[r] EXCEPT !.status = "rejected",
                          !.basis = IF review[r].verified /\ @ = "manual_review_required"
                                      THEN "platform_relationship_review" ELSE @]
    <3>1. new \in ReviewRecords /\ new.rev = rev /\ new.text = review[r].text
          /\ new.status = "rejected" /\ new.verified = review[r].verified
      BY <1>1 DEF ReviewRecords
    <3>2. review' = [review EXCEPT ![r] = new] /\ vetted' = vetted
      BY <2>2 DEF Reviews!ModerateReview
    <3> HIDE DEF new
    <3> QED BY <3>1, <3>2
  <2> QED BY <2>1, <2>2
<1>3. /\ review' \in [ReviewRows -> ReviewRecords] /\ review'[r] = new
      /\ \A q \in ReviewRows \ {r} : review'[q] = review[q] /\ vetted'[q] = vetted[q]
      /\ vetted' \in [ReviewRows -> Nat]
  BY <1>1, <1>2 DEF ReviewTypes, ReviewRecords
<1>4. ReviewTypes'
  BY <1>1, <1>3 DEF ReviewTypes
<1>5. \A q \in ReviewRows : Worded(q)'
  BY <1>1, <1>2, <1>3 DEF Worded, Reviews!Live, ReviewRecords
<1>6. \A q \in ReviewRows : VouchedFor(q)'
  <2>1. \A q \in ReviewRows \ {r} : VouchedFor(q)'
    BY <1>3 DEF VouchedFor, Reviews!Live
  <2>2. VouchedFor(r)'
    <3>1. VouchedFor(r) /\ vetted \in [ReviewRows -> Nat] /\ ReviewKind[r] \in {"employee", "interview"}
      BY DEF ReviewTypes
    <3>2. CASE new.status = "published" /\ (vouch \/ ReviewKind[r] = "interview")
      <4>1. vetted'[r] = rev
        BY <1>2, <3>1, <3>2
      <4> QED BY <1>2, <1>3, <4>1 DEF VouchedFor
    <3>3. CASE new.status = "published" /\ ~(vouch \/ ReviewKind[r] = "interview")
      <4>1. vetted'[r] = vetted[r] /\ review[r].verified
        BY <1>2, <3>3
      <4> QED BY <1>1, <1>2, <1>3, <3>1, <3>3, <4>1 DEF VouchedFor
    <3>4. CASE new.status = "rejected"
      <4>1. vetted' = vetted /\ new.verified = review[r].verified
        BY <1>2, <3>4
      <4> QED BY <1>1, <1>2, <1>3, <3>1, <3>4, <4>1 DEF VouchedFor
    <3> QED BY <1>2, <3>2, <3>3, <3>4
  <2> QED BY <2>1, <2>2
<1>7. OneEach'
  BY <1>1, <1>3 DEF OneEach, Reviews!Live
<1>8. Reviews!FromTheModerator
  BY <1>1, <1>2, <1>3 DEF Reviews!FromTheModerator, Reviews!PublicReviews, Reviews!Published,
     Reviews!Live, Worded
<1> QED BY <1>4, <1>5, <1>6, <1>7, <1>8, VettedNext DEF Reviews!AllVetted

LEMMA ReviewsProceed ==
    ASSUME ReviewInv, [Reviews!Next]_reviewVars
    PROVE  ReviewInv' /\ Reviews!AllVetted
<1>1. CASE UNCHANGED reviewVars
  BY <1>1, RowsRest DEF reviewVars, ReviewInv, ReviewTypes
<1>2. CASE Reviews!Next
  BY <1>2, RequestsPreserve, AuthorPreserves, ErasurePreserves, DecisionPreserves DEF Reviews!Next
<1> QED BY <1>1, <1>2

\* For any reviews, authors and moderators: what everyone reads is the revision a moderator
\* has read and someone has vouched for, an author has one voice, and deleted words are gone,
\* although requests are checked and written in statements apart.
THEOREM PublicReviewsAreVetted ==
    Reviews!Init /\ [][Reviews!Next]_reviewVars => [][Reviews!AllVetted]_reviewVars
<1>1. ReviewInv /\ [Reviews!Next]_reviewVars => [Reviews!AllVetted]_reviewVars
  BY ReviewsProceed
<1> QED BY <1>1, ReviewsStart, ReviewsProceed, PTL

\* The same in the run that hosts the reviews.
THEOREM ReviewsVetted == MCSpec => ReviewsAreVetted
<1>1. MCInit => ReviewInv
  BY ReviewsStart DEF MCInit
<1>2. MCNext => [Reviews!Next]_reviewVars
  BY DEF MCNext, LinksRun, ReviewsRun, ReferralsRun, SearchesRun, SourcingRun
<1>3. ReviewInv /\ [MCNext]_<<subject, vars, reviewVars, referralVars, searchVars, sourcingVars>>
        => ReviewInv' /\ [(subject \in {"reviews", "readers"} => Reviews!AllVetted)]_reviewVars
  BY <1>2, ReviewsProceed
<1> QED BY <1>1, <1>3, PTL DEF MCSpec, ReviewsAreVetted

-----------------------------------------------------------------------------
(* Referrals, in the run that hosts them                                   *)

Marks == {"opened", "accepted", "declined", "applied", "cancelled"}
Paying == {"pending", "approved", "paid"}

ReferralRecords ==
    [token : Nat, expired : BOOLEAN, marks : SUBSET Marks, reward : Referrals!Rewards]

\* What a referrer has created within a day.
Today(r) == {i \in today : ReferrerOf[i] = r}

ReferralTypes ==
    /\ offered \in [ReferralRows -> ReferralRecords]
    /\ today \subseteq ReferralRows /\ looking \subseteq ReferralRows
    /\ attributed \subseteq ReferralRows
    /\ application \in [stage : {"none", "new_application", "hired", "rejected", "withdrawn"},
                       referral : ReferralRows \cup {None}]
    /\ application.stage = "none" => application.referral = None

\* Who may see the person is who is in the history, with an invitation nobody has ended; the
\* application's source is one the person accepted, and no other candidate is rewarded.
Attributed(i) ==
    /\ i \in attributed <=> Referrals!Has(i, "applied")
    /\ i \in attributed => ~Referrals!Ended(i) /\ Referrals!Exists(i)
    /\ application.referral = i => {"accepted", "applied"} \subseteq offered[i].marks
    /\ ByCandidate(ReferrerOf[i]) /\ offered[i].reward \in Paying => application.referral = i

ReferralInv ==
    /\ ReferralTypes
    /\ \A i \in ReferralRows : Attributed(i)
    /\ \A r \in Referrers : ByCandidate(r) => Cardinality(Today(r)) <= DailyCap

\* Single columns of an invitation.
LEMMA ExpiredField ==
    ASSUME NEW e \in ReferralRecords
    PROVE  /\ [e EXCEPT !.expired = TRUE] \in ReferralRecords
           /\ [e EXCEPT !.expired = TRUE].token = e.token
           /\ [e EXCEPT !.expired = TRUE].marks = e.marks
           /\ [e EXCEPT !.expired = TRUE].reward = e.reward
BY DEF ReferralRecords

LEMMA TokenFields ==
    ASSUME NEW e \in ReferralRecords, NEW n \in Nat
    PROVE  /\ [e EXCEPT !.token = n] \in ReferralRecords
           /\ [e EXCEPT !.token = n].token = n
           /\ [e EXCEPT !.token = n].marks = e.marks
           /\ [e EXCEPT !.token = n].reward = e.reward
           /\ [e EXCEPT !.token = n, !.expired = FALSE] \in ReferralRecords
           /\ [e EXCEPT !.token = n, !.expired = FALSE].marks = e.marks
           /\ [e EXCEPT !.token = n, !.expired = FALSE].reward = e.reward
BY DEF ReferralRecords

LEMMA MarksField ==
    ASSUME NEW e \in ReferralRecords, NEW more \in SUBSET Marks
    PROVE  /\ [e EXCEPT !.marks = @ \cup more] \in ReferralRecords
           /\ [e EXCEPT !.marks = @ \cup more].token = e.token
           /\ [e EXCEPT !.marks = @ \cup more].marks = e.marks \cup more
           /\ [e EXCEPT !.marks = @ \cup more].reward = e.reward
<1>1. e.marks \cup more \in SUBSET Marks
  BY DEF ReferralRecords
<1> QED BY <1>1 DEF ReferralRecords

LEMMA RewardField ==
    ASSUME NEW e \in ReferralRecords, NEW reward \in Referrals!Rewards
    PROVE  /\ [e EXCEPT !.reward = reward] \in ReferralRecords
           /\ [e EXCEPT !.reward = reward].token = e.token
           /\ [e EXCEPT !.reward = reward].marks = e.marks
           /\ [e EXCEPT !.reward = reward].reward = reward
BY DEF ReferralRecords

LEMMA CountOfReferrals ==
    ASSUME NEW S
    PROVE  Referrals!Cardinality(S) = Cardinality(S)
BY Zenon DEF Referrals!Cardinality, Cardinality

LEMMA ReferralsStart ==
    ASSUME Referrals!Init
    PROVE  ReferralInv
<1> USE ReferralsAssumption DEF Referrals!Init
<1>1. Referrals!Absent \in ReferralRecords
  BY DEF Referrals!Absent, ReferralRecords, Referrals!Rewards
<1>2. ReferralTypes
  BY <1>1 DEF ReferralTypes
<1>3. \A i \in ReferralRows : Attributed(i)
  BY DEF Attributed, Referrals!Has, Referrals!Absent, Paying
<1>4. \A r : Today(r) = {}
  BY DEF Today
<1>5. Cardinality({}) = 0
  BY FS_EmptySet
<1> QED BY <1>2, <1>3, <1>4, <1>5 DEF ReferralInv

\* The invariant says what people rely on in a state.
LEMMA EarnedNow ==
    ASSUME ReferralInv'
    PROVE  /\ LET i == application'.referral IN
                i # None => {"accepted", "applied"} \subseteq offered'[i].marks
           /\ \A i \in ReferralRows :
                /\ ByCandidate(ReferrerOf[i]) /\ offered'[i].reward \in {"pending", "approved", "paid"}
                     => application'.referral = i
                /\ Referrals!CanViewCandidate(i)' <=> i \in attributed'
                /\ i \in attributed' => ~Referrals!Ended(i)'
                /\ Referrals!Progress(i)' \in {"successful", "applied"} => i \in attributed'
           /\ Referrals!WithinCap
<1>1. ReferralTypes' /\ \A i \in ReferralRows : Attributed(i)'
  BY DEF ReferralInv
<1>2. Referrals!WithinCap
  BY CountOfReferrals DEF ReferralInv, Referrals!WithinCap, Today
<1>3. \A i \in ReferralRows : Referrals!Progress(i)' \in {"successful", "applied"} => i \in attributed'
  BY <1>1 DEF Attributed, Referrals!Progress, Referrals!Has
<1> QED BY <1>1, <1>2, <1>3 DEF Attributed, ReferralTypes, Paying, Referrals!CanViewCandidate, Referrals!Has

\* What a step has to keep beside the invariant.
LEMMA EarnedStep ==
    ASSUME ReferralInv',
           application.stage # "none" => application'.referral = application.referral,
           \A i \in ReferralRows :
              /\ i \in attributed => i \in attributed' /\ offered'[i].token = offered[i].token
              /\ offered'[i].reward = "paid" /\ offered[i].reward # "paid" =>
                    application.stage = "hired" /\ i \in attributed /\ offered[i].reward = "approved"
    PROVE  Referrals!AllEarned
BY EarnedNow DEF Referrals!AllEarned, Referrals!OneSource, Referrals!Consented, Referrals!PaidForHires

\* No more invitations in a day than there were.
LEMMA TodayFalls ==
    ASSUME ReferralInv, today' \subseteq today
    PROVE  \A r \in Referrers : ByCandidate(r) => Cardinality(Today(r))' <= DailyCap
<1> USE ReferralsAssumption DEF ReferralInv
<1> SUFFICES ASSUME NEW r \in Referrers, ByCandidate(r)
             PROVE  Cardinality(Today(r))' <= DailyCap
  OBVIOUS
<1>1. Today(r)' \subseteq Today(r) /\ IsFiniteSet(Today(r))
  BY FS_Subset DEF Today, ReferralTypes
<1>2. /\ Cardinality(Today(r)') <= Cardinality(Today(r))
      /\ Cardinality(Today(r)') \in Nat /\ Cardinality(Today(r)) \in Nat
  BY <1>1, FS_Subset, FS_CardinalityType
<1> QED BY <1>2

\* One row changes while the application and its history rest.
LEMMA RowPreserves ==
    ASSUME ReferralInv, NEW i \in ReferralRows, NEW new \in ReferralRecords,
           offered' = [offered EXCEPT ![i] = new],
           UNCHANGED <<application, attributed>>, looking' \subseteq ReferralRows,
           today' \subseteq today,
           "applied" \in offered[i].marks =>
              /\ new.token = offered[i].token /\ new.marks \cap {"cancelled", "declined"} = {},
           "applied" \in new.marks <=> "applied" \in offered[i].marks,
           offered[i].marks \subseteq new.marks,
           new.reward # offered[i].reward /\ new.reward \in Paying =>
              /\ i \in attributed /\ application.stage = "hired"
              /\ ByCandidate(ReferrerOf[i]) => application.referral = i
              /\ new.reward = "paid" => offered[i].reward = "approved"
    PROVE  ReferralInv' /\ Referrals!AllEarned
<1> USE ReferralsAssumption DEF ReferralInv
<1>1. /\ offered' \in [ReferralRows -> ReferralRecords] /\ offered'[i] = new
      /\ \A k \in ReferralRows \ {i} : offered'[k] = offered[k]
  BY DEF ReferralTypes
<1>2. ReferralTypes'
  BY <1>1 DEF ReferralTypes
<1>3. \A k \in ReferralRows : Attributed(k)'
  BY <1>1 DEF Attributed, Referrals!Has, Referrals!Ended, Referrals!Exists
<1>4. \A r \in Referrers : ByCandidate(r) => Cardinality(Today(r))' <= DailyCap
  BY TodayFalls
<1>5. ReferralInv'
  BY <1>2, <1>3, <1>4
<1>6. \A k \in ReferralRows :
         /\ k \in attributed => offered'[k].token = offered[k].token
         /\ offered'[k].reward = "paid" /\ offered[k].reward # "paid" =>
               application.stage = "hired" /\ k \in attributed /\ offered[k].reward = "approved"
  BY <1>1 DEF Attributed, Referrals!Has, Paying
<1> QED BY <1>5, <1>6, EarnedStep

\* The clock, the lookups, the referrer and the company.
LEMMA CompanyPreserves ==
    ASSUME ReferralInv, NEW i \in ReferralRows,
           \/ Referrals!Expires(i) \/ Referrals!ReferralLink(i)
           \/ Referrals!CancelReferralInvitation(i) \/ Referrals!LookupMarks(i)
           \/ \E reward \in Referrals!Rewards : Referrals!ReviewReferralReward(i, reward)
    PROVE  ReferralInv' /\ Referrals!AllEarned
<1>1. PICK old \in ReferralRecords : old = offered[i] /\ Attributed(i)
  BY DEF ReferralInv, ReferralTypes
<1>2. looking \subseteq ReferralRows
  BY DEF ReferralInv, ReferralTypes
<1>9. "applied" \in old.marks => old.marks \cap {"cancelled", "declined"} = {}
  BY <1>1 DEF Attributed, Referrals!Has, Referrals!Ended
<1>3. CASE Referrals!Expires(i)
  <2>1. PICK new \in ReferralRecords :
           new = [old EXCEPT !.expired = TRUE] /\ new.token = old.token
           /\ new.marks = old.marks /\ new.reward = old.reward
    BY ExpiredField
  <2>2. /\ offered' = [offered EXCEPT ![i] = new] /\ UNCHANGED <<looking, today, application, attributed>>
    BY <1>1, <1>3, <2>1 DEF Referrals!Expires
  <2> QED BY <1>1, <1>2, <2>1, <2>2, <1>9, RowPreserves
<1>4. CASE Referrals!ReferralLink(i)
  <2>1. PICK n \in Nat : n = old.token + 1
    BY DEF ReferralRecords
  <2>2. PICK new \in ReferralRecords :
           /\ new = [old EXCEPT !.token = n, !.expired = FALSE]
           /\ new.marks = old.marks /\ new.reward = old.reward
    BY TokenFields
  <2>3. /\ offered' = [offered EXCEPT ![i] = new] /\ UNCHANGED <<looking, today, application, attributed>>
        /\ "applied" \notin old.marks
    BY <1>1, <1>4, <2>1, <2>2 DEF Referrals!ReferralLink, Referrals!Has
  <2> QED BY <1>1, <1>2, <2>2, <2>3, RowPreserves
<1>5. ASSUME NEW more \in SUBSET Marks, Referrals!Mark(i, more), "applied" \notin more,
             looking' \subseteq looking, UNCHANGED <<today, application, attributed>>,
             "applied" \in old.marks => more \cap {"cancelled", "declined"} = {}
      PROVE  ReferralInv' /\ Referrals!AllEarned
  <2>1. PICK new \in ReferralRecords :
           new = [old EXCEPT !.marks = @ \cup more] /\ new.token = old.token
           /\ new.marks = old.marks \cup more /\ new.reward = old.reward
    BY MarksField
  <2>2. offered' = [offered EXCEPT ![i] = new]
    BY <1>1, <1>5, <2>1 DEF Referrals!Mark
  <2> QED BY <1>1, <1>2, <1>5, <2>1, <2>2, <1>9, RowPreserves
<1>6. CASE Referrals!CancelReferralInvitation(i)
  BY <1>1, <1>5, <1>6 DEF Referrals!CancelReferralInvitation, Referrals!Cancellable, Referrals!Has, Marks
<1>7. CASE Referrals!LookupMarks(i)
  BY <1>5, <1>7 DEF Referrals!LookupMarks, Marks
<1>8. ASSUME NEW reward \in Referrals!Rewards, Referrals!ReviewReferralReward(i, reward)
      PROVE  ReferralInv' /\ Referrals!AllEarned
  <2>1. PICK new \in ReferralRecords :
           new = [old EXCEPT !.reward = reward] /\ new.token = old.token
           /\ new.marks = old.marks /\ new.reward = reward
    BY RewardField
  <2>2. offered' = [offered EXCEPT ![i] = new] /\ UNCHANGED <<looking, today, application, attributed>>
    BY <1>1, <1>8, <2>1 DEF Referrals!ReviewReferralReward
  <2>3. reward \in Paying =>
           /\ i \in attributed /\ application.stage = "hired"
           /\ ByCandidate(ReferrerOf[i]) => application.referral = i
           /\ reward = "paid" => offered[i].reward = "approved"
    BY <1>1, <1>8 DEF Referrals!ReviewReferralReward, Referrals!Rewardable, Referrals!Eligible,
       Attributed, Paying
  <2> QED BY <1>1, <1>2, <2>1, <2>2, <2>3, <1>9, RowPreserves
<1> QED BY <1>3, <1>4, <1>6, <1>7, <1>8

\* A new invitation: the first of its referrer that is open, and within the cap of the day.
LEMMA CreatePreserves ==
    ASSUME ReferralInv, NEW i \in ReferralRows, Referrals!CreateReferralInvitation(i)
    PROVE  ReferralInv' /\ Referrals!AllEarned
<1> USE ReferralsAssumption DEF ReferralInv
<1>1. PICK new \in ReferralRecords :
         /\ offered' = [offered EXCEPT ![i] = new] /\ new.token = 1
         /\ new.marks = offered[i].marks /\ new.reward = offered[i].reward
  <2>1. PICK old \in ReferralRecords : old = offered[i]
    BY DEF ReferralTypes
  <2>2. PICK new \in ReferralRecords :
           new = [old EXCEPT !.token = 1] /\ new.token = 1
           /\ new.marks = old.marks /\ new.reward = old.reward
    BY TokenFields
  <2>3. offered' = [offered EXCEPT ![i] = new]
    BY <2>1, <2>2 DEF Referrals!CreateReferralInvitation
  <2> QED BY <2>1, <2>2, <2>3
<1>2. /\ UNCHANGED <<looking, application, attributed>> /\ today' = today \cup {i}
      /\ ~Referrals!Exists(i)
  BY DEF Referrals!CreateReferralInvitation, Referrals!MayRecommend
<1>3. /\ offered' \in [ReferralRows -> ReferralRecords] /\ offered'[i] = new
      /\ \A k \in ReferralRows \ {i} : offered'[k] = offered[k]
  BY <1>1 DEF ReferralTypes
<1>4. ReferralTypes'
  BY <1>2, <1>3 DEF ReferralTypes
<1>5. \A k \in ReferralRows : Attributed(k)' /\ (k \in attributed => k # i)
  BY <1>1, <1>2, <1>3 DEF Attributed, Referrals!Has, Referrals!Ended, Referrals!Exists
<1>6. ASSUME NEW r \in Referrers, ByCandidate(r) PROVE Cardinality(Today(r))' <= DailyCap
  <2>1. IsFiniteSet(Today(r))
    BY FS_Subset DEF Today, ReferralTypes
  <2>2. CASE ReferrerOf[i] # r
    <3>1. Today(r)' = Today(r)
      BY <1>2, <2>2 DEF Today
    <3> QED BY <1>6, <3>1
  <2>3. CASE ReferrerOf[i] = r
    <3>1. Today(r)' = Today(r) \cup {i}
      BY <1>2, <2>3 DEF Today
    <3>2. Cardinality(Today(r)) < DailyCap
      BY <1>6, <2>3, CountOfReferrals DEF Referrals!CreateReferralInvitation, Referrals!UnderCap, Today
    <3>3. Cardinality(Today(r)) \in Nat
      BY <2>1, FS_CardinalityType
    <3>4. Cardinality(Today(r) \cup {i}) \in {Cardinality(Today(r)), Cardinality(Today(r)) + 1}
      BY <2>1, FS_AddElement
    <3> QED BY <3>1, <3>2, <3>3, <3>4
  <2> QED BY <2>2, <2>3
<1>7. ReferralInv'
  BY <1>4, <1>5, <1>6
<1>8. \A k \in ReferralRows :
         /\ k \in attributed => offered'[k].token = offered[k].token
         /\ offered'[k].reward = offered[k].reward
  BY <1>1, <1>3, <1>5
<1> QED BY <1>2, <1>7, <1>8, EarnedStep

\* What the person decides by a link.
LEMMA PersonPreserves ==
    ASSUME ReferralInv, NEW i \in ReferralRows, NEW token, Referrals!CandidateReferral(i, token)
    PROVE  ReferralInv' /\ Referrals!AllEarned
<1> USE ReferralsAssumption DEF ReferralInv
<1>1. PICK old \in ReferralRecords : old = offered[i]
  BY DEF ReferralTypes
<1>2. /\ Referrals!Exists(i) /\ ~Referrals!Ended(i) /\ UNCHANGED <<looking, today, posting>>
      /\ \/ Referrals!View(i) \/ Referrals!Decline(i) \/ Referrals!Accept(i)
         \/ Referrals!Acknowledge(i) \/ Referrals!Apply(i)
  BY DEF Referrals!CandidateReferral, Referrals!Good
\* With which marks, and whether the recommendation is history.
<1>3. PICK more \in SUBSET Marks :
         /\ Referrals!Mark(i, more)
         /\ "declined" \in more => "applied" \notin old.marks /\ "applied" \notin more
         /\ "cancelled" \notin more
         /\ attributed' = IF "applied" \in more THEN attributed \cup {i} ELSE attributed
         /\ \/ application' = application
            \/ /\ application.stage = "none" /\ application' = [stage |-> "new_application", referral |-> i]
               /\ "applied" \in more /\ "accepted" \in old.marks
  <2> USE DEF Referrals!Seen, Marks
  <2>1. CASE Referrals!View(i)
    BY <2>1 DEF Referrals!View
  <2>2. CASE Referrals!Decline(i)
    BY <1>1, <2>2 DEF Referrals!Decline, Referrals!Has
  <2>3. CASE Referrals!Accept(i)
    BY <2>3 DEF Referrals!Accept
  <2>4. CASE Referrals!Acknowledge(i)
    BY <2>4 DEF Referrals!Acknowledge
  <2>5. CASE Referrals!Apply(i)
    <3>1. CASE Referrals!View(i)
      BY <3>1 DEF Referrals!View
    <3>2. CASE Referrals!Status(i) = "accepted" /\ ~Referrals!View(i)
      <4>1. application.stage = "none" /\ "accepted" \in old.marks
        BY <1>1, <3>2 DEF Referrals!Status, Referrals!Has
      <4> QED BY <2>5, <3>2, <4>1 DEF Referrals!Apply
    <3> QED BY <2>5, <3>1, <3>2 DEF Referrals!Apply
  <2> QED BY <1>2, <2>1, <2>2, <2>3, <2>4, <2>5
<1>4. PICK new \in ReferralRecords :
         new = [old EXCEPT !.marks = @ \cup more] /\ new.token = old.token
         /\ new.marks = old.marks \cup more /\ new.reward = old.reward
  BY MarksField
<1>5. offered' = [offered EXCEPT ![i] = new]
  BY <1>1, <1>3, <1>4 DEF Referrals!Mark
<1>6. /\ offered' \in [ReferralRows -> ReferralRecords] /\ offered'[i] = new
      /\ \A k \in ReferralRows \ {i} : offered'[k] = offered[k]
  BY <1>5 DEF ReferralTypes
<1>7. ReferralTypes'
  BY <1>2, <1>3, <1>6 DEF ReferralTypes
<1>8. \A k \in ReferralRows : Attributed(k)'
  <2>1. ASSUME NEW k \in ReferralRows, k # i PROVE Attributed(k)'
    BY <1>3, <1>6, <2>1 DEF Attributed, Referrals!Has, Referrals!Ended, Referrals!Exists, ReferralTypes
  <2>2. Attributed(i)'
    <3>1. Attributed(i)
      OBVIOUS
    <3>2. CASE application' = application
      BY <1>1, <1>2, <1>3, <1>4, <1>6, <3>1, <3>2
         DEF Attributed, Referrals!Has, Referrals!Ended, Referrals!Exists
    <3>3. CASE /\ application' = [stage |-> "new_application", referral |-> i]
               /\ "applied" \in more /\ "accepted" \in old.marks
      BY <1>1, <1>2, <1>3, <1>4, <1>6, <3>1, <3>3
         DEF Attributed, Referrals!Has, Referrals!Ended, Referrals!Exists
    <3> QED BY <1>3, <3>2, <3>3
  <2> QED BY <2>1, <2>2
<1>9. ReferralInv'
  BY <1>2, <1>7, <1>8 DEF Today
<1> QED BY <1>1, <1>3, <1>4, <1>6, <1>9, EarnedStep

LEMMA ReferralsProceed ==
    ASSUME ReferralInv, [Referrals!Next]_referralVars
    PROVE  ReferralInv' /\ Referrals!AllEarned
<1> USE ReferralsAssumption
<1>1. ASSUME UNCHANGED <<offered, attributed>>, today' \subseteq today, looking' \subseteq ReferralRows,
             application' \in [stage : {"none", "new_application", "hired", "rejected", "withdrawn"},
                              referral : ReferralRows \cup {None}],
             application'.referral = application.referral,
             application'.stage = "none" => application.stage = "none"
      PROVE  ReferralInv' /\ Referrals!AllEarned
  <2>1. ReferralTypes' /\ \A i \in ReferralRows : Attributed(i)'
    BY <1>1 DEF ReferralInv, ReferralTypes, Attributed, Referrals!Has, Referrals!Ended, Referrals!Exists
  <2>2. \A r \in Referrers : ByCandidate(r) => Cardinality(Today(r))' <= DailyCap
    BY <1>1, TodayFalls
  <2> QED BY <1>1, <2>1, <2>2, EarnedStep DEF ReferralInv
<1>2. CASE UNCHANGED referralVars
  BY <1>1, <1>2 DEF referralVars, ReferralInv, ReferralTypes
<1>3. ASSUME NEW i \in ReferralRows, NEW token,
             Referrals!DayPasses(i) \/ Referrals!InvitationLookup(i, token)
      PROVE  ReferralInv' /\ Referrals!AllEarned
  BY <1>1, <1>3 DEF Referrals!DayPasses, Referrals!InvitationLookup, ReferralInv, ReferralTypes
<1>4. ASSUME \/ Referrals!ApplyDirectly \/ Referrals!EditPosting
             \/ \E stage \in {"new_application", "hired", "rejected", "withdrawn"} : Referrals!UpdateStage(stage)
      PROVE  ReferralInv' /\ Referrals!AllEarned
  <2>1. UNCHANGED <<offered, attributed, today, looking>>
    BY <1>4 DEF Referrals!ApplyDirectly, Referrals!EditPosting, Referrals!UpdateStage
  <2>2. application'.referral = application.referral
    BY <1>4 DEF Referrals!ApplyDirectly, Referrals!EditPosting, Referrals!UpdateStage,
       ReferralInv, ReferralTypes
  <2>3. application'.stage = "none" => application.stage = "none"
    BY <1>4 DEF Referrals!ApplyDirectly, Referrals!EditPosting, Referrals!UpdateStage,
       ReferralInv, ReferralTypes
  <2>4. application' \in [stage : {"none", "new_application", "hired", "rejected", "withdrawn"},
                         referral : ReferralRows \cup {None}]
    BY <1>4 DEF Referrals!ApplyDirectly, Referrals!EditPosting, Referrals!UpdateStage,
       ReferralInv, ReferralTypes
  <2> QED BY <1>1, <2>1, <2>2, <2>3, <2>4 DEF ReferralInv, ReferralTypes
<1> QED BY <1>2, <1>3, <1>4, CompanyPreserves, CreatePreserves, PersonPreserves DEF Referrals!Next

\* For any referrers, invitations and caps: an application keeps its source, progress is told
\* only with consent, and only the referrer of a hire is paid, once it was approved.
THEOREM SourcesAreEarned ==
    Referrals!Init /\ [][Referrals!Next]_referralVars => [][Referrals!AllEarned]_referralVars
<1>1. ReferralInv /\ [Referrals!Next]_referralVars => [Referrals!AllEarned]_referralVars
  BY ReferralsProceed
<1> QED BY <1>1, ReferralsStart, ReferralsProceed, PTL

\* The same in the run that hosts the referrals.
THEOREM ReferralsEarned == MCSpec => ReferralsAreEarned
<1>1. MCInit => ReferralInv
  BY ReferralsStart DEF MCInit
<1>2. MCNext => [Referrals!Next]_referralVars
  BY DEF MCNext, LinksRun, ReviewsRun, ReferralsRun, SearchesRun, SourcingRun
<1>3. ReferralInv /\ [MCNext]_<<subject, vars, reviewVars, referralVars, searchVars, sourcingVars>>
        => ReferralInv' /\ [(subject \in {"sources", "rewards"} => Referrals!AllEarned)]_referralVars
  BY <1>2, ReferralsProceed
<1> QED BY <1>1, <1>3, PTL DEF MCSpec, ReferralsAreEarned

-----------------------------------------------------------------------------
(* Notes on a candidate and pools, in the run that hosts them              *)

Changes == [action : {"edit", "delete"}, previous : Texts \cup {None}, new : Texts \cup {None}]
Notes == [text : Texts \cup {None}, old : BOOLEAN, deleted : BOOLEAN, trail : Seq(Changes)]

\* What has not been written yet has no past; a note's history leads to what it says.
NoteSound(r) ==
    /\ Shared!Chain(note[r])
    /\ ~Shared!Written(r) => note[r] = Shared!NoNote

NoteInv ==
    /\ note \in [NoteRows -> Notes]
    /\ \A r \in NoteRows : NoteSound(r)
    /\ \A x \in read : x[1] \in NoteRows /\ Shared!Written(x[1])
    /\ Shared!ReadIsKept

LEMMA PrefixItself ==
    ASSUME NEW S, NEW s \in Seq(S)
    PROVE  Shared!IsPrefix(s, s)
BY DEF Shared!IsPrefix

LEMMA PrefixGrows ==
    ASSUME NEW S, NEW s \in Seq(S), NEW e \in S
    PROVE  Shared!IsPrefix(s, Append(s, e))
<1>1. /\ Append(s, e) \in Seq(S) /\ Len(Append(s, e)) = Len(s) + 1 /\ Len(s) \in Nat
      /\ \A i \in 1 .. Len(s) : Append(s, e)[i] = s[i]
  OBVIOUS
<1>2. SubSeq(s, 1, Len(s)) = s
  OBVIOUS
<1>3. SubSeq(Append(s, e), 1, Len(s)) = s
  BY <1>1
<1> QED BY <1>1, <1>2, <1>3 DEF Shared!IsPrefix

\* A change is entered with what the note said before.
LEMMA ChainGrows ==
    ASSUME NEW n \in Notes, Shared!Chain(n), ~n.deleted, NEW c \in Changes, c.previous = n.text,
           NEW m \in Notes, m.trail = Append(n.trail, c), m.deleted = (c.action = "delete"),
           c.new = IF m.deleted THEN None ELSE m.text
    PROVE  Shared!Chain(m) /\ Shared!FirstText(m) = Shared!FirstText(n)
<1> DEFINE k == Len(n.trail)
<1>1. /\ n.trail \in Seq(Changes) /\ k \in Nat
      /\ DOMAIN n.trail = 1 .. k
  BY DEF Notes
<1>2. /\ DOMAIN m.trail = 1 .. k + 1 /\ Len(m.trail) = k + 1
      /\ m.trail[k + 1] = c /\ \A i \in 1 .. k : m.trail[i] = n.trail[i]
      /\ m.trail # <<>>
  BY <1>1
<1>3. \A i \in 1 .. k : n.trail[i].new = IF i = k THEN n.text ELSE n.trail[i + 1].previous
  BY <1>1 DEF Shared!Chain
<1>4. \A i \in 1 .. k + 1 :
         m.trail[i].new = IF i = k + 1 THEN (IF m.deleted THEN None ELSE m.text)
                          ELSE m.trail[i + 1].previous
  <2> TAKE i \in 1 .. k + 1
  <2>1. CASE i = k + 1
    BY <1>2, <2>1
  <2>2. CASE i = k /\ i # k + 1
    <3>1. i \in 1 .. k /\ i + 1 = k + 1
      BY <1>1, <2>2
    <3> QED BY <1>2, <1>3, <2>2, <3>1
  <2>3. CASE i # k /\ i # k + 1
    <3>1. i \in 1 .. k /\ i + 1 \in 1 .. k
      BY <1>1, <2>3
    <3> QED BY <1>2, <1>3, <2>3, <3>1
  <2> QED BY <2>1, <2>2, <2>3
<1>5. Shared!Chain(m)
  BY <1>1, <1>2, <1>4 DEF Shared!Chain, Shared!Last
<1>6. Shared!FirstText(m) = Shared!FirstText(n)
  <2>1. CASE n.trail = <<>>
    BY <1>2, <2>1 DEF Shared!FirstText
  <2>2. CASE n.trail # <<>>
    <3>1. 1 \in 1 .. k
      BY <1>1, <2>2
    <3> QED BY <1>2, <2>2, <3>1 DEF Shared!FirstText
  <2> QED BY <2>1, <2>2
<1> QED BY <1>5, <1>6

\* One note moves on from what it was, and what was read of it stays.
LEMMA NoteMoves ==
    ASSUME NoteInv, NEW r \in NoteRows, NEW new \in Notes,
           note' = [note EXCEPT ![r] = new], read' = read,
           Shared!Chain(new), new.text # None,
           Shared!Written(r) =>
              /\ Shared!IsPrefix(note[r].trail, new.trail)
              /\ Shared!FirstText(new) = Shared!FirstText(note[r])
              /\ ~note[r].old
              /\ \A t : \/ note[r].text = t
                        \/ \E i \in DOMAIN note[r].trail : note[r].trail[i].previous = t
                    => \/ new.text = t
                       \/ \E i \in DOMAIN new.trail : new.trail[i].previous = t
    PROVE  NoteInv' /\ Shared!NotesAccountable
<1> USE DEF NoteInv
<1>1. /\ note' \in [NoteRows -> Notes] /\ note'[r] = new
      /\ \A q \in NoteRows \ {r} : note'[q] = note[q]
  OBVIOUS
<1>2. \A q \in NoteRows : Shared!Written(q) => Shared!Written(q)'
  BY <1>1 DEF Shared!Written
<1>3. \A q \in NoteRows : NoteSound(q)'
  BY <1>1 DEF NoteSound, Shared!Written
<1>4. Shared!ReadIsKept'
  <2> SUFFICES ASSUME NEW x \in read
               PROVE  \/ note'[x[1]].text = x[2]
                      \/ \E i \in DOMAIN note'[x[1]].trail : note'[x[1]].trail[i].previous = x[2]
    BY DEF Shared!ReadIsKept
  <2>1. /\ x[1] \in NoteRows /\ Shared!Written(x[1])
        /\ \/ note[x[1]].text = x[2]
           \/ \E i \in DOMAIN note[x[1]].trail : note[x[1]].trail[i].previous = x[2]
    BY DEF Shared!ReadIsKept
  <2>2. CASE x[1] = r
    <3>1. /\ Shared!Written(r)
          /\ \/ note[r].text = x[2]
             \/ \E i \in DOMAIN note[r].trail : note[r].trail[i].previous = x[2]
      BY <2>1, <2>2
    <3>2. \/ new.text = x[2]
          \/ \E i \in DOMAIN new.trail : new.trail[i].previous = x[2]
      BY <3>1
    <3> QED BY <1>1, <2>2, <3>2
  <2>3. CASE x[1] # r
    <3>1. note'[x[1]] = note[x[1]]
      BY <1>1, <2>1, <2>3
    <3> QED BY <2>1, <3>1
  <2> QED BY <2>2, <2>3
<1>5. \A q \in NoteRows : Shared!IsPrefix(note[q].trail, note[q].trail)
  BY PrefixItself DEF Notes
<1>6. NoteInv'
  BY <1>1, <1>2, <1>3, <1>4
<1> QED BY <1>1, <1>3, <1>4, <1>5, <1>6 DEF Shared!NotesAccountable, NoteSound

LEMMA NotesRest ==
    ASSUME NoteInv, UNCHANGED note,
           \A x \in read' : x \in read \/ (x[1] \in NoteRows /\ Shared!Written(x[1]) /\ x[2] = note[x[1]].text)
    PROVE  NoteInv' /\ Shared!NotesAccountable
<1> USE DEF NoteInv
<1>1. \A q \in NoteRows : Shared!IsPrefix(note[q].trail, note[q].trail)
  BY PrefixItself DEF Notes
<1>2. NoteInv'
  BY DEF NoteSound, Shared!Written, Shared!ReadIsKept
<1> QED BY <1>1, <1>2 DEF Shared!NotesAccountable, NoteSound

LEMMA NewNote ==
    ASSUME NEW text \in Texts
    PROVE  LET new == [Shared!NoNote EXCEPT !.text = text]
           IN  new \in Notes /\ new.text = text /\ Shared!Chain(new)
<1> DEFINE new == [Shared!NoNote EXCEPT !.text = text]
<1>1. PICK blank \in Notes :
         /\ blank = Shared!NoNote /\ blank.trail = <<>> /\ ~blank.deleted
  <2> DEFINE blank == [text |-> None, old |-> FALSE, deleted |-> FALSE, trail |-> <<>>]
  <2>1. <<>> \in Seq(Changes)
    OBVIOUS
  <2>2. blank \in Notes /\ blank.trail = <<>> /\ ~blank.deleted
    BY <2>1 DEF Notes
  <2>3. blank = Shared!NoNote
    BY DEF Shared!NoNote
  <2> HIDE DEF blank
  <2> QED BY <2>2, <2>3
<1>2. new \in Notes /\ new.text = text /\ new.deleted = FALSE /\ new.trail = <<>>
  BY <1>1 DEF Notes
<1>3. <<>> \in Seq(Changes) /\ DOMAIN <<>> = {}
  <2>1. <<>> \in Seq(Changes) /\ Len(<<>>) = 0
    OBVIOUS
  <2>2. \A s \in Seq(Changes) : DOMAIN s = 1 .. Len(s)
    OBVIOUS
  <2> QED BY <2>1, <2>2
<1> HIDE DEF new
<1>4. Shared!Chain(new)
  BY <1>2, <1>3 DEF Shared!Chain
<1> QED BY <1>2, <1>4 DEF new

LEMMA NotesProceed ==
    ASSUME NoteInv,
           \/ \E r \in NoteRows :
                 \/ Shared!DayPasses(r)
                 \/ \E text \in Texts : \/ Shared!AddCandidateComment(r, text)
                                        \/ Shared!ChangeCandidateComment(r, "edit", text)
                 \/ Shared!ChangeCandidateComment(r, "delete", None)
           \/ \E m \in Members : Shared!CandidateComments(m)
    PROVE  NoteInv' /\ Shared!NotesAccountable
<1> USE SourcingAssumption DEF NoteInv
<1>1. ASSUME NEW r \in NoteRows, Shared!DayPasses(r) PROVE NoteInv' /\ Shared!NotesAccountable
  <2>1. PICK old \in Notes : old = note[r]
    OBVIOUS
  <2> DEFINE new == [old EXCEPT !.old = TRUE]
  <2>2. /\ new \in Notes /\ new.text = old.text /\ new.trail = old.trail
        /\ new.deleted = old.deleted
    BY DEF Notes
  <2>3. note' = [note EXCEPT ![r] = new] /\ read' = read /\ old.text # None /\ ~old.old
    BY <1>1, <2>1 DEF Shared!DayPasses, Shared!Written
  <2> HIDE DEF new
  <2>4. Shared!IsPrefix(old.trail, old.trail)
    BY PrefixItself DEF Notes
  <2>5. Shared!Chain(new) /\ Shared!FirstText(new) = Shared!FirstText(old)
    BY <2>1, <2>2 DEF NoteSound, Shared!Chain, Shared!FirstText
  <2> QED BY <2>1, <2>2, <2>3, <2>4, <2>5, NoteMoves
<1>2. ASSUME NEW r \in NoteRows, NEW text \in Texts, Shared!AddCandidateComment(r, text)
      PROVE  NoteInv' /\ Shared!NotesAccountable
  <2>1. ~Shared!Written(r) /\ note[r] = Shared!NoNote /\ read' = read
    BY <1>2 DEF Shared!AddCandidateComment, Shared!Known, NoteSound
  <2>2. PICK new \in Notes : new = [Shared!NoNote EXCEPT !.text = text] /\ new.text = text /\ Shared!Chain(new)
    BY NewNote
  <2>3. note' = [note EXCEPT ![r] = new]
    <3>1. note' = [note EXCEPT ![r] = [note[r] EXCEPT !.text = text]]
      BY <1>2 DEF Shared!AddCandidateComment
    <3> QED BY <2>1, <2>2, <3>1
  <2>4. text # None
    OBVIOUS
  <2> QED BY <2>1, <2>2, <2>3, <2>4, NoteMoves
<1>3. ASSUME NEW r \in NoteRows, NEW action, NEW text,
             \/ action = "edit" /\ text \in Texts
             \/ action = "delete" /\ text = None,
             Shared!ChangeCandidateComment(r, action, text)
      PROVE  NoteInv' /\ Shared!NotesAccountable
  <2>1. PICK old \in Notes : old = note[r]
    OBVIOUS
  <2>2. old.text # None /\ ~old.deleted /\ ~old.old /\ read' = read
    BY <1>3, <2>1 DEF Shared!ChangeCandidateComment, Shared!Modifiable, Shared!Written
  <2>3. PICK c \in Changes :
           /\ c = [action |-> action, previous |-> old.text, new |-> text]
           /\ c.action = action /\ c.previous = old.text /\ c.new = text
    <3>1. action \in {"edit", "delete"} /\ old.text \in Texts \cup {None} /\ text \in Texts \cup {None}
      BY <1>3 DEF Notes
    <3> DEFINE c == [action |-> action, previous |-> old.text, new |-> text]
    <3>2. c \in Changes /\ c.action = action /\ c.previous = old.text /\ c.new = text
      BY <3>1 DEF Changes
    <3> HIDE DEF c
    <3>3. \E x \in Changes : x = c
      BY <3>2
    <3> QED BY <3>2, <3>3 DEF c
  <2> DEFINE new == [old EXCEPT !.trail = Append(old.trail, c),
                                !.text = IF action = "edit" THEN text ELSE @,
                                !.deleted = (action = "delete")]
  <2>4. note' = [note EXCEPT ![r] = new]
    BY <1>3, <2>1, <2>3 DEF Shared!ChangeCandidateComment, Shared!Change
  <2>5. /\ new \in Notes /\ new.trail = Append(old.trail, c) /\ new.deleted = (action = "delete")
        /\ new.text = IF action = "edit" THEN text ELSE old.text
    <3>1. old.trail \in Seq(Changes) /\ Append(old.trail, c) \in Seq(Changes)
      BY DEF Notes
    <3> QED BY <1>3, <3>1 DEF Notes
  <2> HIDE DEF new
  <2>6. new.text # None
    BY <1>3, <2>2, <2>5
  <2>7. Shared!IsPrefix(old.trail, new.trail)
    BY <2>5, PrefixGrows DEF Notes
  <2>8. Shared!Chain(new) /\ Shared!FirstText(new) = Shared!FirstText(old)
    <3>1. Shared!Chain(old)
      BY <2>1 DEF NoteSound
    <3>2. c.new = IF new.deleted THEN None ELSE new.text
      BY <1>3, <2>3, <2>5
    <3>3. new.deleted = (c.action = "delete")
      BY <2>3, <2>5
    <3> QED BY <2>2, <2>3, <2>5, <3>1, <3>2, <3>3, ChainGrows
  <2>9. ASSUME NEW t, \/ old.text = t
                      \/ \E i \in DOMAIN old.trail : old.trail[i].previous = t
        PROVE  \E i \in DOMAIN new.trail : new.trail[i].previous = t
    <3>1. /\ old.trail \in Seq(Changes) /\ Len(old.trail) \in Nat
          /\ DOMAIN old.trail = 1 .. Len(old.trail)
          /\ DOMAIN new.trail = 1 .. Len(old.trail) + 1
          /\ new.trail[Len(old.trail) + 1] = c
          /\ \A i \in DOMAIN old.trail : i \in DOMAIN new.trail /\ new.trail[i] = old.trail[i]
      BY <2>5 DEF Notes
    <3> QED BY <2>3, <2>9, <3>1
  <2> QED BY <2>1, <2>2, <2>4, <2>5, <2>6, <2>7, <2>8, <2>9, NoteMoves
<1>4. ASSUME NEW m \in Members, Shared!CandidateComments(m) PROVE NoteInv' /\ Shared!NotesAccountable
  <2>1. UNCHANGED note /\ read' = read \cup {<<r, note[r].text>> :
                                r \in {q \in NoteRows : Shared!Written(q) /\ ~note[q].deleted}}
    BY <1>4 DEF Shared!CandidateComments
  <2> QED BY <2>1, NotesRest
<1> QED BY <1>1, <1>2, <1>3, <1>4

Events == [actor : Members, action : {"created", "saved", "removed"}]
PoolRecords ==
    [owner : Members \cup {None}, kind : {"manual", "smart"},
     tags : {None, "untagged", "tagged"}, events : Seq(Events)]
Hands == [pool : PoolRows \cup {"own"}, tags : {None, "kept", "untagged", "tagged"}]

\* A pool that exists has events, and they tell whether the candidate is in it.
PoolSound(p) ==
    /\ Shared!LogDecides(p)
    /\ Shared!Exists(p) <=> pool[p].events # <<>>
    /\ ~Shared!Exists(p) => pool[p].kind = "manual"

PoolInv ==
    /\ pool \in [PoolRows -> PoolRecords]
    /\ own \in [Members -> {None, "untagged", "tagged"}]
    /\ changing \in [Members -> {None} \cup Hands]
    /\ active \subseteq Members
    /\ \A p \in PoolRows : PoolSound(p)
    \* a pool in hand is a manual one, and stays
    /\ \A m \in Members : \A p \in PoolRows :
          changing[m] # None /\ changing[m].pool = p => Shared!Exists(p) /\ pool[p].kind = "manual"

LEMMA EventOf ==
    ASSUME NEW m \in Members, NEW action \in {"created", "saved", "removed"}
    PROVE  /\ Shared!Event(m, action) \in Events
           /\ Shared!Event(m, action).actor = m /\ Shared!Event(m, action).action = action
BY DEF Shared!Event, Events

LEMMA CountOfPools ==
    ASSUME NEW S
    PROVE  Shared!Cardinality(S) = Cardinality(S)
BY Zenon DEF Shared!Cardinality, Cardinality

\* Smart pools that do not become more are within the plan as they were.
LEMMA SmartWithin ==
    ASSUME PoolInv, \A p \in PoolRows : pool'[p].kind = "smart" => pool[p].kind = "smart"
    PROVE  ~(Shared!Cardinality(Shared!Smart') > Shared!Cardinality(Shared!Smart))
<1>1. IsFiniteSet(Shared!Smart) /\ IsFiniteSet(Shared!Smart') /\ Shared!Smart' \subseteq Shared!Smart
  <2>1. Shared!Smart \subseteq PoolRows /\ Shared!Smart' \subseteq PoolRows
    BY DEF Shared!Smart
  <2>2. Shared!Smart' \subseteq Shared!Smart
    BY DEF Shared!Smart
  <2> QED BY <2>1, <2>2, FS_Subset, SourcingAssumption
<1>2. /\ Cardinality(Shared!Smart') <= Cardinality(Shared!Smart)
      /\ Cardinality(Shared!Smart') \in Nat /\ Cardinality(Shared!Smart) \in Nat
  BY <1>1, FS_Subset, FS_CardinalityType
<1> QED BY <1>2, CountOfPools

\* One pool moves on, entered by its owner.
LEMMA PoolMoves ==
    ASSUME PoolInv, NEW p \in PoolRows, NEW new \in PoolRecords, NEW e \in Events,
           pool' = [pool EXCEPT ![p] = new], UNCHANGED <<own, active>>,
           changing' \in [Members -> {None} \cup Hands],
           \A m \in Members : changing'[m] \in {None, changing[m]},
           new.owner # None, new.events = Append(pool[p].events, e),
           new.tags # None <=> e.action = "saved",
           Shared!Exists(p) => e.actor = pool[p].owner /\ pool[p].kind = "manual" /\ new.kind = "manual"
    PROVE  /\ PoolInv'
           /\ \A q \in PoolRows :
                 /\ Shared!LogDecides(q)'
                 /\ Shared!IsPrefix(pool[q].events, pool'[q].events)
                 /\ Shared!Exists(q) /\ pool'[q].events # pool[q].events =>
                       Shared!Last(pool'[q].events).actor = pool[q].owner /\ pool[q].kind = "manual"
<1> USE SourcingAssumption DEF PoolInv
<1>1. /\ pool' \in [PoolRows -> PoolRecords] /\ pool'[p] = new
      /\ \A q \in PoolRows \ {p} : pool'[q] = pool[q]
  OBVIOUS
<1>2. \A q \in PoolRows : pool[q].events \in Seq(Events)
  BY DEF PoolRecords
<1>3. /\ new.events # <<>> /\ Shared!Last(new.events) = e
      /\ Shared!IsPrefix(pool[p].events, new.events)
  <2>1. PICK s \in Seq(Events) : s = pool[p].events
    BY <1>2
  <2>2. Append(s, e) # <<>> /\ Append(s, e)[Len(Append(s, e))] = e
    OBVIOUS
  <2>3. Shared!IsPrefix(s, Append(s, e))
    BY PrefixGrows
  <2> QED BY <2>1, <2>2, <2>3 DEF Shared!Last
<1>4. \A q \in PoolRows : PoolSound(q)'
  <2>1. PoolSound(p)'
    BY <1>1, <1>3 DEF PoolSound, Shared!LogDecides, Shared!Exists
  <2>2. ASSUME NEW q \in PoolRows, q # p PROVE PoolSound(q)'
    BY <1>1, <2>2 DEF PoolSound, Shared!LogDecides, Shared!Exists
  <2> QED BY <2>1, <2>2
<1>5. \A q \in PoolRows : Shared!Exists(q) => Shared!Exists(q)' /\ (pool[q].kind = "manual" => pool'[q].kind = "manual")
  BY <1>1 DEF Shared!Exists
<1>6. ASSUME NEW m \in Members, NEW q \in PoolRows, changing'[m] # None, changing'[m].pool = q
      PROVE  Shared!Exists(q)' /\ pool'[q].kind = "manual"
  <2>1. changing[m] # None /\ changing[m].pool = q
    BY <1>6
  <2> QED BY <1>5, <2>1
<1>7. PoolInv'
  BY <1>1, <1>4, <1>6
<1>8. \A q \in PoolRows : Shared!IsPrefix(pool[q].events, pool[q].events)
  BY <1>2, PrefixItself
<1> QED BY <1>1, <1>3, <1>4, <1>7, <1>8 DEF PoolSound

\* The pools keep what they hold; their owners and the changes in hand may be others.
LEMMA PoolsRest ==
    ASSUME PoolInv, pool' \in [PoolRows -> PoolRecords],
           own' \in [Members -> {None, "untagged", "tagged"}],
           active' \subseteq Members, changing' \in [Members -> {None} \cup Hands],
           \A p \in PoolRows :
              /\ pool'[p].events = pool[p].events /\ pool'[p].tags = pool[p].tags
              /\ pool'[p].kind = pool[p].kind
              /\ Shared!Exists(p)' <=> Shared!Exists(p),
           \A m \in Members :
              \/ changing'[m] \in {None, changing[m]}
              \/ /\ changing'[m] \in Hands
                 /\ \A p \in PoolRows : changing'[m].pool = p =>
                       Shared!Exists(p) /\ pool[p].kind = "manual"
    PROVE  PoolInv' /\ Shared!PoolsAccountable
<1> USE SourcingAssumption DEF PoolInv
<1>1. \A p \in PoolRows : PoolSound(p)'
  BY DEF PoolSound, Shared!LogDecides, Shared!Exists
<1>2. ASSUME NEW m \in Members, NEW p \in PoolRows, changing'[m] # None, changing'[m].pool = p
      PROVE  Shared!Exists(p)' /\ pool'[p].kind = "manual"
  BY <1>2
<1>3. \A p \in PoolRows : Shared!IsPrefix(pool[p].events, pool'[p].events)
  BY PrefixItself DEF PoolRecords
<1>4. ~(Shared!Cardinality(Shared!Smart') > Shared!Cardinality(Shared!Smart))
  BY SmartWithin
<1>5. PoolInv'
  BY <1>1, <1>2
<1> QED BY <1>1, <1>3, <1>4, <1>5 DEF Shared!PoolsAccountable, PoolSound

LEMMA TagsSaved ==
    ASSUME NEW before \in {None, "untagged", "tagged"}, NEW tags \in {None, "kept", "untagged", "tagged"}
    PROVE  /\ Shared!Tags(before, tags) \in {None, "untagged", "tagged"}
           /\ Shared!Tags(before, tags) = None <=> tags = None
           /\ before = "tagged" /\ Shared!Tags(before, tags) = "untagged" => tags # "kept"
BY SourcingAssumption DEF Shared!Tags

LEMMA NoPoolYet ==
    Shared!NoPool \in PoolRecords /\ Shared!NoPool.tags = None
<1>1. <<>> \in Seq(Events)
  OBVIOUS
<1> QED BY <1>1 DEF Shared!NoPool, PoolRecords

LEMMA CreatePoolPreserves ==
    ASSUME PoolInv, NEW p \in PoolRows, NEW m \in Members, NEW kind \in {"manual", "smart"},
           Shared!CreateNamedPool(p, m, kind)
    PROVE  PoolInv' /\ Shared!PoolsAccountable /\ Shared!GroupsKept
<1> USE SourcingAssumption
<1>1. /\ ~Shared!Exists(p) /\ UNCHANGED <<active, own, changing>>
      /\ pool[p].events = <<>> /\ pool[p].tags = None /\ pool[p].kind = "manual"
  BY DEF Shared!CreateNamedPool, PoolInv, PoolSound, Shared!LogDecides
<1>2. PICK e \in Events : e = Shared!Event(m, "created") /\ e.action = "created"
  BY EventOf
<1>3. PICK new \in PoolRecords :
         /\ pool' = [pool EXCEPT ![p] = new] /\ new.owner = m /\ new.kind = kind
         /\ new.tags = None /\ new.events = Append(pool[p].events, e)
  <2>1. PICK none \in PoolRecords : none = Shared!NoPool /\ none.tags = None
    BY NoPoolYet
  <2> DEFINE new == [none EXCEPT !.owner = m, !.kind = kind, !.events = <<e>>]
  <2>2. pool' = [pool EXCEPT ![p] = new]
    BY <1>2, <2>1 DEF Shared!CreateNamedPool
  <2>3. <<e>> \in Seq(Events) /\ <<e>> = Append(<<>>, e)
    OBVIOUS
  <2>4. new \in PoolRecords /\ new.owner = m /\ new.kind = kind /\ new.tags = None /\ new.events = <<e>>
    BY <2>1, <2>3 DEF PoolRecords
  <2> HIDE DEF new
  <2> QED BY <1>1, <2>2, <2>3, <2>4
<1>4. /\ PoolInv'
      /\ \A q \in PoolRows :
            /\ Shared!LogDecides(q)'
            /\ Shared!IsPrefix(pool[q].events, pool'[q].events)
            /\ Shared!Exists(q) /\ pool'[q].events # pool[q].events =>
                  Shared!Last(pool'[q].events).actor = pool[q].owner /\ pool[q].kind = "manual"
  BY <1>1, <1>2, <1>3, PoolMoves DEF PoolInv
<1>5. Shared!Cardinality(Shared!Smart') > Shared!Cardinality(Shared!Smart) =>
         Shared!Cardinality(Shared!Smart') <= SmartLimit
  <2>1. CASE kind = "manual"
    BY <1>1, <1>3, <2>1, SmartWithin DEF PoolInv
  <2>2. CASE kind = "smart"
    <3>1. Shared!Cardinality(Shared!Smart) < SmartLimit
      BY <2>2 DEF Shared!CreateNamedPool, Shared!Room
    <3>2. IsFiniteSet(Shared!Smart) /\ Shared!Smart' = Shared!Smart \cup {p}
      <4>1. Shared!Smart \subseteq PoolRows
        BY DEF Shared!Smart
      <4>2. \A q \in PoolRows : pool'[q].kind = "smart" <=> q = p \/ pool[q].kind = "smart"
        BY <1>3, <2>2 DEF PoolInv
      <4> QED BY <4>1, <4>2, FS_Subset DEF Shared!Smart
    <3>3. /\ Cardinality(Shared!Smart) \in Nat
          /\ Cardinality(Shared!Smart') \in {Cardinality(Shared!Smart), Cardinality(Shared!Smart) + 1}
      BY <3>2, FS_AddElement, FS_CardinalityType
    <3> QED BY <3>1, <3>3, CountOfPools
  <2> QED BY <2>1, <2>2
<1>6. Shared!GroupsKept
  BY <1>1, <1>3 DEF Shared!GroupsKept, PoolInv
<1> QED BY <1>4, <1>5, <1>6 DEF Shared!PoolsAccountable

\* The row that is locked decides, not the one that was looked at.
LEMMA SavePreserves ==
    ASSUME PoolInv, NEW m \in Members, Shared!SetNamedPoolCandidate(m)
    PROVE  PoolInv' /\ Shared!PoolsAccountable /\ Shared!GroupsKept
<1> USE SourcingAssumption
<1>1. /\ changing[m] # None /\ changing[m].pool # "own"
      /\ changing' = [changing EXCEPT ![m] = None] /\ UNCHANGED <<active, own>>
  BY DEF Shared!SetNamedPoolCandidate
<1>2. PICK hand \in Hands : hand = changing[m]
  BY <1>1 DEF PoolInv
<1>3. PICK p \in PoolRows : p = hand.pool
  BY <1>1, <1>2 DEF Hands
<1>4. PICK tags \in {None, "kept", "untagged", "tagged"} : tags = hand.tags
  BY <1>2 DEF Hands
<1>5. Shared!Exists(p) /\ pool[p].kind = "manual"
  BY <1>1, <1>2, <1>3 DEF PoolInv
<1>6. /\ changing' \in [Members -> {None} \cup Hands]
      /\ \A n \in Members : changing'[n] \in {None, changing[n]}
      /\ changing'[m] = None
  BY <1>1 DEF PoolInv
<1>7. CASE UNCHANGED pool
  <2>1. PoolInv' /\ Shared!PoolsAccountable
    <3>1. pool' \in [PoolRows -> PoolRecords] /\ own' \in [Members -> {None, "untagged", "tagged"}] /\ active' \subseteq Members
      BY <1>1, <1>7 DEF PoolInv
    <3>2. \A q \in PoolRows : Shared!Exists(q)' <=> Shared!Exists(q)
      BY <1>7 DEF Shared!Exists
    <3> QED BY <1>6, <1>7, <3>1, <3>2, PoolsRest
  <2>2. Shared!GroupsKept
    BY <1>1, <1>7 DEF Shared!GroupsKept
  <2> QED BY <2>1, <2>2
<1>8. CASE /\ Shared!Owns(m, p)
           /\ pool' = [pool EXCEPT ![p].tags = Shared!Tags(@, tags),
                ![p].events = Append(@, Shared!Event(m, IF tags = None THEN "removed" ELSE "saved"))]
  <2>1. PICK old \in PoolRecords : old = pool[p]
    BY DEF PoolInv
  <2>2. old.owner = m /\ old.kind = "manual" /\ old.tags \in {None, "untagged", "tagged"}
    BY <1>5, <1>8, <2>1 DEF Shared!Owns, PoolRecords
  <2>3. PICK after \in {None, "untagged", "tagged"} :
           /\ after = Shared!Tags(old.tags, tags)
           /\ after = None <=> tags = None
           /\ old.tags = "tagged" /\ after = "untagged" => tags # "kept"
    BY <2>2, TagsSaved
  <2>4. PICK e \in Events :
           /\ e = Shared!Event(m, IF tags = None THEN "removed" ELSE "saved")
           /\ e.actor = m /\ (e.action = "saved" <=> tags # None)
    <3>1. PICK action \in {"removed", "saved"} :
             /\ action = IF tags = None THEN "removed" ELSE "saved"
             /\ action = "saved" <=> tags # None
      OBVIOUS
    <3> QED BY <3>1, EventOf
  <2> DEFINE new == [old EXCEPT !.tags = after, !.events = Append(old.events, e)]
  <2>5. pool' = [pool EXCEPT ![p] = new]
    BY <1>8, <2>1, <2>3, <2>4
  <2>6. /\ new \in PoolRecords /\ new.owner = m /\ new.kind = "manual"
        /\ new.tags = after /\ new.events = Append(old.events, e)
    <3>1. old.events \in Seq(Events) /\ Append(old.events, e) \in Seq(Events)
      BY DEF PoolRecords
    <3> QED BY <2>2, <3>1 DEF PoolRecords
  <2> HIDE DEF new
  <2>7. /\ PoolInv'
        /\ \A q \in PoolRows :
              /\ Shared!LogDecides(q)'
              /\ Shared!IsPrefix(pool[q].events, pool'[q].events)
              /\ Shared!Exists(q) /\ pool'[q].events # pool[q].events =>
                    Shared!Last(pool'[q].events).actor = pool[q].owner /\ pool[q].kind = "manual"
    <3>1. new.owner # None /\ new.events = Append(pool[p].events, e)
      BY <2>1, <2>6
    <3>2. new.tags # None <=> e.action = "saved"
      BY <2>3, <2>4, <2>6
    <3>3. e.actor = pool[p].owner /\ pool[p].kind = "manual" /\ new.kind = "manual"
      BY <2>1, <2>2, <2>4, <2>6
    <3>4. UNCHANGED <<own, active>> /\ new \in PoolRecords /\ pool' = [pool EXCEPT ![p] = new]
      BY <1>1, <2>5, <2>6
    <3> HIDE DEF PoolInv
    <3> QED BY <1>6, <3>1, <3>2, <3>3, <3>4, PoolMoves
  <2>8. \A q \in PoolRows : pool'[q] = IF q = p THEN new ELSE pool[q]
    BY <2>5 DEF PoolInv
  <2>9. ~(Shared!Cardinality(Shared!Smart') > Shared!Cardinality(Shared!Smart))
    BY <2>6, <2>8, SmartWithin
  <2>10. Shared!GroupsKept
    <3>1. ASSUME NEW q \in PoolRows, pool[q].tags = "tagged", pool'[q].tags = "untagged"
          PROVE  /\ changing[m] # None /\ changing[m].tags # "kept"
                 /\ changing'[m] = None
      <4>1. q = p /\ old.tags = "tagged" /\ after = "untagged"
        BY <2>1, <2>6, <2>8, <3>1
      <4> QED BY <1>1, <1>2, <1>4, <1>6, <2>3, <4>1
    <3> QED BY <1>1, <3>1 DEF Shared!GroupsKept
  <2> QED BY <2>7, <2>9, <2>10 DEF Shared!PoolsAccountable
<1>9. \/ UNCHANGED pool
      \/ /\ Shared!Owns(m, p)
         /\ pool' = [pool EXCEPT ![p].tags = Shared!Tags(@, tags),
              ![p].events = Append(@, Shared!Event(m, IF tags = None THEN "removed" ELSE "saved"))]
  BY <1>2, <1>3, <1>4 DEF Shared!SetNamedPoolCandidate
<1> QED BY <1>7, <1>8, <1>9

LEMMA HandsPreserve ==
    ASSUME PoolInv, NEW m \in Members,
           \/ \E p \in PoolRows : \E tags \in {None, "kept", "untagged", "tagged"} : Shared!OpenPool(m, p, tags)
           \/ \E tags \in {"kept", "untagged", "tagged"} : Shared!FindForOwn(m, tags)
    PROVE  PoolInv' /\ Shared!PoolsAccountable /\ Shared!GroupsKept
<1> USE SourcingAssumption
<1>1. ASSUME NEW p \in PoolRows \cup {"own"}, NEW tags \in {None, "kept", "untagged", "tagged"},
             p # "own" => Shared!Exists(p) /\ pool[p].kind = "manual",
             changing' = [changing EXCEPT ![m] = [pool |-> p, tags |-> tags]],
             UNCHANGED <<pool, own, active>>
      PROVE  PoolInv' /\ Shared!PoolsAccountable /\ Shared!GroupsKept
  <2>1. PICK hand \in Hands : hand = [pool |-> p, tags |-> tags] /\ hand.pool = p
    <3> DEFINE hand == [pool |-> p, tags |-> tags]
    <3>1. hand \in Hands /\ hand.pool = p
      BY DEF Hands
    <3>2. hand = [pool |-> p, tags |-> tags]
      OBVIOUS
    <3> HIDE DEF hand
    <3> QED BY <3>1, <3>2
  <2>2. /\ changing' \in [Members -> {None} \cup Hands] /\ changing'[m] = hand
        /\ \A n \in Members \ {m} : changing'[n] = changing[n]
    BY <1>1, <2>1 DEF PoolInv
  <2>3. /\ pool' \in [PoolRows -> PoolRecords] /\ own' \in [Members -> {None, "untagged", "tagged"}]
        /\ active' \subseteq Members
    BY <1>1 DEF PoolInv
  <2>4. \A q \in PoolRows : Shared!Exists(q)' <=> Shared!Exists(q)
    BY <1>1 DEF Shared!Exists
  <2>5. PoolInv' /\ Shared!PoolsAccountable
    <3>1. \A n \in Members :
             \/ changing'[n] \in {None, changing[n]}
             \/ /\ changing'[n] \in Hands
                /\ \A q \in PoolRows : changing'[n].pool = q => Shared!Exists(q) /\ pool[q].kind = "manual"
      BY <1>1, <2>1, <2>2
    <3> QED BY <1>1, <2>2, <2>3, <2>4, <3>1, PoolsRest
  <2>6. Shared!GroupsKept
    BY <1>1 DEF Shared!GroupsKept
  <2> QED BY <2>5, <2>6
<1>2. ASSUME NEW p \in PoolRows, NEW tags \in {None, "kept", "untagged", "tagged"}, Shared!OpenPool(m, p, tags)
      PROVE  PoolInv' /\ Shared!PoolsAccountable /\ Shared!GroupsKept
  BY <1>1, <1>2 DEF Shared!OpenPool, Shared!Exists
<1>3. ASSUME NEW tags \in {"kept", "untagged", "tagged"}, Shared!FindForOwn(m, tags)
      PROVE  PoolInv' /\ Shared!PoolsAccountable /\ Shared!GroupsKept
  BY <1>1, <1>3 DEF Shared!FindForOwn
<1> QED BY <1>2, <1>3

\* The own list, and members who come and go.
LEMMA MembersPreserve ==
    ASSUME PoolInv, NEW m \in Members,
           \/ Shared!SaveToTalentPool(m) \/ Shared!RemoveFromTalentPool(m) \/ Shared!Reactivate(m)
           \/ \E to \in Members \cup {None} : Shared!Deactivate(m, to)
    PROVE  PoolInv' /\ Shared!PoolsAccountable /\ Shared!GroupsKept
<1> USE SourcingAssumption
<1>1. ASSUME own' \in [Members -> {None, "untagged", "tagged"}], active' \subseteq Members, UNCHANGED pool,
             changing' \in [Members -> {None} \cup Hands],
             \A n \in Members : changing'[n] \in {None, changing[n]}
      PROVE  PoolInv' /\ Shared!PoolsAccountable
  <2>1. pool' \in [PoolRows -> PoolRecords] /\ \A q \in PoolRows : Shared!Exists(q)' <=> Shared!Exists(q)
    BY <1>1 DEF PoolInv, Shared!Exists
  <2> QED BY <1>1, <2>1, PoolsRest
<1>2. CASE Shared!SaveToTalentPool(m)
  <2>1. /\ changing[m] # None /\ changing' = [changing EXCEPT ![m] = None]
        /\ own' = [own EXCEPT ![m] = Shared!Tags(@, changing[m].tags)] /\ UNCHANGED <<active, pool>>
    BY <1>2 DEF Shared!SaveToTalentPool
  <2>2. PICK tags \in {None, "kept", "untagged", "tagged"} : tags = changing[m].tags
    BY <2>1 DEF PoolInv, Hands
  <2>3. PICK after \in {None, "untagged", "tagged"} :
           /\ after = Shared!Tags(own[m], tags)
           /\ own[m] = "tagged" /\ after = "untagged" => tags # "kept"
    BY TagsSaved DEF PoolInv
  <2>4. own' = [own EXCEPT ![m] = after]
    BY <2>1, <2>2, <2>3
  <2>5. own' \in [Members -> {None, "untagged", "tagged"}] /\ changing' \in [Members -> {None} \cup Hands]
        /\ \A n \in Members : changing'[n] \in {None, changing[n]}
    BY <2>1, <2>4 DEF PoolInv
  <2>6. \A n \in Members : own[n] = "tagged" /\ own'[n] = "untagged" => changing[n] # None /\ changing[n].tags # "kept"
    BY <2>1, <2>2, <2>3, <2>4 DEF PoolInv
  <2>7. Shared!GroupsKept
    BY <2>1, <2>6 DEF Shared!GroupsKept
  <2>8. PoolInv' /\ Shared!PoolsAccountable
    BY <1>1, <2>1, <2>5 DEF PoolInv
  <2> QED BY <2>7, <2>8
<1>3. CASE Shared!RemoveFromTalentPool(m)
  <2>1. own' = [own EXCEPT ![m] = None] /\ UNCHANGED <<active, pool, changing>>
    BY <1>3 DEF Shared!RemoveFromTalentPool
  <2>2. own' \in [Members -> {None, "untagged", "tagged"}]
    BY <2>1 DEF PoolInv
  <2>3. Shared!GroupsKept
    BY <2>1 DEF Shared!GroupsKept, PoolInv
  <2>4. PoolInv' /\ Shared!PoolsAccountable
    BY <1>1, <2>1, <2>2 DEF PoolInv
  <2> QED BY <2>3, <2>4
<1>4. CASE Shared!Reactivate(m)
  <2>1. active' = active \cup {m} /\ UNCHANGED <<own, pool, changing>>
    BY <1>4 DEF Shared!Reactivate, Shared!poolVars
  <2> QED BY <1>1, <2>1 DEF Shared!GroupsKept, PoolInv
<1>5. ASSUME NEW to \in Members \cup {None}, Shared!Deactivate(m, to)
      PROVE  PoolInv' /\ Shared!PoolsAccountable /\ Shared!GroupsKept
  <2>1. /\ active' = active \ {m} /\ UNCHANGED <<own, changing>>
        /\ to = None \/ to \in active
        /\ pool' = IF to = None THEN pool ELSE Shared!HandOver(m, to)
    BY <1>5 DEF Shared!Deactivate
  <2>2. CASE to = None
    BY <1>1, <2>1, <2>2 DEF Shared!GroupsKept, PoolInv
  <2>3. CASE to # None
    <3>1. /\ pool' \in [PoolRows -> PoolRecords]
          /\ \A p \in PoolRows :
                /\ pool'[p].events = pool[p].events /\ pool'[p].tags = pool[p].tags
                /\ pool'[p].kind = pool[p].kind
                /\ (pool'[p].owner # None) <=> (pool[p].owner # None)
      <4>1. ASSUME NEW p \in PoolRows
            PROVE  LET moved == [pool[p] EXCEPT !.owner = to]
                   IN  /\ moved \in PoolRecords /\ moved.events = pool[p].events
                       /\ moved.tags = pool[p].tags /\ moved.kind = pool[p].kind /\ moved.owner = to
        <5>1. pool[p] \in PoolRecords
          BY DEF PoolInv
        <5> QED BY <5>1 DEF PoolRecords
      <4>2. pool' = [p \in PoolRows |-> IF pool[p].owner = m THEN [pool[p] EXCEPT !.owner = to] ELSE pool[p]]
        BY <2>1, <2>3 DEF Shared!HandOver
      <4> QED BY <2>3, <4>1, <4>2 DEF PoolInv
    <3>2. PoolInv' /\ Shared!PoolsAccountable
      BY <2>1, <3>1, PoolsRest DEF PoolInv, Shared!Exists
    <3>3. Shared!GroupsKept
      BY <2>1, <3>1 DEF Shared!GroupsKept
    <3> QED BY <3>2, <3>3
  <2> QED BY <2>2, <2>3
<1> QED BY <1>2, <1>3, <1>4, <1>5

LEMMA SourcingStarts ==
    ASSUME Shared!Init
    PROVE  NoteInv /\ PoolInv
<1>1. NoteInv
  <2>1. Shared!NoNote \in Notes /\ Shared!Chain(Shared!NoNote)
    <3>1. <<>> \in Seq(Changes) /\ DOMAIN <<>> = {}
      <4>1. <<>> \in Seq(Changes) /\ Len(<<>>) = 0
        OBVIOUS
      <4>2. \A s \in Seq(Changes) : DOMAIN s = 1 .. Len(s)
        OBVIOUS
      <4> QED BY <4>1, <4>2
    <3>2. Shared!NoNote.trail = <<>> /\ Shared!NoNote.deleted = FALSE
      BY DEF Shared!NoNote
    <3>3. Shared!NoNote \in Notes
      BY <3>1 DEF Shared!NoNote, Notes
    <3> QED BY <3>1, <3>2, <3>3 DEF Shared!Chain
  <2>2. note = [r \in NoteRows |-> Shared!NoNote] /\ read = {}
    BY DEF Shared!Init
  <2> QED BY <2>1, <2>2 DEF NoteInv, NoteSound, Shared!ReadIsKept
<1>2. PoolInv
  <2>1. /\ pool = [p \in PoolRows |-> Shared!NoPool] /\ active = Members
        /\ own = [m \in Members |-> None] /\ changing = [m \in Members |-> None]
    BY DEF Shared!Init
  <2>2. Shared!NoPool.owner = None /\ Shared!NoPool.kind = "manual" /\ Shared!NoPool.events = <<>>
    BY DEF Shared!NoPool
  <2>3. \A p \in PoolRows : PoolSound(p)
    BY <2>1, <2>2, NoPoolYet DEF PoolSound, Shared!LogDecides, Shared!Exists
  <2> QED BY <2>1, <2>3, NoPoolYet DEF PoolInv
<1> QED BY <1>1, <1>2

LEMMA PoolsUntouched ==
    ASSUME PoolInv, UNCHANGED <<pool, own, changing, active>>
    PROVE  PoolInv' /\ Shared!PoolsAccountable /\ Shared!GroupsKept
<1>1. \A p \in PoolRows : Shared!Exists(p)' <=> Shared!Exists(p)
  BY DEF Shared!Exists
<1>2. PoolInv' /\ Shared!PoolsAccountable
  BY <1>1, PoolsRest DEF PoolInv
<1> QED BY <1>2 DEF Shared!GroupsKept

LEMMA SourcingProceeds ==
    ASSUME NoteInv, PoolInv, [Shared!Next]_sourcingVars
    PROVE  NoteInv' /\ PoolInv' /\ Shared!AllAccountable
<1>1. ASSUME NoteInv', Shared!NotesAccountable, UNCHANGED <<pool, own, changing, active>>
      PROVE  NoteInv' /\ PoolInv' /\ Shared!AllAccountable
  BY <1>1, PoolsUntouched DEF Shared!AllAccountable
<1>2. ASSUME PoolInv', Shared!PoolsAccountable, Shared!GroupsKept, UNCHANGED <<note, read>>
      PROVE  NoteInv' /\ PoolInv' /\ Shared!AllAccountable
  BY <1>2, NotesRest DEF Shared!AllAccountable
<1>3. CASE UNCHANGED <<note, read, pool, own, changing, active>>
  BY <1>2, <1>3, PoolsUntouched
<1>4. CASE UNCHANGED sourcingVars
  BY <1>3, <1>4 DEF sourcingVars
<1>5. CASE \/ Shared!CandidateChanges \/ \E m \in Members : Shared!SetScope(m)
  BY <1>3, <1>5 DEF Shared!CandidateChanges, Shared!SetScope, Shared!noteVars, Shared!poolVars
<1>6. CASE \/ \E r \in NoteRows :
                 \/ Shared!DayPasses(r)
                 \/ \E text \in Texts : \/ Shared!AddCandidateComment(r, text)
                                        \/ Shared!ChangeCandidateComment(r, "edit", text)
                 \/ Shared!ChangeCandidateComment(r, "delete", None)
           \/ \E m \in Members : Shared!CandidateComments(m)
  <2>1. UNCHANGED <<pool, own, changing, active>>
    BY <1>6 DEF Shared!DayPasses, Shared!AddCandidateComment, Shared!ChangeCandidateComment,
       Shared!CandidateComments, Shared!poolVars
  <2> QED BY <1>1, <1>6, <2>1, NotesProceed
<1>7. ASSUME NEW m \in Members, NEW p \in PoolRows, NEW kind \in {"manual", "smart"}, Shared!CreateNamedPool(p, m, kind)
      PROVE  NoteInv' /\ PoolInv' /\ Shared!AllAccountable
  BY <1>2, <1>7, CreatePoolPreserves DEF Shared!CreateNamedPool, Shared!noteVars
<1>8. ASSUME NEW m \in Members, Shared!SetNamedPoolCandidate(m)
      PROVE  NoteInv' /\ PoolInv' /\ Shared!AllAccountable
  BY <1>2, <1>8, SavePreserves DEF Shared!SetNamedPoolCandidate, Shared!noteVars
<1>9. ASSUME NEW m \in Members,
             \/ \E p \in PoolRows : \E tags \in {None, "kept", "untagged", "tagged"} : Shared!OpenPool(m, p, tags)
             \/ \E tags \in {"kept", "untagged", "tagged"} : Shared!FindForOwn(m, tags)
      PROVE  NoteInv' /\ PoolInv' /\ Shared!AllAccountable
  BY <1>2, <1>9, HandsPreserve DEF Shared!OpenPool, Shared!FindForOwn, Shared!noteVars
<1>10. ASSUME NEW m \in Members,
              \/ Shared!SaveToTalentPool(m) \/ Shared!RemoveFromTalentPool(m) \/ Shared!Reactivate(m)
              \/ \E to \in Members \cup {None} : Shared!Deactivate(m, to)
       PROVE  NoteInv' /\ PoolInv' /\ Shared!AllAccountable
  BY <1>2, <1>10, MembersPreserve
     DEF Shared!SaveToTalentPool, Shared!RemoveFromTalentPool, Shared!Reactivate, Shared!Deactivate, Shared!noteVars
<1> QED BY <1>4, <1>5, <1>6, <1>7, <1>8, <1>9, <1>10 DEF Shared!Next

\* For any recruiters, notes, texts, pools and limits: what was read of a note can be found
\* again, a pool is changed by who owns it when its row is locked, its events tell who is in
\* it, smart pools stay within the plan, and groups end only when somebody ends them.
THEOREM SourcingAccountable ==
    Shared!Init /\ [][Shared!Next]_sourcingVars => [][Shared!AllAccountable]_sourcingVars
<1>1. NoteInv /\ PoolInv /\ [Shared!Next]_sourcingVars => [Shared!AllAccountable]_sourcingVars
  BY SourcingProceeds
<1> QED BY <1>1, SourcingStarts, SourcingProceeds, PTL

\* The same in the run that hosts the notes and the pools.
THEOREM NotesAndPoolsAccountable == MCSpec => SourcingIsAccountable
<1>1. MCInit => NoteInv /\ PoolInv
  BY SourcingStarts DEF MCInit
<1>2. MCNext => [Shared!Next]_sourcingVars
  BY DEF MCNext, LinksRun, ReviewsRun, ReferralsRun, SearchesRun, SourcingRun
<1>3. NoteInv /\ PoolInv /\ [MCNext]_<<subject, vars, reviewVars, referralVars, searchVars, sourcingVars>>
        => NoteInv' /\ PoolInv' /\ [(subject \in {"notes", "pools"} => Shared!AllAccountable)]_sourcingVars
  BY <1>2, SourcingProceeds
<1> QED BY <1>1, <1>3, PTL DEF MCSpec, SourcingIsAccountable

=============================================================================
