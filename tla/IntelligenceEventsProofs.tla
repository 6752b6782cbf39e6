----------------------- MODULE IntelligenceEventsProofs -----------------------
(***************************************************************************)
(* For any events, processors, switches and attempt limit, and however     *)
(* slow a processor is: attempts count failures, what is exhausted is in   *)
(* the dead letters, done, or lost with its last processor, and a dead     *)
(* letter stays one.  What an overrun lock takes away is confined to the   *)
(* event it was on.                                                        *)
(***************************************************************************)
EXTENDS IntelligenceEvents, TLAPS

\* A processor has an event in hand exactly while it works, and has done its
\* work when it records it.
HandsAgree ==
    \A p \in Processors :
        /\ Busy(p) <=> hand[p] # NoHand
        /\ pc[p] = "record" => hand[p].event \in done

\* A processor inside its lock holds the row of its event as it left it.
HoldsRow ==
    \A p \in Processors :
        hand[p] # NoHand /\ hand[p].event \notin overrun =>
            /\ status[hand[p].event] = "processing"
            /\ attempts[hand[p].event] = hand[p].attempts
            /\ ~stale[hand[p].event]

\* No two processors work on one event, unless its lock was overrun.
OneProcessor ==
    \A p, q \in Processors :
        /\ hand[p] # NoHand /\ hand[q] # NoHand
        /\ hand[p].event = hand[q].event /\ hand[p].event \notin overrun
        => p = q

IInv ==
    /\ TypeOK /\ HandsAgree /\ HoldsRow /\ OneProcessor
    /\ AttemptsCountFailures /\ ExhaustedIsDeadLettered

LEMMA HeldEvent ==
    ASSUME IInv, NEW p \in Processors, Busy(p)
    PROVE  /\ hand[p] \in Hands /\ hand[p] # NoHand
           /\ hand[p].event \in Events /\ hand[p].attempts \in 1..MaxAttempts
           /\ hand[p].event \notin overrun =>
                /\ status[hand[p].event] = "processing"
                /\ attempts[hand[p].event] = hand[p].attempts
                /\ attempts[hand[p].event] = failures[hand[p].event] + 1
BY QueueAssumption DEF IInv, TypeOK, HandsAgree, HoldsRow, AttemptsCountFailures, Hands

\* Steps that leave the rows and the processors' hands alone.
LEMMA HandsUnchanged ==
    ASSUME IInv, TypeOK', UNCHANGED <<status, attempts, stale, failures, overrun, lost, hand>>,
           dead \subseteq dead', done \subseteq done',
           \A p \in Processors : Busy(p)' <=> Busy(p),
           \A p \in Processors : pc'[p] = "record" => hand[p].event \in done'
    PROVE  IInv'
<1>1. HandsAgree' /\ HoldsRow' /\ OneProcessor'
  BY DEF IInv, HandsAgree, HoldsRow, OneProcessor
<1>2. AttemptsCountFailures' /\ ExhaustedIsDeadLettered'
  BY DEF IInv, AttemptsCountFailures, ExhaustedIsDeadLettered, AtLastAttempt
<1> QED BY <1>1, <1>2 DEF IInv

LEMMA EnqueuePreserves ==
    ASSUME IInv, NEW e \in Events, Enqueue(e)
    PROVE  IInv'
<1>1. TypeOK'
  BY DEF IInv, TypeOK, Enqueue, letters, processor
<1>2. HandsAgree' /\ HoldsRow' /\ OneProcessor'
  BY DEF IInv, TypeOK, HandsAgree, HoldsRow, OneProcessor, Enqueue, processor, Busy, Hands
<1>3. AttemptsCountFailures' /\ ExhaustedIsDeadLettered'
  BY DEF IInv, TypeOK, AttemptsCountFailures, ExhaustedIsDeadLettered, AtLastAttempt,
     Enqueue, letters, processor
<1> QED BY <1>1, <1>2, <1>3 DEF IInv

LEMMA ClaimPreserves ==
    ASSUME IInv, NEW p \in Processors, NEW e \in Events, ClaimEvent(p, e)
    PROVE  IInv'
<1> USE QueueAssumption
<1>1. /\ attempts[e] \in 0..MaxAttempts /\ attempts[e] < MaxAttempts
      /\ failures[e] \in 0..MaxAttempts /\ left[p] \in 0..BatchLimit /\ left[p] > 0
      /\ e \notin overrun =>
           attempts[e] = failures[e] + (IF status[e] = "processing" THEN 1 ELSE 0)
  BY DEF IInv, TypeOK, AttemptsCountFailures, ClaimEvent, Claimable
<1>2. PICK h \in Hands : h = [event |-> e, attempts |-> attempts[e] + 1]
  <2>1. [event |-> e, attempts |-> attempts[e] + 1] \in Hands
    BY <1>1 DEF Hands
  <2> QED BY <2>1
<1>3. \A q \in Processors : hand[q] # NoHand /\ e \notin overrun => hand[q].event # e
  BY DEF IInv, TypeOK, HoldsRow, ClaimEvent, Claimable, Hands
<1>4. /\ hand' = [hand EXCEPT ![p] = h] /\ h # NoHand
      /\ h.event = e /\ h.attempts = attempts[e] + 1 /\ hand[p] = NoHand
  BY <1>2 DEF IInv, TypeOK, HandsAgree, ClaimEvent, Busy
<1>5. \A q \in Processors : hand'[q] = IF q = p THEN h ELSE hand[q]
  BY <1>4 DEF IInv, TypeOK
<1>6. failures' = IF status[e] = "processing" /\ e \notin overrun
                  THEN [failures EXCEPT ![e] = @ + 1] ELSE failures
  BY DEF IInv, TypeOK, ClaimEvent, Count
<1>7. TypeOK'
  <2>1. /\ attempts' \in [Events -> 0..MaxAttempts]
        /\ failures' \in [Events -> 0..MaxAttempts]
        /\ left' \in [Processors -> 0..BatchLimit]
    BY <1>1, <1>6 DEF IInv, TypeOK, ClaimEvent
  <2>2. hand' \in [Processors -> Hands \cup {NoHand}]
    BY <1>4 DEF IInv, TypeOK
  <2>3. unread' \in [Processors -> SUBSET Switches]
    <3>1. SwitchesOf[e] \subseteq Capabilities
      OBVIOUS
    <3> QED BY <3>1 DEF IInv, TypeOK, ClaimEvent, Switches
  <2>4. /\ status' \in [Events -> {"absent", "pending", "processing", "processed", "failed"}]
        /\ stale' \in [Events -> BOOLEAN]
        /\ pc' \in [Processors -> {"idle", "claim", "gate", "work", "record", "fail", "defer"}]
    BY DEF IInv, TypeOK, ClaimEvent
  <2> QED BY <2>1, <2>2, <2>3, <2>4 DEF IInv, TypeOK, ClaimEvent, letters
<1>8. /\ status' = [status EXCEPT ![e] = "processing"] /\ attempts' = [attempts EXCEPT ![e] = @ + 1]
      /\ stale' = [stale EXCEPT ![e] = FALSE] /\ pc' = [pc EXCEPT ![p] = "gate"] /\ pc[p] = "claim"
      /\ UNCHANGED <<overrun, lost, dead, done>>
  BY DEF ClaimEvent, letters
<1>9. HandsAgree'
  BY <1>4, <1>5, <1>8 DEF IInv, TypeOK, HandsAgree, Busy
<1>10. HoldsRow'
  BY <1>1, <1>3, <1>4, <1>5, <1>8 DEF IInv, TypeOK, HoldsRow, Hands
<1>11. OneProcessor'
  BY <1>3, <1>4, <1>5, <1>8 DEF IInv, OneProcessor
<1>12. AttemptsCountFailures'
  BY <1>1, <1>6, <1>8 DEF IInv, TypeOK, AttemptsCountFailures
<1>13. ExhaustedIsDeadLettered'
  <2> SUFFICES ASSUME NEW d \in Events
               PROVE  /\ d \notin overrun /\ status'[d] # "processing" /\ failures'[d] = MaxAttempts
                           => d \in dead
                      /\ attempts'[d] = MaxAttempts
                           => d \in dead \cup done \cup lost \/ AtLastAttempt(d)'
    BY <1>8 DEF ExhaustedIsDeadLettered
  <2>1. CASE d = e
    <3>1. status'[d] = "processing"
      BY <2>1, <1>8 DEF IInv, TypeOK
    <3>2. attempts'[d] = MaxAttempts => AtLastAttempt(d)'
      <4>1. attempts'[d] = attempts[e] + 1
        BY <2>1, <1>1, <1>8 DEF IInv, TypeOK
      <4> QED BY <2>1, <4>1, <1>4, <1>5 DEF AtLastAttempt
    <3> QED BY <3>1, <3>2
  <2>2. CASE d # e
    <3>1. status'[d] = status[d] /\ attempts'[d] = attempts[d] /\ failures'[d] = failures[d]
      BY <2>2, <1>6, <1>8 DEF IInv, TypeOK
    <3>2. AtLastAttempt(d) => AtLastAttempt(d)'
      BY <1>4, <1>5 DEF AtLastAttempt
    <3> QED BY <3>1, <3>2 DEF IInv, ExhaustedIsDeadLettered
  <2> QED BY <2>1, <2>2
<1> QED BY <1>7, <1>9, <1>10, <1>11, <1>12, <1>13 DEF IInv

\* What MarkProcessed, Retry, DeadLetter and Defer share: one event leaves
\* one hand, the others are as before.
LEMMA ReleasePreserves ==
    ASSUME IInv, NEW p \in Processors, Busy(p), Release(p), done \subseteq done',
           \A e \in Events \ {hand[p].event} :
               status'[e] = status[e] /\ attempts'[e] = attempts[e]
    PROVE  HandsAgree' /\ HoldsRow' /\ OneProcessor'
<1>1. \A q \in Processors : hand'[q] = IF q = p THEN NoHand ELSE hand[q]
  BY DEF IInv, TypeOK, Release
<1>2. \A q \in Processors : pc'[q] = IF q = p THEN "claim" ELSE pc[q]
  BY DEF IInv, TypeOK, Release
<1>3. \A q \in Processors : q # p /\ hand[q] # NoHand /\ hand[q].event \notin overrun =>
          hand[q].event \in Events \ {hand[p].event}
  BY HeldEvent DEF IInv, TypeOK, OneProcessor, Hands
<1>4. \A e \in Events \ {hand[p].event} : stale'[e] = stale[e]
  BY DEF IInv, TypeOK, Release
<1>5. overrun' = overrun
  BY DEF Release
<1>6. HandsAgree'
  BY <1>1, <1>2 DEF IInv, HandsAgree, Busy
<1>7. HoldsRow'
  BY <1>1, <1>3, <1>4, <1>5 DEF IInv, HoldsRow
<1>8. OneProcessor'
  BY <1>1, <1>5 DEF IInv, OneProcessor
<1> QED BY <1>6, <1>7, <1>8

\* No last attempt ends but the one of the released event.
LEMMA ReleaseKeepsLast ==
    ASSUME IInv, NEW p \in Processors, Busy(p), Release(p), NEW d \in Events, AtLastAttempt(d),
           d # hand[p].event \/ hand[p].attempts # MaxAttempts
    PROVE  AtLastAttempt(d)'
<1>1. PICK q \in Processors : hand[q] # NoHand /\ hand[q].event = d /\ hand[q].attempts = MaxAttempts
  BY DEF AtLastAttempt
<1>2. q # p
  BY <1>1
<1>3. hand'[q] = hand[q]
  BY <1>2 DEF IInv, TypeOK, Release
<1> QED BY <1>1, <1>3 DEF AtLastAttempt

LEMMA OutcomePreserves ==
    ASSUME IInv, NEW p \in Processors,
           MarkProcessed(p) \/ Retry(p) \/ DeadLetter(p) \/ Defer(p)
    PROVE  IInv'
<1> USE QueueAssumption
<1>1. Busy(p) /\ Release(p)
  BY DEF MarkProcessed, Retry, DeadLetter, Defer, Busy
<1>2. PICK e \in Events : e = hand[p].event
  BY <1>1, HeldEvent
<1>3. /\ hand[p].attempts \in 1..MaxAttempts /\ attempts[e] \in 0..MaxAttempts
      /\ failures[e] \in 0..MaxAttempts
      /\ e \notin overrun =>
           /\ status[e] = "processing" /\ attempts[e] = hand[p].attempts
           /\ attempts[e] = failures[e] + 1
  BY <1>1, <1>2, HeldEvent DEF IInv, TypeOK
<1>4. /\ stale' \in [Events -> BOOLEAN] /\ hand' \in [Processors -> Hands \cup {NoHand}]
      /\ pc' \in [Processors -> {"idle", "claim", "gate", "work", "record", "fail", "defer"}]
      /\ UNCHANGED <<overrun, lost>>
  BY <1>1 DEF IInv, TypeOK, Release
<1>5. \A d \in Events \ {e} : AtLastAttempt(d) => AtLastAttempt(d)'
  BY <1>1, <1>2, ReleaseKeepsLast
<1>6. hand[p].attempts < MaxAttempts => (AtLastAttempt(e) => AtLastAttempt(e)')
  BY <1>1, <1>2, <1>3, ReleaseKeepsLast
<1>7. CASE MarkProcessed(p)
  <2>1. /\ status' = [status EXCEPT ![e] = "processed"] /\ e \in done
        /\ UNCHANGED <<attempts, failures, dead, done>>
    BY <1>2, <1>7 DEF IInv, HandsAgree, MarkProcessed, letters
  <2>2. TypeOK'
    <3>1. UNCHANGED <<available, openReviews, on, left, unread>>
      BY <1>7 DEF MarkProcessed, letters
    <3> QED BY <1>4, <2>1, <3>1 DEF IInv, TypeOK
  <2>3. HandsAgree' /\ HoldsRow' /\ OneProcessor'
    BY <1>1, <1>2, <2>1, ReleasePreserves DEF IInv, TypeOK
  <2>4. AttemptsCountFailures' /\ ExhaustedIsDeadLettered'
    BY <1>3, <1>4, <1>5, <2>1
       DEF IInv, TypeOK, AttemptsCountFailures, ExhaustedIsDeadLettered
  <2> QED BY <2>2, <2>3, <2>4 DEF IInv
<1>8. CASE Retry(p)
  <2>1. /\ status' = [status EXCEPT ![e] = "failed"] /\ hand[p].attempts < MaxAttempts
        /\ failures' = IF e \in overrun THEN failures ELSE [failures EXCEPT ![e] = @ + 1]
        /\ available' = [available EXCEPT ![e] = "later"]
        /\ UNCHANGED <<attempts, dead, done>>
    BY <1>2, <1>8 DEF IInv, TypeOK, Retry, Count, letters
  <2>2. TypeOK'
    <3>1. failures' \in [Events -> 0..MaxAttempts]
      BY <1>3, <2>1 DEF IInv, TypeOK
    <3>2. UNCHANGED <<openReviews, on, left, unread>>
      BY <1>8 DEF Retry, letters
    <3> QED BY <1>4, <2>1, <3>1, <3>2 DEF IInv, TypeOK
  <2>3. HandsAgree' /\ HoldsRow' /\ OneProcessor'
    BY <1>1, <1>2, <2>1, ReleasePreserves DEF IInv, TypeOK
  <2>4. AttemptsCountFailures' /\ ExhaustedIsDeadLettered'
    BY <1>3, <1>4, <1>5, <1>6, <2>1
       DEF IInv, TypeOK, AttemptsCountFailures, ExhaustedIsDeadLettered
  <2> QED BY <2>2, <2>3, <2>4 DEF IInv
<1>9. CASE DeadLetter(p)
  <2>1. /\ status' = [status EXCEPT ![e] = "failed"] /\ hand[p].attempts >= MaxAttempts
        /\ failures' = IF e \in overrun THEN failures ELSE [failures EXCEPT ![e] = @ + 1]
        /\ available' = [available EXCEPT ![e] = "never"]
        /\ dead' = dead \cup {e}
        /\ UNCHANGED <<attempts, done>>
    BY <1>2, <1>9 DEF IInv, TypeOK, DeadLetter, Count
  <2>2. TypeOK'
    <3>1. failures' \in [Events -> 0..MaxAttempts]
      BY <1>3, <2>1 DEF IInv, TypeOK
    <3>2. openReviews' \subseteq Events
      BY <1>2, <1>9 DEF IInv, TypeOK, DeadLetter
    <3>3. UNCHANGED <<on, left, unread>>
      BY <1>9 DEF DeadLetter
    <3> QED BY <1>4, <2>1, <3>1, <3>2, <3>3 DEF IInv, TypeOK
  <2>3. HandsAgree' /\ HoldsRow' /\ OneProcessor'
    BY <1>1, <1>2, <2>1, ReleasePreserves DEF IInv, TypeOK
  <2>4. AttemptsCountFailures' /\ ExhaustedIsDeadLettered'
    BY <1>3, <1>4, <1>5, <2>1
       DEF IInv, TypeOK, AttemptsCountFailures, ExhaustedIsDeadLettered
  <2> QED BY <2>2, <2>3, <2>4 DEF IInv
<1>10. CASE Defer(p)
  <2>1. /\ status' = [status EXCEPT ![e] = "pending"]
        /\ attempts' = [attempts EXCEPT ![e] = IF @ = 0 THEN 0 ELSE @ - 1]
        /\ available' = [available EXCEPT ![e] = "later"]
        /\ UNCHANGED <<failures, dead, done>>
    BY <1>2, <1>10 DEF IInv, TypeOK, Defer, Refund, letters
  <2>2. TypeOK'
    <3>1. attempts' \in [Events -> 0..MaxAttempts]
      BY <1>3, <2>1 DEF IInv, TypeOK
    <3>2. UNCHANGED <<openReviews, on, left, unread>>
      BY <1>10 DEF Defer, letters
    <3> QED BY <1>4, <2>1, <3>1, <3>2 DEF IInv, TypeOK
  <2>3. HandsAgree' /\ HoldsRow' /\ OneProcessor'
    BY <1>1, <1>2, <2>1, ReleasePreserves DEF IInv, TypeOK
  <2>4. attempts'[e] < MaxAttempts
    BY <1>3, <2>1 DEF IInv, TypeOK
  <2>5. AttemptsCountFailures' /\ ExhaustedIsDeadLettered'
    BY <1>3, <1>4, <1>5, <2>1, <2>4
       DEF IInv, TypeOK, AttemptsCountFailures, ExhaustedIsDeadLettered
  <2> QED BY <2>2, <2>3, <2>5 DEF IInv
<1> QED BY <1>7, <1>8, <1>9, <1>10

LEMMA MovePreserves ==
    ASSUME IInv, NEW p \in Processors,
           StartBatch(p) \/ EndBatch(p) \/ Gate(p) \/ Work(p)
    PROVE  IInv'
<1>1. UNCHANGED <<status, attempts, stale, failures, overrun, lost, hand, dead>>
  BY DEF StartBatch, EndBatch, Gate, Work, event, letters
<1>2. Work(p) => hand[p].event \in Events
  BY HeldEvent DEF Work, Busy
<1>3. TypeOK'
  <2> USE QueueAssumption DEF IInv, TypeOK, event, letters
  <2>1. CASE StartBatch(p)
    BY <2>1 DEF StartBatch
  <2>2. CASE EndBatch(p)
    BY <2>2 DEF EndBatch
  <2>3. CASE Gate(p)
    BY <2>3 DEF Gate
  <2>4. CASE Work(p)
    BY <2>4, <1>2 DEF Work
  <2> QED BY <2>1, <2>2, <2>3, <2>4
<1>4. \A q \in Processors : Busy(q)' <=> Busy(q)
  BY DEF IInv, TypeOK, StartBatch, EndBatch, Gate, Work, Busy
<1>5. done \subseteq done'
  BY DEF StartBatch, EndBatch, Gate, Work
<1>6. \A q \in Processors : pc'[q] = "record" => hand[q].event \in done'
  <2>1. ASSUME NEW q \in Processors, pc'[q] = "record"
        PROVE  pc[q] = "record" \/ (q = p /\ Work(p) /\ hand[q].event \in done')
    BY <2>1 DEF IInv, TypeOK, StartBatch, EndBatch, Gate, Work
  <2> QED BY <2>1, <1>5 DEF IInv, HandsAgree
<1> QED BY <1>1, <1>3, <1>4, <1>5, <1>6, HandsUnchanged

LEMMA InterruptPreserves ==
    ASSUME IInv, NEW p \in Processors, Interrupt(p)
    PROVE  IInv'
<1>1. TypeOK'
  BY QueueAssumption DEF IInv, TypeOK, Interrupt, letters, Hands
<1>2. \A q \in Processors : /\ hand'[q] = IF q = p THEN NoHand ELSE hand[q]
                            /\ pc'[q] = IF q = p THEN "idle" ELSE pc[q]
  BY DEF IInv, TypeOK, Interrupt
<1>3. UNCHANGED <<status, attempts, stale, failures, overrun, dead, done>> /\ lost \subseteq lost'
  BY DEF Interrupt, letters
<1>4. HandsAgree' /\ HoldsRow' /\ OneProcessor'
  BY <1>2, <1>3 DEF IInv, HandsAgree, HoldsRow, OneProcessor, Busy
<1>5. \A e \in Events : AtLastAttempt(e) => e \in lost' \/ AtLastAttempt(e)'
  <2> SUFFICES ASSUME NEW e \in Events, NEW q \in Processors,
                      hand[q] # NoHand, hand[q].event = e, hand[q].attempts = MaxAttempts
               PROVE  e \in lost' \/ AtLastAttempt(e)'
    BY DEF AtLastAttempt
  <2>1. CASE q = p
    BY <2>1 DEF Interrupt
  <2>2. CASE q # p
    BY <2>2, <1>2 DEF AtLastAttempt
  <2> QED BY <2>1, <2>2
<1>6. AttemptsCountFailures' /\ ExhaustedIsDeadLettered'
  BY <1>3, <1>5 DEF IInv, AttemptsCountFailures, ExhaustedIsDeadLettered
<1> QED BY <1>1, <1>4, <1>6 DEF IInv

\* A lock that goes stale on a processor takes its event out of what is
\* promised of the others.
LEMMA LockAgesPreserves ==
    ASSUME IInv, NEW e \in Events, LockAges(e)
    PROVE  IInv'
<1>1. TypeOK'
  BY DEF IInv, TypeOK, LockAges, letters, processor
<1>2. /\ UNCHANGED <<status, attempts, failures, lost, dead, hand, pc, done>>
      /\ overrun \subseteq overrun' /\ stale' = [stale EXCEPT ![e] = TRUE]
      /\ \A p \in Processors : hand[p] # NoHand /\ hand[p].event = e => e \in overrun'
  BY DEF LockAges, Held, letters, processor
<1>3. HandsAgree' /\ OneProcessor'
  BY <1>2 DEF IInv, HandsAgree, OneProcessor, Busy
<1>4. HoldsRow'
  BY <1>2 DEF IInv, TypeOK, HoldsRow, Hands
<1>5. AttemptsCountFailures' /\ ExhaustedIsDeadLettered'
  BY <1>2 DEF IInv, AttemptsCountFailures, ExhaustedIsDeadLettered, AtLastAttempt
<1> QED BY <1>1, <1>3, <1>4, <1>5 DEF IInv

LEMMA AdminPreserves ==
    ASSUME IInv,
           \/ \E s \in Switches : TurnOn(s) \/ TurnOff(s)
           \/ \E e \in Events : CloseReview(e) \/ BecomeAvailable(e)
    PROVE  IInv'
<1>1. UNCHANGED <<status, attempts, stale, failures, overrun, lost, dead, processor, done>>
  BY DEF TurnOn, TurnOff, CloseReview, BecomeAvailable, event, letters
<1>2. TypeOK'
  BY DEF IInv, TypeOK, TurnOn, TurnOff, CloseReview, BecomeAvailable, event, letters, processor
<1> QED BY <1>1, <1>2, HandsUnchanged DEF processor, Busy, IInv, HandsAgree

\* The bookkeeping of attempts, hands and dead letters is inductive, however
\* slow a processor is.
THEOREM QueueInvariant == Spec => []IInv
<1>1. Init => IInv
  <2> SUFFICES ASSUME Init PROVE IInv
    OBVIOUS
  <2>1. TypeOK
    BY QueueAssumption DEF Init, TypeOK
  <2>2. HandsAgree /\ HoldsRow /\ OneProcessor
    BY DEF Init, HandsAgree, HoldsRow, OneProcessor, Busy
  <2>3. AttemptsCountFailures /\ ExhaustedIsDeadLettered
    BY QueueAssumption DEF Init, AttemptsCountFailures, ExhaustedIsDeadLettered
  <2> QED BY <2>1, <2>2, <2>3 DEF IInv
<1>2. IInv /\ [Next]_vars => IInv'
  <2> SUFFICES ASSUME IInv, [Next]_vars PROVE IInv'
    OBVIOUS
  <2>1. ASSUME NEW p \in Processors, ProcessorStep(p) PROVE IInv'
    BY <2>1, ClaimPreserves, OutcomePreserves, MovePreserves DEF ProcessorStep
  <2>2. CASE UNCHANGED vars
    BY <2>2 DEF vars, event, letters, processor, IInv, TypeOK, HandsAgree, HoldsRow, OneProcessor,
       AttemptsCountFailures, ExhaustedIsDeadLettered, AtLastAttempt, Busy
  <2> QED BY <2>1, <2>2, EnqueuePreserves, InterruptPreserves, LockAgesPreserves, AdminPreserves
     DEF Next
<1> QED BY <1>1, <1>2, PTL DEF Spec

\* A pause costs no attempt, for any number of events and processors, of any
\* event whose lock held.
THEOREM PauseIsFree == Spec => []AttemptsCountFailures
BY QueueInvariant, PTL DEF IInv

\* No event exhausts its attempts without a dead letter or its work done,
\* unless its last attempt is under way or was lost with its processor.
THEOREM ExhaustedReachDeadLetters == Spec => []ExhaustedIsDeadLettered
BY QueueInvariant, PTL DEF IInv

\* A dead letter whose lock held is a failed row without an attempt left: no
\* claim takes it, and it is in no hand, whose row would be in processing.
Buried == \A e \in dead \ overrun : status[e] = "failed" /\ attempts[e] = MaxAttempts

\* What a step may do to dead letters.
Rests == \A e \in dead : e \in dead' /\ (e \notin overrun' => status'[e] = status[e])

LEMMA BuriedInit == Init => Buried
BY DEF Init, Buried

\* Rows that neither enter the dead letters nor leave them.
LEMMA StillBuried ==
    ASSUME Buried, dead' = dead, overrun \subseteq overrun',
           \A e \in dead \ overrun : status'[e] = status[e] /\ attempts'[e] = attempts[e]
    PROVE  Buried' /\ Rests
BY DEF Buried, Rests

LEMMA BuriedPreserved ==
    ASSUME IInv, Buried, [Next]_vars
    PROVE  Buried' /\ Rests
<1> USE QueueAssumption
<1>1. CASE UNCHANGED vars
  BY <1>1, StillBuried DEF vars, event, letters
<1>2. ASSUME NEW e \in Events, Enqueue(e) \/ CloseReview(e) \/ BecomeAvailable(e) \/ LockAges(e)
      PROVE  /\ dead' = dead /\ overrun \subseteq overrun'
             /\ \A d \in dead \ overrun : status'[d] = status[d] /\ attempts'[d] = attempts[d]
  BY <1>2 DEF IInv, TypeOK, Buried, Enqueue, CloseReview, BecomeAvailable, LockAges, event, letters
<1>3. ASSUME NEW s \in Switches, TurnOn(s) \/ TurnOff(s)
      PROVE  UNCHANGED <<dead, overrun, status, attempts>>
  BY <1>3 DEF TurnOn, TurnOff, event, letters
<1>4. ASSUME NEW p \in Processors,
             StartBatch(p) \/ EndBatch(p) \/ Gate(p) \/ Work(p) \/ Interrupt(p)
      PROVE  UNCHANGED <<dead, overrun, status, attempts>>
  BY <1>4 DEF StartBatch, EndBatch, Gate, Work, Interrupt, event, letters
<1>5. ASSUME NEW p \in Processors, NEW e \in Events, ClaimEvent(p, e)
      PROVE  /\ dead' = dead /\ overrun' = overrun
             /\ \A d \in dead \ overrun : status'[d] = status[d] /\ attempts'[d] = attempts[d]
  <2>1. e \notin dead \ overrun
    BY <1>5 DEF Buried, ClaimEvent, Claimable
  <2> QED BY <1>5, <2>1 DEF IInv, TypeOK, ClaimEvent, letters
<1>6. ASSUME NEW p \in Processors, MarkProcessed(p) \/ Retry(p) \/ Defer(p)
      PROVE  /\ dead' = dead /\ overrun' = overrun
             /\ \A d \in dead \ overrun : status'[d] = status[d] /\ attempts'[d] = attempts[d]
  <2>1. hand[p].event \notin dead \ overrun
    BY <1>6, HeldEvent DEF Buried, MarkProcessed, Retry, Defer, Busy
  <2> QED BY <1>6, <2>1 DEF IInv, TypeOK, MarkProcessed, Retry, Defer, Release, letters
<1>7. ASSUME NEW p \in Processors, DeadLetter(p)
      PROVE  Buried' /\ Rests
  <2>1. PICK e \in Events : e = hand[p].event
    BY <1>7, HeldEvent DEF DeadLetter, Busy
  <2>2. /\ hand[p].attempts = MaxAttempts
        /\ e \notin overrun => status[e] = "processing" /\ attempts[e] = MaxAttempts
    BY <1>7, <2>1, HeldEvent DEF DeadLetter, Busy
  <2>3. /\ dead' = dead \cup {e} /\ attempts' = attempts /\ overrun' = overrun
        /\ status' = [status EXCEPT ![e] = "failed"]
    BY <1>7, <2>1 DEF DeadLetter, Release
  <2> QED BY <2>1, <2>2, <2>3 DEF IInv, TypeOK, Buried, Rests
<1> QED BY <1>1, <1>2, <1>3, <1>4, <1>5, <1>6, <1>7, StillBuried DEF Next, ProcessorStep

\* Turning a switch on makes dead letters available now, and still none whose
\* lock held is taken up again (admin/intelligence.go:438-454, processor.go:120).
THEOREM DeadLettersAreFinal == Spec => DeadLettersRest
<1>1. IInv /\ Buried /\ [Next]_vars => Buried'
  BY BuriedPreserved
<1>2. IInv /\ Buried /\ [Next]_vars =>
          [\A e \in dead : e \in dead' /\ (e \notin overrun' => status'[e] = status[e])]_vars
  BY BuriedPreserved DEF Rests
<1> QED BY <1>1, <1>2, BuriedInit, QueueInvariant, PTL DEF Spec, DeadLettersRest

=============================================================================
