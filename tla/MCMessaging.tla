------------------------------ MODULE MCMessaging ------------------------------
(***************************************************************************)
(* One run for three small specifications about messages: the lease of an  *)
(* outbox batch, the outreach of a company, and live delivery.  Each       *)
(* behaviour is one of them, chosen at the start; the variables of the     *)
(* others rest.                                                            *)
(***************************************************************************)
EXTENDS EmailLease, FiniteSets, Sequences

CONSTANTS
    Candidates, Applicants, LastStep, Requests, Workers, KeysEach, Plans, LastPeriod, MaxSequences,
    WindowLimit, None,
    Sockets, UserOf, ChannelOf, Users, Letters, SenderOf, Buffer, MaxTotal, MaxPerThread

VARIABLES
    subject, \* the specification that runs
    campaign, enrolled, contact, batches, req, due, plan, period, sequences, charged, used, window,
    mailed, owed, consent,
    hubClosed, members, total, socket, writer, queue, sendClosed, revoked, letter, toSend, heard,
    receipts

Outreach == INSTANCE Outreach
Live == INSTANCE LiveMessages

ASSUME MessagingAssumption ==
    /\ LastStep \in Nat \ {0} /\ LastPeriod \in Nat
    /\ Plans \subseteq [managed : BOOLEAN, outreach : BOOLEAN, limit : Nat, sequences : Nat]
    /\ None \notin Outreach!LaunchKeys \cup [of : SUBSET Candidates, sent : SUBSET Candidates]
    /\ UserOf \in [Sockets -> Users] /\ ChannelOf \in [Sockets -> Live!Channels]
    /\ SenderOf \in [Letters -> Users] /\ \A u \in Users : \E v \in Users : v # u
    /\ MaxTotal \in Nat
    /\ IsFiniteSet(Candidates) /\ IsFiniteSet(Sockets)

\* A plan with two cold messages and one sequence, and one without the feature.
PaidPlan == [managed |-> TRUE, outreach |-> TRUE, limit |-> 2, sequences |-> 1]
BarePlan == [managed |-> TRUE, outreach |-> FALSE, limit |-> 0, sequences |-> 0]
PaidAndBare == {PaidPlan, BarePlan}

\* The candidate's inbox and his socket of the thread; the recruiter writes.
OfCandidate == [s \in {"inbox", "thread"} |-> "candidate"]
InboxAndThread == [inbox |-> "candidate", thread |-> "thread"]
ByRecruiter == [m1 |-> "recruiter"]

outreachVars == <<campaign, enrolled, contact, batches, req, due, plan, period, sequences,
    charged, used, window, mailed, owed, consent>>
liveVars == <<hubClosed, members, total, socket, writer, queue, sendClosed, revoked, letter,
    toSend, heard, receipts>>
all == <<vars, subject, outreachVars, liveVars>>

MCInit ==
    /\ subject \in {"lease", "outreach", "live"}
    /\ Init /\ Outreach!Init /\ Live!Init
    /\ subject # "outreach" => plan = PaidPlan

LeaseRuns == subject = "lease" /\ Next /\ UNCHANGED <<subject, outreachVars, liveVars>>
OutreachRuns == subject = "outreach" /\ Outreach!Next /\ UNCHANGED <<subject, vars, liveVars>>
LiveRuns == subject = "live" /\ Live!Next /\ UNCHANGED <<subject, vars, outreachVars>>

\* The live part rests in a behaviour about something else, and asks nothing of it.
MCSpec == MCInit /\ [][LeaseRuns \/ OutreachRuns \/ LiveRuns]_all /\ Live!Fairness

-----------------------------------------------------------------------------
\* Each step of a campaign reaches a candidate once.
StepSentOnce == Outreach!StepSentOnce

\* Cold messages are counted once and stay within the allowance of the moment. After a
\* hand-over nothing goes out until the new owner asks for it; after a pause or a cancellation
\* no later step, unless a launch that was under way has recorded its result since.
SentWithinBounds == Outreach!MeteredWithinLimit /\ Outreach!SentWithConsent

\* The hub's count, limits and channels agree, a revoked session hears nothing that was
\* broadcast later, and a message is announced as read once.
HubConsistent == Live!HubConsistent /\ Live!RevokedHearsNothing /\ Live!ReceiptOnce

\* A revoked session's sockets leave the hub.
RevokedDisconnects == Live!RevokedDisconnects

=============================================================================
