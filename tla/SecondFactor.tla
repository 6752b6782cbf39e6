------------------------------ MODULE SecondFactor ------------------------------
(***************************************************************************)
(* The second factor of one administrator (admin/mfa.go, totp.go and       *)
(* scoped_access.go): enrolment of a secret, codes of thirty seconds, the  *)
(* proof that a session carries for a while and hands on when its token is *)
(* rotated, and the recovery by an operator.                               *)
(*                                                                         *)
(* Every operation locks the account's row, except that a proof is handed  *)
(* on after the rotation is committed.  Time is counted in steps of a code.*)
(***************************************************************************)
EXTENDS Integers, FiniteSets

CONSTANTS
    Sessions,      \* sessions of the administrator
    ProofFor,      \* MFAWindow, in steps
    PendingFor,    \* steps that an enrolment may take
    MaxTries,      \* security_attempts allowed
    TriedFor,      \* steps that they are counted for
    MaxTime,       \* bound
    MaxSecret,     \* bound: secrets that are ever made
    None

VARIABLES
    now,        \* the current step
    live,       \* sessions that are not revoked
    rotated,    \* [Sessions -> the session it was rotated from, itself, or None]
    carrying,   \* sessions whose rotation is committed and whose proof is not yet handed on
    secrets,    \* secrets made so far: the latest is that of the credential, if there is one
    credential, \* [enrolled, last, session, until] or None
    proof,      \* [Sessions -> [at, until, secret] or None]
    tries,      \* [count, since]
    accepted    \* codes that were accepted: pairs of a secret and a step

factorVars == <<now, live, rotated, carrying, secrets, credential, proof, tries, accepted>>
sessionVars == <<live, rotated, carrying>>

Init ==
    /\ now = 0
    /\ live = {} /\ rotated = [s \in Sessions |-> None] /\ carrying = {}
    /\ secrets = 0 /\ credential = None
    /\ proof = [s \in Sessions |-> None]
    /\ tries = [count |-> 0, since |-> 0]
    /\ accepted = {}

StepPasses ==
    /\ now < MaxTime
    /\ now' = now + 1
    /\ UNCHANGED <<sessionVars, secrets, credential, proof, tries, accepted>>

-----------------------------------------------------------------------------
(* Sessions                                                                *)

Login(s) ==
    /\ rotated[s] = None
    /\ rotated' = [rotated EXCEPT ![s] = s] /\ live' = live \cup {s}
    /\ UNCHANGED <<now, carrying, secrets, credential, proof, tries, accepted>>

\* Refresh, and the request goes on with the proof.
Refresh(s, t) ==
    /\ s \in live /\ rotated[t] = None
    /\ rotated' = [rotated EXCEPT ![t] = s] /\ live' = (live \ {s}) \cup {t}
    /\ carrying' = carrying \cup {t}
    /\ UNCHANGED <<now, secrets, credential, proof, tries, accepted>>

Logout(s) ==
    /\ s \in live
    /\ live' = live \ {s}
    /\ UNCHANGED <<now, rotated, carrying, secrets, credential, proof, tries, accepted>>

Valid(p) == p # None /\ p.until > now

\* Mutant: a rotation renews the proof.
CarriedAfresh(s) ==
    IF Valid(proof[rotated[s]]) THEN [proof[rotated[s]] EXCEPT !.at = now, !.until = now + ProofFor] ELSE proof[s]

\* Mutant: the proof handed on replaces one that was given meanwhile.
CarriedOver(s) == IF Valid(proof[rotated[s]]) THEN proof[rotated[s]] ELSE proof[s]

\* ON CONFLICT DO NOTHING, and the dates of the original.
Carried(s) == IF proof[s] = None /\ Valid(proof[rotated[s]]) THEN proof[rotated[s]] ELSE proof[s]

\* CarryMFAProof
CarryMFAProof(s) ==
    /\ s \in carrying
    /\ carrying' = carrying \ {s}
    /\ proof' = IF s \in live THEN [proof EXCEPT ![s] = Carried(s)] ELSE proof
    /\ UNCHANGED <<now, live, rotated, secrets, credential, tries, accepted>>

\* It fails or is cut off: the session goes on without a proof.
CarryFails(s) ==
    /\ s \in carrying
    /\ carrying' = carrying \ {s}
    /\ UNCHANGED <<now, live, rotated, secrets, credential, proof, tries, accepted>>

-----------------------------------------------------------------------------
(* The credential                                                          *)

\* securityAttempt: counted for a while from the first.
MayTry(s) == s \in live /\ (tries.count < MaxTries \/ tries.since + TriedFor <= now)

Tried ==
    tries' = IF tries.since + TriedFor <= now THEN [count |-> 1, since |-> now]
             ELSE [tries EXCEPT !.count = @ + 1]

Enrolled == credential # None /\ credential.enrolled

\* BeginMFA with the right password.
BeginMFA(s) ==
    /\ MayTry(s) /\ ~Enrolled /\ secrets < MaxSecret
    /\ Tried
    /\ secrets' = secrets + 1
    /\ credential' = [enrolled |-> FALSE, last |-> -1, session |-> s, until |-> now + PendingFor]
    /\ UNCHANGED <<now, sessionVars, proof, accepted>>

\* A wrong password or code: the transaction is committed for its count.
FailedSecurityAttempt(s) ==
    /\ MayTry(s)
    /\ Tried
    /\ UNCHANGED <<now, sessionVars, secrets, credential, proof, accepted>>

\* Mutant: a code is good until its time is over.
UnusedAlways(step) == TRUE

Unused(step) == step > credential.last

\* validateTOTP
ValidTOTP(step) == step \in {now - 1, now, now + 1} /\ step >= 0 /\ Unused(step)

\* VerifyMFA, with the code of a step for the latest secret.
VerifyMFA(s, step) ==
    /\ MayTry(s) /\ credential # None
    /\ ~credential.enrolled => credential.session = s /\ credential.until > now
    /\ ValidTOTP(step)
    /\ Tried
    /\ credential' = [enrolled |-> TRUE, last |-> step, session |-> None, until |-> 0]
    /\ proof' = [proof EXCEPT ![s] = [at |-> now, until |-> now + ProofFor, secret |-> secrets]]
    /\ accepted' = accepted \cup {<<secrets, step>>}
    /\ UNCHANGED <<now, sessionVars, secrets>>

\* Mutant: the recovery leaves the sessions.
RevokedNone == live

Revoked == {}

\* RecoverMFA
RecoverMFA ==
    /\ live' = Revoked
    /\ credential' = None
    /\ tries' = [count |-> 0, since |-> now]
    /\ UNCHANGED <<now, rotated, carrying, secrets, proof, accepted>>

Next ==
    \/ StepPasses \/ RecoverMFA
    \/ \E s \in Sessions :
          \/ Login(s) \/ Logout(s) \/ CarryMFAProof(s) \/ CarryFails(s)
          \/ BeginMFA(s) \/ FailedSecurityAttempt(s)
          \/ \E t \in Sessions : Refresh(s, t)
          \/ \E step \in (now - 1)..(now + 1) : VerifyMFA(s, step)

Spec == Init /\ [][Next]_factorVars

-----------------------------------------------------------------------------
(* Properties                                                              *)

\* ScopedAccess: the session may act as an administrator.
Verified(s) == s \in live /\ Enrolled /\ Valid(proof[s])

\* A code opens one session once.
CodesAreUsedOnce ==
    \A s \in Sessions : proof'[s] # proof[s] /\ carrying' = carrying => accepted' # accepted

\* A session that may act has proved the secret that the credential has now, and no longer
\* ago than the window, however often its token was rotated.
ProofsAreCurrent ==
    \A s \in Sessions : Verified(s) =>
        /\ proof[s].secret = secrets
        /\ \E step \in -1..1 : <<secrets, proof[s].at + step>> \in accepted
        /\ proof[s].until = proof[s].at + ProofFor

\* A rotation gives no proof and takes none: handing on never moves a date back or forth.
HandedOnAsItIs ==
    \A s \in Sessions :
        /\ proof[s] # None => proof'[s] # None /\ proof'[s].at >= proof[s].at
        /\ proof'[s] # proof[s] => proof'[s].at = now \/ \E t \in Sessions : proof'[s] = proof[t]

SecondFactorHolds == CodesAreUsedOnce /\ ProofsAreCurrent' /\ HandedOnAsItIs

=============================================================================
