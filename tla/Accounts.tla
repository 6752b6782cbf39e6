-------------------------------- MODULE Accounts --------------------------------
(***************************************************************************)
(* The accounts of candidates and recruiters (internal/auth and the        *)
(* moderation of internal/admin): registration, the codes that verify an   *)
(* email address or reset a password, the review of a recruiter, sessions, *)
(* suspension, erasure, and the change of a candidate's telephone number.  *)
(*                                                                         *)
(* A handler is one transaction that holds the row of the account, but for *)
(* Login, which verifies the password before it, and the telephone change, *)
(* which sends a text message between two of them.                         *)
(***************************************************************************)
EXTENDS Integers, FiniteSets, Sequences

CONSTANTS
    People,      \* the accounts
    Recruiters,  \* of them
    CompanyOf,   \* [Recruiters -> the company of the address' domain]
    Sessions,    \* rows of refresh_sessions
    Requests,    \* requests of POST /auth/login
    Numbers,     \* telephone numbers
    MaxTries,    \* max_attempts of a code
    MaxPassword, \* bound: passwords an account ever has
    MaxCodes,    \* bound: codes by email
    MaxTexts,    \* bound: codes by text message
    None

VARIABLES
    account,  \* [People -> [status, verified, forced, password, profile] or None]
    review,   \* [People -> status of the row of company_verifications, or None]
    verified, \* companies that are verified
    session,  \* [Sessions -> [owner, password, root, live] or None]
    login,    \* [Requests -> [owner, password] or None], a password found right
    codes,    \* email_verification_challenges, in order of creation
    phone,    \* [People -> number or None]
    texts     \* otp_challenges, in order of creation

accountVars == <<account, review, verified, session, login, codes, phone, texts>>
phoneVars == <<phone, texts>>

Init ==
    /\ account = [u \in People |-> None]
    /\ review = [u \in People |-> None]
    /\ verified = {}
    /\ session = [s \in Sessions |-> None]
    /\ login = [q \in Requests |-> None]
    /\ codes = <<>>
    /\ phone = [u \in People |-> None]
    /\ texts = <<>>

Known(u) == account[u] # None

\* is_active
Kept(u) == Known(u) /\ account[u].status # "erased"

-----------------------------------------------------------------------------
(* Registration and activation                                             *)

\* Mutant: a recruiter who verified the address is let in.
ActivatedEarly(a) ==
    IF a.status = "pending" /\ a.verified THEN [a EXCEPT !.status = "active"] ELSE a

\* VerifyEmail, ReviewCompany and the triggers of both tables: an account that waits is
\* active as soon as its address and, of a recruiter, the profile are verified.
Activated(a) ==
    IF a.status = "pending" /\ a.verified /\ a.profile \in {"none", "verified"}
    THEN [a EXCEPT !.status = "active"] ELSE a

NewAccount(profile) ==
    [status |-> "pending", verified |-> FALSE, forced |-> FALSE, password |-> 1, profile |-> profile]

\* RegisterCandidateEmailOnly; a number given here is not verified.
RegisterCandidate(u, n) ==
    /\ u \notin Recruiters /\ ~Known(u)
    /\ n = None \/ \A o \in People : phone[o] # n
    /\ account' = [account EXCEPT ![u] = NewAccount("none")]
    /\ phone' = [phone EXCEPT ![u] = n]
    /\ UNCHANGED <<review, verified, session, login, codes, texts>>

\* RegisterRecruiterEmailOnly: the insertion of the profile asks for the review, and an
\* invitation of a verified company verifies the profile at once.
RegisterRecruiter(u, invited) ==
    /\ u \in Recruiters /\ ~Known(u)
    /\ invited => CompanyOf[u] \in verified
    /\ account' = [account EXCEPT ![u] = NewAccount(IF invited THEN "verified" ELSE "pending")]
    /\ review' = [review EXCEPT ![u] = "pending"]
    /\ UNCHANGED <<verified, session, login, codes, phoneVars>>

Ended(u) == [s \in Sessions |->
    IF session[s] # None /\ session[s].owner = u THEN [session[s] EXCEPT !.live = FALSE] ELSE session[s]]

ReviewCompany(u, approve) ==
    /\ review[u] = "pending"
    /\ review' = [review EXCEPT ![u] = IF approve THEN "approved" ELSE "rejected"]
    /\ IF approve
       THEN /\ verified' = verified \cup {CompanyOf[u]}
            /\ account' = [account EXCEPT ![u] = Activated([@ EXCEPT !.profile = "verified"])]
            /\ UNCHANGED session
       ELSE /\ account' = [account EXCEPT ![u].profile = "rejected",
                              ![u].status = IF @ = "erased" THEN @ ELSE "disabled"]
            /\ session' = Ended(u)
            /\ UNCHANGED verified
    /\ UNCHANGED <<login, codes, phoneVars>>

-----------------------------------------------------------------------------
(* Codes by email                                                          *)

Code(u, purpose) == [owner |-> u, purpose |-> purpose, used |-> FALSE, lapsed |-> FALSE, tries |-> 0]

\* Who may ask is read before the transaction.  Two that follow closely are refused by the
\* interval between them.
MayAsk(u, purpose) ==
    /\ Kept(u)
    /\ purpose = "verify" => account[u].status = "pending" /\ ~account[u].verified

\* RequestEmailVerification, RequestPasswordReset.
RequestCode(u, purpose) ==
    /\ MayAsk(u, purpose) /\ Len(codes) < MaxCodes
    /\ codes' = Append(codes, Code(u, purpose))
    /\ UNCHANGED <<account, review, verified, session, login, phoneVars>>

CodeLapses(n) ==
    /\ n \in DOMAIN codes /\ ~codes[n].used
    /\ codes' = [codes EXCEPT ![n].lapsed = TRUE]
    /\ UNCHANGED <<account, review, verified, session, login, phoneVars>>

\* The latest that is not consumed; when it was, the one before it is good again.
Latest(u, purpose) ==
    LET open == {n \in DOMAIN codes :
                    codes[n].owner = u /\ codes[n].purpose = purpose /\ ~codes[n].used}
    IN {n \in open : \A m \in open : m <= n}

Usable(n) == ~codes[n].lapsed /\ codes[n].tries < MaxTries

\* A wrong code is counted against the latest one.
WrongCode(u, purpose, n) ==
    /\ Kept(u) /\ n \in Latest(u, purpose) /\ Usable(n)
    /\ purpose = "verify" => account[u].status = "pending" /\ ~account[u].verified
    /\ codes' = [codes EXCEPT ![n].tries = @ + 1]
    /\ UNCHANGED <<account, review, verified, session, login, phoneVars>>

VerifyEmail(u, n) ==
    /\ Kept(u) /\ account[u].status = "pending" /\ ~account[u].verified
    /\ n \in Latest(u, "verify") /\ Usable(n)
    /\ codes' = [codes EXCEPT ![n].used = TRUE, ![n].tries = @ + 1]
    /\ account' = [account EXCEPT ![u] = Activated([@ EXCEPT !.verified = TRUE])]
    /\ UNCHANGED <<review, verified, session, login, phoneVars>>

\* Mutant: the sessions granted on the old password stay.
LeftAlone(u) == session

RevokedBy(u) == Ended(u)

\* ResetPassword: whatever the status, which it does not change.
ResetPassword(u, n) ==
    /\ Kept(u) /\ account[u].password < MaxPassword
    /\ n \in Latest(u, "reset") /\ Usable(n)
    /\ codes' = [codes EXCEPT ![n].used = TRUE, ![n].tries = @ + 1]
    /\ account' = [account EXCEPT ![u].password = @ + 1, ![u].forced = FALSE]
    /\ session' = RevokedBy(u)
    /\ UNCHANGED <<review, verified, login, phoneVars>>

-----------------------------------------------------------------------------
(* Sessions                                                                *)

\* loginEligibility
Eligible(u) ==
    /\ Kept(u) /\ account[u].status = "active" /\ ~account[u].forced /\ account[u].verified
    /\ u \in Recruiters => account[u].profile = "verified"

\* Login: the password and the account as they are now.
Login(q, u) ==
    /\ login[q] = None /\ Eligible(u)
    /\ login' = [login EXCEPT ![q] = [owner |-> u, password |-> account[u].password]]
    /\ UNCHANGED <<account, review, verified, session, codes, phoneVars>>

\* Mutant: what was read before the transaction is believed.
StillGoodAlways(q) == Eligible(login[q].owner)

\* The account is read again under its lock, with its password.
StillGood(q) == Eligible(login[q].owner) /\ account[login[q].owner].password = login[q].password

\* createSession
CreateSession(q, s) ==
    /\ login[q] # None /\ session[s] = None
    /\ session' = IF ~StillGood(q) THEN session
                  ELSE [session EXCEPT ![s] =
                         [owner |-> login[q].owner, password |-> login[q].password,
                          root |-> s, live |-> TRUE]]
    /\ login' = [login EXCEPT ![q] = None]
    /\ UNCHANGED <<account, review, verified, codes, phoneVars>>

\* Mutant: the token that was exchanged may be exchanged again.
Rotated(s) == session

Spent(s) == [session EXCEPT ![s].live = FALSE]

\* Refresh: account and session are locked together.
Refresh(s, t) ==
    /\ session[s] # None /\ session[s].live /\ session[t] = None
    /\ Eligible(session[s].owner)
    /\ session' = [Spent(s) EXCEPT ![t] =
          [owner |-> session[s].owner, password |-> account[session[s].owner].password,
           root |-> session[s].root, live |-> TRUE]]
    /\ UNCHANGED <<account, review, verified, login, codes, phoneVars>>

\* Logout; a session also ends when its date passes.
Logout(s) ==
    /\ session[s] # None /\ session[s].live
    /\ session' = [session EXCEPT ![s].live = FALSE]
    /\ UNCHANGED <<account, review, verified, login, codes, phoneVars>>

LogoutAll(u) ==
    /\ \E s \in Sessions : session[s] # None /\ session[s].owner = u /\ session[s].live
    /\ session' = Ended(u)
    /\ UNCHANGED <<account, review, verified, login, codes, phoneVars>>

-----------------------------------------------------------------------------
(* Moderation                                                              *)

\* Mutant: a reactivated account starts afresh.
ReactivatedFresh(a) == [a EXCEPT !.status = "active", !.forced = FALSE]

Reactivated(a) == [a EXCEPT !.status = "active"]

\* What an action of changeAccount makes of an account.
After(u, action) ==
    CASE action = "suspend"    -> [account[u] EXCEPT !.status = "suspended"]
      [] action = "reactivate" -> Reactivated(account[u])
      [] action = "force"      -> [account[u] EXCEPT !.forced = TRUE]
      [] OTHER                 -> account[u]

\* changeAccount: every action ends the sessions.
ChangeAccount(u, action) ==
    /\ Kept(u)
    /\ action = "suspend" => account[u].status \in {"active", "pending"}
    /\ action = "reactivate" =>
          /\ account[u].status = "suspended" /\ account[u].verified
          /\ u \in Recruiters => account[u].profile = "verified" /\ CompanyOf[u] \in verified
    /\ account' = [account EXCEPT ![u] = After(u, action)]
    /\ session' = Ended(u)
    /\ UNCHANGED <<review, verified, login, codes, phoneVars>>

\* The account's part of the erasure (module AccountErasure has the rest).
EraseAccount(u) ==
    /\ Kept(u)
    /\ account' = [account EXCEPT ![u].status = "erased", ![u].verified = FALSE]
    /\ phone' = [phone EXCEPT ![u] = None]
    /\ session' = Ended(u)
    /\ UNCHANGED <<review, verified, login, codes, texts>>

-----------------------------------------------------------------------------
(* The telephone number of a candidate                                     *)

MayChangePhone(u) ==
    u \notin Recruiters /\ Kept(u) /\ account[u].status = "active" /\ account[u].verified

\* The texts before it are void and the new one counts, but is not good yet.
RequestPhoneChange(u, n) ==
    /\ MayChangePhone(u) /\ \A o \in People : phone[o] # n
    /\ Len(texts) < MaxTexts
    /\ texts' = Append([i \in DOMAIN texts |->
                          IF texts[i].owner = u THEN [texts[i] EXCEPT !.good = FALSE] ELSE texts[i]],
                       [owner |-> u, number |-> n, sending |-> TRUE, sent |-> FALSE,
                        good |-> FALSE, lapsed |-> FALSE, tries |-> 0])
    /\ UNCHANGED <<account, review, verified, session, login, codes, phone>>

\* SendVerificationCode, by a service outside; the request may be cut off after it.
SendText(i, delivered, cut) ==
    /\ i \in DOMAIN texts /\ texts[i].sending /\ ~texts[i].sent
    /\ texts' = [texts EXCEPT ![i].sent = delivered, ![i].sending = delivered /\ ~cut]
    /\ UNCHANGED <<account, review, verified, session, login, codes, phone>>

\* Mutant: a slow text brings its code back to life.
ActivatesAny(i) == TRUE

\* No text of the account is newer.
Activates(i) == \A j \in DOMAIN texts : texts[j].owner = texts[i].owner => j <= i

ActivateText(i) ==
    /\ i \in DOMAIN texts /\ texts[i].sending /\ texts[i].sent
    /\ LET u == texts[i].owner IN
       texts' = [texts EXCEPT ![i].sending = FALSE,
           ![i].good = Kept(u) /\ account[u].status = "active" /\ ~texts[i].lapsed /\ Activates(i)]
    /\ UNCHANGED <<account, review, verified, session, login, codes, phone>>

TextLapses(i) ==
    /\ i \in DOMAIN texts
    /\ texts' = [texts EXCEPT ![i].lapsed = TRUE]
    /\ UNCHANGED <<account, review, verified, session, login, codes, phone>>

\* VerifyCandidatePhoneChange: the unique index on the numbers has the last word.
VerifyPhoneChange(i, right) ==
    /\ i \in DOMAIN texts /\ texts[i].good /\ ~texts[i].lapsed /\ texts[i].tries < MaxTries
    /\ MayChangePhone(texts[i].owner)
    /\ IF right
       THEN /\ \A o \in People \ {texts[i].owner} : phone[o] # texts[i].number
            /\ phone' = [phone EXCEPT ![texts[i].owner] = texts[i].number]
            /\ texts' = [texts EXCEPT ![i].good = FALSE, ![i].tries = @ + 1]
       ELSE /\ texts' = [texts EXCEPT ![i].tries = @ + 1]
            /\ UNCHANGED phone
    /\ UNCHANGED <<account, review, verified, session, login, codes>>

-----------------------------------------------------------------------------
ActivationStep(u) ==
    \/ RegisterCandidate(u, None) \/ \E n \in Numbers : RegisterCandidate(u, n)
    \/ \E yes \in BOOLEAN : RegisterRecruiter(u, yes) \/ ReviewCompany(u, yes)
    \/ RequestCode(u, "verify")
    \/ \E n \in DOMAIN codes : VerifyEmail(u, n) \/ WrongCode(u, "verify", n)

PasswordStep(u) ==
    \/ RequestCode(u, "reset")
    \/ \E n \in DOMAIN codes : ResetPassword(u, n) \/ WrongCode(u, "reset", n)

SessionStep ==
    \/ \E q \in Requests : (\E u \in People : Login(q, u)) \/ \E s \in Sessions : CreateSession(q, s)
    \/ \E s \in Sessions : Logout(s) \/ \E t \in Sessions : Refresh(s, t)
    \/ \E u \in People : LogoutAll(u)

ModerationStep(u) ==
    \/ \E action \in {"suspend", "reactivate", "force", "revoke"} : ChangeAccount(u, action)
    \/ EraseAccount(u)

PhoneStep ==
    \/ \E u \in People, n \in Numbers : RequestPhoneChange(u, n)
    \/ \E i \in DOMAIN texts :
          \/ \E yes, cut \in BOOLEAN : SendText(i, yes, cut)
          \/ ActivateText(i)
          \/ TextLapses(i)
          \/ \E right \in BOOLEAN : VerifyPhoneChange(i, right)

Next ==
    \/ \E u \in People : ActivationStep(u) \/ PasswordStep(u) \/ ModerationStep(u)
    \/ SessionStep
    \/ PhoneStep
    \/ \E n \in DOMAIN codes : CodeLapses(n)

Spec == Init /\ [][Next]_accountVars

-----------------------------------------------------------------------------
(* Properties                                                              *)

\* An account is active only when its address was verified and, of a recruiter, its profile
\* and company; and none waits for what it already has, whichever came first.
ActiveIsEarned ==
    \A u \in People : Known(u) =>
        LET earned == /\ account[u].verified
                      /\ u \in Recruiters => account[u].profile = "verified" /\ CompanyOf[u] \in verified
        IN /\ account[u].status = "active" => earned
           /\ account[u].status = "pending" => ~earned

\* A session that lives was granted on the password the account has now and its account may
\* log in: no login or rotation that was under way survives a reset, a suspension, a
\* rejection, a forced reset or the erasure.  Of the sessions of one login one lives.
SessionsAreCurrent ==
    \A s \in Sessions : session[s] # None /\ session[s].live =>
        /\ Eligible(session[s].owner)
        /\ session[s].password = account[session[s].owner].password
        /\ \A t \in Sessions \ {s} :
              session[t] # None /\ session[t].root = session[s].root => ~session[t].live

\* A code by text is good only if it was delivered and is the last the account asked for.
LastTextCounts ==
    \A i \in DOMAIN texts : texts[i].good =>
        texts[i].sent /\ \A j \in DOMAIN texts : texts[j].owner = texts[i].owner => j <= i

\* A demanded reset ends with a new password only; what was disabled or erased stays so.
ModerationIsKept ==
    \A u \in People : Known(u) =>
        /\ account[u].forced /\ ~account'[u].forced => account'[u].password # account[u].password
        /\ account[u].status \in {"disabled", "erased"} => account'[u].status \in {"disabled", "erased"}
        /\ account[u].status = "erased" => account'[u].status = "erased"

AccountsHold == ActiveIsEarned' /\ SessionsAreCurrent' /\ LastTextCounts' /\ ModerationIsKept

=============================================================================
