------------------------------- MODULE CompanyTeam -------------------------------
(***************************************************************************)
(* Team administration of one verified company (internal/company):         *)
(* registrations, invitations, memberships, ownership and the capacity of  *)
(* the plan.  Every governed write locks the companies row and reads the   *)
(* actor again, so it is one step; what a request read before the lock     *)
(* and did not read again is a step of its own.                            *)
(***************************************************************************)
EXTENDS Integers, FiniteSets

CONSTANTS
    Users,       \* work addresses of the company's domain
    Legacy,      \* those that registered before the company had members
    Founders,    \* the legacy recruiter who may already be the owner, or nobody
    Askers,      \* bound: those who call OwnTalentSeat
    Invites,     \* bound: invitation rows
    Roles,       \* what invitations and changes may ask for
    Scopes,      \* subset of {"all", "some"}
    Policies,    \* subscriptions: [recruiters, sub_admins, talent_seats, talent]
    Unlimited    \* a capacity that is not set or not approved

Keys == {"recruiters", "sub_admins", "talent_seats"}

ASSUME TeamAssumption ==
    /\ Founders \subseteq Legacy /\ Legacy \subseteq Users
    /\ \A u, v \in Founders : u = v
    /\ Roles \subseteq {"sub_admin", "recruiter", "collaborator"}
    /\ Scopes \subseteq {"all", "some"} /\ "all" \in Scopes
    /\ Policies \subseteq [Keys -> Nat \cup {Unlimited}] \X BOOLEAN
    /\ IsFiniteSet(Users)

\* A row of company_memberships, and the absence of one.
Row(role, status, scope, seat) == [role |-> role, status |-> status, scope |-> scope, seat |-> seat]
NoRow == Row("none", "active", "all", TRUE)

\* A row of company_invitations, and a free identifier.
Offer(u, role, scope, seat) == [to |-> u, role |-> role, scope |-> scope, seat |-> seat, state |-> "pending"]
NoInvite == [state |-> "free"]
Accepted == [state |-> "accepted"]   \* its terms are those of the membership now

VARIABLES
    account,   \* [Users -> ...]: users.status of a recruiter
    member,    \* [Users -> Row]: a user without a row keeps legacy access
    invite,    \* [Invites -> Offer \cup {NoInvite}]
    policy,    \* company_subscription_settings, resolved
    reading,   \* [Users -> Invites \cup {"none"}]: an acceptance that read its invitation
    asking     \* owners whose OwnTalentSeat has passed Owner()

vars == <<account, member, invite, policy, reading, asking>>

Init ==
    /\ account = [u \in Users |-> IF u \in Legacy THEN "active" ELSE "none"]
    /\ \E founded, seat \in BOOLEAN :
          member = [u \in Users |-> IF founded /\ u \in Founders THEN Row("primary_admin", "active", "all", seat) ELSE NoRow]
    /\ invite = [i \in Invites |-> NoInvite]
    /\ policy \in Policies
    /\ reading = [u \in Users |-> "none"]
    /\ asking = {}

-----------------------------------------------------------------------------
(* Capacity                                                                *)

\* Members that count: active accounts or pending ones, not deactivated.
Counted(u) == account[u] \in {"active", "pending"} /\ member[u].status = "active"

Takes(u, k) ==
    CASE k = "recruiters" -> member[u].role \in {"none", "recruiter"}
      [] k = "sub_admins" -> member[u].role = "sub_admin"
      [] k = "talent_seats" -> member[u].seat

Using(k) == {u \in Users : Counted(u) /\ Takes(u, k)}

\* A capacity that is set holds n.
Holds(k, n) == policy[1][k] # Unlimited => n <= policy[1][k]

Fits(k, u) == Holds(k, Cardinality(Using(k) \ {u}) + 1)

CapacityKey(role) ==
    CASE role = "sub_admin" -> "sub_admins" [] role = "recruiter" -> "recruiters" [] OTHER -> "none"

\* checkMemberCapacity: "" for a role that is not newly allocated.
CheckMember(u, role, talent) ==
    /\ CapacityKey(role) # "none" => Fits(CapacityKey(role), u)
    /\ talent => policy[2] /\ Fits("talent_seats", u)

-----------------------------------------------------------------------------
(* Authority                                                               *)

ActiveMember(a) == account[a] = "active" /\ member[a].status = "active"

Owner(a) == ActiveMember(a) /\ member[a].role = "primary_admin"

\* canManageTeammate; a scope contains itself and "all" contains any.
CanManage(a, role, scope) ==
    \/ Owner(a)
    \/ /\ ActiveMember(a) /\ member[a].role = "sub_admin"
       /\ role \in {"recruiter", "collaborator"}
       /\ member[a].scope \in {"all", scope}

-----------------------------------------------------------------------------
(* Accounts                                                                *)

\* RegisterRecruiterEmailOnly without an invitation; the address is unique, so
\* it waits for a registration of the same address that is not committed.
Register(u) ==
    /\ account[u] = "none" /\ reading[u] = "none"
    /\ account' = [account EXCEPT ![u] = "pending"]
    /\ UNCHANGED <<member, invite, policy, reading, asking>>

\* Email and employer are verified.
Activate(u) ==
    /\ account[u] = "pending"
    /\ account' = [account EXCEPT ![u] = "active"]
    /\ UNCHANGED <<member, invite, policy, reading, asking>>

\* changeAccount and a rejected verification; an unverified account stays out.
Suspend(u) ==
    /\ account[u] \in {"active", "pending"}
    /\ account' = [account EXCEPT ![u] = IF @ = "active" THEN "suspended" ELSE "barred"]
    /\ UNCHANGED <<member, invite, policy, reading, asking>>

Reactivate(u) ==
    /\ account[u] = "suspended"
    /\ account' = [account EXCEPT ![u] = "active"]
    /\ UNCHANGED <<member, invite, policy, reading, asking>>

SetPolicy ==
    /\ \E p \in Policies \ {policy} : policy' = p
    /\ UNCHANGED <<account, member, invite, reading, asking>>

-----------------------------------------------------------------------------
(* Invitations                                                             *)

Pending(i) == invite[i].state = "pending"

Invited(u) == \E i \in Invites : Pending(i) /\ invite[i].to = u

\* Mutant: a sub-admin may allocate seats through an invitation.
InviteMemberAnySeat(a, i, u) ==
    /\ invite[i] = NoInvite /\ ~Invited(u)
    /\ \E role \in Roles, scope \in Scopes, seat \in BOOLEAN :
          /\ CanManage(a, role, scope)
          /\ invite' = [invite EXCEPT ![i] = Offer(u, role, scope, seat)]
    /\ UNCHANGED <<account, member, policy, reading, asking>>

InviteMember(a, i, u) ==
    /\ invite[i] = NoInvite /\ ~Invited(u)
    /\ \E role \in Roles, scope \in Scopes, seat \in BOOLEAN :
          /\ CanManage(a, role, scope) /\ (seat => Owner(a))
          /\ invite' = [invite EXCEPT ![i] = Offer(u, role, scope, seat)]
    /\ UNCHANGED <<account, member, policy, reading, asking>>

Owners == {u \in Users : member[u].role = "primary_admin"}

OwnerInvited == \E i \in Invites : Pending(i) /\ invite[i].role = "primary_admin"

\* Invite by the platform, with an approval that it consumes.
InviteOwner(i, u) ==
    /\ invite[i] = NoInvite /\ ~Invited(u)
    /\ Owners = {} /\ ~OwnerInvited
    /\ \E seat \in BOOLEAN : invite' = [invite EXCEPT ![i] = Offer(u, "primary_admin", "all", seat)]
    /\ UNCHANGED <<account, member, policy, reading, asking>>

Revoke(a, i) ==
    /\ Pending(i) /\ CanManage(a, invite[i].role, invite[i].scope)
    /\ invite' = [invite EXCEPT ![i].state = "revoked"]
    /\ UNCHANGED <<account, member, policy, reading, asking>>

Expire(i) ==
    /\ Pending(i)
    /\ invite' = [invite EXCEPT ![i].state = "expired"]
    /\ UNCHANGED <<account, member, policy, reading, asking>>

\* readInvitation, in the transaction and before the company's lock.
ReadInvitation(u, i) ==
    /\ reading[u] = "none" /\ account[u] \in {"none", "active"}
    /\ Pending(i) /\ invite[i].to = u
    /\ reading' = [reading EXCEPT ![u] = i]
    /\ UNCHANGED <<account, member, invite, policy, asking>>

Joins(u, i) ==
    /\ member[u] = NoRow
    /\ invite[i].role = "primary_admin" => Owners = {}
    /\ CheckMember(u, invite[i].role, invite[i].seat)
    /\ invite' = [invite EXCEPT ![i] = Accepted]
    /\ member' = [member EXCEPT ![u] = Row(invite[i].role, "active", invite[i].scope, invite[i].seat)]

\* Mutant: the invitation is not claimed again under the lock.
ClaimAsRead(u) ==
    /\ reading[u] # "none" /\ account[u] \in {"none", "active"}
    /\ Joins(u, reading[u])
    /\ account' = [account EXCEPT ![u] = IF @ = "none" THEN "pending" ELSE @]
    /\ reading' = [reading EXCEPT ![u] = "none"]
    /\ UNCHANGED <<policy, asking>>

\* ClaimRegistrationTx: in a registration, or by an active account.
Claim(u) ==
    /\ reading[u] # "none" /\ account[u] \in {"none", "active"}
    /\ Pending(reading[u])
    /\ Joins(u, reading[u])
    /\ account' = [account EXCEPT ![u] = IF @ = "none" THEN "pending" ELSE @]
    /\ reading' = [reading EXCEPT ![u] = "none"]
    /\ UNCHANGED <<policy, asking>>

ClaimFails(u) ==
    /\ reading[u] # "none"
    /\ reading' = [reading EXCEPT ![u] = "none"]
    /\ UNCHANGED <<account, member, invite, policy, asking>>

-----------------------------------------------------------------------------
(* ChangeMember                                                            *)

\* A legacy recruiter gets a row when an owner first edits it.
Present(a, u) == account[u] # "none" /\ (member[u].role = "none" => Owner(a))

\* Mutant: the row a legacy recruiter gets has no role.
RoleOfRow(u) == member[u].role

RoleOf(u) == IF member[u].role = "none" THEN "recruiter" ELSE member[u].role

MayChange(a, u) ==
    /\ a # u /\ Present(a, u)
    /\ CanManage(a, RoleOf(u), member[u].scope)
    /\ RoleOf(u) # "primary_admin"

\* Mutant: the old owner stays.
TransferOwnerCopies(a, u) ==
    /\ Owner(a) /\ MayChange(a, u)
    /\ member[u].status = "active" /\ account[u] = "active"
    /\ member' = [member EXCEPT ![u] = Row("primary_admin", "active", "all", @.seat)]
    /\ UNCHANGED <<account, invite, policy, reading, asking>>

TransferOwner(a, u) ==
    /\ Owner(a) /\ MayChange(a, u)
    /\ member[u].status = "active" /\ account[u] = "active"
    /\ member' = [member EXCEPT ![a].role = "recruiter",
                                ![u] = Row("primary_admin", "active", "all", @.seat)]
    /\ UNCHANGED <<account, invite, policy, reading, asking>>

\* For the plan or otherwise: nothing reads which.
Deactivate(a, u) ==
    /\ MayChange(a, u)
    /\ member' = [member EXCEPT ![u] = Row(RoleOf(u), "inactive", @.scope, FALSE)]
    /\ UNCHANGED <<account, invite, policy, reading, asking>>

\* Mutant: a reactivation in the same role is taken for an edit.
NewlyAllocatedRoleOnly(u, role) == IF RoleOf(u) # role THEN role ELSE "none"

\* The role whose capacity an update consumes.
NewlyAllocated(u, role) ==
    IF member[u].status # "active" \/ RoleOf(u) # role THEN role ELSE "none"

Update(a, u) ==
    /\ MayChange(a, u)
    /\ \E role \in Roles, scope \in Scopes, asked \in BOOLEAN :
          LET seat == IF Owner(a) THEN asked ELSE member[u].seat IN
          /\ CanManage(a, role, scope) /\ (asked => Owner(a))
          /\ CheckMember(u, NewlyAllocated(u, role),
                         seat /\ (~member[u].seat \/ member[u].status # "active"))
          /\ member' = [member EXCEPT ![u] = Row(role, "active", scope, seat)]
    /\ UNCHANGED <<account, invite, policy, reading, asking>>

-----------------------------------------------------------------------------
(* OwnTalentSeat                                                           *)

AskSeat(a) ==
    /\ a \in Askers /\ Owner(a) /\ a \notin asking
    /\ asking' = asking \cup {a}
    /\ UNCHANGED <<account, member, invite, policy, reading>>

\* Mutant: the row is updated whatever its role has become.
OwnSeatAnyRole(a) ==
    /\ a \in asking
    /\ \E seat \in BOOLEAN :
          /\ CheckMember(a, "primary_admin", seat)
          /\ member' = [member EXCEPT ![a].seat = seat]
    /\ asking' = asking \ {a}
    /\ UNCHANGED <<account, invite, policy, reading>>

\* Under the lock the actor is not read again, but the row must be an owner's.
OwnSeat(a) ==
    /\ a \in asking
    /\ \E seat \in BOOLEAN :
          /\ CheckMember(a, "primary_admin", seat)
          /\ member' = IF member[a].role = "primary_admin" THEN [member EXCEPT ![a].seat = seat] ELSE member
    /\ asking' = asking \ {a}
    /\ UNCHANGED <<account, invite, policy, reading>>

OwnSeatFails(a) ==
    /\ a \in asking
    /\ asking' = asking \ {a}
    /\ UNCHANGED <<account, member, invite, policy, reading>>

-----------------------------------------------------------------------------

AccountStep(u) == Register(u) \/ Activate(u) \/ Suspend(u) \/ Reactivate(u)

TeamStep(a) ==
    \/ \E i \in Invites, u \in Users : InviteMember(a, i, u)
    \/ \E i \in Invites : Revoke(a, i)
    \/ \E u \in Users : TransferOwner(a, u) \/ Deactivate(a, u) \/ Update(a, u)

Next ==
    \/ \E u \in Users :
          \/ AccountStep(u) \/ TeamStep(u)
          \/ \E i \in Invites : InviteOwner(i, u) \/ ReadInvitation(u, i)
          \/ Claim(u) \/ ClaimFails(u)
          \/ AskSeat(u) \/ OwnSeat(u) \/ OwnSeatFails(u)
    \/ \E i \in Invites : Expire(i)
    \/ SetPolicy

Spec == Init /\ [][Next]_vars

-----------------------------------------------------------------------------
(* Properties                                                              *)

MemberRows ==
    {NoRow} \cup [role : Roles \cup {"primary_admin", "recruiter"},
                  status : {"active", "inactive"},
                  scope : Scopes, seat : BOOLEAN]

InviteRows ==
    [to : Users, role : Roles \cup {"primary_admin"}, scope : Scopes, seat : BOOLEAN,
     state : {"pending", "revoked", "expired"}]

\* Every variable keeps its shape.
TypeOK ==
    /\ account \in [Users -> {"none", "pending", "active", "suspended", "barred"}]
    /\ member \in [Users -> MemberRows]
    /\ invite \in [Invites -> {NoInvite, Accepted} \cup InviteRows]
    /\ policy \in Policies
    /\ reading \in [Users -> Invites \cup {"none"}]
    /\ asking \subseteq Users

\* A company has at most one owner, whose membership is active, and having one
\* it never loses it but to another (workspace.go:316-327, membership.go:212-219).
OwnershipKept ==
    [][/\ Owners # {} => Cardinality(Owners') = 1
       /\ \A u \in Owners' : member'[u].status = "active"]_vars

\* A resource in use grows past no approved limit, except by the three steps
\* that ask for no capacity: a self-registration, an account the platform
\* reactivates, and an owner who becomes a recruiter.
GrowthIsChecked ==
    [][\A k \in Keys :
          /\ Cardinality(Using(k)') > Cardinality(Using(k))
          /\ \A u \in Users : account'[u] # account[u] => reading'[u] # reading[u]
          /\ Owners \subseteq Owners'
          => Holds(k, Cardinality(Using(k)'))]_vars

\* A sub-admin makes nobody owner or sub-admin, gives no seat and grants no
\* scope it has not (docs/COMPANY_GOVERNANCE_OCT_2026.md:41).
DelegationBounded ==
    [][\A a \in Users :
          member[a].role = "sub_admin" /\ TeamStep(a) =>
             /\ \A u \in Users : member'[u] # member[u] =>
                   /\ member'[u].role \in {"recruiter", "collaborator"}
                   /\ member'[u].seat => member[u].seat
                   /\ member[a].scope \in {"all", member'[u].scope}
             /\ \A i \in Invites : invite'[i] # invite[i] =>
                   /\ invite'[i].role \in {"recruiter", "collaborator"}
                   /\ member[a].scope \in {"all", invite'[i].scope}
                   /\ Pending(i)' => ~invite'[i].seat]_vars

\* An invitation is used once, and not after it was revoked or expired.
InvitationsFinal ==
    [][\A i \in Invites : invite[i].state \in {"accepted", "revoked", "expired"} => invite'[i] = invite[i]]_vars

\* A member that has no seat gets one from an owner, or as the owner: an
\* owner's own request is void once it handed the company over (overrides.go:59).
SeatsFromOwners ==
    [][\A u \in Users :
          member'[u].seat /\ ~member[u].seat =>
             \/ u \in Owners /\ u \in asking
             \/ \E a \in Users : Owner(a) /\ Update(a, u)]_vars

\* The team grows within the plan, and what was asked before the company's lock is asked
\* again under it.
TeamGrowsAsAllowed == GrowthIsChecked /\ InvitationsFinal /\ SeatsFromOwners

\* Whoever acts for the owner stays within what the owner gave, and the owner stays.
TeamIsGoverned == DelegationBounded /\ OwnershipKept

=============================================================================
