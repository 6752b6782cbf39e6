--------------------------- MODULE CompanyTeamProofs ---------------------------
(***************************************************************************)
(* For any number of work addresses, invitations and plans: a company has  *)
(* one owner at most and keeps having one, a sub-admin delegates no more   *)
(* than it was given, and the team grows within the plan although          *)
(* invitations and seat requests are read before the company is locked.    *)
(***************************************************************************)
EXTENDS CompanyTeam, TLAPS, FiniteSetTheorems

-----------------------------------------------------------------------------
(* Cardinalities of sets that differ in one element                        *)

LEMMA OneElementApart ==
    ASSUME NEW S, NEW T, NEW u, IsFiniteSet(S), IsFiniteSet(T), S \ {u} = T \ {u}
    PROVE  /\ Cardinality(S) \in Nat /\ Cardinality(T) \in Nat
           /\ u \in T => Cardinality(T) = Cardinality(S \ {u}) + 1
           /\ u \notin T => Cardinality(T) <= Cardinality(S)
           /\ u \in S => Cardinality(T) <= Cardinality(S)
<1>1. /\ Cardinality(S) \in Nat /\ Cardinality(T) \in Nat
  BY FS_CardinalityType
<1>2. Cardinality(S \ {u}) = IF u \in S THEN Cardinality(S) - 1 ELSE Cardinality(S)
  BY FS_RemoveElement
<1>3. Cardinality(T \ {u}) = IF u \in T THEN Cardinality(T) - 1 ELSE Cardinality(T)
  BY FS_RemoveElement
<1> QED BY <1>1, <1>2, <1>3

LEMMA UsingFinite ==
    ASSUME NEW k
    PROVE  IsFiniteSet(Using(k)) /\ IsFiniteSet(Using(k)')
<1>1. Using(k) \subseteq Users /\ Using(k)' \subseteq Users
  BY DEF Using
<1> QED BY <1>1, TeamAssumption, FS_Subset

-----------------------------------------------------------------------------
(* The invariant                                                           *)

\* Who owns the company owns it alone, and the membership is active.
OneOwner ==
    /\ \A u, v \in Users :
          member[u].role = "primary_admin" /\ member[v].role = "primary_admin" => u = v
    /\ \A u \in Users : member[u].role = "primary_admin" => member[u].status = "active"

IInv == TypeOK /\ OneOwner

\* What a pending row says.
LEMMA PendingRow ==
    ASSUME TypeOK, NEW i \in Invites, Pending(i)
    PROVE  invite[i] \in InviteRows
BY DEF TypeOK, Pending, NoInvite, Accepted, InviteRows

LEMMA MemberRow ==
    ASSUME TypeOK, NEW u \in Users
    PROVE  /\ member[u] \in MemberRows
           /\ member[u].role \in Roles \cup {"primary_admin", "recruiter", "none"}
           /\ member[u].status \in {"active", "inactive"}
           /\ member[u].scope \in Scopes /\ member[u].seat \in BOOLEAN
           /\ RoleOf(u) \in Roles \cup {"primary_admin", "recruiter"}
<1>1. member[u] \in MemberRows
  BY DEF TypeOK
<1>2. CASE member[u] = NoRow
  BY <1>1, <1>2, TeamAssumption DEF NoRow, Row, RoleOf
<1>3. CASE member[u] # NoRow
  <2>1. member[u] \in [role : Roles \cup {"primary_admin", "recruiter"},
                       status : {"active", "inactive"}, scope : Scopes, seat : BOOLEAN]
    BY <1>1, <1>3 DEF MemberRows
  <2> QED BY <1>1, <2>1 DEF RoleOf
<1> QED BY <1>2, <1>3

LEMMA RowsAreMembers ==
    ASSUME NEW role \in Roles \cup {"primary_admin", "recruiter"},
           NEW status \in {"active", "inactive"}, NEW scope \in Scopes, NEW seat \in BOOLEAN
    PROVE  Row(role, status, scope, seat) \in MemberRows
BY DEF Row, MemberRows

LEMMA InitInvariant == Init => IInv
<1> SUFFICES ASSUME Init PROVE IInv
  OBVIOUS
<1> USE TeamAssumption
<1>1. PICK founded \in BOOLEAN, seat \in BOOLEAN :
          member = [u \in Users |-> IF founded /\ u \in Founders
                                    THEN Row("primary_admin", "active", "all", seat) ELSE NoRow]
  BY DEF Init
<1>2. Row("primary_admin", "active", "all", seat) \in MemberRows /\ NoRow \in MemberRows
  BY RowsAreMembers DEF MemberRows
<1>3. member \in [Users -> MemberRows]
  BY <1>1, <1>2
<1>4. TypeOK
  BY <1>3 DEF Init, TypeOK
<1>5. OneOwner
  BY <1>1 DEF OneOwner, Row, NoRow
<1> QED BY <1>4, <1>5 DEF IInv

-----------------------------------------------------------------------------
(* Steps                                                                   *)

\* Steps that leave the memberships alone.
LEMMA SameMembers ==
    ASSUME IInv, TypeOK', UNCHANGED member
    PROVE  IInv'
BY DEF IInv, OneOwner

\* Steps on accounts, the plan and what requests have read.
SideStep ==
    \/ SetPolicy
    \/ \E u \in Users :
         \/ AccountStep(u) \/ ClaimFails(u) \/ AskSeat(u) \/ OwnSeatFails(u)
         \/ \E i \in Invites : ReadInvitation(u, i)

\* Steps on the row of an invitation.
InvitationStep(i) ==
    \/ \E a, u \in Users : InviteMember(a, i, u)
    \/ \E u \in Users : InviteOwner(i, u)
    \/ \E a \in Users : Revoke(a, i)
    \/ Expire(i)

LEMMA StepCases ==
    ASSUME Next
    PROVE  \/ SideStep
           \/ \E i \in Invites : InvitationStep(i)
           \/ \E u \in Users : Claim(u) \/ OwnSeat(u)
           \/ \E a, u \in Users : TransferOwner(a, u) \/ Deactivate(a, u) \/ Update(a, u)
BY DEF Next, TeamStep, SideStep, InvitationStep

LEMMA AroundTeam ==
    ASSUME IInv, SideStep
    PROVE  IInv' /\ UNCHANGED <<member, invite>>
<1>1. UNCHANGED <<member, invite>>
  BY DEF SideStep, SetPolicy, AccountStep, Register, Activate, Suspend, Reactivate, ClaimFails, AskSeat,
     OwnSeatFails, ReadInvitation
<1>2. TypeOK'
  <2> USE DEF IInv, TypeOK
  <2>1. CASE SetPolicy
    BY <2>1 DEF SetPolicy
  <2>2. ASSUME NEW u \in Users, AccountStep(u) PROVE TypeOK'
    BY <2>2 DEF AccountStep, Register, Activate, Suspend, Reactivate
  <2>3. ASSUME NEW u \in Users, ClaimFails(u) \/ AskSeat(u) \/ OwnSeatFails(u) PROVE TypeOK'
    BY <2>3 DEF ClaimFails, AskSeat, OwnSeatFails
  <2>4. ASSUME NEW u \in Users, NEW i \in Invites, ReadInvitation(u, i) PROVE TypeOK'
    BY <2>4 DEF ReadInvitation
  <2> QED BY <2>1, <2>2, <2>3, <2>4 DEF SideStep
<1> QED BY <1>1, <1>2, SameMembers

\* One row is written, from free or from pending.
LEMMA InvitationWritten ==
    ASSUME IInv, NEW i \in Invites, InvitationStep(i)
    PROVE  /\ IInv' /\ UNCHANGED member
           /\ invite[i] = NoInvite \/ Pending(i)
           /\ \A j \in Invites : j # i => invite'[j] = invite[j]
<1> USE TeamAssumption
<1>1. UNCHANGED <<account, member, policy, reading, asking>>
  BY DEF InvitationStep, InviteMember, InviteOwner, Revoke, Expire
<1>2. ASSUME NEW row \in InviteRows, invite' = [invite EXCEPT ![i] = row]
      PROVE  TypeOK' /\ \A j \in Invites : j # i => invite'[j] = invite[j]
  BY <1>1, <1>2 DEF IInv, TypeOK
<1>3. ASSUME NEW a \in Users, NEW u \in Users, InviteMember(a, i, u)
      PROVE  invite[i] = NoInvite /\ \E row \in InviteRows : invite' = [invite EXCEPT ![i] = row]
  <2>1. PICK role \in Roles, scope \in Scopes, seat \in BOOLEAN :
            invite' = [invite EXCEPT ![i] = Offer(u, role, scope, seat)]
    BY <1>3 DEF InviteMember
  <2>2. Offer(u, role, scope, seat) \in InviteRows
    BY DEF Offer, InviteRows
  <2> QED BY <1>3, <2>1, <2>2 DEF InviteMember
<1>4. ASSUME NEW u \in Users, InviteOwner(i, u)
      PROVE  invite[i] = NoInvite /\ \E row \in InviteRows : invite' = [invite EXCEPT ![i] = row]
  <2>1. PICK seat \in BOOLEAN :
            invite' = [invite EXCEPT ![i] = Offer(u, "primary_admin", "all", seat)]
    BY <1>4 DEF InviteOwner
  <2>2. Offer(u, "primary_admin", "all", seat) \in InviteRows
    BY DEF Offer, InviteRows
  <2> QED BY <1>4, <2>1, <2>2 DEF InviteOwner
<1>5. ASSUME Pending(i), NEW state \in {"revoked", "expired"},
             invite' = [invite EXCEPT ![i].state = state]
      PROVE  \E row \in InviteRows : invite' = [invite EXCEPT ![i] = row]
  <2>1. invite[i] \in InviteRows
    BY <1>5, PendingRow DEF IInv
  <2>2. [invite[i] EXCEPT !.state = state] \in InviteRows
    BY <2>1 DEF InviteRows
  <2>3. invite' = [invite EXCEPT ![i] = [invite[i] EXCEPT !.state = state]]
    BY <1>5
  <2> QED BY <2>2, <2>3
<1>6. ASSUME \E a \in Users : Revoke(a, i)
      PROVE  Pending(i) /\ \E row \in InviteRows : invite' = [invite EXCEPT ![i] = row]
  BY <1>5, <1>6 DEF Revoke
<1>7. ASSUME Expire(i)
      PROVE  Pending(i) /\ \E row \in InviteRows : invite' = [invite EXCEPT ![i] = row]
  BY <1>5, <1>7 DEF Expire
<1>8. /\ invite[i] = NoInvite \/ Pending(i)
      /\ \E row \in InviteRows : invite' = [invite EXCEPT ![i] = row]
  BY <1>3, <1>4, <1>6, <1>7 DEF InvitationStep
<1>9. TypeOK' /\ \A j \in Invites : j # i => invite'[j] = invite[j]
  BY <1>2, <1>8
<1> QED BY <1>1, <1>8, <1>9, SameMembers

\* A membership row is written in place of another.
LEMMA RowWritten ==
    ASSUME IInv, NEW u \in Users, NEW row \in MemberRows,
           member' = [member EXCEPT ![u] = row],
           row.role = "primary_admin" =>
              row.status = "active" /\ \A v \in Users \ {u} : member[v].role # "primary_admin"
    PROVE  /\ member' \in [Users -> MemberRows] /\ OneOwner'
           /\ member'[u] = row /\ \A v \in Users \ {u} : member'[v] = member[v]
<1>1. /\ member' \in [Users -> MemberRows]
      /\ member'[u] = row /\ \A v \in Users \ {u} : member'[v] = member[v]
  BY DEF IInv, TypeOK
<1>2. OneOwner'
  BY <1>1 DEF IInv, OneOwner
<1> QED BY <1>1, <1>2

\* An acceptance makes a member of somebody who had no row, on the terms of
\* an invitation that is still pending, and within the capacity.
LEMMA ClaimWrites ==
    ASSUME IInv, NEW u \in Users, Claim(u)
    PROVE  /\ IInv'
           /\ reading[u] \in Invites /\ Pending(reading[u]) /\ invite[reading[u]] \in InviteRows
           /\ \A j \in Invites : j # reading[u] => invite'[j] = invite[j]
           /\ member[u] = NoRow
           /\ \A v \in Users \ {u} : member'[v] = member[v]
           /\ member'[u] = Row(invite[reading[u]].role, "active", invite[reading[u]].scope,
                               invite[reading[u]].seat)
           /\ CheckMember(u, invite[reading[u]].role, invite[reading[u]].seat)
           /\ invite[reading[u]].role = "primary_admin" => Owners = {}
<1> DEFINE i == reading[u]
<1> DEFINE row == Row(invite[i].role, "active", invite[i].scope, invite[i].seat)
<1>1. /\ i \in Invites /\ Pending(i) /\ Joins(u, i)
      /\ account' = [account EXCEPT ![u] = IF @ = "none" THEN "pending" ELSE @]
      /\ reading' = [reading EXCEPT ![u] = "none"]
      /\ UNCHANGED <<policy, asking>>
  BY DEF IInv, TypeOK, Claim
<1>2. invite[i] \in InviteRows
  BY <1>1, PendingRow DEF IInv
<1>3. row \in MemberRows /\ row.role = invite[i].role /\ row.status = "active"
  BY <1>2 DEF InviteRows, Row, MemberRows
<1>4. /\ member' = [member EXCEPT ![u] = row]
      /\ invite' = [invite EXCEPT ![i] = Accepted]
      /\ member[u] = NoRow
      /\ invite[i].role = "primary_admin" => Owners = {}
      /\ CheckMember(u, invite[i].role, invite[i].seat)
  BY <1>1 DEF Joins
<1>5. row.role = "primary_admin" =>
          row.status = "active" /\ \A v \in Users \ {u} : member[v].role # "primary_admin"
  BY <1>3, <1>4 DEF Owners
<1>6. /\ member' \in [Users -> MemberRows] /\ OneOwner'
      /\ member'[u] = row /\ \A v \in Users \ {u} : member'[v] = member[v]
  BY <1>3, <1>4, <1>5, RowWritten
<1>7. TypeOK'
  <2>1. account' \in [Users -> {"none", "pending", "active", "suspended", "barred"}]
    BY <1>1 DEF IInv, TypeOK
  <2>2. invite' \in [Invites -> {NoInvite, Accepted} \cup InviteRows]
    BY <1>1, <1>4 DEF IInv, TypeOK
  <2>3. reading' \in [Users -> Invites \cup {"none"}]
    BY <1>1 DEF IInv, TypeOK
  <2> QED BY <1>1, <1>6, <2>1, <2>2, <2>3 DEF IInv, TypeOK
<1>8. \A j \in Invites : j # i => invite'[j] = invite[j]
  BY <1>1, <1>4 DEF IInv, TypeOK
<1> QED BY <1>1, <1>2, <1>4, <1>6, <1>7, <1>8 DEF IInv

\* The owner hands the company over to an active member.
LEMMA TransferWrites ==
    ASSUME IInv, NEW a \in Users, NEW u \in Users, TransferOwner(a, u)
    PROVE  /\ IInv' /\ UNCHANGED invite
           /\ a # u /\ member[a].role = "primary_admin" /\ member'[a].role = "recruiter"
           /\ member'[a].seat = member[a].seat
           /\ member'[u] = Row("primary_admin", "active", "all", member[u].seat)
           /\ \A v \in Users \ {a, u} : member'[v] = member[v]
<1> USE TeamAssumption
<1>1. /\ a # u /\ member[a].role = "primary_admin" /\ member[a].status = "active"
      /\ UNCHANGED <<account, invite, policy, reading, asking>>
      /\ member' = [member EXCEPT ![a].role = "recruiter",
                                  ![u] = Row("primary_admin", "active", "all", @.seat)]
  BY DEF TransferOwner, MayChange, Owner, ActiveMember
<1>2. member[a] \in MemberRows /\ member[u] \in MemberRows /\ member[u].seat \in BOOLEAN
  BY MemberRow DEF IInv
<1>3. [member[a] EXCEPT !.role = "recruiter"] \in MemberRows
  BY <1>1, <1>2 DEF MemberRows, NoRow, Row
<1>4. Row("primary_admin", "active", "all", member[u].seat) \in MemberRows
  BY <1>2 DEF MemberRows, Row
<1>5. /\ member'[a] = [member[a] EXCEPT !.role = "recruiter"]
      /\ member'[u] = Row("primary_admin", "active", "all", member[u].seat)
      /\ \A v \in Users \ {a, u} : member'[v] = member[v]
  BY <1>1 DEF IInv, TypeOK
<1>6. member' \in [Users -> MemberRows]
  BY <1>1, <1>3, <1>4 DEF IInv, TypeOK
<1>7. member'[a].role = "recruiter" /\ member'[a].seat = member[a].seat
  BY <1>1, <1>2, <1>5 DEF MemberRows, NoRow, Row
<1>8. OneOwner'
  <2>1. ASSUME NEW v \in Users \ {a, u} PROVE member'[v].role # "primary_admin"
    <3>1. member[v].role # "primary_admin"
      BY <1>1 DEF IInv, OneOwner
    <3> QED BY <1>5, <3>1
  <2>2. member'[u].role = "primary_admin" /\ member'[u].status = "active"
    BY <1>5 DEF Row
  <2>3. \A v \in Users : member'[v].role = "primary_admin" => v = u
    BY <1>7, <2>1
  <2> QED BY <2>2, <2>3 DEF OneOwner
<1>9. TypeOK'
  BY <1>1, <1>6 DEF IInv, TypeOK
<1> QED BY <1>1, <1>5, <1>7, <1>8, <1>9 DEF IInv

LEMMA DeactivateWrites ==
    ASSUME IInv, NEW a \in Users, NEW u \in Users, Deactivate(a, u)
    PROVE  /\ IInv' /\ UNCHANGED invite
           /\ member'[u] = Row(RoleOf(u), "inactive", member[u].scope, FALSE)
           /\ \A v \in Users \ {u} : member'[v] = member[v]
           /\ RoleOf(u) # "primary_admin"
<1> DEFINE row == Row(RoleOf(u), "inactive", member[u].scope, FALSE)
<1>1. /\ UNCHANGED <<account, invite, policy, reading, asking>>
      /\ RoleOf(u) # "primary_admin"
      /\ member' = [member EXCEPT ![u] = row]
  BY DEF IInv, TypeOK, Deactivate, MayChange
<1>2. member[u].scope \in Scopes /\ RoleOf(u) \in Roles \cup {"primary_admin", "recruiter"}
  BY MemberRow DEF IInv
<1>3. row \in MemberRows /\ row.role = RoleOf(u)
  BY <1>2, RowsAreMembers DEF Row
<1>4. /\ member' \in [Users -> MemberRows] /\ OneOwner'
      /\ member'[u] = row /\ \A v \in Users \ {u} : member'[v] = member[v]
  BY <1>1, <1>3, RowWritten
<1>5. TypeOK'
  BY <1>1, <1>4 DEF IInv, TypeOK
<1> QED BY <1>1, <1>4, <1>5 DEF IInv

\* What an update asks for, and what was checked.
LEMMA UpdateWrites ==
    ASSUME IInv, NEW a \in Users, NEW u \in Users, Update(a, u)
    PROVE  /\ IInv' /\ UNCHANGED <<account, invite>> /\ MayChange(a, u)
           /\ \A v \in Users \ {u} : member'[v] = member[v]
           /\ \E role \in Roles, scope \in Scopes, seat \in BOOLEAN :
                /\ member'[u] = Row(role, "active", scope, seat)
                /\ CanManage(a, role, scope)
                /\ ~Owner(a) => seat = member[u].seat
                /\ CheckMember(u, NewlyAllocated(u, role),
                               seat /\ (~member[u].seat \/ member[u].status # "active"))
<1> USE TeamAssumption
<1>1. MayChange(a, u) /\ UNCHANGED <<account, invite, policy, reading, asking>>
  BY DEF Update
<1>2. member[u].seat \in BOOLEAN
  BY MemberRow DEF IInv
<1>3. PICK role \in Roles, scope \in Scopes, seat \in BOOLEAN :
          /\ CanManage(a, role, scope)
          /\ ~Owner(a) => seat = member[u].seat
          /\ CheckMember(u, NewlyAllocated(u, role),
                         seat /\ (~member[u].seat \/ member[u].status # "active"))
          /\ member' = [member EXCEPT ![u] = Row(role, "active", scope, seat)]
  <2>1. PICK role \in Roles, scope \in Scopes, asked \in BOOLEAN :
            LET seat == IF Owner(a) THEN asked ELSE member[u].seat IN
            /\ CanManage(a, role, scope) /\ (asked => Owner(a))
            /\ CheckMember(u, NewlyAllocated(u, role),
                           seat /\ (~member[u].seat \/ member[u].status # "active"))
            /\ member' = [member EXCEPT ![u] = Row(role, "active", scope, seat)]
    BY DEF Update
  <2>2. CASE Owner(a)
    BY <2>1, <2>2
  <2>3. CASE ~Owner(a)
    BY <1>2, <2>1, <2>3
  <2> QED BY <2>2, <2>3
<1>4. /\ Row(role, "active", scope, seat) \in MemberRows
      /\ Row(role, "active", scope, seat).role # "primary_admin"
  BY RowsAreMembers DEF Row
<1>5. /\ member' \in [Users -> MemberRows] /\ OneOwner'
      /\ member'[u] = Row(role, "active", scope, seat)
      /\ \A v \in Users \ {u} : member'[v] = member[v]
  BY <1>3, <1>4, RowWritten
<1>6. TypeOK'
  BY <1>1, <1>5 DEF IInv, TypeOK
<1> QED BY <1>1, <1>3, <1>5, <1>6 DEF IInv

\* The request passed Owner() before the lock; the row must be an owner's still.
LEMMA OwnSeatWrites ==
    ASSUME IInv, NEW a \in Users, OwnSeat(a)
    PROVE  /\ IInv' /\ UNCHANGED <<account, invite>>
           /\ a \in asking
           /\ \A v \in Users \ {a} : member'[v] = member[v]
           /\ \/ member' = member
              \/ \E seat \in BOOLEAN :
                   /\ member[a].role = "primary_admin"
                   /\ CheckMember(a, "primary_admin", seat)
                   /\ member'[a] = [member[a] EXCEPT !.seat = seat]
<1>1. PICK seat \in BOOLEAN :
          /\ CheckMember(a, "primary_admin", seat)
          /\ member' = IF member[a].role = "primary_admin"
                       THEN [member EXCEPT ![a].seat = seat] ELSE member
  BY DEF OwnSeat
<1>2. /\ a \in asking /\ asking' = asking \ {a}
      /\ UNCHANGED <<account, invite, policy, reading>>
  BY DEF OwnSeat
<1>3. CASE member' = member
  <2>1. TypeOK'
    BY <1>2, <1>3 DEF IInv, TypeOK
  <2> QED BY <1>2, <1>3, <2>1, SameMembers
<1>4. CASE member[a].role = "primary_admin" /\ member' = [member EXCEPT ![a].seat = seat]
  <2> DEFINE row == [member[a] EXCEPT !.seat = seat]
  <2>1. member[a] \in MemberRows
    BY MemberRow DEF IInv
  <2>2. row \in MemberRows /\ row.status = member[a].status
    BY <1>4, <2>1 DEF MemberRows, NoRow, Row
  <2>3. member' = [member EXCEPT ![a] = row]
    BY <1>4
  <2>4. row.status = "active" /\ \A v \in Users \ {a} : member[v].role # "primary_admin"
    BY <1>4, <2>2 DEF IInv, OneOwner
  <2>5. /\ member' \in [Users -> MemberRows] /\ OneOwner'
        /\ member'[a] = row /\ \A v \in Users \ {a} : member'[v] = member[v]
    BY <2>2, <2>3, <2>4, RowWritten
  <2>6. TypeOK'
    BY <1>2, <2>5 DEF IInv, TypeOK
  <2> QED BY <1>1, <1>2, <1>4, <2>5, <2>6 DEF IInv
<1> QED BY <1>1, <1>3, <1>4

-----------------------------------------------------------------------------
(* The invariant holds                                                     *)

LEMMA StepInvariant ==
    ASSUME IInv, [Next]_vars
    PROVE  IInv'
<1>1. CASE UNCHANGED vars
  BY <1>1 DEF vars, IInv, TypeOK, OneOwner
<1>2. CASE Next
  BY <1>2, StepCases, AroundTeam, InvitationWritten, ClaimWrites, OwnSeatWrites, TransferWrites,
     DeactivateWrites, UpdateWrites
<1> QED BY <1>1, <1>2

\* Rows keep their shape, and a company has at most one owner, who is active.
THEOREM TeamInvariant == Spec => []IInv
<1>1. IInv /\ [Next]_vars => IInv'
  BY StepInvariant
<1> QED BY <1>1, InitInvariant, PTL DEF Spec

-----------------------------------------------------------------------------
(* Ownership and delegation                                                *)

\* The owner stays, or another takes the company over.
LEMMA OwnerRemains ==
    ASSUME IInv, Next, NEW o \in Users, member[o].role = "primary_admin"
    PROVE  \E w \in Users : member'[w].role = "primary_admin"
<1>1. CASE UNCHANGED member
  BY <1>1
<1>2. ASSUME NEW u \in Users, Claim(u) PROVE member'[o].role = "primary_admin"
  <2>1. member[u] = NoRow /\ \A v \in Users \ {u} : member'[v] = member[v]
    BY <1>2, ClaimWrites
  <2>2. o # u
    BY <2>1 DEF NoRow, Row
  <2> QED BY <2>1, <2>2
<1>3. ASSUME NEW u \in Users, OwnSeat(u) PROVE member'[o].role = "primary_admin"
  <2>1. CASE member' = member
    BY <2>1
  <2>2. CASE member' # member
    <3>1. PICK seat \in BOOLEAN : member'[u] = [member[u] EXCEPT !.seat = seat]
      BY <1>3, <2>2, OwnSeatWrites
    <3>2. member[u] \in MemberRows
      BY MemberRow DEF IInv
    <3>3. member'[u].role = member[u].role
      BY <3>1, <3>2 DEF MemberRows, NoRow, Row
    <3> QED BY <1>3, <3>3, OwnSeatWrites
  <2> QED BY <2>1, <2>2
<1>4. ASSUME NEW a \in Users, NEW u \in Users, TransferOwner(a, u)
      PROVE  member'[u].role = "primary_admin"
  <2>1. member'[u] = Row("primary_admin", "active", "all", member[u].seat)
    BY <1>4, TransferWrites
  <2> QED BY <2>1 DEF Row
<1>5. ASSUME NEW a \in Users, NEW u \in Users, Deactivate(a, u) \/ Update(a, u)
      PROVE  member'[o].role = "primary_admin"
  <2>1. o # u
    <3>1. RoleOf(u) # "primary_admin"
      BY <1>5, UpdateWrites, DeactivateWrites DEF MayChange
    <3> QED BY <3>1 DEF RoleOf
  <2> QED BY <1>5, <2>1, UpdateWrites, DeactivateWrites
<1> QED BY <1>1, <1>2, <1>3, <1>4, <1>5, StepCases, AroundTeam, InvitationWritten

LEMMA OwnershipStep ==
    ASSUME IInv, Next
    PROVE  /\ Owners # {} => Cardinality(Owners') = 1
           /\ \A u \in Owners' : member'[u].status = "active"
<1>1. OneOwner'
  BY StepInvariant DEF IInv
<1>2. \A u \in Owners' : member'[u].status = "active"
  BY <1>1 DEF Owners, OneOwner
<1>3. ASSUME Owners # {} PROVE Cardinality(Owners') = 1
  <2>1. PICK o \in Users : member[o].role = "primary_admin"
    BY <1>3 DEF Owners
  <2>2. PICK w \in Users : member'[w].role = "primary_admin"
    BY <2>1, OwnerRemains
  <2>3. Owners' = {w}
    BY <1>1, <2>2 DEF Owners, OneOwner
  <2> QED BY <2>3, FS_Singleton
<1> QED BY <1>2, <1>3

\* What a sub-admin may write, whoever it writes about.
LEMMA DelegationStep ==
    ASSUME IInv, NEW a \in Users, member[a].role = "sub_admin", TeamStep(a)
    PROVE  /\ \A u \in Users : member'[u] # member[u] =>
                 /\ member'[u].role \in {"recruiter", "collaborator"}
                 /\ member'[u].seat => member[u].seat
                 /\ member[a].scope \in {"all", member'[u].scope}
           /\ \A i \in Invites : invite'[i] # invite[i] =>
                 /\ invite'[i].role \in {"recruiter", "collaborator"}
                 /\ member[a].scope \in {"all", invite'[i].scope}
                 /\ Pending(i)' => ~invite'[i].seat
<1>1. ~Owner(a)
  BY DEF Owner
<1>2. \A role, scope : CanManage(a, role, scope) =>
          role \in {"recruiter", "collaborator"} /\ member[a].scope \in {"all", scope}
  BY <1>1 DEF CanManage
<1>3. CASE \E i \in Invites, u \in Users : InviteMember(a, i, u)
  <2>1. PICK i \in Invites, u \in Users : InviteMember(a, i, u)
    BY <1>3
  <2>2. PICK role \in Roles, scope \in Scopes, seat \in BOOLEAN :
            /\ CanManage(a, role, scope) /\ (seat => Owner(a))
            /\ invite' = [invite EXCEPT ![i] = Offer(u, role, scope, seat)]
    BY <2>1 DEF InviteMember
  <2>3. invite'[i] = Offer(u, role, scope, FALSE) /\ UNCHANGED member
    BY <1>1, <2>1, <2>2 DEF InviteMember, IInv, TypeOK
  <2>4. \A j \in Invites : j # i => invite'[j] = invite[j]
    BY <2>2 DEF IInv, TypeOK
  <2> QED BY <1>2, <2>2, <2>3, <2>4 DEF Offer
<1>4. CASE \E i \in Invites : Revoke(a, i)
  <2>1. PICK i \in Invites : Revoke(a, i)
    BY <1>4
  <2>2. invite[i] \in InviteRows
    BY <2>1, PendingRow DEF Revoke, IInv
  <2>3. invite'[i] = [invite[i] EXCEPT !.state = "revoked"] /\ UNCHANGED member
    BY <2>1 DEF Revoke, IInv, TypeOK
  <2>4. /\ invite'[i].state = "revoked" /\ invite'[i].role = invite[i].role
        /\ invite'[i].scope = invite[i].scope
    BY <2>2, <2>3 DEF InviteRows
  <2>5. \A j \in Invites : j # i => invite'[j] = invite[j]
    BY <2>1 DEF Revoke, IInv, TypeOK
  <2>6. CanManage(a, invite[i].role, invite[i].scope)
    BY <2>1 DEF Revoke
  <2> QED BY <1>2, <2>3, <2>4, <2>5, <2>6 DEF Pending
<1>5. ASSUME NEW u \in Users, TransferOwner(a, u) PROVE FALSE
  BY <1>1, <1>5 DEF TransferOwner
<1>6. CASE \E u \in Users : Deactivate(a, u)
  <2>1. PICK u \in Users : Deactivate(a, u)
    BY <1>6
  <2>2. CanManage(a, RoleOf(u), member[u].scope)
    BY <2>1 DEF Deactivate, MayChange
  <2>3. /\ member'[u] = Row(RoleOf(u), "inactive", member[u].scope, FALSE)
        /\ UNCHANGED invite /\ \A v \in Users \ {u} : member'[v] = member[v]
    BY <2>1, DeactivateWrites
  <2> QED BY <1>2, <2>2, <2>3 DEF Row
<1>7. CASE \E u \in Users : Update(a, u)
  <2>1. PICK u \in Users : Update(a, u)
    BY <1>7
  <2>2. PICK role \in Roles, scope \in Scopes :
            /\ member'[u] = Row(role, "active", scope, member[u].seat)
            /\ CanManage(a, role, scope)
    BY <1>1, <2>1, UpdateWrites
  <2>3. UNCHANGED invite /\ \A v \in Users \ {u} : member'[v] = member[v]
    BY <2>1, UpdateWrites
  <2> QED BY <1>2, <2>2, <2>3 DEF Row
<1> QED BY <1>3, <1>4, <1>5, <1>6, <1>7 DEF TeamStep

\* A company keeps its owner and never has two, and nobody who acts for the
\* owner hands out more than the owner gave (workspace.go:316-327,
\* membership.go:212-219).
THEOREM TeamGoverned == Spec => TeamIsGoverned
<1>1. IInv /\ [Next]_vars =>
        [/\ Owners # {} => Cardinality(Owners') = 1
         /\ \A u \in Owners' : member'[u].status = "active"]_vars
  BY OwnershipStep
<1>2. IInv /\ [Next]_vars =>
        [\A a \in Users :
           member[a].role = "sub_admin" /\ TeamStep(a) =>
             /\ \A u \in Users : member'[u] # member[u] =>
                   /\ member'[u].role \in {"recruiter", "collaborator"}
                   /\ member'[u].seat => member[u].seat
                   /\ member[a].scope \in {"all", member'[u].scope}
             /\ \A i \in Invites : invite'[i] # invite[i] =>
                   /\ invite'[i].role \in {"recruiter", "collaborator"}
                   /\ member[a].scope \in {"all", invite'[i].scope}
                   /\ Pending(i)' => ~invite'[i].seat]_vars
  BY DelegationStep
<1>3. Spec => OwnershipKept
  BY <1>1, TeamInvariant, PTL DEF Spec, OwnershipKept
<1>4. Spec => DelegationBounded
  BY <1>2, TeamInvariant, PTL DEF Spec, DelegationBounded
<1> QED BY <1>3, <1>4 DEF TeamIsGoverned

-----------------------------------------------------------------------------
(* Growth                                                                  *)

\* A use of a resource that grows does so by the one user the step is about,
\* who was not counted before and is counted after.
LEMMA Grows ==
    ASSUME NEW k, NEW u \in Users,
           \A v \in Users \ {u} : account'[v] = account[v] /\ member'[v] = member[v],
           Cardinality(Using(k)') > Cardinality(Using(k))
    PROVE  /\ u \notin Using(k) /\ u \in Using(k)'
           /\ Cardinality(Using(k)') = Cardinality(Using(k) \ {u}) + 1
<1>1. IsFiniteSet(Using(k)) /\ IsFiniteSet(Using(k)')
  BY UsingFinite
<1>2. Using(k) \ {u} = Using(k)' \ {u}
  BY DEF Using, Counted, Takes
<1> HIDE DEF Using
<1> QED BY <1>1, <1>2, OneElementApart

\* The check that admits u admits it to every resource it is about to take.
LEMMA CheckedFits ==
    ASSUME NEW u \in Users, NEW role, NEW seat \in BOOLEAN, CheckMember(u, role, seat)
    PROVE  /\ role = "recruiter" => Fits("recruiters", u)
           /\ role = "sub_admin" => Fits("sub_admins", u)
           /\ seat => Fits("talent_seats", u)
<1>1. /\ role = "recruiter" => CapacityKey(role) = "recruiters"
      /\ role = "sub_admin" => CapacityKey(role) = "sub_admins"
  BY DEF CapacityKey
<1> QED BY <1>1 DEF CheckMember

LEMMA GrowthStep ==
    ASSUME IInv, Next, NEW k \in Keys,
           Cardinality(Using(k)') > Cardinality(Using(k)),
           \A u \in Users : account'[u] # account[u] => reading'[u] # reading[u],
           Owners \subseteq Owners'
    PROVE  Holds(k, Cardinality(Using(k)'))
<1>1. ASSUME UNCHANGED <<account, member>> PROVE FALSE
  <2>1. Using(k)' = Using(k)
    BY <1>1 DEF Using, Counted, Takes
  <2>2. Cardinality(Using(k)) \in Nat
    BY UsingFinite, FS_CardinalityType
  <2> QED BY <2>1, <2>2
<1>2. ASSUME NEW u \in Users, Fits(k, u),
             \A v \in Users \ {u} : account'[v] = account[v] /\ member'[v] = member[v]
      PROVE  Holds(k, Cardinality(Using(k)'))
  BY <1>2, Grows DEF Fits
<1>3. ASSUME SideStep PROVE FALSE
  <2>1. ASSUME NEW u \in Users, AccountStep(u) PROVE FALSE
    BY <2>1 DEF AccountStep, Register, Activate, Suspend, Reactivate, IInv, TypeOK
  <2>2. CASE UNCHANGED <<account, member>>
    BY <1>1, <2>2
  <2> QED BY <1>3, <2>1, <2>2 DEF SideStep, SetPolicy, ClaimFails, AskSeat, OwnSeatFails,
       ReadInvitation
<1>4. ASSUME NEW i \in Invites, InvitationStep(i) PROVE FALSE
  BY <1>1, <1>4 DEF InvitationStep, InviteMember, InviteOwner, Revoke, Expire
<1>5. ASSUME NEW u \in Users, Claim(u) PROVE Holds(k, Cardinality(Using(k)'))
  <2> DEFINE offer == invite[reading[u]]
  <2>1. /\ offer \in InviteRows /\ CheckMember(u, offer.role, offer.seat)
        /\ member'[u] = Row(offer.role, "active", offer.scope, offer.seat)
    BY <1>5, ClaimWrites
  <2>2. \A v \in Users \ {u} : account'[v] = account[v] /\ member'[v] = member[v]
    BY <1>5, ClaimWrites DEF Claim, IInv, TypeOK
  <2>3. Takes(u, k)'
    BY <2>2, Grows DEF Using
  <2>4. /\ offer.role \in Roles \cup {"primary_admin"} /\ offer.seat \in BOOLEAN
        /\ member'[u].role = offer.role /\ member'[u].seat = offer.seat
    BY <2>1 DEF InviteRows, Row
  <2>5. Fits(k, u)
    BY <2>1, <2>3, <2>4, CheckedFits, TeamAssumption DEF Keys, Takes
  <2> QED BY <1>2, <2>2, <2>5
<1>6. ASSUME NEW a \in Users, NEW u \in Users, TransferOwner(a, u) PROVE FALSE
  BY <1>6, TransferWrites DEF Owners
<1>7. ASSUME NEW a \in Users, NEW u \in Users, Deactivate(a, u) PROVE FALSE
  <2>1. /\ member'[u] = Row(RoleOf(u), "inactive", member[u].scope, FALSE)
        /\ \A v \in Users \ {u} : account'[v] = account[v] /\ member'[v] = member[v]
    BY <1>7, DeactivateWrites DEF Deactivate
  <2>2. u \in Using(k)'
    BY <2>1, Grows
  <2> QED BY <2>1, <2>2 DEF Using, Counted, Row
<1>8. ASSUME NEW a \in Users, NEW u \in Users, Update(a, u)
      PROVE  Holds(k, Cardinality(Using(k)'))
  <2>1. PICK role \in Roles, scope \in Scopes, seat \in BOOLEAN :
            /\ member'[u] = Row(role, "active", scope, seat)
            /\ CheckMember(u, NewlyAllocated(u, role),
                           seat /\ (~member[u].seat \/ member[u].status # "active"))
    BY <1>8, UpdateWrites
  <2>2. /\ UNCHANGED account
        /\ \A v \in Users \ {u} : account'[v] = account[v] /\ member'[v] = member[v]
    BY <1>8, UpdateWrites
  <2>3. u \notin Using(k) /\ u \in Using(k)'
    BY <2>2, Grows
  <2>4. Counted(u)' /\ Takes(u, k)' /\ ~(Counted(u) /\ Takes(u, k))
    BY <2>3 DEF Using
  <2>5. member'[u].role = role /\ member'[u].seat = seat
    BY <2>1 DEF Row
  <2>6. ~(member[u].status = "active" /\ Takes(u, k))
    BY <2>2, <2>4 DEF Counted
  <2>7. Fits(k, u)
    <3>1. CASE k = "talent_seats"
      <4>1. seat /\ (~member[u].seat \/ member[u].status # "active")
        BY <2>4, <2>5, <2>6, <3>1 DEF Takes
      <4> QED BY <2>1, <3>1, <4>1 DEF CheckMember
    <3>2. CASE k = "sub_admins"
      <4>1. role = "sub_admin" /\ NewlyAllocated(u, role) = role
        BY <2>4, <2>5, <2>6, <3>2 DEF Takes, NewlyAllocated, RoleOf
      <4> QED BY <2>1, <3>2, <4>1, CheckedFits
    <3>3. CASE k = "recruiters"
      <4>1. role = "recruiter" /\ NewlyAllocated(u, role) = role
        BY <2>4, <2>5, <2>6, <3>3, TeamAssumption DEF Takes, NewlyAllocated, RoleOf
      <4> QED BY <2>1, <3>3, <4>1, CheckedFits
    <3> QED BY <3>1, <3>2, <3>3 DEF Keys
  <2> QED BY <1>2, <2>2, <2>7
<1>9. ASSUME NEW a \in Users, OwnSeat(a) PROVE Holds(k, Cardinality(Using(k)'))
  <2>1. CASE member' = member
    BY <1>1, <1>9, <2>1, OwnSeatWrites
  <2>2. CASE member' # member
    <3>1. PICK seat \in BOOLEAN :
              /\ CheckMember(a, "primary_admin", seat)
              /\ member'[a] = [member[a] EXCEPT !.seat = seat]
      BY <1>9, <2>2, OwnSeatWrites
    <3>2. UNCHANGED account /\ \A v \in Users \ {a} : member'[v] = member[v]
      BY <1>9, OwnSeatWrites
    <3>3. a \notin Using(k) /\ a \in Using(k)'
      BY <3>2, Grows
    <3>4. member[a] \in MemberRows
      BY MemberRow DEF IInv
    <3>5. /\ member'[a].role = member[a].role /\ member'[a].status = member[a].status
          /\ member'[a].seat = seat
      BY <3>1, <3>4 DEF MemberRows, NoRow, Row
    <3>6. k = "talent_seats" /\ seat
      BY <3>2, <3>3, <3>5 DEF Using, Counted, Takes, Keys
    <3>7. Fits(k, a)
      BY <3>1, <3>6 DEF CheckMember
    <3> QED BY <1>2, <3>2, <3>7
  <2> QED BY <2>1, <2>2
<1> QED BY <1>3, <1>4, <1>5, <1>6, <1>7, <1>8, <1>9, StepCases

-----------------------------------------------------------------------------
(* Invitations and seats                                                   *)

LEMMA InvitationStaysFinal ==
    ASSUME IInv, Next, NEW i \in Invites,
           invite[i].state \in {"accepted", "revoked", "expired"}
    PROVE  invite'[i] = invite[i]
<1>1. ~Pending(i) /\ invite[i] # NoInvite
  BY DEF Pending, NoInvite
<1>2. ASSUME NEW j \in Invites, InvitationStep(j) PROVE invite'[i] = invite[i]
  BY <1>1, <1>2, InvitationWritten
<1>3. ASSUME NEW u \in Users, Claim(u) PROVE invite'[i] = invite[i]
  BY <1>1, <1>3, ClaimWrites
<1> QED BY <1>2, <1>3, StepCases, AroundTeam, OwnSeatWrites, TransferWrites, DeactivateWrites,
     UpdateWrites

LEMMA SeatGiven ==
    ASSUME IInv, Next, NEW u \in Users, member'[u].seat, ~member[u].seat
    PROVE  \/ u \in Owners /\ u \in asking
           \/ \E a \in Users : Owner(a) /\ Update(a, u)
<1>1. member'[u] # member[u]
  OBVIOUS
<1>2. ~SideStep /\ ~\E i \in Invites : InvitationStep(i)
  BY <1>1, AroundTeam, InvitationWritten
<1>3. ASSUME NEW v \in Users, Claim(v) PROVE FALSE
  <2>1. v = u
    BY <1>1, <1>3, ClaimWrites
  <2>2. member[u] = NoRow
    BY <1>3, <2>1, ClaimWrites
  <2> QED BY <2>2 DEF NoRow, Row
<1>4. ASSUME NEW v \in Users, OwnSeat(v) PROVE u \in Owners /\ u \in asking
  BY <1>1, <1>4, OwnSeatWrites DEF Owners
<1>5. ASSUME NEW a \in Users, NEW v \in Users, TransferOwner(a, v) PROVE FALSE
  <2>1. /\ member'[a].seat = member[a].seat
        /\ member'[v] = Row("primary_admin", "active", "all", member[v].seat)
        /\ \A w \in Users \ {a, v} : member'[w] = member[w]
    BY <1>5, TransferWrites
  <2>2. member'[v].seat = member[v].seat
    BY <2>1 DEF Row
  <2> QED BY <1>1, <2>1, <2>2
<1>6. ASSUME NEW a \in Users, NEW v \in Users, Deactivate(a, v) PROVE FALSE
  <2>1. v = u /\ member'[v] = Row(RoleOf(v), "inactive", member[v].scope, FALSE)
    BY <1>1, <1>6, DeactivateWrites
  <2> QED BY <2>1 DEF Row
<1>7. ASSUME NEW a \in Users, NEW v \in Users, Update(a, v) PROVE Owner(a) /\ Update(a, u)
  <2>1. v = u
    BY <1>1, <1>7, UpdateWrites
  <2>2. PICK role \in Roles, scope \in Scopes, seat \in BOOLEAN :
            member'[v] = Row(role, "active", scope, seat) /\ (~Owner(a) => seat = member[v].seat)
    BY <1>7, UpdateWrites
  <2>3. member'[v].seat = seat
    BY <2>2 DEF Row
  <2> QED BY <1>7, <2>1, <2>2, <2>3
<1> QED BY <1>2, <1>3, <1>4, <1>5, <1>6, <1>7, StepCases

\* The team grows within the plan: capacity is asked for under the lock by
\* every step that takes it, an invitation admits once and never after it was
\* withdrawn, and a seat comes from an owner (overrides.go:59).
THEOREM TeamGrowth == Spec => TeamGrowsAsAllowed
<1>1. IInv /\ [Next]_vars =>
        [\A k \in Keys :
           /\ Cardinality(Using(k)') > Cardinality(Using(k))
           /\ \A u \in Users : account'[u] # account[u] => reading'[u] # reading[u]
           /\ Owners \subseteq Owners'
           => Holds(k, Cardinality(Using(k)'))]_vars
  BY GrowthStep
<1>2. IInv /\ [Next]_vars =>
        [\A i \in Invites :
           invite[i].state \in {"accepted", "revoked", "expired"} => invite'[i] = invite[i]]_vars
  BY InvitationStaysFinal
<1>3. IInv /\ [Next]_vars =>
        [\A u \in Users :
           member'[u].seat /\ ~member[u].seat =>
              \/ u \in Owners /\ u \in asking
              \/ \E a \in Users : Owner(a) /\ Update(a, u)]_vars
  BY SeatGiven
<1>4. Spec => GrowthIsChecked
  BY <1>1, TeamInvariant, PTL DEF Spec, GrowthIsChecked
<1>5. Spec => InvitationsFinal
  BY <1>2, TeamInvariant, PTL DEF Spec, InvitationsFinal
<1>6. Spec => SeatsFromOwners
  BY <1>3, TeamInvariant, PTL DEF Spec, SeatsFromOwners
<1> QED BY <1>4, <1>5, <1>6 DEF TeamGrowsAsAllowed

=============================================================================
