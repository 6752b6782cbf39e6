------------------------------ MODULE MCCompanyTeam ------------------------------
\* Instances of CompanyTeam: a legacy recruiter and two colleagues to come, or
\* three legacy recruiters.
EXTENDS CompanyTeam, TLC

CONSTANTS u1, u2, u3, i1, unlimited

Three == {u1, u2, u3}
First == {u1}
Nobody == {}

\* No constant tells the two others apart.
Colleagues == Permutations({u2, u3})
OneInvite == {i1}

OneScope == {"all"}
TwoScopes == {"all", "some"}

HiringRoles == {"sub_admin", "recruiter"}

Caps(r, s, t) == [k \in Keys |-> CASE k = "recruiters" -> r [] k = "sub_admins" -> s [] OTHER -> t]

\* A paid plan and what remains of it on the free plan.
PaidAndFree == {<<Caps(2, 1, 2), TRUE>>, <<Caps(1, 0, 0), FALSE>>}
Unmanaged == {<<Caps(Unlimited, Unlimited, Unlimited), TRUE>>}

=============================================================================
