CONSTANTS
    u1 = u1
    u2 = u2
    u3 = u3
    i1 = i1
    unlimited = unlimited
    Unlimited = unlimited
    Legacy <- Three
    Founders <- First
    Askers <- Nobody
    Users <- Three
    Invites <- OneInvite
    Roles <- HiringRoles
    Scopes <- TwoScopes
    Policies <- Unmanaged
SPECIFICATION Spec
SYMMETRY Colleagues
PROPERTIES
    TeamIsGoverned
