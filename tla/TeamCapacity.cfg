CONSTANTS
    u1 = u1
    u2 = u2
    u3 = u3
    i1 = i1
    unlimited = unlimited
    Unlimited = unlimited
    Legacy <- First
    Founders <- First
    Askers <- First
    Users <- Three
    Invites <- OneInvite
    Roles <- HiringRoles
    Scopes <- OneScope
    Policies <- PaidAndFree
SPECIFICATION Spec
SYMMETRY Colleagues
PROPERTIES
    TeamGrowsAsAllowed
