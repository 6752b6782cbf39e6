------------------------------ MODULE CompanyOffers ------------------------------
(***************************************************************************)
(* The offers of a company beside the templates they are prepared from.    *)
(* Both take the company's lock; no step is of the two.                    *)
(***************************************************************************)
EXTENDS OfferStudio

CONSTANTS
    \* those of OfferTemplates
    Forms, Editors, Founder, FirstGrants, GrantLists, TemplateCommands, PlanLimits, MaxVersions, MaxRevision

VARIABLES
    template, version, results, sent, seen, settings, owner, grants, plan, offers

Templates == INSTANCE OfferTemplates WITH
    Templates <- Forms, Commands <- TemplateCommands, Limits <- PlanLimits

\* A list has one row for a permission of a recruiter.
ASSUME TemplatesAssumption ==
    /\ IsFiniteSet(Forms) /\ PlanLimits \subseteq Nat
    /\ Founder \in Editors
    /\ FirstGrants \in [Editors \X Templates!Permissions -> Templates!Rules]
    /\ \A given \in GrantLists : given \subseteq Templates!Grants
    /\ \A given \in GrantLists : \A g, h \in given :
          g.user = h.user /\ g.permission = h.permission => g = h

=============================================================================
