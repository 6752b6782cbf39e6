----------------------------- MODULE OfferTemplates -----------------------------
(***************************************************************************)
(* The templates of a company's offers and the settings of its approvals   *)
(* (recruiter/offer_templates.go).  A template is a list of versions that  *)
(* are never changed; its editors save new ones, or archive it, from       *)
(* windows that may be old, and a command whose answer was lost is sent    *)
(* again.  Recruiters prepare offers from what is published.  Permissions  *)
(* are defaults of one's role, which rows that the owner writes override;  *)
(* ownership passes on (company/workspace.go), the rows stay.  Every       *)
(* command holds the company's lock: each is one step.                     *)
(***************************************************************************)
EXTENDS FiniteSets, Integers, Sequences

CONSTANTS
    Templates,      \* rows of offer_templates
    Editors,        \* recruiters
    Founder,        \* the owner at first
    FirstGrants,    \* [Editors \X Permissions -> Rules]: what he has given before
    GrantLists,     \* sets of Grants that a saving of the settings may carry
    Commands,       \* an editor and a command key: \subseteq Editors \X Keys
    Limits,         \* templates a plan may allow
    MaxVersions,    \* bound: versions of a template
    MaxRevision,    \* bound: revisions of the settings
    None

VARIABLES
    template, \* [Templates -> "none", "live" or "archived"]
    version,  \* [Templates -> sequence of rows of offer_template_versions]
    results,  \* offer_command_results: the commands that have been executed
    sent,     \* [Commands -> the request with that key]
    seen,     \* [Editors -> number of versions of each template, and the revision, in the window]
    settings, \* revision of company_offer_settings
    owner,    \* the primary_admin of company_memberships
    grants,   \* company_offer_permissions: [Editors \X Permissions -> Rules]
    plan,     \* what the company's plan allows: [templates, limit]
    offers    \* offers and the version each was prepared from

vars == <<template, version, results, sent, seen, settings, owner, grants, plan, offers>>

\* offer.manage_templates, manage_approval_policy and view_compensation.
Permissions == {"templates", "policy", "compensation"}
Rules == {"default", "allowed", "denied"}
Grants == [user : Editors, permission : Permissions, rule : {"allowed", "denied"}]

Live(t) == template[t] = "live"
Current(t) == Len(version[t])

Init ==
    /\ template = [t \in Templates |-> "none"] /\ version = [t \in Templates |-> <<>>]
    /\ results = {} /\ sent = [c \in Commands |-> None]
    /\ seen = [e \in Editors |-> [rows |-> [t \in Templates |-> 0], revision |-> 0]]
    /\ settings = 1 /\ owner = Founder /\ grants = FirstGrants
    /\ plan \in [templates : {TRUE}, limit : Limits]
    /\ offers = {}

\* defaultOfferPermissions: the owner has all of them, a recruiter sees what is paid.
ByRole(e, p) == e = owner \/ p = "compensation"

\* offerPermission: a row goes before the role, the owner's too.
May(e, p) ==
    \/ grants[<<e, p>>] = "allowed"
    \/ grants[<<e, p>>] = "default" /\ ByRole(e, p)

MayEdit(e) == May(e, "templates") /\ May(e, "compensation")
MayGovern(e) == May(e, "policy") /\ May(e, "compensation")

-----------------------------------------------------------------------------
\* The plan of the company is another one.
SetPlan ==
    /\ plan' \in [templates : BOOLEAN, limit : Limits]
    /\ UNCHANGED <<template, version, results, sent, seen, settings, owner, grants, offers>>

\* Templates and Settings: an editor's window shows what he may edit.
Open(e) ==
    /\ seen' = [seen EXCEPT ![e] =
          [rows |-> [t \in Templates |->
                       IF Live(t) /\ MayEdit(e) THEN Current(t) ELSE 0],
           revision |-> IF MayGovern(e) THEN settings ELSE 0]]
    /\ UNCHANGED <<template, version, results, sent, settings, owner, grants, plan, offers>>

\* The window sends a command with a key of its own; it may send it again.
Send(c, request) ==
    /\ sent[c] = None
    /\ sent' = [sent EXCEPT ![c] = request]
    /\ UNCHANGED <<template, version, results, seen, settings, owner, grants, plan, offers>>

Requests(e) ==
    [action : {"create"}, status : {"draft", "published"}]
    \cup {[action |-> "save", template |-> t, expected |-> seen[e].rows[t], status |-> s] :
            t \in {t \in Templates : seen[e].rows[t] > 0}, s \in {"draft", "published"}}
    \cup {[action |-> "archive", template |-> t, expected |-> seen[e].rows[t]] :
            t \in {t \in Templates : seen[e].rows[t] > 0}}

\* Mutant: an answered command is executed once more.
FreshAlways(c) == TRUE

\* A command that was executed is answered from its result.
Fresh(c) == c \notin results

Permitted(c, action) ==
    /\ sent[c] # None /\ sent[c].action = action
    /\ MayEdit(c[1])
    /\ action # "archive" => plan.templates

Row(c) == [status |-> sent[c].status, by |-> c]

Executed(c) ==
    /\ results' = results \cup {c}
    /\ UNCHANGED <<sent, seen, settings, owner, grants, plan, offers>>

\* Mutant: the plan's limit is not asked.
RoomAlways(n) == TRUE

\* offerQuota: the templates in use.
Room(n) == Cardinality({t \in Templates : Live(t)}) + n <= plan.limit

\* SaveTemplate, without a template.
CreateTemplate(c) ==
    /\ Permitted(c, "create") /\ Fresh(c) /\ Room(1)
    /\ \E t \in Templates : template[t] = "none"
    /\ LET t == CHOOSE t \in Templates : template[t] = "none" IN
        /\ template' = [template EXCEPT ![t] = "live"]
        /\ version' = [version EXCEPT ![t] = <<Row(c)>>]
    /\ Executed(c)

\* Mutant: whoever saves last wins.
UpToDateAlways(t, expected) == Live(t)

\* The window shows the latest version of a template in use.
UpToDate(t, expected) == Live(t) /\ Current(t) = expected

SaveTemplate(c) ==
    /\ Permitted(c, "save") /\ Fresh(c)
    /\ LET t == sent[c].template IN
        /\ UpToDate(t, sent[c].expected) /\ Current(t) < MaxVersions
        /\ version' = [version EXCEPT ![t] = Append(@, Row(c))]
    /\ UNCHANGED template
    /\ Executed(c)

ArchiveTemplate(c) ==
    /\ Permitted(c, "archive") /\ Fresh(c)
    /\ UpToDate(sent[c].template, sent[c].expected)
    /\ template' = [template EXCEPT ![sent[c].template] = "archived"]
    /\ UNCHANGED version
    /\ Executed(c)

\* Mutant: he who gives permissions may take any.
KeepsOwnNever(e, given) == TRUE

\* Nobody takes the policy from himself.
KeepsOwn(e, given) == [user |-> e, permission |-> "policy", rule |-> "denied"] \notin given

\* SaveSettings: whoever governs the policy changes it; the owner permissions with it.
SaveSettings(e, given) ==
    /\ MayGovern(e)
    /\ given # {} => e = owner /\ KeepsOwn(e, given)
    /\ seen[e].revision = settings /\ settings < MaxRevision
    /\ settings' = settings + 1
    /\ grants' = [x \in Editors \X Permissions |->
          IF \E g \in given : <<g.user, g.permission>> = x
          THEN (CHOOSE g \in given : <<g.user, g.permission>> = x).rule ELSE grants[x]]
    /\ seen' = [seen EXCEPT ![e].revision = settings + 1]
    /\ UNCHANGED <<template, version, results, sent, owner, plan, offers>>

\* ChangeMember, "transfer_owner": the permissions of both stay as they are.
TransferOwner(e) ==
    /\ e # owner
    /\ owner' = e
    /\ UNCHANGED <<template, version, results, sent, seen, settings, grants, plan, offers>>

\* Mutant: the latest version is offered, published or not.
OfferedAny(t, n) == Live(t)

\* The versions an offer may be prepared from.
Offered(t, n) == Live(t) /\ version[t][n].status = "published"

\* Save of an offer (offer_store.go).
PrepareOffer(t, n) ==
    /\ Offered(t, n) /\ plan.templates
    /\ offers' = offers \cup {<<t, n>>}
    /\ UNCHANGED <<template, version, results, sent, seen, settings, owner, grants, plan>>

-----------------------------------------------------------------------------
Next ==
    \/ SetPlan
    \/ \E e \in Editors :
          \/ Open(e) \/ TransferOwner(e)
          \/ \E given \in GrantLists : SaveSettings(e, given)
    \/ \E c \in Commands :
          \/ \E request \in Requests(c[1]) : Send(c, request)
          \/ CreateTemplate(c) \/ SaveTemplate(c) \/ ArchiveTemplate(c)
    \/ \E t \in Templates, n \in 1 .. MaxVersions : n <= Current(t) /\ PrepareOffer(t, n)

Spec == Init /\ [][Next]_vars

-----------------------------------------------------------------------------
Rows == UNION {{<<t, n>> : n \in 1 .. Current(t)} : t \in Templates}
MadeBy(r) == version[r[1]][r[2]].by

\* A command that is sent again makes no second version.
OneEffect == \A r, s \in Rows : MadeBy(r) = MadeBy(s) => r = s

\* An editor replaces only the version he has read: nobody's work is lost unseen.
NothingUnseen ==
    \A r \in Rows : LET request == sent[MadeBy(r)] IN
        r[2] > 1 => request.template = r[1] /\ request.expected = r[2] - 1

\* The version recruiters are shown, while an editor prepares the next.
Shown(t) ==
    {n \in 1 .. Current(t) : Live(t) /\ version[t][n].status = "published"
        /\ \A k \in n + 1 .. Current(t) : version[t][k].status # "published"}

\* Versions and their offers stay; a draft changes nothing for recruiters; what is archived
\* is over; and templates become more only within the plan of the moment.
History ==
    /\ \A t \in Templates :
          /\ SubSeq(version'[t], 1, Current(t)) = version[t]
          /\ Shown(t)' # Shown(t) =>
                template'[t] = "archived" \/ version'[t][Current(t) + 1].status = "published"
          /\ template[t] = "archived" => version'[t] = version[t] /\ template'[t] = "archived"
    /\ \A o \in offers' \ offers : Live(o[1]) /\ o[2] \in 1 .. Current(o[1])
    /\ LET live == {t \in Templates : Live(t)} IN
        Cardinality(live') > Cardinality(live) => plan.templates /\ Cardinality(live') <= plan.limit

\* An offer rests on a version somebody has published.
Published == \A o \in offers : version[o[1]][o[2]].status = "published"

\* Whoever owns the company and may change the policy may do so until another owns it.
\* Ownership is all that keeps it: the next owner's row may say no.
OwnerKeepsPolicy == owner' = owner /\ May(owner, "policy") => May(owner, "policy")'

AllKept == OneEffect' /\ NothingUnseen' /\ Published' /\ History /\ OwnerKeepsPolicy
TemplatesAreKept == [][AllKept]_vars

=============================================================================
