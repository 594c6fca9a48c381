------------------------------- MODULE Access -------------------------------
(***************************************************************************)
(* Organizations, members, roles, service accounts and API keys: who a     *)
(* request acts for (security.py, api/dependencies.py) and what the        *)
(* administration routes change (api/admin_routes.py, administration.py).  *)
(*                                                                         *)
(* A request is bound to an organization and its permissions are read when *)
(* it starts; what it changes is committed later, so requests overlap.     *)
(* A role is <<organization, name>>, a service account likewise.           *)
(***************************************************************************)
EXTENDS Naturals, FiniteSets

CONSTANTS
  Org,          \* organizations, provisioned or not
  Home,         \* the organization of the bootstrapped administrator
  Person, Root, \* usernames, and the bootstrapped platform administrator
  Client,       \* requests under way
  SystemRole,   \* the built-in roles: name -> permission codes
  CustomRole,   \* names of roles an organization may add
  CodeSets,     \* the sets of codes such a role is given
  MaxWanted,    \* bound on the roles a request gives
  Key,          \* API keys
  SettingKey,   \* the keys of ALLOWED_SETTING_KEYS
  MaxChanges    \* bound on the committed changes

ASSUME HomeAssumption == Home \in Org /\ Root \in Person

Code == UNION {SystemRole[n] : n \in DOMAIN SystemRole}
RoleName == DOMAIN SystemRole \cup CustomRole

VARIABLES
  orgs,         \* the provisioned organizations
  roles,        \* the roles there are: a partial function role -> codes
  members,      \* the memberships: <<organization, person>> -> row
  keys,         \* the issued API keys: key -> [org, revoked]
  settings,     \* the settings there are, as <<scope, key>>
  request,      \* Client -> the request it makes
  changes

accessVars == <<orgs, roles, members, keys, settings, request, changes>>

\* The rows of membership_roles, each with the change that inserted it, what
\* the last update asked for, and whether that update overlapped another one.
Stamped(given, n) == {<<x, n>> : x \in given}
Granted(member) == {r[1] : r \in member.roles}
Member(given, n) ==
  [active |-> TRUE, roles |-> Stamped(given, n), asked |-> given, raced |-> FALSE]

None == [pc |-> "none", org |-> Home, admin |-> FALSE, codes |-> {}, target |-> {},
         asked |-> {}, seen |-> {}]

\* provision_organization
SystemRolesOf(o) == [x \in {<<o, n>> : n \in DOMAIN SystemRole} |-> SystemRole[x[2]]]

Extend(f, g) == [x \in DOMAIN f \cup DOMAIN g |-> IF x \in DOMAIN g THEN g[x] ELSE f[x]]
Put(f, x, v) == Extend(f, [y \in {x} |-> v])

-----------------------------------------------------------------------------
(* Authentication and binding *)

Bound(o, admin, codes) ==
  [None EXCEPT !.pc = "bound", !.org = o, !.admin = admin, !.codes = codes]

\* bind_organization for a user: a platform administrator may do everything, a
\* member what its roles grant.
CodesOf(o, p) == UNION {roles[x] : x \in Granted(members[<<o, p>>])}

BindUser(c, p, o) ==
  /\ request[c] = None /\ o \in orgs
  /\ \/ p = Root /\ request' = [request EXCEPT ![c] = Bound(o, TRUE, Code)]
     \/ /\ p # Root /\ <<o, p>> \in DOMAIN members /\ members[<<o, p>>].active
        /\ request' = [request EXCEPT ![c] = Bound(o, FALSE, CodesOf(o, p))]
  /\ UNCHANGED <<orgs, roles, members, keys, settings, changes>>

\* A service account acts in its own organization only, with every permission.
BindKey(c, k) ==
  /\ request[c] = None
  /\ k \in DOMAIN keys /\ ~ keys[k].revoked
  /\ request' = [request EXCEPT ![c] = Bound(keys[k].org, FALSE, Code)]
  /\ UNCHANGED <<orgs, roles, members, keys, settings, changes>>

May(c, code) == request[c].pc = "bound" /\ (request[c].admin \/ code \in request[c].codes)

\* A refused request, or one that changes nothing.
Reject(c) ==
  /\ request[c].pc = "bound"
  /\ request' = [request EXCEPT ![c] = None]
  /\ UNCHANGED <<orgs, roles, members, keys, settings, changes>>

Done(c) ==
  /\ changes < MaxChanges
  /\ changes' = changes + 1
  /\ request' = [request EXCEPT ![c] = None]

-----------------------------------------------------------------------------
(* Rows that are added *)

PostOrganization(c, o) ==
  /\ request[c].pc = "bound" /\ request[c].admin /\ o \notin orgs
  /\ orgs' = orgs \cup {o}
  /\ roles' = Extend(roles, SystemRolesOf(o))
  /\ Done(c)
  /\ UNCHANGED <<members, keys, settings>>

\* The roles that are given must be of the organization; without any, Viewer.
OwnRoles(c, wanted) == wanted \subseteq {x \in DOMAIN roles : x[1] = request[c].org}

\* A member is a new user: usernames are unique over all organizations.
PostMember(c, p, wanted) ==
  /\ May(c, "member:manage") /\ OwnRoles(c, wanted)
  /\ \A m \in DOMAIN members : m[2] # p
  /\ members' = Put(members, <<request[c].org, p>>,
                    Member(IF wanted = {} THEN {<<request[c].org, "Viewer">>} ELSE wanted,
                           changes + 1))
  /\ Done(c)
  /\ UNCHANGED <<orgs, roles, keys, settings>>

PostRole(c, n, codes) ==
  /\ May(c, "role:manage") /\ <<request[c].org, n>> \notin DOMAIN roles
  /\ roles' = Put(roles, <<request[c].org, n>>, codes)
  /\ Done(c)
  /\ UNCHANGED <<orgs, members, keys, settings>>

\* post_service_account and post_api_key: a key of a new account.
PostKey(c, k) ==
  /\ May(c, "service_account:manage") /\ k \notin DOMAIN keys
  /\ keys' = Put(keys, k, [org |-> request[c].org, revoked |-> FALSE])
  /\ Done(c)
  /\ UNCHANGED <<orgs, roles, members, settings>>

PutSetting(c, key) ==
  /\ May(c, "setting:manage")
  /\ settings' = settings \cup {<<request[c].org, key>>}
  /\ Done(c)
  /\ UNCHANGED <<orgs, roles, members, keys>>

-----------------------------------------------------------------------------
(* Rows that are changed: every handler looks the row up in the organization *)
(* of the request                                                            *)

RevokeKey(c, k) ==
  /\ May(c, "service_account:manage")
  /\ k \in DOMAIN keys /\ keys[k].org = request[c].org
  /\ keys' = [keys EXCEPT ![k].revoked = TRUE]
  /\ Done(c)
  /\ UNCHANGED <<orgs, roles, members, settings>>

FoundMemberMutant(c, m) == m \in DOMAIN members

FoundMember(c, m) == m \in DOMAIN members /\ m[1] = request[c].org

PatchActive(c, m) ==
  /\ May(c, "member:manage") /\ FoundMember(c, m)
  /\ members' = [members EXCEPT ![m].active = ~ @]
  /\ Done(c)
  /\ UNCHANGED <<orgs, roles, keys, settings>>

\* The DELETE of patch_member removes the roles it sees; the new ones are
\* inserted when the transaction commits.
PatchRolesExecutes(c, m, wanted) ==
  /\ May(c, "member:manage") /\ FoundMember(c, m) /\ OwnRoles(c, wanted)
  /\ request' = [request EXCEPT ![c] = [@ EXCEPT !.pc = "executed", !.target = {m},
                                                 !.asked = wanted, !.seen = members[m].roles]]
  /\ UNCHANGED <<orgs, roles, members, keys, settings, changes>>

ReplacedMutant(old, seen, new) == old \cup new

Replaced(old, seen, new) == (old \ seen) \cup new

Unseen(c, m) == members[m].roles \ request[c].seen
Twice(c, m) == request[c].asked \cap {r[1] : r \in Unseen(c, m)}

PatchRolesCommits(c) ==
  /\ request[c].pc = "executed"
  /\ \E m \in request[c].target :
       /\ Twice(c, m) = {}
       /\ members' = [members EXCEPT
            ![m].roles = Replaced(@, request[c].seen, Stamped(request[c].asked, changes + 1)),
            ![m].asked = request[c].asked,
            ![m].raced = Unseen(c, m) # {}]
  /\ Done(c)
  /\ UNCHANGED <<orgs, roles, keys, settings>>

\* A role that both updates give is inserted twice: the second one fails.
PatchRolesFails(c) ==
  /\ request[c].pc = "executed"
  /\ \E m \in request[c].target : Twice(c, m) # {}
  /\ request' = [request EXCEPT ![c] = None]
  /\ UNCHANGED <<orgs, roles, members, keys, settings, changes>>

\* System roles are immutable.  The permissions of another are replaced like
\* the roles of a member: a DELETE, and INSERTs until the commit.
PatchRoleExecutes(c, n, codes) ==
  LET role == <<request[c].org, n>> IN
  /\ May(c, "role:manage")
  /\ n \notin DOMAIN SystemRole /\ role \in DOMAIN roles
  /\ request' = [request EXCEPT ![c] = [@ EXCEPT !.pc = "deleted", !.target = {role},
                                                 !.asked = codes, !.seen = roles[role]]]
  /\ UNCHANGED <<orgs, roles, members, keys, settings, changes>>

\* The commit takes the rows it deleted from under the other requests.
PatchRoleCommits(c) ==
  /\ request[c].pc = "deleted" /\ changes < MaxChanges
  /\ \E x \in request[c].target :
       /\ request[c].asked \cap (roles[x] \ request[c].seen) = {}
       /\ roles' = [roles EXCEPT ![x] = (@ \ request[c].seen) \cup request[c].asked]
  /\ request' = [d \in Client |->
       IF d = c THEN None
       ELSE IF request[d].pc = "deleted" /\ request[d].target = request[c].target
         THEN [request[d] EXCEPT !.seen = @ \ request[c].seen]
         ELSE request[d]]
  /\ changes' = changes + 1
  /\ UNCHANGED <<orgs, members, keys, settings>>

\* Both give a permission: the second INSERT violates the primary key.
PatchRoleFails(c) ==
  /\ request[c].pc = "deleted"
  /\ \E x \in request[c].target : request[c].asked \cap (roles[x] \ request[c].seen) # {}
  /\ request' = [request EXCEPT ![c] = None]
  /\ UNCHANGED <<orgs, roles, members, keys, settings, changes>>

-----------------------------------------------------------------------------
\* bootstrap_platform_admin
AccessInit ==
  /\ orgs = {Home}
  /\ roles = SystemRolesOf(Home)
  /\ members = [m \in {<<Home, Root>>} |-> Member({<<Home, "Administrator">>}, 0)]
  /\ keys = [k \in {} |-> [org |-> Home, revoked |-> FALSE]]
  /\ settings = {} /\ request = [c \in Client |-> None] /\ changes = 0

Wanted == {w \in SUBSET DOMAIN roles : Cardinality(w) <= MaxWanted}

Adds(c) ==
  \/ \E o \in Org : PostOrganization(c, o)
  \/ \E p \in Person : \E wanted \in Wanted : PostMember(c, p, wanted)
  \/ \E n \in CustomRole : \E codes \in CodeSets : PostRole(c, n, codes)
  \/ \E k \in Key : PostKey(c, k)
  \/ \E key \in SettingKey : PutSetting(c, key)

Changes(c) ==
  \/ \E k \in Key : RevokeKey(c, k)
  \/ \E m \in DOMAIN members :
       \/ PatchActive(c, m)
       \/ \E wanted \in Wanted : PatchRolesExecutes(c, m, wanted)
  \/ PatchRolesCommits(c) \/ PatchRolesFails(c)
  \/ \E n \in RoleName : \E codes \in CodeSets : PatchRoleExecutes(c, n, codes)
  \/ PatchRoleCommits(c) \/ PatchRoleFails(c)

AccessNext ==
  \E c \in Client :
    \/ \E p \in Person, o \in Org : BindUser(c, p, o)
    \/ \E k \in Key : BindKey(c, k)
    \/ Reject(c) \/ Adds(c) \/ Changes(c)

AccessSpec == AccessInit /\ [][AccessNext]_accessVars

-----------------------------------------------------------------------------
(* Properties *)

\* What an organization owns.
Of(o) ==
  <<{<<x, roles[x]>> : x \in {y \in DOMAIN roles : y[1] = o}},
    {<<m, members[m]>> : m \in {n \in DOMAIN members : n[1] = o}},
    {<<k, keys[k]>> : k \in {j \in DOMAIN keys : keys[j].org = o}},
    {s \in settings : s[1] = o}>>

\* Requests of different organizations do not reach each other: what an
\* organization owns changes only by a request that was bound to it, or when a
\* platform administrator provisions it; and a role of another organization
\* never grants anything in it.
TenantsApart ==
  [][\A o \in Org : Of(o)' # Of(o) =>
       \E c \in Client : request[c] # None /\ request'[c] = None
                         /\ (request[c].org = o \/ o \notin orgs)]_accessVars

\* The roles of a member are those the last update asked for, unless two
\* updates of it overlapped.
RolesAsAsked ==
  \A m \in DOMAIN members :
    /\ Granted(members[m]) = members[m].asked \/ members[m].raced
    /\ \A x \in Granted(members[m]) : x[1] = m[1]
=============================================================================
