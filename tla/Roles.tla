-------------------------------- MODULE Roles --------------------------------
(***************************************************************************)
(* Who may do what: roles granted platform-wide, for an organization or    *)
(* for one election; the check of a permission on an object, the list of   *)
(* the elections and organizations a permission reaches, and the team page *)
(* that grants and revokes roles.                                          *)
(*                                                                         *)
(* Grain of atomicity.  A grant looks for the row and then creates it, and *)
(* the unique constraint does not bind rows without an election; a         *)
(* revocation counts the administrators and then deletes.  "orderly" tells *)
(* whether the requests wait for each other.                               *)
(***************************************************************************)
EXTENDS Naturals, FiniteSets

CONSTANTS
    Users,
    PlatformStaff, \* is_staff or is_superuser
    Everywhere,    \* no organization, no election (NULL)
    Orgs, Events,
    Owner,         \* event -> its organization, or Everywhere
    Organizer,     \* event -> the user who organizes it
    FirstOrg,      \* the organization that exists to begin with ...
    FirstAdmin,    \* ... and its administrator
    Grantable,     \* the roles granted
    Rows           \* the rows the table of assignments may hold

(* ROLE_DEFINITIONS and ORGANIZER_PERMISSIONS, on a few permissions that     *)
(* tell the roles apart.                                                     *)
Permissions == {"election.view", "results.tally", "approval.decide", "org.manage", "platform.admin"}
RolePermissions ==
    [SUPER_ADMIN       |-> Permissions,
     ORG_ADMIN         |-> Permissions \ {"platform.admin"},
     ELECTION_ADMIN    |-> {"election.view", "results.tally"},
     ELECTION_REVIEWER |-> {"election.view", "approval.decide"},
     VOTER             |-> {}]
RoleCodes == DOMAIN RolePermissions
OrganizerPermissions == RolePermissions["ELECTION_ADMIN"]

ASSUME RolesAssumption ==
    /\ Everywhere \notin Orgs \cup Events
    /\ Owner \in [Events -> Orgs \cup {Everywhere}] /\ Organizer \in [Events -> Users]
    /\ FirstOrg \in Orgs /\ FirstAdmin \in Users
    /\ Rows \subseteq Nat /\ 1 \in Rows
    /\ Grantable \subseteq RoleCodes

VARIABLES
    orderly,   \* requests do not overlap
    orgs,      \* the organizations that exist
    rows,      \* the table of assignments
    task       \* what each user's request does next

rolesVars == <<orderly, orgs, rows, task>>

Grant == [user : Users, role : RoleCodes, org : Orgs \cup {Everywhere}, event : Events \cup {Everywhere}]
NoRow == [user |-> Everywhere]
Waiting == [op |-> "waiting"]

AdminOf(o, u) == [user |-> u, role |-> "ORG_ADMIN", org |-> o, event |-> Everywhere]

(* The row inserted next; ids are given in order.                            *)
Insert(g) == \E i \in Rows : /\ rows[i] = NoRow /\ \A j \in Rows : rows[j] = NoRow => i <= j
                             /\ rows' = [rows EXCEPT ![i] = g]

Assignments == {rows[i] : i \in {j \in Rows : rows[j] # NoRow}}
Admins(o) == {i \in Rows : rows[i] # NoRow /\ rows[i].role = "ORG_ADMIN"
                           /\ rows[i].org = o /\ rows[i].event = Everywhere}

-----------------------------------------------------------------------------
(* core.rbac *)

(* user_permissions on an election ...                                       *)
OnEvent(u, e) ==
    IF u \in PlatformStaff THEN Permissions
    ELSE UNION ({RolePermissions[a.role] : a \in {b \in Assignments : b.user = u
                    /\ \/ b.org = Everywhere /\ b.event = Everywhere
                       \/ b.event = e
                       \/ b.event = Everywhere /\ b.org = Owner[e] /\ b.org # Everywhere}}
                \cup {IF Organizer[e] = u THEN OrganizerPermissions ELSE {}})

(* ... and on an organization.                                               *)
OnOrg(u, o) ==
    IF u \in PlatformStaff THEN Permissions
    ELSE UNION {RolePermissions[a.role] : a \in {b \in Assignments : b.user = u
                    /\ b.event = Everywhere /\ b.org \in {o, Everywhere}}}

(* events_for_user: the scopes are collected first, then the elections in    *)
(* them selected.                                                            *)
EventsFor(u, p) ==
    LET granted == {a \in Assignments : a.user = u /\ p \in RolePermissions[a.role]}
        platform == \E a \in granted : a.org = Everywhere /\ a.event = Everywhere
        eventIds == {a.event : a \in granted} \ {Everywhere}
        orgIds == {a.org : a \in {b \in granted : b.event = Everywhere}} \ {Everywhere}
    IN IF u \in PlatformStaff \/ platform THEN Events
       ELSE {e \in Events : \/ Owner[e] \in orgIds
                            \/ e \in eventIds
                            \/ p \in OrganizerPermissions /\ Organizer[e] = u}

(* organizations_for_user: platform-wide roles are not looked at.            *)
OrgsFor(u, p) ==
    IF u \in PlatformStaff THEN orgs
    ELSE {a.org : a \in {b \in Assignments : b.user = u /\ b.event = Everywhere
                                             /\ p \in RolePermissions[b.role]}} \cap orgs

-----------------------------------------------------------------------------
(* The team page: what is allowed is checked on loaded assignments.          *)

RolesInit ==
    /\ orderly \in BOOLEAN
    /\ orgs = {FirstOrg}
    /\ rows = [i \in Rows |-> IF i = 1 THEN AdminOf(FirstOrg, FirstAdmin) ELSE NoRow]
    /\ task = [u \in Users |-> Waiting]

Available(u) == task[u] = Waiting /\ (orderly => \A v \in Users : task[v] = Waiting)
Finished(u) == task' = [task EXCEPT ![u] = Waiting]

(* team: SUPER_ADMIN is never granted; an election must be the               *)
(* organization's own. grant_role: get_or_create finds no such row ...       *)
GrantLookup(u, g) ==
    /\ Available(u)
    /\ g.org \in orgs /\ "org.manage" \in OnOrg(u, g.org)
    /\ g.role # "SUPER_ADMIN"
    /\ g.event # Everywhere => Owner[g.event] = g.org
    /\ g \notin Assignments
    /\ task' = [task EXCEPT ![u] = [op |-> "create", grant |-> g]]
    /\ UNCHANGED <<orderly, orgs, rows>>

(* ... and creates it; the constraint binds rows with an election.           *)
GrantCreate(u) ==
    /\ task[u].op = "create"
    /\ IF task[u].grant.event # Everywhere /\ task[u].grant \in Assignments
       THEN UNCHANGED rows
       ELSE Insert(task[u].grant)
    /\ Finished(u)
    /\ UNCHANGED <<orderly, orgs>>

(* Mutant of LastAdmin: rows of one election count as administrators.        *)
LastAdminAnyScope(g) ==
    g.role = "ORG_ADMIN" /\ Cardinality({i \in Rows : rows[i] # NoRow /\ rows[i].role = "ORG_ADMIN"
                                                      /\ rows[i].org = g.org}) <= 1

(* revoke_role: "An organization must keep at least one Organization Admin." *)
LastAdmin(g) == g.role = "ORG_ADMIN" /\ Cardinality(Admins(g.org)) <= 1

RevokeCheck(u, i) ==
    /\ Available(u)
    /\ rows[i] # NoRow
    /\ rows[i].org \in orgs /\ "org.manage" \in OnOrg(u, rows[i].org)
    /\ ~LastAdmin(rows[i])
    /\ task' = [task EXCEPT ![u] = [op |-> "delete", row |-> i]]
    /\ UNCHANGED <<orderly, orgs, rows>>

RevokeDelete(u) ==
    /\ task[u].op = "delete"
    /\ rows' = [rows EXCEPT ![task[u].row] = NoRow]
    /\ Finished(u)
    /\ UNCHANGED <<orderly, orgs>>

(* ensure_personal_organization: an organizer who administers none gets one, *)
(* with the role, in one transaction.                                        *)
PersonalLookup(u) ==
    /\ Available(u)
    /\ ~\E a \in Assignments : a.user = u /\ a.role = "ORG_ADMIN" /\ a.org # Everywhere /\ a.event = Everywhere
    /\ task' = [task EXCEPT ![u] = [op |-> "personal"]]
    /\ UNCHANGED <<orderly, orgs, rows>>

PersonalCreate(u) ==
    /\ task[u].op = "personal"
    /\ \E o \in Orgs \ orgs : orgs' = orgs \cup {o} /\ Insert(AdminOf(o, u))
    /\ Finished(u)
    /\ UNCHANGED orderly

Refused(u) ==
    /\ task[u] # Waiting
    /\ Finished(u)
    /\ UNCHANGED <<orderly, orgs, rows>>

RolesNext ==
    \E u \in Users :
        \/ \E v \in Users, role \in Grantable, o \in Orgs, e \in Events \cup {Everywhere} :
              GrantLookup(u, [user |-> v, role |-> role, org |-> o, event |-> e])
        \/ GrantCreate(u) \/ RevokeDelete(u) \/ PersonalLookup(u) \/ PersonalCreate(u) \/ Refused(u)
        \/ \E i \in Rows : RevokeCheck(u, i)

RolesSpec == RolesInit /\ [][RolesNext]_rolesVars

-----------------------------------------------------------------------------
(* Correctness. *)

RolesTypeOK ==
    /\ orderly \in BOOLEAN
    /\ orgs \subseteq Orgs
    /\ rows \in [Rows -> Grant \cup {NoRow}]
    /\ DOMAIN task = Users

(* events_for_user and has_perm are written separately and must agree: the   *)
(* elections listed for a permission are those on which it is granted. The   *)
(* organizations listed are among those on which it is.                      *)
ListsAgree ==
    \A u \in Users, p \in Permissions :
        /\ EventsFor(u, p) = {e \in Events : p \in OnEvent(u, e)}
        /\ OrgsFor(u, p) \subseteq {o \in Orgs : p \in OnOrg(u, o)}

(* revoke_role: "An organization must keep at least one Organization Admin", *)
(* when requests do not overlap; and the team pages never make anybody an    *)
(* administrator of the platform.                                            *)
AdminsRemain ==
    /\ orderly => \A o \in orgs : Admins(o) # {}
    /\ \A u \in Users \ PlatformStaff, e \in Events : "platform.admin" \notin OnEvent(u, e)

(* Both hold after every grant and every revocation, of whatever scope and   *)
(* in whatever order: lists and checks agree, and administrators remain.     *)
RolesHold == [][rows' # rows => (ListsAgree /\ AdminsRemain)']_rolesVars
=============================================================================
