------------------------------- MODULE Access -------------------------------
(***************************************************************************)
(* Who may do what: employees with roles, roles with permissions, devices  *)
(* with a token, and requests that are checked while all of it changes.    *)
(*   apps/api/src/auth (AuthService, AuthGuard, PermissionsGuard)          *)
(*   apps/api/src/users, apps/api/src/devices                              *)
(*   apps/admin/app/AdminApp.tsx, pages/organisation.tsx                   *)
(*                                                                         *)
(* One employee, one device.  Rows of a role's permissions carry the save  *)
(* that inserted them: a transaction deletes the rows it sees, not the     *)
(* ones another inserts meanwhile (READ COMMITTED).                        *)
(***************************************************************************)
EXTENDS Integers, Sequences, FiniteSets

CONSTANTS
  Roles, Perms,
  Seed,           \* the permissions of each role before anyone saves
  MaxSaves        \* bound: roles, users and devices saved and tokens issued, together

ASSUME AccessAssumption == MaxSaves \in Nat /\ Seed \in [Roles -> SUBSET Perms]

VARIABLES
  user,       \* the employee's row and roles
  grants,     \* the permission rows of each role
  roleSave,   \* the two transactions that save roles
  device,     \* the device's row: active and the hash of its token
  rotation,   \* the two requests that issue a token
  me,         \* the permissions that the employee's page has loaded
  held,       \* the token that the device was given
  request,    \* a request of the employee or the device
  saves,
  log         \* history: the committed saves of each role, the first is the seed

accessVars == <<user, grants, roleSave, device, rotation, me, held, request, saves, log>>

-----------------------------------------------------------------------------
Savers == 1 .. 2

NoSave     == [phase |-> "idle", role |-> "", perms |-> {}, rows |-> {}, after |-> 0, n |-> 0]
NoRotation == [phase |-> "idle", token |-> 0]
NoRequest  == [phase |-> "idle"]

PermsOf(role) == {row[1] : row \in grants[role]}

AccessInit ==
  /\ user = [active |-> TRUE, roles |-> Roles]
  /\ grants = [r \in Roles |-> Seed[r] \X {1}]
  /\ log = [r \in Roles |-> <<[perms |-> Seed[r], after |-> 0]>>]
  /\ roleSave = [s \in Savers |-> NoSave]
  /\ device = [active |-> TRUE, hash |-> 0]      \* "pending": created, no token yet
  /\ rotation = [s \in Savers |-> NoRotation]
  /\ me = {} /\ held = 0 /\ request = NoRequest
  /\ saves = 0

(***************************************************************************)
(* What the request could have seen since it came in, for the history: of  *)
(* an employee, that it was active, the roles it held then or later, those *)
(* of them that gave the permission then or later; of a device, the tokens *)
(* that let it in while it was active.                                     *)
(***************************************************************************)
Unseen == [wasActive |-> FALSE, hadRoles |-> {}, gaveIt |-> {}, valid |-> {}]

Since(who, seen, perm, u, g, d) ==
  LET was    == seen.wasActive \/ u.active
      had    == seen.hadRoles \cup (IF was THEN u.roles ELSE {})
      Giving == {r \in Roles : \E row \in g[r] : row[1] = perm}
  IN IF who = "device"
     THEN [seen EXCEPT !.valid = @ \cup (IF d.active THEN {d.hash} ELSE {})]
     ELSE [seen EXCEPT !.wasActive = was, !.hadRoles = had, !.gaveIt = @ \cup (had \cap Giving)]

Seen(u, g, d) ==
  request' = IF request.phase = "idle" THEN request
             ELSE [request EXCEPT !.seen = Since(request.who, @, request.perm, u, g, d)]

-----------------------------------------------------------------------------
(***************************************************************************)
(* UsersService.update and DevicesService.update.  The row of the user is  *)
(* written first, so that two saves of one user follow each other.         *)
(***************************************************************************)
Save == saves < MaxSaves /\ saves' = saves + 1

SaveUser(active, roles) ==
  /\ Save
  /\ user' = [active |-> active, roles |-> roles]
  /\ Seen(user', grants, device)
  /\ UNCHANGED <<grants, roleSave, device, rotation, me, held, log>>

SwitchDevice ==
  /\ Save
  /\ device' = [device EXCEPT !.active = ~@]
  /\ Seen(user, grants, device')
  /\ UNCHANGED <<user, grants, roleSave, rotation, me, held, log>>

(***************************************************************************)
(* updateRole: one transaction, deleteMany and createMany.  The delete     *)
(* takes its snapshot, waits for rows that another transaction has         *)
(* deleted, and skips them when that one commits.                          *)
(***************************************************************************)
BeginRoleSave(s, r, perms) ==
  /\ roleSave[s] = NoSave /\ \A t \in 1 .. s - 1 : roleSave[t] # NoSave
  /\ Save
  /\ roleSave' = [roleSave EXCEPT ![s] =
       [phase |-> "deleting", role |-> r, perms |-> perms, rows |-> grants[r],
        after |-> Len(log[r]), n |-> saves + 2]]
  /\ UNCHANGED <<user, grants, device, rotation, me, held, request, log>>

(* What the other transaction has deleted and not committed.               *)
HeldByOther(s) ==
  UNION {roleSave[t].rows : t \in {t \in Savers \ {s} : roleSave[t].phase = "deleted"}}

Deleted_None(s) == {}       \* faulty: the old permissions are not deleted

Deleted(s) == roleSave[s].rows \cap grants[roleSave[s].role]

DeleteGrants(s) ==
  /\ roleSave[s].phase = "deleting"
  /\ roleSave[s].rows \cap HeldByOther(s) = {}
  /\ roleSave' = [roleSave EXCEPT ![s].phase = "deleted", ![s].rows = Deleted(s)]
  /\ UNCHANGED <<user, grants, device, rotation, me, held, request, saves, log>>

(* A permission is in a role once: the insert waits for a row that is      *)
(* being deleted and fails on one that is there, and with it everything.   *)
InsertGrants(s) ==
  LET save == roleSave[s]
      r    == save.role
      rest == grants[r] \ save.rows
  IN
  /\ save.phase = "deleted"
  /\ \A row \in HeldByOther(s) \cap rest : row[1] \notin save.perms
  /\ roleSave' = [roleSave EXCEPT ![s] = NoSave]
  /\ IF \E row \in rest : row[1] \in save.perms
     THEN UNCHANGED <<grants, log, request>>
     ELSE /\ grants' = [grants EXCEPT ![r] = rest \cup save.perms \X {save.n}]
          /\ log' = [log EXCEPT ![r] = Append(@, [perms |-> save.perms, after |-> save.after])]
          /\ Seen(user, grants', device)
  /\ UNCHANGED <<user, device, rotation, me, held, saves>>

(***************************************************************************)
(* issueDeviceToken, for a new device and for rotateToken: the token is    *)
(* made, its hash stored, the answer shown, the device given the token.    *)
(***************************************************************************)
MakeToken(s) ==
  /\ rotation[s] = NoRotation /\ \A t \in 1 .. s - 1 : rotation[t] # NoRotation
  /\ Save
  /\ rotation' = [rotation EXCEPT ![s] = [phase |-> "made", token |-> saves + 1]]
  /\ UNCHANGED <<user, grants, roleSave, device, me, held, request, log>>

StoreHash(s) ==
  /\ rotation[s].phase = "made"
  /\ device' = [device EXCEPT !.hash = rotation[s].token]
  /\ rotation' = [rotation EXCEPT ![s].phase = "shown"]
  /\ Seen(user, grants, device')
  /\ UNCHANGED <<user, grants, roleSave, me, held, saves, log>>

(* The link is opened on the device, or the modal is closed.               *)
GiveToken(s) ==
  /\ rotation[s].phase = "shown"
  /\ rotation' = [rotation EXCEPT ![s] = NoRotation]
  /\ held' \in {held, rotation[s].token}
  /\ UNCHANGED <<user, grants, roleSave, device, me, request, saves, log>>

-----------------------------------------------------------------------------
(***************************************************************************)
(* A request.  The employee's page offers what me allows; the server reads *)
(* the user, its roles and their permissions one after the other, on every *)
(* request, and acts later.  A device's row is read at once.               *)
(***************************************************************************)
others == <<user, grants, roleSave, device, rotation, held, saves, log>>

(* login and the profile that the page reads.                              *)
LoadProfileOf ==
  /\ user.active
  /\ me' = UNION {PermsOf(r) : r \in user.roles}
  /\ UNCHANGED <<others, request>>

Receive(who, perm) ==
  /\ request = NoRequest
  /\ who = "user" => perm \in me
  /\ who = "device" => held # 0
  /\ request' = [phase |-> "sent", who |-> who, perm |-> perm, roles |-> {},
                 token |-> IF who = "device" THEN held ELSE 0,
                 seen |-> Since(who, Unseen, perm, user, grants, device)]
  /\ UNCHANGED <<others, me>>

Proceed(ok, phase) == request' = IF ok THEN [request EXCEPT !.phase = phase] ELSE NoRequest

VerifyDevice == device.active /\ device.hash = request.token

Verify ==
  /\ request.phase = "sent"
  /\ IF request.who = "device" THEN Proceed(VerifyDevice, "allowed")
                               ELSE Proceed(user.active, "active")
  /\ UNCHANGED <<others, me>>

ReadRoles ==
  /\ request.phase = "active"
  /\ request' = [request EXCEPT !.phase = "roles", !.roles = user.roles]
  /\ UNCHANGED <<others, me>>

Permitted_ByPage == request.perm \in me    \* faulty: as of the login, like the token's claims

Permitted == \E r \in request.roles : request.perm \in PermsOf(r)

CheckPermission ==
  /\ request.phase = "roles"
  /\ Proceed(Permitted, "allowed")
  /\ UNCHANGED <<others, me>>

Act ==
  /\ request.phase = "allowed"
  /\ request' = NoRequest
  /\ UNCHANGED <<others, me>>

-----------------------------------------------------------------------------
AccessNext ==
  \/ \E active \in BOOLEAN, roles \in SUBSET Roles : SaveUser(active, roles)
  \/ SwitchDevice
  \/ \E s \in Savers :
       \/ \E r \in Roles, perms \in SUBSET Perms : BeginRoleSave(s, r, perms)
       \/ DeleteGrants(s) \/ InsertGrants(s)
       \/ MakeToken(s) \/ StoreHash(s) \/ GiveToken(s)
  \/ LoadProfileOf
  \/ \E who \in {"user", "device"}, perm \in Perms : Receive(who, perm)
  \/ Verify \/ ReadRoles \/ CheckPermission \/ Act

-----------------------------------------------------------------------------
AccessTypeOK ==
  /\ user.active \in BOOLEAN /\ user.roles \subseteq Roles
  /\ \A r \in Roles : PermsOf(r) \subseteq Perms
  /\ \A s \in Savers : /\ roleSave[s].phase \in {"idle", "deleting", "deleted"}
                       /\ rotation[s].phase \in {"idle", "made", "shown"}
  /\ device.hash \in 0 .. saves /\ held \in 0 .. saves /\ saves \in 0 .. MaxSaves
  /\ me \subseteq Perms
  /\ request.phase \in {"idle", "sent", "active", "roles", "allowed"}

(***************************************************************************)
(* Whatever a request does was allowed after it came in.  A device was     *)
(* active with its token the current one, both at one moment.  An employee *)
(* was active; then or later had a role; and then or later that role gave  *)
(* the permission.  The three moments may differ, as the three SELECTs do: *)
(* a role that is taken away and then given the permission may let through *)
(* an employee who never had it.  But nothing that was over before the     *)
(* request came in counts, nor what the page has loaded.                   *)
(***************************************************************************)
EffectsWereAllowed ==
  request.phase = "allowed" =>
    IF request.who = "device" THEN request.token \in request.seen.valid
                              ELSE request.seen.gaveIt # {}

(***************************************************************************)
(* Saves of a role take effect, one permission at a time and however they  *)
(* overlap: a permission is there only if some save asked for it and none  *)
(* that began after that save had ended left it out; and it is there if a  *)
(* save asked for it and so did all that were committed since it began.    *)
(* (Two saves that overlap may leave the union of both.)                   *)
(***************************************************************************)
Stands(r, i, p) ==
  p \in log[r][i].perms /\ \A j \in DOMAIN log[r] : log[r][j].after >= i => p \in log[r][j].perms

Undisputed(r, i, p) ==
  \A j \in DOMAIN log[r] : (j = i \/ j > log[r][i].after) => p \in log[r][j].perms

RoleSavesTakeEffect == \A r \in Roles, p \in Perms :
  /\ p \in PermsOf(r) => \E i \in DOMAIN log[r] : Stands(r, i, p)
  /\ (\E i \in DOMAIN log[r] : Undisputed(r, i, p)) => p \in PermsOf(r)
=============================================================================
