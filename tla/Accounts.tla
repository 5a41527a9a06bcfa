------------------------------ MODULE Accounts ------------------------------
(***************************************************************************)
(* The users of the system: the operations of the user service             *)
(* (services/user), the login and the check of every request that bears a  *)
(* token (services/auth, services/dependencies.py), and the seed of the    *)
(* test accounts (services/seed/test_accounts.py).                         *)
(*                                                                         *)
(* Nothing is deleted; an id is a position in the table.  Names are left   *)
(* out, a password is known by its hash, and a token is the id it is for:  *)
(* it carries no role.  A signature that does not verify is a token of     *)
(* nobody.                                                                 *)
(***************************************************************************)
EXTENDS Integers, Sequences, FiniteSets

CONSTANTS
  Requests,      \* the requests that log in or bear a token
  Seeds,         \* the runs of the seed script
  Emails, Usernames,
  Folded,        \* the lower case of a username
  Passwords,
  Roles,
  Policies,      \* the sets of roles that endpoints require
  SeedEmail, SeedUsername, SeedRole, SeedPassword,
  NoPassword,
  MaxUsers       \* bound on the users

ASSUME AccountsAssumption ==
  /\ SeedEmail \in Emails /\ SeedUsername \in Usernames /\ SeedRole \in Roles
  /\ SeedPassword \in Passwords /\ NoPassword \notin Passwords
  /\ Policies \subseteq SUBSET Roles /\ {} \notin Policies

VARIABLES
  users,     \* the rows of "users"
  request,   \* what each request is doing
  seed       \* what each run of the seed is doing

accountVars == <<users, request, seed>>

User == [email : Emails, username : Usernames, role : Roles, active : BOOLEAN,
         password : Passwords \cup {NoPassword}]

UserIds == 0 .. MaxUsers

Request == [at : {"out", "byUsername", "in", "check", "served", "unauthenticated", "denied"},
            username : Usernames, password : Passwords,   \* what the login was asked with
            user : UserIds, role : Roles,     \* whom the token is for, and their role at the login
            policy : Policies,
            since : SUBSET Roles]         \* the roles they had, when active, since the request came

SeedRun == [at : {"idle", "name", "create", "update", "activate", "done", "conflict"},
            id : UserIds, was : {{}} \cup {{u} : u \in User}]   \* the user it found, as it was

Out == [at |-> "out", username |-> SeedUsername, password |-> SeedPassword, user |-> 0,
        role |-> SeedRole, policy |-> CHOOSE p \in Policies : TRUE, since |-> {}]

SeedUser == [email |-> SeedEmail, username |-> SeedUsername, role |-> SeedRole, active |-> TRUE,
             password |-> SeedPassword]

AccountsInit ==
  /\ users = <<>>
  /\ request = [r \in Requests |-> Out]
  /\ seed = [s \in Seeds |-> [at |-> "idle", id |-> 0, was |-> {}]]

ByEmail(email) == {i \in DOMAIN users : users[i].email = email}

\* find_by_username: the exact one, else the only one but for its case.
ByUsername(username) ==
  LET exact == {i \in DOMAIN users : users[i].username = username}
      alike == {i \in DOMAIN users : Folded[users[i].username] = Folded[username]} IN
  IF exact # {} THEN exact ELSE IF Cardinality(alike) = 1 THEN alike ELSE {}

\* The unique constraints of the table.
Unique(rows) ==
  \A i, j \in DOMAIN rows :
    i # j => rows[i].email # rows[j].email /\ rows[i].username # rows[j].username

\* A write, which the requests under way have to live with.
Store(rows) ==
  /\ users' = rows
  /\ request' = [r \in Requests |->
       LET u == request[r].user IN
       IF request[r].at = "check" /\ u \in DOMAIN users /\ rows[u].active
       THEN [request[r] EXCEPT !.since = @ \cup {rows[u].role}] ELSE request[r]]

-----------------------------------------------------------------------------
(* The user service.                                                       *)

CreateUser ==
  /\ Len(users) < MaxUsers
  /\ \E user \in User : user.active /\ Unique(Append(users, user)) /\ Store(Append(users, user))
  /\ UNCHANGED seed

\* update_user of one attribute; activate_user and deactivate_user.
UpdateUser ==
  /\ \E i \in DOMAIN users :
       \E row \in {[users[i] EXCEPT !.active = a] : a \in BOOLEAN}
              \cup {[users[i] EXCEPT !.role = x] : x \in Roles}
              \cup {[users[i] EXCEPT !.username = x] : x \in Usernames}
              \cup {[users[i] EXCEPT !.password = x] : x \in Passwords \cup {NoPassword}} :
         /\ Unique([users EXCEPT ![i] = row])
         /\ Store([users EXCEPT ![i] = row])
  /\ UNCHANGED seed

-----------------------------------------------------------------------------
(* Login, and the requests after it.                                       *)

\* authenticate: the user that was found, their password and their status.
Accepted(r, found) ==
  \E i \in found :
    /\ users[i].active /\ users[i].password = request[r].password
    /\ request' = [request EXCEPT ![r].at = "in", ![r].user = i, ![r].role = users[i].role]

Rejected(r, found) ==
  /\ \A i \in found : ~users[i].active \/ users[i].password # request[r].password
  /\ request' = [request EXCEPT ![r] = Out]

LoginByEmail(r) ==
  /\ request[r].at = "out"
  /\ \E email \in Emails, password \in Passwords :
       \E i \in ByEmail(email) :
         IF users[i].active /\ users[i].password = password
         THEN request' = [request EXCEPT ![r] = [Out EXCEPT !.at = "in", !.user = i,
                                                            !.role = users[i].role]]
         ELSE request' = [request EXCEPT ![r] = Out]
  /\ UNCHANGED <<users, seed>>

\* An identifier that is nobody's email is tried as a username, with a
\* query of its own.
LoginByUsername(r) ==
  /\ \/ /\ request[r].at = "out"
        /\ \E username \in Usernames, password \in Passwords :
             request' = [request EXCEPT ![r] = [Out EXCEPT !.at = "byUsername",
                                                !.username = username, !.password = password]]
     \/ /\ request[r].at = "byUsername"
        /\ LET found == ByUsername(request[r].username) IN Accepted(r, found) \/ Rejected(r, found)
  /\ UNCHANGED <<users, seed>>

\* A request to an endpoint, with the token of the login.
Ask(r) ==
  /\ request[r].at \in {"in", "served", "unauthenticated", "denied"}
  /\ \E policy \in Policies :
       request' = [request EXCEPT ![r].at = "check", ![r].policy = policy,
         ![r].since = IF users[request[r].user].active THEN {users[request[r].user].role} ELSE {}]
  /\ UNCHANGED <<users, seed>>

\* Mutated: the role of the login is the role of the request.
CheckByLogin(r) ==
  /\ request[r].at = "check"
  /\ request' = [request EXCEPT ![r].at =
       IF request[r].role \in request[r].policy THEN "served" ELSE "denied"]
  /\ UNCHANGED <<users, seed>>

\* get_current_user and require_roles: the status and the role are those of
\* the row, read once.
Check(r) ==
  /\ request[r].at = "check"
  /\ LET user == users[request[r].user] IN
     request' = [request EXCEPT ![r].at =
       CASE ~user.active -> "unauthenticated"
         [] user.active /\ user.role \in request[r].policy -> "served"
         [] OTHER -> "denied"]
  /\ UNCHANGED <<users, seed>>

\* The token expires, or the client forgets it.
Expire(r) ==
  /\ request[r].at \in {"in", "check", "served", "unauthenticated", "denied"}
  /\ request' = [request EXCEPT ![r] = Out]
  /\ UNCHANGED <<users, seed>>

-----------------------------------------------------------------------------
(* The seed of a test account.                                             *)

SeedGoes(s, place, id, was) == seed' = [seed EXCEPT ![s] = [at |-> place, id |-> id, was |-> was]]

SeedFindsEmail(s) ==
  /\ seed[s].at \in {"idle", "done", "conflict"}
  /\ LET found == ByEmail(SeedEmail) IN
     IF found = {} THEN SeedGoes(s, "name", 0, {})
     ELSE \E i \in found :
            SeedGoes(s, IF users[i].username = SeedUsername THEN "update" ELSE "name", i, {users[i]})
  /\ UNCHANGED <<users, request>>

\* Mutated: the username decides whom the seed updates.
SeedTakesUsername(s) ==
  /\ seed[s].at = "name"
  /\ LET taken == ByUsername(SeedUsername) IN
     IF taken = {} THEN SeedGoes(s, IF seed[s].id = 0 THEN "create" ELSE "update", seed[s].id, seed[s].was)
     ELSE \E i \in taken : SeedGoes(s, "update", i, {users[i]})
  /\ UNCHANGED <<users, request>>

\* _ensure_username_is_available.
SeedChecksUsername(s) ==
  /\ seed[s].at = "name"
  /\ SeedGoes(s, IF ByUsername(SeedUsername) \ {seed[s].id} # {} THEN "conflict"
                 ELSE IF seed[s].id = 0 THEN "create" ELSE "update", seed[s].id, seed[s].was)
  /\ UNCHANGED <<users, request>>

SeedCreates(s) ==
  /\ seed[s].at = "create" /\ Len(users) < MaxUsers
  /\ IF Unique(Append(users, SeedUser))
     THEN Store(Append(users, SeedUser)) /\ SeedGoes(s, "done", 0, {})
     ELSE SeedGoes(s, "conflict", 0, {}) /\ UNCHANGED <<users, request>>

\* The attributes in which the user, as it was found, differs from the account,
\* in the row as it is now.
Seeded(row, was) ==
  [row EXCEPT !.username = IF was.username = SeedUsername THEN @ ELSE SeedUsername,
              !.role = IF was.role = SeedRole THEN @ ELSE SeedRole,
              !.password = IF was.password = SeedPassword THEN @ ELSE SeedPassword]

\* A user that needs no change is not read again.
SeedUpdates(s) ==
  /\ seed[s].at = "update"
  /\ \E was \in seed[s].was :
       LET i == seed[s].id
           rows == [users EXCEPT ![i] = Seeded(@, was)] IN
       IF Seeded(was, was) = was
       THEN SeedGoes(s, IF was.active THEN "done" ELSE "activate", i, {}) /\ UNCHANGED <<users, request>>
       ELSE IF Unique(rows)
       THEN Store(rows) /\ SeedGoes(s, IF rows[i].active THEN "done" ELSE "activate", i, {})
       ELSE SeedGoes(s, "conflict", 0, {}) /\ UNCHANGED <<users, request>>

SeedActivates(s) ==
  /\ seed[s].at = "activate"
  /\ Store([users EXCEPT ![seed[s].id].active = TRUE])
  /\ SeedGoes(s, "done", 0, {})

-----------------------------------------------------------------------------
SeedStep(s) ==
  SeedFindsEmail(s) \/ SeedChecksUsername(s) \/ SeedCreates(s) \/ SeedUpdates(s) \/ SeedActivates(s)

AccountsNext ==
  \/ CreateUser \/ UpdateUser
  \/ \E r \in Requests : LoginByEmail(r) \/ LoginByUsername(r) \/ Ask(r) \/ Check(r) \/ Expire(r)
  \/ \E s \in Seeds : SeedStep(s)

AccountsSpec == AccountsInit /\ [][AccountsNext]_accountVars

-----------------------------------------------------------------------------
(* A request is served only to somebody who, at some moment since it came, *)
(* was active and had a role its endpoint requires: a deactivation or a    *)
(* change of role takes effect on tokens issued before it                  *)
(* (AuthService.get_authenticated_user, RolePolicy.enforce).               *)
RolesAreCurrent ==
  \A r \in Requests : request[r].at = "served" => request[r].since \cap request[r].policy # {}

(* The seed changes no user but the one with its account's email, although *)
(* users are created and renamed between its steps                         *)
(* (seed_test_accounts).                                                   *)
SeedSparesOthers ==
  [][seed' # seed =>
       \A i \in DOMAIN users : users[i].email # SeedEmail => users'[i] = users[i]]_accountVars
=============================================================================
